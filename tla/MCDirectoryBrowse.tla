-------------------------- MODULE MCDirectoryBrowse --------------------------
(***************************************************************************)
(* DirectoryBrowse for TLC: three wallets; the statuses admitted and       *)
(* questionable and the access i2p occur in none of them.  Of the texts    *)
(* one has more than MaxTerms terms, one is cut after MaxQueryLen          *)
(* characters at a blank and one in the middle of a term.                  *)
(***************************************************************************)
EXTENDS DirectoryBrowse, TLC

R(slug, category, status, kyc, access, terms) ==
    [slug |-> slug, category |-> category, status |-> status, kyc |-> kyc,
     access |-> access, terms |-> terms]

MCResources ==
    <<R("a", "wallet", "verified", FALSE, <<"clearnet", "tor">>, {<<"a", "b">>, <<"c">>}),
      R("b", "wallet", "scam", TRUE, <<"clearnet">>, {<<"a", "b">>}),
      R("c", "wallet", "scam", FALSE, <<"tor">>, {<<"c">>})>>

MCContains(r, term) == term \in r.terms

MCTexts ==
    {<<>>,
     <<"c", " ", "c", " ", "c">>,
     <<" ", "c", " ", "a", "b", " ", "x">>,
     <<"c", " ", "a", "b", " ">>,
     <<"c", " ", "a", "b">>,
     <<"c", " ", "a", "b", "b", "b">>,
     <<"c", " ", "a", "b", "b">>}

(* A category that no entry has, as in a link made for another dataset.    *)
MCStrays == {<<"category", "vpn">>}
=============================================================================
