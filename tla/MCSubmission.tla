---------------------------- MODULE MCSubmission ----------------------------
(***************************************************************************)
(* Submission for TLC: for every input a good text and the texts that are  *)
(* refused or changed on the way.                                          *)
(***************************************************************************)
EXTENDS DirectoryGrowth, TLC

MCTexts ==
    {"", " Acme ", "Acme", "!!!", "Long", "acme", "long", "tool", "toy",
     " ch ", "ch", "CH", "c1", "C1", "Web, web,,app", "web", "app", "Web",
     "http://a", " http://a", "ftp:a", "b.onion", "b.oni", "c.i2p"}

MCTrim ==
    [t \in MCTexts |-> CASE t = " Acme " -> "Acme" [] t = " ch " -> "ch"
          [] t = " http://a" -> "http://a" [] OTHER -> t]

MCRunes == [t \in MCTexts |-> IF t = "" THEN 0 ELSE IF t = "Long" THEN 9 ELSE 5]

MCUpper == [t \in MCTexts |-> CASE t = "ch" -> "CH" [] t = "c1" -> "C1" [] OTHER -> t]

MCLower ==
    [t \in MCTexts |->
        CASE t = "Web" -> "web" [] t = "Acme" -> "acme" [] t = "Long" -> "long"
          [] t \in {" Acme ", "CH", "C1", "Web, web,,app"} -> "acme" [] OTHER -> t]

MCLowerCase == MCTexts \ {" Acme ", "Acme", "Long", "CH", "C1", "Web, web,,app", "Web"}

MCSlugify ==
    [t \in MCTexts |->
        CASE t \in {" Acme ", "Acme", "acme"} -> "acme"
          [] t \in {"Long", "long"} -> "long"
          [] t \in {"tool", "web"} -> t
          [] OTHER -> ""]

MCTypedAccess == (SUBSET AccessTypes) \cup {{"tor", "other"}}

MCSplit ==
    [t \in MCTexts |->
        IF t = "Web, web,,app" THEN <<"Web", "web", "", "app">> ELSE <<MCTrim[t]>>]

Hand(slug, clearnet, onion, access) ==
    [slug |-> slug, name |-> slug, category |-> "tool", status |-> "verified",
     country |-> Null, access |-> access, tags |-> <<>>,
     links |-> [clearnet |-> clearnet, onion |-> onion, i2p |-> Null],
     description |-> "tool"]

MCHandWritten ==
    {Hand("acme", "http://a", Null, <<"clearnet">>),
     Hand("tool", " http://a", "b.onion", <<"tor", "clearnet">>)}
=============================================================================
