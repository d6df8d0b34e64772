----------------------------- MODULE MCNewsStore -----------------------------
(***************************************************************************)
(* Instances of NewsStore for TLC.  Titles 1 and 2 differ only in case or  *)
(* spacing; title 0, link 0 and time 0 are blank.                          *)
(***************************************************************************)
EXTENDS NewsStore, TLC

MCNormalTitle == (0 :> 0) @@ (1 :> 1) @@ (2 :> 1) @@ (3 :> 3)

It(link, title, published) == [link |-> link, title |-> title, published |-> published]

(* One headline twice, the older copy first, under two links.              *)
TitleTwice == <<It(1, 1, 1), It(2, 2, 2)>>

(* One link twice, the older copy first, then an undated item.             *)
LinkTwice == <<It(1, 3, 1), It(1, 0, 2), It(2, 0, 0)>>

(* More items than are kept, not in order, one without a link.             *)
TooMany == <<It(1, 1, 2), It(3, 0, 0), It(0, 3, 1)>>

(* A link twice and a headline twice, then an undated item without a title.*)
BothTwice == <<It(1, 1, 1), It(1, 3, 2), It(2, 2, 2), It(4, 0, 0)>>

MCFeeds == {TitleTwice, LinkTwice, TooMany}

(* Together they hold three headlines, one of them in both.                *)
MCFeedsSmall == {BothTwice, TooMany}

MCFeedsTie == {<<It(1, 3, 1)>>}

Symmetry == Permutations(Sources) \cup Permutations(Writers) \cup Permutations(Readers)
=============================================================================
