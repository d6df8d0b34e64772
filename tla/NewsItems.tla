------------------------------ MODULE NewsItems ------------------------------
(***************************************************************************)
(* Headlines, and the pure functions of internal/news/store.go on lists    *)
(* of them: dedupe, the newest-first sort, the per-source cap of Merge and *)
(* the flattening read of Latest.                                          *)
(*                                                                         *)
(* A link, a title and a publish time are naturals.  Link 0 and title 0    *)
(* stand for the text that is blank once trimmed, time 0 for the zero time *)
(* that parse.go yields for an unreadable date.  Titles are ordered as     *)
(* naturals, standing for Go's string order, and NormalTitle[t] is what    *)
(* normalizeTitle makes of title t: two titles that differ only in case or *)
(* in spacing have the same one.                                           *)
(***************************************************************************)
EXTENDS Naturals, Sequences, FiniteSets, SequencesExt

CONSTANTS
    Sources,        \* the names of the curated feeds (news.go, Sources)
    PerSource,      \* how many items Merge keeps for a source
    PageSize,       \* how many items a page asks Latest for
    Feeds,          \* what a fetch can deliver: sequences of RawItem
    NormalTitle     \* the function of normalizeTitle

RawItem == [link : Nat, title : Nat, published : Nat]

Item == [link : Nat, title : Nat, published : Nat, source : Sources]

ASSUME LimitsAssumption == PerSource \in Nat \ {0} /\ PageSize \in Nat
ASSUME SourcesAssumption == IsFiniteSet(Sources)
ASSUME FeedsAssumption == Feeds \subseteq Seq(RawItem)

NoItems == <<>>

-----------------------------------------------------------------------------
(* parse.go stamps every entry of a feed with the source's name.           *)
Stamp(feed, src) ==
    [i \in DOMAIN feed |->
        [link |-> feed[i].link, title |-> feed[i].title,
         published |-> feed[i].published, source |-> src]]

(* The comparison of sortByPublishedDesc: newest first, then title, link.  *)
Before(a, b) ==
    \/ a.published > b.published
    \/ a.published = b.published /\ a.title < b.title
    \/ a.published = b.published /\ a.title = b.title /\ a.link < b.link

(* sort.SliceStable with that comparison: an item stands after those that  *)
(* come before it and after the earlier ones it ties with.                 *)
SortByPublishedDesc(items) ==
    LET place(i) ==
            1 + Cardinality({j \in DOMAIN items :
                    \/ Before(items[j], items[i])
                    \/ j < i /\ ~Before(items[i], items[j])})
    IN  [k \in DOMAIN items |->
            items[CHOOSE i \in DOMAIN items : place(i) = k]]

(* The two keys of dedupe.  A blank link or title never matches.           *)
SameLink(a, b) == a.link = b.link /\ a.link # 0

SameTitle(a, b) ==
    NormalTitle[a.title] = NormalTitle[b.title] /\ NormalTitle[a.title] # 0

Duplicates(a, b) == SameLink(a, b) \/ SameTitle(a, b)

(* dedupe: an item is kept when no item kept so far has its link or its    *)
(* normalised title.  out[n] is out after n turns of the loop; seenLink and*)
(* seenTitle hold just the keys of the items in it.                        *)
Dedupe(items) ==
    LET out[n \in 0 .. Len(items)] ==
            IF n = 0 THEN NoItems
            ELSE LET before == out[n - 1]
                 IN  IF \E k \in DOMAIN before : Duplicates(before[k], items[n])
                     THEN before
                     ELSE Append(before, items[n])
    IN  out[Len(items)]

Cut(items, n) == SubSeq(items, 1, IF Len(items) > n THEN n ELSE Len(items))

(* Mutant of Clean: cut before sorting.                                    *)
CleanCutFirst(items) == SortByPublishedDesc(Cut(Dedupe(items), PerSource))

(* What Merge stores for a fetched set.                                    *)
Clean(items) == Cut(SortByPublishedDesc(Dedupe(items)), PerSource)

(* Every list that Merge can store for a source.                           *)
Digests(src) == {Clean(Stamp(f, src)) : f \in Feeds}

(* Every list the store can hold for a source.                             *)
Batches(src) == {NoItems} \cup Digests(src)

-----------------------------------------------------------------------------
(* A board gives every source its list.  Go ranges over the map in a       *)
(* random order, which decides ties of the stable sort.                    *)
Boards == {b \in [Sources -> UNION {Batches(s) : s \in Sources}] :
               \A s \in Sources : b[s] \in Batches(s)}

EmptyBoard == [s \in Sources |-> NoItems]

Orders == SetToSeqs(Sources)

Flatten(order, board) == FlattenSeq([k \in DOMAIN order |-> board[order[k]]])

(* Mutant of Page: the flattened copies are deduplicated before sorting.   *)
PageDedupeFirst(order, board) ==
    Cut(SortByPublishedDesc(Dedupe(Flatten(order, board))), PageSize)

(* Mutant of Page: the limit is applied before the copies are removed.     *)
PageCutFirst(order, board) ==
    Dedupe(Cut(SortByPublishedDesc(Flatten(order, board)), PageSize))

(* All on the copied lists, cut to PageSize as Latest does.                *)
Page(order, board) ==
    Cut(Dedupe(SortByPublishedDesc(Flatten(order, board))), PageSize)

Pages(board) == {Page(order, board) : order \in Orders}

-----------------------------------------------------------------------------
(* Declarative predicates that the properties of the store are built from. *)
Elements(items) == {items[i] : i \in DOMAIN items}

NewestFirst(items) ==
    \A i, j \in DOMAIN items : i < j => ~Before(items[j], items[i])

NoDuplicates(items) ==
    \A i, j \in DOMAIN items : i # j => ~Duplicates(items[i], items[j])

Stored(board) == UNION {Elements(board[s]) : s \in Sources}

(* A list of length at most n that was cut from a longer one leaves out    *)
(* only items that every kept one is at least as new as.                   *)
OmitsOnlyOlder(items, it, n) ==
    Len(items) = n /\ \A i \in DOMAIN items : items[i].published >= it.published

(* A copy of it that is at least as new stands in items.                   *)
ShownByNewerCopy(items, it) ==
    \E i \in DOMAIN items :
        /\ items[i] = it \/ Duplicates(items[i], it)
        /\ items[i].published >= it.published
=============================================================================
