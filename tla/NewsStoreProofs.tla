-------------------------- MODULE NewsStoreProofs --------------------------
(***************************************************************************)
(* Theorems about the news store, for any number of goroutines, sources    *)
(* and feeds.  The first half is about what Merge and All compute: loops,  *)
(* dedupe, the sort, and the lists and pages that are made with them.  The *)
(* second half is about the locking around them.                           *)
(*                                                                         *)
(* What a loop computes is proved by induction over its turns, and that by *)
(* the least number for which it would fail; Induction and Recursion state *)
(* both for sets in the place of predicates.                               *)
(***************************************************************************)
EXTENDS NewsStore, FiniteSetTheorems, TLAPS

(* A set of naturals that is not empty has a least member.                 *)
LEMMA LeastNat ==
  ASSUME NEW T \in SUBSET Nat, T # {}
  PROVE  \E n \in T : \A m \in T : n <= m
<1> DEFINE R == {ss \in Nat \X Nat : ss[1] < ss[2]}
<1>1. IsWellFoundedOn(R, Nat)
  BY NatLessThanWellFounded DEF OpToRel
<1>2. \A x, y \in Nat : x < y => <<x, y>> \in R
  OBVIOUS
<1> HIDE DEF R
<1>3. PICK x \in T : \A y \in T : <<y, x>> \notin R
  BY <1>1, WFMin
<1>4. \A y \in T : y \in Nat /\ ~(y < x)
  BY <1>2, <1>3
<1> QED BY <1>3, <1>4

(* Induction, for a set in the place of a predicate.                       *)
LEMMA Induction ==
  ASSUME NEW T, 0 \in T, \A n \in Nat : n \in T => n + 1 \in T
  PROVE  \A n \in Nat : n \in T
<1> SUFFICES ASSUME Nat \ T # {} PROVE FALSE
  OBVIOUS
<1>1. PICK n \in Nat \ T : \A m \in Nat \ T : n <= m
  BY LeastNat
<1>2. n - 1 \in Nat /\ n - 1 < n /\ (n - 1) + 1 = n
  BY <1>1
<1>3. n - 1 \in T
  BY <1>1, <1>2
<1> QED BY <1>1, <1>2, <1>3

(* f has the values of an accumulator in V over the turns 1 .. N of a loop.*)
Runs(f, N, V, first, turn) ==
    /\ f \in [0 .. N -> V]
    /\ f[0] = first
    /\ \A k \in 1 .. N : f[k] = turn[k][f[k - 1]]

(* Every loop whose turns stay in V computes something.                    *)
LEMMA Recursion ==
  ASSUME NEW N \in Nat, NEW V, NEW first \in V, NEW turn \in [1 .. N -> [V -> V]]
  PROVE  \E f : Runs(f, N, V, first, turn)
<1> DEFINE T == {n \in Nat : n <= N =>
              \E f \in [0 .. n -> V] : f[0] = first /\ \A k \in 1 .. n : f[k] = turn[k][f[k - 1]]}
<1>1. 0 \in T
  <2>1. [k \in 0 .. 0 |-> first] \in [0 .. 0 -> V]
    OBVIOUS
  <2>2. [k \in 0 .. 0 |-> first][0] = first /\ 1 .. 0 = {}
    OBVIOUS
  <2> QED BY <2>1, <2>2
<1>2. ASSUME NEW n \in Nat, n \in T PROVE n + 1 \in T
  <2> SUFFICES ASSUME n + 1 <= N
               PROVE  \E f \in [0 .. n + 1 -> V] :
                        f[0] = first /\ \A k \in 1 .. n + 1 : f[k] = turn[k][f[k - 1]]
    OBVIOUS
  <2>1. PICK f \in [0 .. n -> V] : f[0] = first /\ \A k \in 1 .. n : f[k] = turn[k][f[k - 1]]
    BY <1>2
  <2> DEFINE g == [k \in 0 .. n + 1 |-> IF k <= n THEN f[k] ELSE turn[n + 1][f[n]]]
  <2>2. turn[n + 1][f[n]] \in V
    <3>1. n + 1 \in 1 .. N /\ n \in 0 .. n
      OBVIOUS
    <3> QED BY <2>1, <3>1
  <2>3. g \in [0 .. n + 1 -> V]
    BY <2>1, <2>2
  <2>4. g[0] = first
    BY <2>1
  <2>5. ASSUME NEW k \in 1 .. n + 1 PROVE g[k] = turn[k][g[k - 1]]
    <3>1. k - 1 \in 0 .. n /\ g[k - 1] = f[k - 1]
      OBVIOUS
    <3>2. CASE k <= n
      BY <2>1, <3>1, <3>2
    <3>3. CASE k = n + 1
      BY <3>1, <3>3
    <3> QED BY <3>2, <3>3
  <2> HIDE DEF g
  <2> QED BY <2>3, <2>4, <2>5
<1> HIDE DEF T
<1>3. N \in T
  BY <1>1, <1>2, Induction
<1> QED BY <1>3 DEF T, Runs

-----------------------------------------------------------------------------
(* One turn of dedupe's loop.                                              *)
Turn(before, it) ==
    IF \E k \in DOMAIN before : Duplicates(before[k], it) THEN before ELSE Append(before, it)

(* out has the lists that dedupe's loop has built after each turn.         *)
Dedupes(out, items, S) ==
    /\ out \in [0 .. Len(items) -> Seq(S)]
    /\ out[0] = NoItems
    /\ \A n \in 1 .. Len(items) : out[n] = Turn(out[n - 1], items[n])
    /\ Dedupe(items) = out[Len(items)]

(* dedupe is a loop that starts with nothing and takes one turn per item.  *)
LEMMA DedupeLoop ==
  ASSUME NEW S, NEW items \in Seq(S)
  PROVE  \E out : Dedupes(out, items, S)
<1> DEFINE N == Len(items)
           Loop(out) == out = [n \in 0 .. N |->
                                 IF n = 0 THEN NoItems
                                 ELSE LET before == out[n - 1]
                                      IN  IF \E k \in DOMAIN before : Duplicates(before[k], items[n])
                                          THEN before
                                          ELSE Append(before, items[n])]
           turn == [n \in 1 .. N |-> [before \in Seq(S) |-> Turn(before, items[n])]]
<1>1. N \in Nat /\ NoItems \in Seq(S)
  BY DEF NoItems
<1>2. \A n \in 1 .. N, before \in Seq(S) : Turn(before, items[n]) \in Seq(S)
  BY DEF Turn
<1>3. turn \in [1 .. N -> [Seq(S) -> Seq(S)]]
  BY <1>2
<1>4. PICK f \in [0 .. N -> Seq(S)] :
         f[0] = NoItems /\ \A n \in 1 .. N : f[n] = turn[n][f[n - 1]]
  <2> HIDE DEF N, turn
  <2>1. \E f : Runs(f, N, Seq(S), NoItems, turn)
    BY <1>1, <1>3, Recursion
  <2> QED BY <2>1 DEF Runs
<1>5. \A n \in 1 .. N : f[n] = Turn(f[n - 1], items[n])
  <2>1. \A n \in 1 .. N : n - 1 \in 0 .. N
    BY <1>1
  <2> QED BY <1>4, <2>1
<1>6. \A out : Loop(out) <=> out = [n \in 0 .. N |-> IF n = 0 THEN NoItems ELSE Turn(out[n - 1], items[n])]
  BY Zenon DEF Turn
<1>7. Loop(f)
  <2>1. f = [n \in 0 .. N |-> IF n = 0 THEN NoItems ELSE Turn(f[n - 1], items[n])]
    BY <1>4, <1>5, <1>1
  <2> QED BY <1>6, <2>1, Zenon
<1> DEFINE out == CHOOSE out : Loop(out)
<1>8. Dedupe(items) = out[N]
  BY Zenon DEF Dedupe
<1>9. Loop(out)
  BY <1>7, Zenon
<1> HIDE DEF out, Loop
<1>10. out = [n \in 0 .. N |-> IF n = 0 THEN NoItems ELSE Turn(out[n - 1], items[n])]
  BY <1>6, <1>9, Zenon
<1> HIDE DEF N, turn
<1>11. out[0] = NoItems /\ \A n \in 1 .. N : out[n] = Turn(out[n - 1], items[n])
  <2>1. 0 \in 0 .. N
    BY <1>1
  <2>2. out[0] = NoItems
    BY <1>10, <2>1, Zenon
  <2>3. ASSUME NEW n \in 1 .. N PROVE out[n] = Turn(out[n - 1], items[n])
    <3>1. n \in 0 .. N /\ n # 0
      BY <1>1
    <3> QED BY <1>10, <3>1, Zenon
  <2> QED BY <2>2, <2>3
<1>12. out = f
  <2> DEFINE T == {n \in Nat : n <= N => out[n] = f[n]}
  <2>1. 0 \in T
    BY <1>4, <1>11
  <2>2. ASSUME NEW n \in Nat, n \in T PROVE n + 1 \in T
    <3> SUFFICES ASSUME n + 1 <= N PROVE out[n + 1] = f[n + 1]
      OBVIOUS
    <3>1. n + 1 \in 1 .. N /\ (n + 1) - 1 = n /\ n <= N
      BY <1>1
    <3> QED BY <1>5, <1>11, <2>2, <3>1
  <2> HIDE DEF T
  <2>3. \A n \in Nat : n \in T
    BY <2>1, <2>2, Induction
  <2>4. \A n \in 0 .. N : out[n] = f[n]
    BY <2>3, <1>1 DEF T
  <2>5. DOMAIN out = 0 .. N
    BY <1>10, Zenon
  <2> QED BY <2>4, <2>5, <1>10
<1> QED BY <1>4, <1>8, <1>11, <1>12 DEF N, Dedupes

(* What is in out after n turns of the loop over items.                    *)
DedupedUpTo(n, out, items) ==
    /\ \A i \in DOMAIN out : \E j \in 1 .. n : out[i] = items[j]
    /\ NoDuplicates(out)
    /\ \A j \in 1 .. n :
          \/ \E i \in DOMAIN out : out[i] = items[j]
          \/ \E i \in DOMAIN out : \E m \in 1 .. (j - 1) :
                out[i] = items[m] /\ Duplicates(items[m], items[j])
    /\ NewestFirst(items) => NewestFirst(out)

(* One turn of the loop keeps that.                                        *)
LEMMA TurnSound ==
  ASSUME NEW S, NEW items \in Seq(S), NEW n \in Nat, n + 1 \in 1 .. Len(items),
         NEW out \in Seq(S), DedupedUpTo(n, out, items)
  PROVE  DedupedUpTo(n + 1, Turn(out, items[n + 1]), items)
<1> DEFINE it == items[n + 1]
           next == Turn(out, it)
<1> USE DEF DedupedUpTo
<1>1. CASE \E k \in DOMAIN out : Duplicates(out[k], it)
  <2>1. next = out
    BY <1>1 DEF Turn
  <2>2. PICK k \in DOMAIN out : Duplicates(out[k], it)
    BY <1>1
  <2>3. PICK m \in 1 .. n : out[k] = items[m]
    BY <2>2
  <2>4. m \in 1 .. ((n + 1) - 1) /\ Duplicates(items[m], items[n + 1])
    BY <2>2, <2>3
  <2>5. \A j \in 1 .. n + 1 : j \in 1 .. n \/ j = n + 1
    OBVIOUS
  <2>6. \A j \in 1 .. n : j \in 1 .. n + 1
    OBVIOUS
  <2> HIDE DEF next, it
  <2> QED BY <2>1, <2>2, <2>3, <2>4, <2>5, <2>6 DEF it, next
<1>2. CASE ~\E k \in DOMAIN out : Duplicates(out[k], it)
  <2>1. /\ next = Append(out, it) /\ DOMAIN next = 1 .. Len(out) + 1
        /\ Len(out) \in Nat /\ DOMAIN out = 1 .. Len(out)
        /\ next[Len(out) + 1] = it
        /\ \A i \in 1 .. Len(out) : next[i] = out[i]
    <3>1. next = Append(out, it)
      BY <1>2 DEF Turn
    <3>2. it \in S
      OBVIOUS
    <3> HIDE DEF it, next
    <3> QED BY <3>1, <3>2
  <2> HIDE DEF it, next
  <2>2. \A i \in DOMAIN next : \E j \in 1 .. n + 1 : next[i] = items[j]
    BY <2>1 DEF it
  <2>3. NoDuplicates(next)
    <3>1. \A a, b : Duplicates(a, b) => Duplicates(b, a)
      BY DEF Duplicates, SameLink, SameTitle
    <3>2. \A i, j \in 1 .. Len(out) : i # j => ~Duplicates(out[i], out[j])
      BY <2>1 DEF NoDuplicates
    <3>3. \A i \in 1 .. Len(out) : ~Duplicates(out[i], it) /\ ~Duplicates(it, out[i])
      BY <1>2, <2>1, <3>1
    <3>4. \A i \in DOMAIN next : i \in 1 .. Len(out) \/ i = Len(out) + 1
      BY <2>1
    <3> QED BY <2>1, <3>2, <3>3, <3>4 DEF NoDuplicates
  <2>4. \A j \in 1 .. n + 1 :
          \/ \E i \in DOMAIN next : next[i] = items[j]
          \/ \E i \in DOMAIN next : \E m \in 1 .. (j - 1) :
                next[i] = items[m] /\ Duplicates(items[m], items[j])
    <3>1. \A i \in DOMAIN out : i \in DOMAIN next /\ next[i] = out[i]
      BY <2>1
    <3>2. Len(out) + 1 \in DOMAIN next /\ next[Len(out) + 1] = items[n + 1]
      BY <2>1 DEF it
    <3>3. \A j \in 1 .. n + 1 : j \in 1 .. n \/ j = n + 1
      OBVIOUS
    <3> QED BY <3>1, <3>2, <3>3
  <2>5. ASSUME NewestFirst(items) PROVE NewestFirst(next)
    <3>1. \A i, j \in 1 .. Len(out) : i < j => ~Before(out[j], out[i])
      BY <2>1, <2>5 DEF NewestFirst
    <3>2. ASSUME NEW i \in 1 .. Len(out) PROVE ~Before(it, out[i])
      <4>1. PICK j \in 1 .. n : out[i] = items[j]
        BY <2>1
      <4>2. j \in DOMAIN items /\ n + 1 \in DOMAIN items /\ j < n + 1
        OBVIOUS
      <4> QED BY <2>5, <4>1, <4>2 DEF NewestFirst, it
    <3> QED BY <2>1, <3>1, <3>2 DEF NewestFirst
  <2> QED BY <2>2, <2>3, <2>4, <2>5 DEF next, it
<1> QED BY <1>1, <1>2

(* dedupe keeps items only, no two of which are duplicates, and drops an   *)
(* item only for one before it; in a sorted list it keeps the order.       *)
LEMMA DedupeSound ==
  ASSUME NEW S, NEW items \in Seq(S)
  PROVE  Dedupe(items) \in Seq(S) /\ DedupedUpTo(Len(items), Dedupe(items), items)
<1>1. PICK out : Dedupes(out, items, S)
  BY DedupeLoop
<1> DEFINE T == {n \in Nat : n <= Len(items) => DedupedUpTo(n, out[n], items)}
<1>2. 0 \in T
  <2>1. out[0] = <<>>
    BY <1>1 DEF Dedupes, NoItems
  <2> QED BY <2>1 DEF DedupedUpTo, NoDuplicates, NewestFirst
<1>3. ASSUME NEW n \in Nat, n \in T PROVE n + 1 \in T
  <2> SUFFICES ASSUME n + 1 <= Len(items) PROVE DedupedUpTo(n + 1, out[n + 1], items)
    OBVIOUS
  <2>1. n + 1 \in 1 .. Len(items) /\ (n + 1) - 1 = n /\ n \in 0 .. Len(items)
    OBVIOUS
  <2>2. out[n] \in Seq(S) /\ out[n + 1] = Turn(out[n], items[n + 1])
    BY <1>1, <2>1 DEF Dedupes
  <2>3. DedupedUpTo(n, out[n], items)
    BY <1>3
  <2> QED BY <2>1, <2>2, <2>3, TurnSound
<1> HIDE DEF T
<1>4. Len(items) \in T
  BY <1>2, <1>3, Induction
<1> QED BY <1>1, <1>4 DEF T, Dedupes

-----------------------------------------------------------------------------
(* The comparison orders items like three numbers, one after the other.    *)
LEMMA BeforeOrder ==
  ASSUME NEW a \in Item, NEW b \in Item, NEW c \in Item
  PROVE  /\ ~(Before(a, b) /\ Before(b, a))
         /\ ~Before(a, b) /\ ~Before(b, c) => ~Before(a, c)
         /\ ~Before(b, a) => a.published >= b.published
  BY DEF Before, Item

(* With the place in the list to decide ties, it is a strict order.        *)
Precedes(items, j, i) ==
    \/ Before(items[j], items[i])
    \/ j < i /\ ~Before(items[i], items[j])

(* No item precedes itself, of two one precedes the other, and an item that*)
(* precedes another does not belong after it.                              *)
LEMMA PrecedesOrder ==
  ASSUME NEW items \in Seq(Item),
         NEW i \in DOMAIN items, NEW j \in DOMAIN items, NEW k \in DOMAIN items
  PROVE  /\ ~Precedes(items, i, i)
         /\ Precedes(items, i, j) => ~Before(items[j], items[i])
         /\ i # j => Precedes(items, i, j) \/ Precedes(items, j, i)
         /\ Precedes(items, i, j) /\ Precedes(items, j, k) => Precedes(items, i, k)
<1>1. /\ items[i] \in Item /\ items[j] \in Item /\ items[k] \in Item
      /\ i \in Nat /\ j \in Nat /\ k \in Nat
  OBVIOUS
<1>2. /\ ~(Before(items[i], items[j]) /\ Before(items[j], items[i]))
      /\ ~(Before(items[j], items[k]) /\ Before(items[k], items[j]))
      /\ ~Before(items[i], items[i])
      /\ ~Before(items[k], items[j]) /\ ~Before(items[j], items[i]) => ~Before(items[k], items[i])
      /\ ~Before(items[i], items[k]) /\ ~Before(items[k], items[j]) => ~Before(items[i], items[j])
      /\ ~Before(items[j], items[i]) /\ ~Before(items[i], items[k]) => ~Before(items[j], items[k])
  BY <1>1, BeforeOrder
<1> QED BY <1>1, <1>2 DEF Precedes

(* The items before item i in the sorted list, and its place.              *)
Preceding(items, i) == {j \in DOMAIN items : Precedes(items, j, i)}

Place(items, i) == 1 + Cardinality(Preceding(items, i))

(* Places are numbers of the list, in the order of preceding.              *)
LEMMA PlaceGrows ==
  ASSUME NEW items \in Seq(Item), NEW i \in DOMAIN items, NEW j \in DOMAIN items
  PROVE  /\ Place(items, i) \in 1 .. Len(items)
         /\ Precedes(items, i, j) => Place(items, i) < Place(items, j)
<1> DEFINE D == DOMAIN items
<1>1. D = 1 .. Len(items) /\ Len(items) \in Nat /\ IsFiniteSet(D) /\ Cardinality(D) = Len(items)
  BY FS_Interval
<1>2. \A k \in D : /\ IsFiniteSet(Preceding(items, k)) /\ Cardinality(Preceding(items, k)) \in Nat
                   /\ k \notin Preceding(items, k)
  BY <1>1, FS_Subset, FS_CardinalityType, PrecedesOrder DEF Preceding
<1>3. \A k \in D : Place(items, k) = Cardinality(Preceding(items, k) \cup {k})
  <2> SUFFICES ASSUME NEW k \in D PROVE Place(items, k) = Cardinality(Preceding(items, k) \cup {k})
    OBVIOUS
  <2> DEFINE P == Preceding(items, k)
  <2>1. IsFiniteSet(P) /\ Cardinality(P) \in Nat /\ k \notin P
    BY <1>2
  <2> HIDE DEF P
  <2>2. Cardinality(P \cup {k}) = Cardinality(P) + 1
    BY <2>1, FS_AddElement
  <2> QED BY <2>1, <2>2 DEF P, Place
<1>4. Cardinality(Preceding(items, i) \cup {i}) <= Len(items)
  <2>1. Preceding(items, i) \cup {i} \subseteq D
    BY DEF Preceding
  <2> QED BY <1>1, <2>1, FS_Subset
<1>5. ASSUME Precedes(items, i, j) PROVE Place(items, i) < Place(items, j)
  <2>1. Preceding(items, i) \cup {i} \subseteq Preceding(items, j)
    BY <1>5, PrecedesOrder DEF Preceding
  <2>2. Cardinality(Preceding(items, i) \cup {i}) <= Cardinality(Preceding(items, j))
    BY <1>2, <2>1, FS_Subset
  <2> QED BY <1>2, <1>3, <2>2 DEF Place
<1> QED BY <1>1, <1>2, <1>3, <1>4, <1>5 DEF Place

(* p names for each place of the sorted list the item that stands there.   *)
Sorts(p, items) ==
    /\ p \in [DOMAIN items -> DOMAIN items]
    /\ \A i \in DOMAIN items : \E k \in DOMAIN items : p[k] = i
    /\ \A k, l \in DOMAIN items : k # l => p[k] # p[l]
    /\ \A k, l \in DOMAIN items : k < l => ~Before(items[p[l]], items[p[k]])
    /\ SortByPublishedDesc(items) = [k \in DOMAIN items |-> items[p[k]]]

(* The sort has every item once, newest first.                             *)
LEMMA SortSound ==
  ASSUME NEW items \in Seq(Item)
  PROVE  \E p : Sorts(p, items)
<1> DEFINE D == DOMAIN items
           place == [i \in D |-> Place(items, i)]
           p == [k \in D |-> CHOOSE i \in D : Place(items, i) = k]
<1>1. D = 1 .. Len(items) /\ Len(items) \in Nat /\ IsFiniteSet(D)
  BY FS_Interval
<1>2. \A i, j \in D : i # j => Place(items, i) # Place(items, j)
  <2> SUFFICES ASSUME NEW i \in D, NEW j \in D, i # j
               PROVE  Place(items, i) # Place(items, j)
    OBVIOUS
  <2>1. Place(items, i) \in Int /\ Place(items, j) \in Int
    BY PlaceGrows
  <2>2. Place(items, i) < Place(items, j) \/ Place(items, j) < Place(items, i)
    BY PrecedesOrder, PlaceGrows
  <2> QED BY <2>1, <2>2
<1>3. place \in Injection(D, D)
  <2>1. place \in [D -> D]
    BY <1>1, PlaceGrows
  <2> QED BY <1>2, <2>1 DEF Injection, IsInjective
<1>4. place \in Surjection(D, D)
  BY <1>1, <1>3, FS_Injection
<1>5. \A k \in D : \E i \in D : Place(items, i) = k
  BY <1>4 DEF Surjection
<1>6. \A k \in D : p[k] \in D /\ Place(items, p[k]) = k
  BY <1>5
<1> HIDE DEF p
<1>7. p \in [D -> D]
  BY <1>6 DEF p
<1>8. \A i \in D : \E k \in D : p[k] = i
  <2> SUFFICES ASSUME NEW i \in D PROVE \E k \in D : p[k] = i
    OBVIOUS
  <2>1. Place(items, i) \in D
    BY <1>1, PlaceGrows
  <2>2. p[Place(items, i)] = i
    BY <1>2, <1>6, <2>1
  <2> QED BY <2>1, <2>2
<1>9. \A k, l \in D : k # l => p[k] # p[l]
  BY <1>6
<1>10. ASSUME NEW k \in D, NEW l \in D, k < l PROVE ~Before(items[p[l]], items[p[k]])
  <2>1. k \in Int /\ l \in Int /\ k # l
    BY <1>1, <1>10
  <2>2. ~Precedes(items, p[l], p[k])
    BY <1>6, <1>10, <2>1, PlaceGrows
  <2>3. Precedes(items, p[k], p[l])
    BY <1>6, <1>9, <2>1, <2>2, PrecedesOrder
  <2> QED BY <1>6, <2>3, PrecedesOrder
<1>11. SortByPublishedDesc(items) = [k \in D |-> items[p[k]]]
  BY DEF SortByPublishedDesc, p, Place, Preceding, Precedes
<1> QED BY <1>7, <1>8, <1>9, <1>10, <1>11 DEF Sorts

-----------------------------------------------------------------------------
(* Items that are already what newest first means.                         *)
LEMMA SortedItems ==
  ASSUME NEW items \in Seq(Item)
  PROVE  /\ SortByPublishedDesc(items) \in Seq(Item)
         /\ Len(SortByPublishedDesc(items)) = Len(items)
         /\ Elements(SortByPublishedDesc(items)) = Elements(items)
         /\ NewestFirst(SortByPublishedDesc(items))
         /\ NoDuplicates(items) => NoDuplicates(SortByPublishedDesc(items))
<1>1. PICK p : Sorts(p, items)
  BY SortSound
<1> DEFINE sorted == SortByPublishedDesc(items)
<1>2. /\ DOMAIN sorted = DOMAIN items /\ DOMAIN items = 1 .. Len(items) /\ Len(items) \in Nat
      /\ \A k \in DOMAIN items : sorted[k] = items[p[k]] /\ p[k] \in DOMAIN items
      /\ \A k \in DOMAIN items : items[k] \in Item
  BY <1>1 DEF Sorts
<1>3. sorted = [k \in 1 .. Len(items) |-> items[p[k]]]
  BY <1>1, <1>2 DEF Sorts
<1>4. sorted \in Seq(Item) /\ Len(sorted) = Len(items)
  BY <1>2, <1>3
<1> HIDE DEF sorted
<1>5. Elements(sorted) = Elements(items)
  BY <1>1, <1>2 DEF Elements, Sorts
<1>6. NewestFirst(sorted)
  BY <1>1, <1>2 DEF NewestFirst, Sorts
<1>7. NoDuplicates(items) => NoDuplicates(sorted)
  BY <1>1, <1>2 DEF NoDuplicates, Sorts
<1> QED BY <1>4, <1>5, <1>6, <1>7 DEF sorted

(* A sorted list that is cut keeps its first items; one that is left out   *)
(* is no newer than any that is kept.                                      *)
LEMMA CutSound ==
  ASSUME NEW items \in Seq(Item), NEW n \in Nat
  PROVE  /\ Cut(items, n) \in Seq(Item)
         /\ Len(Cut(items, n)) <= n
         /\ Elements(Cut(items, n)) \subseteq Elements(items)
         /\ NoDuplicates(items) => NoDuplicates(Cut(items, n))
         /\ NewestFirst(items) => NewestFirst(Cut(items, n))
         /\ NewestFirst(items) =>
              \A k \in DOMAIN items :
                 \/ k \in DOMAIN Cut(items, n) /\ Cut(items, n)[k] = items[k]
                 \/ OmitsOnlyOlder(Cut(items, n), items[k], n)
<1> DEFINE cut == Cut(items, n)
           m == IF Len(items) > n THEN n ELSE Len(items)
<1>1. m \in Nat /\ m <= n /\ m <= Len(items) /\ Len(items) \in Nat
  OBVIOUS
<1>2. cut = SubSeq(items, 1, m)
  BY DEF Cut
<1> HIDE DEF m
<1>3. cut \in Seq(Item) /\ Len(cut) = m
  BY <1>1, <1>2
<1>4. \A k \in 1 .. m : cut[k] = items[k]
  BY <1>1, <1>2
<1> HIDE DEF cut
<1>5. /\ DOMAIN cut = 1 .. m /\ 1 .. m \subseteq DOMAIN items
      /\ \A k \in DOMAIN items : items[k] \in Item
  BY <1>1, <1>3
<1>6. Elements(cut) \subseteq Elements(items)
  BY <1>4, <1>5 DEF Elements
<1>7. NoDuplicates(items) => NoDuplicates(cut)
  BY <1>4, <1>5 DEF NoDuplicates
<1>8. NewestFirst(items) => NewestFirst(cut)
  BY <1>4, <1>5 DEF NewestFirst
<1>9. ASSUME NewestFirst(items), NEW k \in DOMAIN items, k \notin 1 .. m
      PROVE  OmitsOnlyOlder(cut, items[k], n)
  <2>1. m = n /\ \A i \in 1 .. m : i < k
    BY <1>1, <1>9 DEF m
  <2>2. \A i \in 1 .. m : ~Before(items[k], items[i])
    BY <1>5, <1>9, <2>1 DEF NewestFirst
  <2>3. \A i \in 1 .. m : items[i].published >= items[k].published
    BY <1>5, <2>2, BeforeOrder
  <2> QED BY <1>3, <1>4, <1>5, <2>1, <2>3 DEF OmitsOnlyOlder
<1> QED BY <1>1, <1>3, <1>4, <1>5, <1>6, <1>7, <1>8, <1>9 DEF cut

(* The list Merge stores for a fetched set.                                *)
LEMMA CleanSound ==
  ASSUME NEW items \in Seq(Item)
  PROVE  /\ Clean(items) \in Seq(Item)
         /\ Elements(Clean(items)) \subseteq Elements(items)
         /\ NoDuplicates(Clean(items))
         /\ NewestFirst(Clean(items))
         /\ Len(Clean(items)) <= PerSource
         /\ \A i \in DOMAIN items :
              \/ items[i] \in Elements(Clean(items))
              \/ \E j \in 1 .. (i - 1) : Duplicates(items[j], items[i])
              \/ OmitsOnlyOlder(Clean(items), items[i], PerSource)
<1> DEFINE unique == Dedupe(items)
           sorted == SortByPublishedDesc(unique)
           kept == Cut(sorted, PerSource)
<1>1. Clean(items) = kept
  BY DEF Clean
<1>2. unique \in Seq(Item) /\ DedupedUpTo(Len(items), unique, items)
  BY DedupeSound
<1>3. /\ Elements(unique) \subseteq Elements(items) /\ NoDuplicates(unique)
      /\ \A i \in DOMAIN items :
            \/ items[i] \in Elements(unique)
            \/ \E j \in 1 .. (i - 1) : Duplicates(items[j], items[i])
  <2>1. DOMAIN items = 1 .. Len(items)
    OBVIOUS
  <2> HIDE DEF unique
  <2>2. Elements(unique) \subseteq Elements(items)
    BY <1>2, <2>1 DEF DedupedUpTo, Elements
  <2>3. ASSUME NEW i \in DOMAIN items
        PROVE  \/ items[i] \in Elements(unique)
               \/ \E j \in 1 .. (i - 1) : Duplicates(items[j], items[i])
    BY <1>2, <2>1 DEF DedupedUpTo, Elements
  <2> QED BY <1>2, <2>2, <2>3 DEF DedupedUpTo
<1> HIDE DEF unique
<1>4. /\ sorted \in Seq(Item) /\ Elements(sorted) = Elements(unique)
      /\ NewestFirst(sorted) /\ NoDuplicates(sorted)
  BY <1>2, <1>3, SortedItems
<1> HIDE DEF sorted
<1>5. PerSource \in Nat
  BY LimitsAssumption
<1>6. /\ kept \in Seq(Item) /\ Len(kept) <= PerSource /\ Elements(kept) \subseteq Elements(sorted)
      /\ NoDuplicates(kept) /\ NewestFirst(kept)
      /\ \A k \in DOMAIN sorted : \/ k \in DOMAIN kept /\ kept[k] = sorted[k]
                                  \/ OmitsOnlyOlder(kept, sorted[k], PerSource)
  BY <1>4, <1>5, CutSound
<1> HIDE DEF kept
<1>7. ASSUME NEW it \in Elements(unique)
      PROVE  it \in Elements(kept) \/ OmitsOnlyOlder(kept, it, PerSource)
  <2>1. PICK k \in DOMAIN sorted : it = sorted[k]
    BY <1>4 DEF Elements
  <2> QED BY <1>6, <2>1 DEF Elements
<1> QED BY <1>1, <1>3, <1>4, <1>6, <1>7

(* A feed with the source's name on its entries is a list of items.        *)
LEMMA StampedItems ==
  ASSUME NEW feed \in Feeds, NEW s \in Sources
  PROVE  Stamp(feed, s) \in Seq(Item)
<1>1. feed \in Seq(RawItem) /\ \A i \in DOMAIN feed : feed[i] \in RawItem
  BY FeedsAssumption
<1>2. \A i \in DOMAIN feed :
         [link |-> feed[i].link, title |-> feed[i].title,
          published |-> feed[i].published, source |-> s] \in Item
  BY <1>1 DEF RawItem, Item
<1>3. DOMAIN feed = 1 .. Len(feed) /\ Len(feed) \in Nat
  BY <1>1
<1> QED BY <1>2, <1>3 DEF Stamp

-----------------------------------------------------------------------------
(* lists, one after the other, up to the n-th of them.                     *)
JoinsUpTo(n, joined, lists) ==
    joined \in Seq(Item) /\ Elements(joined) = UNION {Elements(lists[j]) : j \in 1 .. n}

(* One more list is joined.                                                *)
LEMMA JoinTurn ==
  ASSUME NEW lists, NEW n \in Nat, NEW joined, JoinsUpTo(n, joined, lists),
         lists[n + 1] \in Seq(Item)
  PROVE  JoinsUpTo(n + 1, joined \o lists[n + 1], lists)
<1> DEFINE more == lists[n + 1]
           both == joined \o more
<1>1. /\ joined \in Seq(Item) /\ more \in Seq(Item)
      /\ Elements(joined) = UNION {Elements(lists[j]) : j \in 1 .. n}
  BY DEF JoinsUpTo
<1> HIDE DEF more
<1>2. /\ both \in Seq(Item) /\ Len(joined) \in Nat /\ Len(more) \in Nat
      /\ DOMAIN joined = 1 .. Len(joined) /\ DOMAIN more = 1 .. Len(more)
      /\ DOMAIN both = 1 .. (Len(joined) + Len(more))
      /\ \A i \in 1 .. Len(joined) : both[i] = joined[i]
      /\ \A i \in 1 .. Len(more) : both[Len(joined) + i] = more[i]
  BY <1>1
<1> HIDE DEF both
<1>3. Elements(both) = Elements(joined) \cup Elements(more)
  <2>1. ASSUME NEW i \in DOMAIN both PROVE both[i] \in Elements(joined) \cup Elements(more)
    <3>1. CASE i <= Len(joined)
      BY <1>2, <2>1, <3>1 DEF Elements
    <3>2. CASE i > Len(joined)
      <4>1. i - Len(joined) \in 1 .. Len(more) /\ Len(joined) + (i - Len(joined)) = i
        BY <1>2, <2>1, <3>2
      <4> QED BY <1>2, <4>1 DEF Elements
    <3> QED BY <1>2, <3>1, <3>2
  <2>2. \A i \in DOMAIN joined : joined[i] \in Elements(both)
    BY <1>2 DEF Elements
  <2>3. ASSUME NEW i \in DOMAIN more PROVE more[i] \in Elements(both)
    <3>1. Len(joined) + i \in DOMAIN both /\ both[Len(joined) + i] = more[i]
      BY <1>2
    <3> QED BY <3>1 DEF Elements
  <2> QED BY <2>1, <2>2, <2>3 DEF Elements
<1>4. \A j : j \in 1 .. n + 1 <=> j \in 1 .. n \/ j = n + 1
  OBVIOUS
<1>5. UNION {Elements(lists[j]) : j \in 1 .. n + 1}
        = (UNION {Elements(lists[j]) : j \in 1 .. n}) \cup Elements(lists[n + 1])
  BY <1>4
<1> QED BY <1>1, <1>2, <1>3, <1>5 DEF JoinsUpTo, both, more

(* The lists of All, one after the other.                                  *)
LEMMA JoinSound ==
  ASSUME NEW lists \in Seq(Seq(Item))
  PROVE  JoinsUpTo(Len(lists), FlattenSeq(lists), lists)
<1> DEFINE N == Len(lists)
           Loop(f) == f = [i \in 1 .. N |-> IF i = 1 THEN lists[i] ELSE f[i - 1] \o lists[i]]
           turn == [i \in 1 .. N |-> [joined \in Seq(Item) |->
                      IF i = 1 THEN lists[i] ELSE joined \o lists[i]]]
<1>1. N \in Nat /\ \A i \in 1 .. N : lists[i] \in Seq(Item)
  OBVIOUS
<1>2. CASE N = 0
  <2>1. FlattenSeq(lists) = <<>>
    BY <1>2 DEF FlattenSeq
  <2>2. 1 .. N = {}
    BY <1>2
  <2> QED BY <2>1, <2>2 DEF JoinsUpTo, Elements
<1>3. CASE N # 0
  <2>1. turn \in [1 .. N -> [Seq(Item) -> Seq(Item)]]
    <3>1. \A i \in 1 .. N, joined \in Seq(Item) :
             (IF i = 1 THEN lists[i] ELSE joined \o lists[i]) \in Seq(Item)
      BY <1>1
    <3> QED BY <3>1
  <2>2. <<>> \in Seq(Item)
    OBVIOUS
  <2>3. PICK f : Runs(f, N, Seq(Item), <<>>, turn)
    <3> HIDE DEF N, turn
    <3> QED BY <1>1, <2>1, <2>2, Recursion
  <2> DEFINE g == [i \in 1 .. N |-> f[i]]
  <2>4. \A i \in 1 .. N : f[i] = IF i = 1 THEN lists[i] ELSE f[i - 1] \o lists[i]
    <3>1. \A i \in 1 .. N : i - 1 \in 0 .. N
      BY <1>1
    <3> QED BY <2>3, <3>1 DEF Runs
  <2>5. Loop(g)
    <3>1. \A i \in 1 .. N : i # 1 => i - 1 \in 1 .. N
      BY <1>1
    <3>2. \A i \in 1 .. N : g[i] = IF i = 1 THEN lists[i] ELSE g[i - 1] \o lists[i]
      BY <2>4, <3>1
    <3> HIDE DEF N
    <3> QED BY <3>2
  <2> DEFINE flatten == CHOOSE f0 : Loop(f0)
  <2>6. FlattenSeq(lists) = flatten[N]
    BY <1>3, Zenon DEF FlattenSeq
  <2>7. Loop(flatten)
    BY <2>5, Zenon
  <2> HIDE DEF flatten
  <2>8. \A i \in 1 .. N : flatten[i] = IF i = 1 THEN lists[i] ELSE flatten[i - 1] \o lists[i]
    BY <2>7, Zenon
  <2> HIDE DEF Loop, N, turn, g
  <2> DEFINE T == {n \in Nat : n \in 1 .. N => JoinsUpTo(n, flatten[n], lists)}
  <2>9. 0 \in T
    BY <1>1
  <2>10. ASSUME NEW n \in Nat, n \in T PROVE n + 1 \in T
    <3> SUFFICES ASSUME n + 1 \in 1 .. N PROVE JoinsUpTo(n + 1, flatten[n + 1], lists)
      OBVIOUS
    <3>1. CASE n = 0
      <4>1. flatten[1] = lists[1] /\ lists[1] \in Seq(Item) /\ 1 .. 1 = {1}
        BY <1>1, <2>8, <3>1
      <4>2. UNION {Elements(lists[j]) : j \in 1 .. 1} = Elements(lists[1])
        BY <4>1
      <4> QED BY <3>1, <4>1, <4>2 DEF JoinsUpTo
    <3>2. CASE n # 0
      <4>1. n \in 1 .. N /\ n + 1 # 1 /\ (n + 1) - 1 = n
        BY <1>1, <3>2
      <4>2. JoinsUpTo(n, flatten[n], lists) /\ flatten[n + 1] = flatten[n] \o lists[n + 1]
        BY <2>8, <2>10, <4>1
      <4> QED BY <1>1, <4>2, JoinTurn
    <3> QED BY <3>1, <3>2
  <2> HIDE DEF T
  <2>11. N \in T
    BY <1>1, <2>9, <2>10, Induction
  <2> QED BY <1>1, <1>3, <2>6, <2>11 DEF T, N
<1> QED BY <1>2, <1>3

(* Go's loop over the map visits every source.                             *)
LEMMA OrdersAreComplete ==
  ASSUME NEW order \in Orders
  PROVE  /\ order \in Seq(Sources)
         /\ \A s \in Sources : \E k \in DOMAIN order : order[k] = s
<1> DEFINE D == 1 .. Cardinality(Sources)
<1>1. Cardinality(Sources) \in Nat
  BY SourcesAssumption, FS_CardinalityType
<1>2. order \in [D -> Sources] /\ \A i, j \in D : i # j => order[i] # order[j]
  BY DEF Orders, SetToSeqs
<1>3. IsFiniteSet(D) /\ Cardinality(D) = Cardinality(Sources)
  BY <1>1, FS_Interval
<1>4. order \in Injection(D, Sources)
  BY <1>2 DEF Injection, IsInjective
<1>5. order \in Surjection(D, Sources)
  BY <1>3, <1>4, SourcesAssumption, FS_Injection
<1> QED BY <1>1, <1>2, <1>5 DEF Surjection

(* A source's list is a list of items.                                     *)
LEMMA BatchItems ==
  ASSUME NEW s \in Sources, NEW batch \in Batches(s)
  PROVE  batch \in Seq(Item)
<1>1. CASE batch = NoItems
  BY <1>1 DEF NoItems
<1>2. CASE \E feed \in Feeds : batch = Clean(Stamp(feed, s))
  <2>1. PICK feed \in Feeds : batch = Clean(Stamp(feed, s))
    BY <1>2
  <2> QED BY <2>1, StampedItems, CleanSound
<1> QED BY <1>1, <1>2 DEF Batches, Digests

(* Flattening a board yields what is stored.                               *)
LEMMA FlattenSound ==
  ASSUME NEW board \in Boards, NEW order \in Orders
  PROVE  /\ Flatten(order, board) \in Seq(Item)
         /\ Elements(Flatten(order, board)) = Stored(board)
<1> DEFINE lists == [k \in DOMAIN order |-> board[order[k]]]
<1>1. /\ order \in Seq(Sources) /\ Len(order) \in Nat /\ DOMAIN order = 1 .. Len(order)
      /\ \A s \in Sources : \E k \in DOMAIN order : order[k] = s
      /\ \A k \in DOMAIN order : order[k] \in Sources
  BY OrdersAreComplete
<1>2. \A s \in Sources : board[s] \in Seq(Item)
  BY BatchItems DEF Boards
<1>3. lists \in Seq(Seq(Item)) /\ Len(lists) = Len(order)
  BY <1>1, <1>2
<1>4. \A k \in 1 .. Len(order) : lists[k] = board[order[k]]
  BY <1>1
<1>5. Flatten(order, board) = FlattenSeq(lists)
  BY DEF Flatten
<1> HIDE DEF lists
<1>6. JoinsUpTo(Len(order), FlattenSeq(lists), lists)
  BY <1>3, JoinSound
<1>7. UNION {Elements(lists[k]) : k \in 1 .. Len(order)} = Stored(board)
  BY <1>1, <1>4 DEF Stored
<1> QED BY <1>5, <1>6, <1>7 DEF JoinsUpTo

(* What a page promises of the board it was made from.                     *)
PageOf(shown, board) ==
    /\ Elements(shown) \subseteq Stored(board)
    /\ NoDuplicates(shown)
    /\ NewestFirst(shown)
    /\ Len(shown) <= PageSize
    /\ \A it \in Stored(board) :
            \/ ShownByNewerCopy(shown, it)
            \/ OmitsOnlyOlder(shown, it, PageSize)

(* All keeps the promise, whatever the order of the map.                   *)
LEMMA PageOfBoard ==
  ASSUME NEW board \in Boards, NEW shown \in Pages(board)
  PROVE  PageOf(shown, board)
<1>1. PICK order \in Orders : shown = Page(order, board)
  BY DEF Pages
<1> DEFINE flat == Flatten(order, board)
           sorted == SortByPublishedDesc(flat)
           unique == Dedupe(sorted)
<1>2. shown = Cut(unique, PageSize)
  BY <1>1 DEF Page
<1>3. flat \in Seq(Item) /\ Elements(flat) = Stored(board)
  BY FlattenSound
<1> HIDE DEF flat
<1>4. sorted \in Seq(Item) /\ Elements(sorted) = Stored(board) /\ NewestFirst(sorted)
  BY <1>3, SortedItems
<1> HIDE DEF sorted
<1>5. unique \in Seq(Item) /\ DedupedUpTo(Len(sorted), unique, sorted)
  BY <1>4, DedupeSound
<1> HIDE DEF unique
<1>6. PageSize \in Nat
  BY LimitsAssumption
<1>7. DOMAIN sorted = 1 .. Len(sorted) /\ \A j \in DOMAIN sorted : sorted[j] \in Item
  BY <1>4
<1>8. Elements(unique) \subseteq Elements(sorted) /\ NoDuplicates(unique) /\ NewestFirst(unique)
  <2>1. Elements(unique) \subseteq Elements(sorted)
    BY <1>5, <1>7 DEF DedupedUpTo, Elements
  <2> QED BY <1>4, <1>5, <2>1 DEF DedupedUpTo
<1>9. /\ Len(shown) <= PageSize /\ Elements(shown) \subseteq Elements(unique)
      /\ NoDuplicates(shown) /\ NewestFirst(shown)
      /\ \A k \in DOMAIN unique : \/ k \in DOMAIN shown /\ shown[k] = unique[k]
                                  \/ OmitsOnlyOlder(shown, unique[k], PageSize)
      /\ shown \in Seq(Item)
  BY <1>2, <1>5, <1>6, <1>8, CutSound
<1>10. ASSUME NEW it \in Stored(board)
       PROVE  ShownByNewerCopy(shown, it) \/ OmitsOnlyOlder(shown, it, PageSize)
  <2>1. PICK j \in DOMAIN sorted : it = sorted[j]
    BY <1>4 DEF Elements
  <2>2. PICK i \in DOMAIN unique :
           /\ unique[i] = it \/ Duplicates(unique[i], it)
           /\ unique[i].published >= it.published
    <3>1. CASE \E i \in DOMAIN unique : unique[i] = sorted[j]
      <4>1. it.published >= it.published
        BY <1>7, <2>1 DEF Item
      <4> QED BY <2>1, <3>1, <4>1
    <3>2. CASE \E i \in DOMAIN unique : \E m \in 1 .. (j - 1) :
                  unique[i] = sorted[m] /\ Duplicates(sorted[m], sorted[j])
      <4>1. PICK i \in DOMAIN unique, m \in 1 .. (j - 1) :
               unique[i] = sorted[m] /\ Duplicates(sorted[m], sorted[j])
        BY <3>2
      <4>2. m \in DOMAIN sorted /\ m < j
        BY <1>7
      <4>3. ~Before(sorted[j], sorted[m])
        BY <1>4, <4>2 DEF NewestFirst
      <4>4. sorted[m].published >= sorted[j].published
        BY <1>7, <4>2, <4>3, BeforeOrder
      <4> QED BY <2>1, <4>1, <4>4
    <3> QED BY <1>5, <1>7, <3>1, <3>2 DEF DedupedUpTo
  <2>3. CASE i \in DOMAIN shown /\ shown[i] = unique[i]
    BY <2>2, <2>3 DEF ShownByNewerCopy
  <2>4. CASE OmitsOnlyOlder(shown, unique[i], PageSize)
    <3>1. unique[i] \in Item /\ it \in Item
      BY <1>5, <1>7, <2>1
    <3>2. \A k \in DOMAIN shown : shown[k] \in Item
      BY <1>9
    <3>3. \A k \in DOMAIN shown : shown[k].published >= it.published
      <4>1. \A a, b, c \in Item : a.published >= b.published /\ b.published >= c.published
              => a.published >= c.published
        BY DEF Item
      <4> QED BY <2>2, <2>4, <3>1, <3>2, <4>1 DEF OmitsOnlyOlder
    <3> QED BY <2>4, <3>3 DEF OmitsOnlyOlder
  <2> QED BY <1>9, <2>3, <2>4
<1> QED BY <1>4, <1>8, <1>9, <1>10 DEF PageOf

-----------------------------------------------------------------------------
(* The store and its lock.                                                 *)

(* Replacing one list of a board by a list Merge can store gives a board.  *)
LEMMA BoardUpdate ==
  ASSUME NEW board \in Boards, NEW s \in Sources, NEW batch \in Batches(s)
  PROVE  [board EXCEPT ![s] = batch] \in Boards
  BY DEF Boards

(* Nothing stored is a board.                                              *)
LEMMA EmptyBoardType == EmptyBoard \in Boards
  BY DEF Boards, EmptyBoard, Batches

(* Copying a list from one board to another gives a board.                 *)
LEMMA BoardCopy ==
  ASSUME NEW to \in Boards, NEW from \in Boards, NEW s \in Sources
  PROVE  [to EXCEPT ![s] = from[s]] \in Boards
  BY DEF Boards

(* What Merge cleans from a feed is a list the store can hold.             *)
LEMMA MergeBatch ==
  ASSUME NEW feed \in Feeds \cup {NoItems}, NEW s \in Sources, feed \in Feeds
  PROVE  /\ Clean(Stamp(feed, s)) \in Digests(s)
         /\ Clean(Stamp(feed, s)) \in Batches(s)
  BY DEF Batches, Digests

(* A record of health stays one.                                           *)
LEMMA HealthAfterType ==
  ASSUME NEW h \in HealthRecord, NEW j \in Jobs, j.op = "merge" => j.feed \in Feeds
  PROVE  HealthAfter(h, j) \in HealthRecord
<1>1. ASSUME NEW n \in Counts
      PROVE  [h EXCEPT !.known = TRUE, !.ok = TRUE, !.count = n] \in HealthRecord
  BY DEF HealthRecord
<1>2. [h EXCEPT !.known = TRUE, !.failed = TRUE] \in HealthRecord
  BY DEF HealthRecord
<1>3. CASE j.op = "merge"
  <2>1. j.src \in Sources
    BY DEF Jobs
  <2>2. Clean(Stamp(j.feed, j.src)) \in Batches(j.src)
    BY <1>3, <2>1, MergeBatch
  <2>3. Len(Clean(Stamp(j.feed, j.src))) \in Counts
    BY <2>1, <2>2 DEF Counts
  <2> QED BY <1>1, <1>3, <2>3, Zenon DEF HealthAfter
<1>4. CASE j.op # "merge"
  BY <1>2, <1>4, Zenon DEF HealthAfter
<1> QED BY <1>3, <1>4

-----------------------------------------------------------------------------
(* A merge carries a feed, an error carries none.                          *)
JobInv ==
    \A w \in Writers : wpc[w] # "idle" =>
        /\ job[w] \in Jobs
        /\ job[w].op = "merge" => job[w].feed \in Feeds
        /\ wpc[w] = "items" => job[w].op = "merge"

TypeInv == TypeOK /\ JobInv

(* Type correctness.                                                       *)
LEMMA TypeInvariant == Spec => []TypeInv
<1>1. Init => TypeInv
  <2> SUFFICES ASSUME Init PROVE TypeInv
    OBVIOUS
  <2>1. NoHealth \in HealthRecord
    <3>1. 0 \in Counts
      BY DEF Counts
    <3> QED BY <3>1 DEF NoHealth, HealthRecord
  <2>2. health \in [Sources -> HealthRecord] /\ report \in [Monitors -> [Sources -> HealthRecord]]
    BY <2>1 DEF Init
  <2>3. bySource \in Boards /\ copied \in [Readers -> Boards]
    BY EmptyBoardType DEF Init
  <2> QED BY <2>2, <2>3 DEF Init, TypeInv, TypeOK, JobInv
<1>2. TypeInv /\ [Next]_vars => TypeInv'
  <2> SUFFICES ASSUME TypeInv, [Next]_vars PROVE TypeInv'
    OBVIOUS
  <2> USE DEF TypeInv, TypeOK, JobInv, lockVars, readVars
  <2>1. ASSUME NEW w \in Writers, NEW s \in Sources, NEW feed \in Feeds, CallMerge(w, s, feed)
        PROVE  TypeInv'
    BY <2>1 DEF CallMerge, Jobs
  <2>2. ASSUME NEW w \in Writers, NEW s \in Sources, CallSetError(w, s)
        PROVE  TypeInv'
    BY <2>2 DEF CallSetError, Jobs
  <2>3. ASSUME NEW w \in Writers, Announce(w) PROVE TypeInv'
    BY <2>3 DEF Announce
  <2>4. ASSUME NEW w \in Writers, Enter(w) PROVE TypeInv'
    BY <2>4 DEF Enter
  <2>5. ASSUME NEW w \in Writers, StoreItems(w) PROVE TypeInv'
    <3>1. job[w].src \in Sources /\ Clean(Stamp(job[w].feed, job[w].src)) \in Batches(job[w].src)
      BY <2>5, MergeBatch DEF StoreItems, Jobs
    <3>2. bySource' \in Boards
      BY <2>5, <3>1, BoardUpdate DEF StoreItems
    <3> QED BY <2>5, <3>2 DEF StoreItems
  <2>6. ASSUME NEW w \in Writers, StoreHealth(w) PROVE TypeInv'
    <3>1. job[w] \in Jobs /\ job[w].src \in Sources
      BY <2>6 DEF StoreHealth, Jobs
    <3>2. HealthAfter(health[job[w].src], job[w]) \in HealthRecord
      <4>1. job[w].op = "merge" => job[w].feed \in Feeds
        BY <2>6 DEF StoreHealth
      <4>2. health[job[w].src] \in HealthRecord
        BY <3>1
      <4> QED BY <3>1, <4>1, <4>2, HealthAfterType
    <3>3. health' \in [Sources -> HealthRecord]
      BY <2>6, <3>1, <3>2 DEF StoreHealth
    <3>4. rpc' \in [Clients -> {"idle", "called", "blocked", "locked", "unlocked"}]
      BY <2>6 DEF StoreHealth
    <3> QED BY <2>6, <3>3, <3>4 DEF StoreHealth
  <2>7. ASSUME NEW r \in Readers, CallLatest(r) PROVE TypeInv'
    BY <2>7, EmptyBoardType DEF CallLatest, Clients
  <2>8. ASSUME NEW m \in Monitors, CallHealth(m) PROVE TypeInv'
    BY <2>8 DEF CallHealth, Clients
  <2>9. ASSUME NEW c \in Clients, RLock(c) PROVE TypeInv'
    BY <2>9 DEF RLock
  <2>10. ASSUME NEW r \in Readers, NEW s \in Sources, Copy(r, s) PROVE TypeInv'
    <3>1. copied' \in [Readers -> Boards]
      BY <2>10, BoardCopy DEF Copy
    <3> QED BY <2>10, <3>1 DEF Copy
  <2>11. ASSUME NEW r \in Readers, RUnlock(r) PROVE TypeInv'
    BY <2>11 DEF RUnlock, Clients
  <2>12. ASSUME NEW r \in Readers, Return(r) PROVE TypeInv'
    BY <2>12 DEF Return, Clients
  <2>13. ASSUME NEW m \in Monitors, Report(m) PROVE TypeInv'
    BY <2>13 DEF Report, Clients
  <2>14. CASE UNCHANGED vars
    BY <2>14 DEF vars
  <2> QED BY <2>1, <2>2, <2>3, <2>4, <2>5, <2>6, <2>7, <2>8, <2>9, <2>10,
             <2>11, <2>12, <2>13, <2>14 DEF Next, Write, Read, Inspect, Clients
<1> QED BY <1>1, <1>2, PTL DEF Spec

(* Every variable keeps its type.                                          *)
THEOREM TypeCorrect == Spec => []TypeOK
<1>1. TypeInv => TypeOK
  BY DEF TypeInv
<1> QED BY <1>1, TypeInvariant, PTL

-----------------------------------------------------------------------------
(* The mutex keeps a writer that is inside alone (store.go, Lock and RLock *)
(* in Merge, SetError, All and Health).                                    *)
THEOREM LockCorrect == Spec => []LockExclusion
<1>1. Init => LockExclusion
  BY ClientsAssumption DEF Init, LockExclusion, Inside
<1>2. TypeInv /\ LockExclusion /\ [Next]_vars => LockExclusion'
  <2> SUFFICES ASSUME TypeInv, LockExclusion, [Next]_vars PROVE LockExclusion'
    OBVIOUS
  <2> USE ClientsAssumption
      DEF TypeInv, TypeOK, LockExclusion, Inside, NoReaderInside, lockVars, readVars
  <2>1. ASSUME NEW w \in Writers, NEW s \in Sources, NEW feed \in Feeds, CallMerge(w, s, feed)
        PROVE  LockExclusion'
    BY <2>1 DEF CallMerge
  <2>11. ASSUME NEW w \in Writers, NEW s \in Sources, CallSetError(w, s)
         PROVE  LockExclusion'
    BY <2>11 DEF CallSetError
  <2>2. ASSUME NEW w \in Writers, Announce(w) PROVE LockExclusion'
    BY <2>2 DEF Announce
  <2>3. ASSUME NEW w \in Writers, Enter(w) PROVE LockExclusion'
    BY <2>3 DEF Enter
  <2>4. ASSUME NEW w \in Writers, StoreItems(w) PROVE LockExclusion'
    BY <2>4 DEF StoreItems
  <2>5. ASSUME NEW w \in Writers, StoreHealth(w) PROVE LockExclusion'
    BY <2>5 DEF StoreHealth
  <2>6. ASSUME NEW c \in Clients, RLock(c) PROVE LockExclusion'
    BY <2>6 DEF RLock
  <2>7. ASSUME NEW r \in Readers, CallLatest(r) \/ RUnlock(r) \/ Return(r)
        PROVE  LockExclusion'
    BY <2>7 DEF CallLatest, RUnlock, Return, Clients
  <2>8. ASSUME NEW r \in Readers, NEW s \in Sources, Copy(r, s) PROVE LockExclusion'
    BY <2>8 DEF Copy
  <2>9. ASSUME NEW m \in Monitors, CallHealth(m) \/ Report(m) PROVE LockExclusion'
    BY <2>9 DEF CallHealth, Report, Clients
  <2>10. CASE UNCHANGED vars
    BY <2>10 DEF vars
  <2> QED BY <2>1, <2>2, <2>3, <2>4, <2>5, <2>6, <2>7, <2>8, <2>9, <2>10, <2>11
          DEF Next, Write, Read, Inspect, Clients
<1> QED BY <1>1, <1>2, TypeInvariant, PTL DEF Spec

-----------------------------------------------------------------------------
(* What a reader copied is what is stored, as long as it is in the lock;   *)
(* before it enters it has copied nothing.  After it, it has copied all.   *)
SnapshotInv ==
    /\ SnapshotWhole
    /\ \A r \in Readers :
          /\ rpc[r] \in {"called", "blocked"} => seen[r] = {}
          /\ rpc[r] = "unlocked" => seen[r] = Sources

(* One step of the store keeps what a reader copied current.               *)
LEMMA SnapshotStep ==
  ASSUME TypeInv, LockExclusion, SnapshotInv, [Next]_vars
  PROVE  SnapshotInv'
<1> USE DEF TypeInv, TypeOK, SnapshotInv, SnapshotWhole, lockVars, readVars
<1>1. ASSUME NEW w \in Writers, NEW s \in Sources, NEW feed \in Feeds, CallMerge(w, s, feed)
      PROVE  SnapshotInv'
  BY <1>1 DEF CallMerge
<1>11. ASSUME NEW w \in Writers, NEW s \in Sources, CallSetError(w, s) PROVE SnapshotInv'
  BY <1>11 DEF CallSetError
<1>2. ASSUME NEW w \in Writers, Announce(w) \/ Enter(w) PROVE SnapshotInv'
  BY <1>2 DEF Announce, Enter
<1>3. ASSUME NEW w \in Writers, StoreItems(w) PROVE SnapshotInv'
  <2>1. \A r \in Readers : rpc[r] # "locked"
    BY <1>3 DEF StoreItems, LockExclusion, Inside, NoReaderInside, Clients
  <2> QED BY <1>3, <2>1 DEF StoreItems
<1>4. ASSUME NEW w \in Writers, StoreHealth(w) PROVE SnapshotInv'
  BY <1>4 DEF StoreHealth, Clients
<1>5. ASSUME NEW c \in Clients, RLock(c) PROVE SnapshotInv'
  BY <1>5 DEF RLock, Clients
<1>6. ASSUME NEW r \in Readers, CallLatest(r) PROVE SnapshotInv'
  BY <1>6 DEF CallLatest, Clients
<1>7. ASSUME NEW r \in Readers, NEW s \in Sources, Copy(r, s) PROVE SnapshotInv'
  <2>1. copied[r] \in [Sources -> UNION {Batches(x) : x \in Sources}]
    BY DEF Boards
  <2>2. copied'[r] = [copied[r] EXCEPT ![s] = bySource[s]] /\ seen'[r] = seen[r] \cup {s}
    BY <1>7 DEF Copy
  <2>3. \A x \in seen'[r] : copied'[r][x] = bySource[x]
    BY <1>7, <2>1, <2>2 DEF Copy
  <2>4. \A q \in Readers : q # r => copied'[q] = copied[q] /\ seen'[q] = seen[q]
    BY <1>7 DEF Copy
  <2> QED BY <1>7, <2>3, <2>4 DEF Copy
<1>8. ASSUME NEW r \in Readers, RUnlock(r) PROVE SnapshotInv'
  BY <1>8 DEF RUnlock, Clients
<1>12. ASSUME NEW r \in Readers, Return(r) PROVE SnapshotInv'
  BY <1>12 DEF Return, Clients
<1>9. ASSUME NEW m \in Monitors, CallHealth(m) \/ Report(m) PROVE SnapshotInv'
  BY <1>9, ClientsAssumption DEF CallHealth, Report, Clients
<1>10. CASE UNCHANGED vars
  BY <1>10 DEF vars
<1> QED BY <1>1, <1>2, <1>3, <1>4, <1>5, <1>6, <1>7, <1>8, <1>9, <1>10, <1>11, <1>12
        DEF Next, Write, Read, Inspect, Clients

(* What a reader copied under the lock is current, and complete after it.  *)
LEMMA SnapshotInvariant == Spec => []SnapshotInv
<1>1. Init => SnapshotInv
  BY DEF Init, SnapshotInv, SnapshotWhole, Clients
<1>2. TypeInv /\ LockExclusion /\ SnapshotInv /\ [Next]_vars => SnapshotInv'
  BY SnapshotStep
<1> QED BY <1>1, <1>2, TypeInvariant, LockCorrect, PTL DEF Spec

(* The lists a reader copies one by one make one snapshot (store.go, All). *)
THEOREM SnapshotCorrect == Spec => []SnapshotWhole
<1>1. SnapshotInv => SnapshotWhole
  BY DEF SnapshotInv
<1> QED BY <1>1, SnapshotInvariant, PTL

-----------------------------------------------------------------------------
(* A Merge that has stored its items but not its count still holds both.   *)
HealthInv ==
    /\ HealthMatchesItems
    /\ \A w \in Writers : wpc[w] = "health" /\ job[w].op = "merge" =>
          bySource[job[w].src] = Clean(Stamp(job[w].feed, job[w].src))

(* The record of a source agrees with its list.                            *)
Matches(s) ==
    /\ health[s].count = Len(bySource[s])
    /\ bySource[s] # NoItems => health[s].ok
    /\ health[s].known <=> health[s].ok \/ health[s].failed

Counting(w, s) == wpc[w] = "health" /\ job[w].op = "merge" /\ job[w].src = s

(* A finished write leaves the record in agreement with the list.          *)
LEMMA HealthStored ==
  ASSUME TypeInv, LockExclusion, HealthInv, NEW w \in Writers, StoreHealth(w),
         NEW s \in Sources, s = job[w].src
  PROVE  Matches(s)'
<1> DEFINE h == health[s]
<1> USE DEF TypeInv, TypeOK
<1>1. s \in Sources /\ h \in HealthRecord /\ job[w] \in Jobs
  BY DEF StoreHealth, JobInv, Jobs
<1>2. health'[s] = HealthAfter(h, job[w]) /\ bySource' = bySource
  BY <1>1 DEF StoreHealth
<1>3. CASE job[w].op = "merge"
  <2>1. bySource[s] = Clean(Stamp(job[w].feed, s))
    BY <1>3 DEF HealthInv, StoreHealth
  <2>2. /\ health'[s].known = TRUE /\ health'[s].ok = TRUE
        /\ health'[s].count = Len(Clean(Stamp(job[w].feed, s)))
    BY <1>1, <1>2, <1>3 DEF HealthAfter, HealthRecord
  <2> QED BY <1>2, <2>1, <2>2 DEF Matches
<1>4. CASE job[w].op # "merge"
  <2>1. /\ health'[s].known = TRUE /\ health'[s].failed = TRUE
        /\ health'[s].ok = h.ok /\ health'[s].count = h.count
    BY <1>1, <1>2, <1>4 DEF HealthAfter, HealthRecord
  <2>2. CASE Matches(s)
    BY <1>2, <2>1, <2>2 DEF Matches
  <2>3. \A v \in Writers : ~Counting(v, s)
    BY <1>4 DEF LockExclusion, Counting, StoreHealth
  <2>4. Matches(s)
    BY <2>3 DEF HealthInv, HealthMatchesItems, Matches, Counting
  <2> QED BY <2>2, <2>4
<1> QED BY <1>3, <1>4

(* A step that touches neither the maps nor a writer past "drain".         *)
LEMMA HealthFrame ==
  ASSUME HealthInv, UNCHANGED <<bySource, health>>,
         \A w \in Writers : wpc[w] = "health" <=> wpc'[w] = "health",
         \A w \in Writers : wpc[w] = "health" => job'[w] = job[w]
  PROVE  HealthInv'
  BY DEF HealthInv, HealthMatchesItems

(* Every step keeps items and counts in agreement.                         *)
LEMMA HealthStep ==
  ASSUME TypeInv, LockExclusion, HealthInv, [Next]_vars
  PROVE  HealthInv'
<1> USE DEF TypeInv, TypeOK, lockVars, readVars
<1>1. ASSUME NEW w \in Writers, NEW s \in Sources, NEW feed \in Feeds, CallMerge(w, s, feed)
      PROVE  HealthInv'
  BY <1>1, HealthFrame DEF CallMerge
<1>2. ASSUME NEW w \in Writers, NEW s \in Sources, CallSetError(w, s) PROVE HealthInv'
  BY <1>2, HealthFrame DEF CallSetError
<1>3. ASSUME NEW w \in Writers, Announce(w) PROVE HealthInv'
  BY <1>3, HealthFrame DEF Announce
<1>4. ASSUME NEW w \in Writers, Enter(w) PROVE HealthInv'
  <2>1. CASE job[w].op = "merge"
    BY <1>4, <2>1, HealthFrame DEF Enter
  <2>2. CASE job[w].op # "merge"
    BY <1>4, <2>2 DEF Enter, HealthInv, HealthMatchesItems
  <2> QED BY <2>1, <2>2
<1>5. ASSUME NEW w \in Writers, StoreItems(w) PROVE HealthInv'
  <2> DEFINE s == job[w].src
  <2>1. s \in Sources /\ job[w].op = "merge"
    BY <1>5 DEF StoreItems, JobInv, Jobs
  <2>2. bySource'[s] = Clean(Stamp(job[w].feed, s))
        /\ \A x \in Sources : x # s => bySource'[x] = bySource[x]
    BY <1>5, <2>1 DEF StoreItems, Boards
  <2>3. \A v \in Writers : wpc[v] # "health"
    BY <1>5 DEF StoreItems, LockExclusion
  <2>4. wpc'[w] = "health" /\ UNCHANGED <<health, job>>
    BY <1>5 DEF StoreItems
  <2>5. \A x \in Sources : x # s => Matches(x)'
    BY <2>2, <2>3, <2>4 DEF HealthInv, HealthMatchesItems, Matches
  <2>6. Counting(w, s)'
    BY <2>1, <2>4 DEF Counting
  <2>7. \A v \in Writers : v # w => wpc'[v] # "health"
    BY <1>5, <2>3 DEF StoreItems
  <2> QED BY <2>1, <2>2, <2>4, <2>5, <2>6, <2>7
          DEF HealthInv, HealthMatchesItems, Matches, Counting
<1>6. ASSUME NEW w \in Writers, StoreHealth(w) PROVE HealthInv'
  <2>1. PICK s \in Sources : s = job[w].src
    BY <1>6 DEF StoreHealth, JobInv, Jobs
  <2>2. Matches(s)'
    BY <1>6, <2>1, HealthStored
  <2>3. \A v \in Writers : v # w => wpc[v] # "health"
    BY <1>6 DEF StoreHealth, LockExclusion
  <2>4. \A v \in Writers : wpc'[v] # "health"
    BY <1>6, <2>3 DEF StoreHealth
  <2>5. \A x \in Sources : x # s => Matches(x)
    BY <2>1, <2>3 DEF HealthInv, HealthMatchesItems, Matches
  <2>6. \A x \in Sources : x # s => health'[x] = health[x] /\ bySource' = bySource
    BY <1>6, <2>1 DEF StoreHealth
  <2>7. \A x \in Sources : Matches(x)'
    BY <2>2, <2>5, <2>6 DEF Matches
  <2> QED BY <2>4, <2>7 DEF HealthInv, HealthMatchesItems, Matches
<1>7. ASSUME NEW r \in Readers, CallLatest(r) PROVE HealthInv'
  BY <1>7, HealthFrame DEF CallLatest
<1>8. ASSUME NEW c \in Clients, RLock(c) PROVE HealthInv'
  BY <1>8, HealthFrame DEF RLock
<1>9. ASSUME NEW r \in Readers, NEW s \in Sources, Copy(r, s) PROVE HealthInv'
  BY <1>9, HealthFrame DEF Copy
<1>10. ASSUME NEW r \in Readers, RUnlock(r) PROVE HealthInv'
  BY <1>10, HealthFrame DEF RUnlock
<1>11. ASSUME NEW r \in Readers, Return(r) PROVE HealthInv'
  BY <1>11, HealthFrame DEF Return
<1>12. ASSUME NEW m \in Monitors, CallHealth(m) PROVE HealthInv'
  BY <1>12, HealthFrame DEF CallHealth
<1>13. ASSUME NEW m \in Monitors, Report(m) PROVE HealthInv'
  BY <1>13, HealthFrame DEF Report
<1>14. CASE UNCHANGED vars
  BY <1>14, HealthFrame DEF vars
<1> QED BY <1>1, <1>2, <1>3, <1>4, <1>5, <1>6, <1>7, <1>8, <1>9, <1>10,
           <1>11, <1>12, <1>13, <1>14 DEF Next, Write, Read, Inspect, Clients

(* Outside a Merge the counts are those of the stored lists, and within    *)
(* one the stored list is the one about to be counted.                     *)
LEMMA HealthInvariant == Spec => []HealthInv
<1>1. Init => HealthInv
  <2> SUFFICES ASSUME Init PROVE HealthInv
    OBVIOUS
  <2>1. \A w \in Writers : wpc[w] # "health"
    BY DEF Init
  <2>2. \A s \in Sources : bySource[s] = NoItems /\ health[s] = NoHealth
    BY DEF Init, EmptyBoard
  <2>3. Len(NoItems) = 0
    BY DEF NoItems
  <2> QED BY <2>1, <2>2, <2>3 DEF HealthInv, HealthMatchesItems, NoHealth
<1>2. TypeInv /\ LockExclusion /\ HealthInv /\ [Next]_vars => HealthInv'
  BY HealthStep
<1> QED BY <1>1, <1>2, TypeInvariant, LockCorrect, PTL DEF Spec

(* ItemCount is the number of items held (store.go, Merge and SetError).   *)
THEOREM HealthCorrect == Spec => []HealthMatchesItems
<1>1. HealthInv => HealthMatchesItems
  BY DEF HealthInv
<1> QED BY <1>1, HealthInvariant, PTL

(* Health never reports a count from the middle of a Merge (store.go).     *)
THEOREM ReportCorrect == Spec => ReportMatchesItems
<1>1. TypeInv /\ LockExclusion /\ HealthInv =>
        [\A m \in Monitors : Report(m) =>
            \A s \in Sources : report'[m][s].count = Len(bySource[s])]_vars
  <2> SUFFICES ASSUME TypeInv, LockExclusion, HealthInv,
                      NEW m \in Monitors, Report(m), NEW s \in Sources
               PROVE  report'[m][s].count = Len(bySource[s])
    OBVIOUS
  <2>1. \A w \in Writers : wpc[w] # "health"
    BY DEF Report, LockExclusion, Inside, NoReaderInside, Clients
  <2>2. health[s].count = Len(bySource[s])
    BY <2>1 DEF HealthInv, HealthMatchesItems
  <2>3. report'[m] = health
    BY DEF Report, TypeInv, TypeOK
  <2> QED BY <2>2, <2>3
<1> QED BY <1>1, TypeInvariant, LockCorrect, HealthInvariant, PTL DEF ReportMatchesItems

-----------------------------------------------------------------------------
(* What a Merge has stored is a sound digest of what was fetched.          *)
THEOREM DigestCorrect == Spec => []DigestSound
<1>1. TypeInv /\ HealthInv => DigestSound
  <2> SUFFICES ASSUME TypeInv, HealthInv, NEW w \in Writers,
                      wpc[w] = "health", job[w].op = "merge"
               PROVE  LET fetched == Stamp(job[w].feed, job[w].src)
                          kept == bySource[job[w].src]
                      IN  /\ Elements(kept) \subseteq Elements(fetched)
                          /\ NoDuplicates(kept)
                          /\ NewestFirst(kept)
                          /\ Len(kept) <= PerSource
                          /\ \A i \in DOMAIN fetched :
                                  \/ fetched[i] \in Elements(kept)
                                  \/ \E j \in 1 .. (i - 1) : Duplicates(fetched[j], fetched[i])
                                  \/ OmitsOnlyOlder(kept, fetched[i], PerSource)
    BY DEF DigestSound
  <2> DEFINE fetched == Stamp(job[w].feed, job[w].src)
  <2>1. job[w].feed \in Feeds /\ job[w].src \in Sources
    BY DEF TypeInv, JobInv, Jobs
  <2>2. bySource[job[w].src] = Clean(fetched)
    BY DEF HealthInv
  <2>3. fetched \in Seq(Item)
    BY <2>1, StampedItems
  <2> HIDE DEF fetched
  <2>4. /\ Elements(Clean(fetched)) \subseteq Elements(fetched)
        /\ NoDuplicates(Clean(fetched))
        /\ NewestFirst(Clean(fetched))
        /\ Len(Clean(fetched)) <= PerSource
        /\ \A i \in DOMAIN fetched :
              \/ fetched[i] \in Elements(Clean(fetched))
              \/ \E j \in 1 .. (i - 1) : Duplicates(fetched[j], fetched[i])
              \/ OmitsOnlyOlder(Clean(fetched), fetched[i], PerSource)
    BY <2>3, CleanSound
  <2> QED BY <2>2, <2>4 DEF fetched
<1> QED BY <1>1, TypeInvariant, HealthInvariant, PTL

(* A reader's answer is a page of what it copied.                          *)
PageInv ==
    \A r \in Readers : Answered(r) =>
        page[r] \in Pages(copied[r]) \/ (Sources = {} /\ page[r] = NoItems)

(* Every step keeps that.                                                 *)
LEMMA PageStep ==
  ASSUME TypeInv, PageInv, [Next]_vars
  PROVE  PageInv'
<1> USE ClientsAssumption DEF TypeInv, TypeOK, PageInv, Answered, lockVars, readVars
<1>1. ASSUME NEW w \in Writers, NEW s \in Sources, NEW feed \in Feeds, CallMerge(w, s, feed)
      PROVE  PageInv'
  BY <1>1 DEF CallMerge
<1>2. ASSUME NEW w \in Writers, NEW s \in Sources, CallSetError(w, s) PROVE PageInv'
  BY <1>2 DEF CallSetError
<1>3. ASSUME NEW w \in Writers, Announce(w) \/ Enter(w) \/ StoreItems(w) PROVE PageInv'
  BY <1>3 DEF Announce, Enter, StoreItems
<1>4. ASSUME NEW w \in Writers, StoreHealth(w) PROVE PageInv'
  BY <1>4 DEF StoreHealth, Clients
<1>5. ASSUME NEW c \in Clients, RLock(c) PROVE PageInv'
  BY <1>5 DEF RLock, Clients
<1>6. ASSUME NEW r \in Readers, CallLatest(r) PROVE PageInv'
  BY <1>6 DEF CallLatest, Clients
<1>7. ASSUME NEW r \in Readers, NEW s \in Sources, Copy(r, s) PROVE PageInv'
  BY <1>7 DEF Copy, Clients
<1>8. ASSUME NEW r \in Readers, RUnlock(r) PROVE PageInv'
  BY <1>8 DEF RUnlock, Clients
<1>9. ASSUME NEW r \in Readers, Return(r) PROVE PageInv'
  BY <1>9 DEF Return, Clients
<1>10. ASSUME NEW m \in Monitors, CallHealth(m) \/ Report(m) PROVE PageInv'
  BY <1>10 DEF CallHealth, Report, Clients
<1>11. CASE UNCHANGED vars
  BY <1>11 DEF vars
<1> QED BY <1>1, <1>2, <1>3, <1>4, <1>5, <1>6, <1>7, <1>8, <1>9, <1>10, <1>11
        DEF Next, Write, Read, Inspect, Clients

(* Every page that Latest returned is sound.                               *)
THEOREM PageCorrect == Spec => []PageSound
<1>1. Init => PageInv
  BY DEF Init, PageInv, Answered
<1>2. TypeInv /\ PageInv /\ [Next]_vars => PageInv'
  BY PageStep
<1>3. TypeInv /\ PageInv => PageSound
  <2> SUFFICES ASSUME TypeInv, PageInv, NEW r \in Readers, Answered(r)
               PROVE  PageOf(page[r], copied[r])
    BY DEF PageSound, PageOf
  <2>1. CASE page[r] \in Pages(copied[r])
    <3>1. copied[r] \in Boards
      BY DEF TypeInv, TypeOK
    <3> QED BY <2>1, <3>1, PageOfBoard
  <2>2. CASE Sources = {} /\ page[r] = NoItems
    BY <2>2, LimitsAssumption
       DEF PageOf, Elements, NoDuplicates, NewestFirst, Stored, NoItems
  <2> QED BY <2>1, <2>2 DEF PageInv
<1> QED BY <1>1, <1>2, <1>3, TypeInvariant, PTL DEF Spec

-----------------------------------------------------------------------------
(* The store implements the board.                                         *)
Ready == {r \in Readers : rpc[r] = "unlocked"}

Snapshot ==
    [r \in Readers |-> IF rpc[r] = "unlocked" THEN copied[r] ELSE EmptyBoard]

(* A step that neither stores items nor changes a page, nor what a reader  *)
(* took out of the lock, is a stutter of the board.                        *)
LEMMA BoardStutter ==
  ASSUME UNCHANGED <<bySource, page>>,
         \A r \in Readers : rpc'[r] = "unlocked" <=> rpc[r] = "unlocked",
         \A r \in Readers : rpc[r] = "unlocked" => copied'[r] = copied[r]
  PROVE  UNCHANGED Board!vars
<1>1. Ready' = Ready
  BY DEF Ready
<1>2. Snapshot' = Snapshot
  BY DEF Snapshot
<1> QED BY <1>1, <1>2 DEF Board!vars, Ready, Snapshot

(* Every step of the store is a step of the board or a stutter.            *)
LEMMA BoardStep ==
  ASSUME TypeInv, SnapshotInv, [Next]_vars
  PROVE  [Board!Next]_(Board!vars)
<1> USE DEF TypeInv, TypeOK, lockVars, readVars
<1>1. ASSUME NEW w \in Writers, NEW s \in Sources, NEW feed \in Feeds, CallMerge(w, s, feed)
      PROVE  UNCHANGED Board!vars
  BY <1>1, BoardStutter DEF CallMerge
<1>2. ASSUME NEW w \in Writers, NEW s \in Sources, CallSetError(w, s)
      PROVE  UNCHANGED Board!vars
  BY <1>2, BoardStutter DEF CallSetError
<1>3. ASSUME NEW w \in Writers, Announce(w) \/ Enter(w) PROVE UNCHANGED Board!vars
  BY <1>3, BoardStutter DEF Announce, Enter
<1>4. ASSUME NEW w \in Writers, StoreItems(w) PROVE Board!Next
  <2> DEFINE s == job[w].src
  <2>1. s \in Sources /\ Clean(Stamp(job[w].feed, s)) \in Digests(s)
    BY <1>4, MergeBatch DEF StoreItems, JobInv, Jobs
  <2>2. Board!Publish(s)
    BY <1>4, <2>1 DEF StoreItems, Board!Publish
  <2> QED BY <2>1, <2>2 DEF Board!Next
<1>5. ASSUME NEW w \in Writers, StoreHealth(w) PROVE UNCHANGED Board!vars
  BY <1>5, BoardStutter DEF StoreHealth, Clients
<1>6. ASSUME NEW r \in Readers, CallLatest(r) PROVE Board!Next
  <2>1. \A q \in Readers : rpc'[q] = "unlocked" <=> rpc[q] = "unlocked"
    BY <1>6 DEF CallLatest, Clients
  <2>2. \A q \in Readers : rpc[q] = "unlocked" => copied'[q] = copied[q]
    BY <1>6 DEF CallLatest
  <2>3. Ready' = Ready /\ Snapshot' = Snapshot /\ r \notin Ready
    BY <1>6, <2>1, <2>2 DEF Ready, Snapshot, CallLatest
  <2>4. Board!Request(r)
    BY <1>6, <2>3 DEF CallLatest, Board!Request, Ready, Snapshot
  <2> QED BY <2>4 DEF Board!Next
<1>7. ASSUME NEW c \in Clients, RLock(c) PROVE UNCHANGED Board!vars
  BY <1>7, BoardStutter DEF RLock, Clients
<1>8. ASSUME NEW r \in Readers, NEW s \in Sources, Copy(r, s) PROVE UNCHANGED Board!vars
  BY <1>8, BoardStutter DEF Copy
<1>9. ASSUME NEW r \in Readers, RUnlock(r) PROVE Board!Next
  <2>1. copied[r] = bySource
    <3>1. \A s \in Sources : copied[r][s] = bySource[s]
      BY <1>9 DEF RUnlock, SnapshotInv, SnapshotWhole
    <3> QED BY <3>1 DEF Boards
  <2>2. \A q \in Readers : rpc'[q] = IF q = r THEN "unlocked" ELSE rpc[q]
    BY <1>9 DEF RUnlock, Clients
  <2>3. Ready' = Ready \cup {r} /\ r \notin Ready
    BY <1>9, <2>2 DEF RUnlock, Ready
  <2>4. Snapshot' = [Snapshot EXCEPT ![r] = bySource]
    BY <1>9, <2>1, <2>2 DEF RUnlock, Snapshot
  <2>5. Board!Take(r)
    BY <1>9, <2>3, <2>4 DEF RUnlock, Board!Take, Ready, Snapshot
  <2> QED BY <2>5 DEF Board!Next
<1>10. ASSUME NEW r \in Readers, Return(r) PROVE Board!Next
  <2>1. \A q \in Readers : rpc'[q] = IF q = r THEN "idle" ELSE rpc[q]
    BY <1>10 DEF Return, Clients
  <2>2. Ready' = Ready \ {r} /\ r \in Ready
    BY <1>10, <2>1 DEF Return, Ready
  <2>3. Snapshot' = [Snapshot EXCEPT ![r] = EmptyBoard] /\ Snapshot[r] = copied[r]
    <3>1. copied' = copied /\ rpc[r] = "unlocked"
      BY <1>10 DEF Return
    <3>2. \A q \in Readers : Snapshot'[q] = IF q = r THEN EmptyBoard ELSE Snapshot[q]
      BY <2>1, <3>1 DEF Snapshot
    <3>3. Snapshot[r] = copied[r]
      BY <3>1 DEF Snapshot
    <3> QED BY <3>2, <3>3 DEF Snapshot
  <2>4. Board!Show(r)
    BY <1>10, <2>2, <2>3 DEF Return, Board!Show, Ready, Snapshot
  <2> QED BY <2>4 DEF Board!Next
<1>11. ASSUME NEW m \in Monitors, CallHealth(m) \/ Report(m) PROVE UNCHANGED Board!vars
  <2>1. m \notin Readers
    BY ClientsAssumption
  <2> QED BY <1>11, <2>1, BoardStutter DEF CallHealth, Report, Clients
<1>12. CASE UNCHANGED vars
  BY <1>12, BoardStutter DEF vars
<1> QED BY <1>1, <1>2, <1>3, <1>4, <1>5, <1>6, <1>7, <1>8, <1>9, <1>10,
           <1>11, <1>12 DEF Next, Write, Read, Inspect, Clients

(* Readers and writers of the store see a board that changes in one step   *)
(* per Merge, and pages of one moment (store.go as a whole).               *)
THEOREM BoardImplemented == Spec => ImplementsBoard
<1>1. Init => Board!Init
  <2> SUFFICES ASSUME Init PROVE Board!Init
    OBVIOUS
  <2>1. \A r \in Readers : rpc[r] = "idle"
    BY DEF Init, Clients
  <2>2. Ready = {} /\ Snapshot = [r \in Readers |-> EmptyBoard]
    BY <2>1 DEF Ready, Snapshot
  <2> QED BY <2>2 DEF Init, Board!Init, Ready, Snapshot
<1>2. TypeInv /\ SnapshotInv /\ [Next]_vars => [Board!Next]_(Board!vars)
  BY BoardStep
<1> QED BY <1>1, <1>2, TypeInvariant, SnapshotInvariant, PTL
        DEF Spec, ImplementsBoard, Board!Spec
=============================================================================
