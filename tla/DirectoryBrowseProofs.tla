------------------------ MODULE DirectoryBrowseProofs ------------------------
(***************************************************************************)
(* What the links and forms of the directory list do to the query, for     *)
(* every dataset and every set of texts: the proofs.                       *)
(***************************************************************************)
EXTENDS DirectoryBrowse, FiniteSetTheorems, TLAPS

(* f numbers the positions that are kept, in their order.                  *)
Numbers(f, kept, n) ==
    /\ f \in [kept -> 1 .. n]
    /\ \A j, k \in kept : j < k => f[j] < f[k]
    /\ \A i \in 1 .. n : \E k \in kept : f[k] = i
    /\ \A k \in kept : Nth(kept, f[k]) = k

(* Every position that is kept is the i-th for one i.                      *)
LEMMA NthSound ==
  ASSUME NEW n \in Nat, NEW kept \in SUBSET (1 .. n)
  PROVE  /\ IsFiniteSet(kept) /\ Cardinality(kept) \in Nat
         /\ \E f : Numbers(f, kept, Cardinality(kept))
<1> DEFINE below(k) == {j \in kept : j < k}
           rank == [k \in kept |-> 1 + Cardinality(below(k))]
           size == Cardinality(kept)
<1>1. IsFiniteSet(kept) /\ size \in Nat
  <2>1. IsFiniteSet(1 .. n)
    BY FS_Interval
  <2> QED BY <2>1, FS_Subset, FS_CardinalityType
<1>2. ASSUME NEW k \in kept
      PROVE  /\ IsFiniteSet(below(k)) /\ Cardinality(below(k)) \in Nat
             /\ Cardinality(below(k) \cup {k}) = Cardinality(below(k)) + 1
  <2>1. below(k) \in SUBSET kept /\ k \notin below(k)
    OBVIOUS
  <2> HIDE DEF below
  <2>2. IsFiniteSet(below(k)) /\ Cardinality(below(k)) \in Nat
    BY <1>1, <2>1, FS_Subset, FS_CardinalityType
  <2> QED BY <2>1, <2>2, FS_AddElement
<1>3. ASSUME NEW j \in kept, NEW k \in kept, j < k PROVE rank[j] < rank[k]
  <2>1. below(j) \cup {j} \in SUBSET below(k)
    <3> SUFFICES ASSUME NEW m \in below(j) \cup {j} PROVE m \in kept /\ m < k
      OBVIOUS
    <3>1. m \in kept /\ (m = j \/ m < j) /\ m \in Nat /\ j \in Nat /\ k \in Nat
      OBVIOUS
    <3> QED BY <1>3, <3>1
  <2>2. IsFiniteSet(below(k)) /\ Cardinality(below(k)) \in Nat /\ Cardinality(below(j)) \in Nat
    BY <1>2
  <2>3. Cardinality(below(j) \cup {j}) = Cardinality(below(j)) + 1
    BY <1>2
  <2>4. rank[j] = 1 + Cardinality(below(j)) /\ rank[k] = 1 + Cardinality(below(k))
    OBVIOUS
  <2> HIDE DEF below, rank
  <2>5. Cardinality(below(j) \cup {j}) <= Cardinality(below(k))
    BY <2>1, <2>2, FS_Subset
  <2> QED BY <2>2, <2>3, <2>4, <2>5
<1>4. rank \in [kept -> 1 .. size]
  <2> SUFFICES ASSUME NEW k \in kept PROVE 1 + Cardinality(below(k)) \in 1 .. size
    OBVIOUS
  <2>1. below(k) \cup {k} \in SUBSET kept
    OBVIOUS
  <2>2. Cardinality(below(k)) \in Nat /\ Cardinality(below(k) \cup {k}) = Cardinality(below(k)) + 1
    BY <1>2
  <2> HIDE DEF below, size
  <2>3. Cardinality(below(k) \cup {k}) <= Cardinality(kept)
    BY <1>1, <2>1, FS_Subset
  <2> QED BY <1>1, <2>2, <2>3 DEF size
<1>5. ASSUME NEW j \in kept, NEW k \in kept, rank[j] = rank[k] PROVE j = k
  <2>1. j \in Nat /\ k \in Nat /\ rank[j] \in Nat /\ rank[k] \in Nat
    BY <1>1, <1>4
  <2> HIDE DEF rank
  <2> QED BY <1>3, <1>5, <2>1
<1> HIDE DEF below, rank
<1>6. rank \in Surjection(kept, 1 .. size)
  <2>1. rank \in Injection(kept, 1 .. size)
    BY <1>4, <1>5 DEF Injection, IsInjective
  <2>2. IsFiniteSet(1 .. size) /\ Cardinality(1 .. size) = size
    BY <1>1, FS_Interval
  <2> QED BY <2>1, <2>2, FS_Injection
<1>7. ASSUME NEW k \in kept PROVE Nth(kept, rank[k]) = k
  <2>1. \A j \in kept : Cardinality({m \in kept : m < j}) = rank[k] - 1 <=> rank[j] = rank[k]
    <3> SUFFICES ASSUME NEW j \in kept
                 PROVE  Cardinality({m \in kept : m < j}) = rank[k] - 1 <=> rank[j] = rank[k]
      OBVIOUS
    <3> DEFINE c == Cardinality({m \in kept : m < j})
    <3>1. c \in Nat /\ rank[j] = 1 + c
      BY <1>2 DEF rank, below
    <3>2. rank[k] \in Nat
      BY <1>1, <1>4
    <3> HIDE DEF c
    <3>3. c = rank[k] - 1 <=> rank[j] = rank[k]
      BY <3>1, <3>2
    <3> QED BY <3>3 DEF c
  <2> QED BY <1>5, <2>1 DEF Nth
<1>8. Numbers(rank, kept, size)
  BY <1>3, <1>4, <1>6, <1>7 DEF Numbers, Surjection
<1> QED BY <1>1, <1>8

(* If all positions are kept, the list stays as it is.                     *)
LEMMA NthOfAll ==
    ASSUME NEW n \in Nat, NEW i \in 1 .. n
    PROVE  Nth(1 .. n, i) = i
<1>1. ASSUME NEW k \in 1 .. n PROVE Cardinality({j \in 1 .. n : j < k}) = k - 1
  <2>1. {j \in 1 .. n : j < k} = 1 .. (k - 1)
    OBVIOUS
  <2>2. Cardinality(1 .. (k - 1)) = k - 1
    BY FS_Interval
  <2> QED BY <2>1, <2>2
<1>2. \A k \in 1 .. n : Cardinality({j \in 1 .. n : j < k}) = i - 1 <=> k = i
  BY <1>1
<1> QED BY <1>2 DEF Nth

-----------------------------------------------------------------------------
(* Texts.  Where two lists agree at the positions that are kept, so do the *)
(* sublists.                                                               *)
LEMMA SublistAgrees ==
    ASSUME NEW n \in Nat, NEW kept \in SUBSET (1 .. n), NEW s, NEW t,
           \A k \in kept : s[k] = t[k]
    PROVE  /\ Cardinality(kept) \in Nat
           /\ \A i \in 1 .. Cardinality(kept) : Nth(kept, i) \in kept
           /\ Sublist(s, kept) = Sublist(t, kept)
<1>1. Cardinality(kept) \in Nat /\ \E f : Numbers(f, kept, Cardinality(kept))
  BY NthSound
<1>2. \A i \in 1 .. Cardinality(kept) : Nth(kept, i) \in kept
  BY <1>1 DEF Numbers
<1> QED BY <1>1, <1>2 DEF Sublist

(* The front of a list: a set of positions with all those before them.     *)
LEMMA FrontSublist ==
    ASSUME NEW n \in Nat, NEW kept \in SUBSET (1 .. n),
           \A k \in kept : 1 .. k \subseteq kept
    PROVE  /\ Cardinality(kept) \in Nat
           /\ kept = 1 .. Cardinality(kept)
           /\ \A i \in kept : Nth(kept, i) = i
<1> DEFINE size == Cardinality(kept)
<1>1. IsFiniteSet(kept) /\ size \in Nat /\ \E f : Numbers(f, kept, size)
  BY NthSound
<1>2. ASSUME NEW k \in kept PROVE k \in 1 .. size
  <2>1. IsFiniteSet(1 .. k) /\ Cardinality(1 .. k) = k
    BY FS_Interval
  <2>2. k <= size
    BY <1>1, <2>1, FS_Subset
  <2> QED BY <1>1, <2>2
<1>3. ASSUME NEW i \in 1 .. size PROVE i \in kept
  <2> SUFFICES ASSUME i \notin kept PROVE FALSE
    OBVIOUS
  <2>1. kept \subseteq 1 .. (i - 1)
    <3> SUFFICES ASSUME NEW k \in kept, k >= i PROVE FALSE
      OBVIOUS
    <3>1. i \in 1 .. k
      BY <1>1
    <3> QED BY <3>1
  <2> HIDE DEF size
  <2>2. i \in Nat /\ i >= 1 /\ i <= size
    BY <1>1
  <2>3. IsFiniteSet(1 .. (i - 1)) /\ Cardinality(1 .. (i - 1)) = i - 1
    BY <2>2, FS_Interval
  <2>4. Cardinality(kept) <= Cardinality(1 .. (i - 1))
    BY <2>1, <2>3, FS_Subset
  <2>5. size <= i - 1
    BY <2>3, <2>4 DEF size
  <2> QED BY <1>1, <2>2, <2>5
<1> HIDE DEF size
<1>4. kept = 1 .. size
  BY <1>2, <1>3
<1>5. \A i \in kept : Nth(kept, i) = i
  BY <1>1, <1>4, NthOfAll
<1> QED BY <1>1, <1>4, <1>5 DEF size

(* A trimmed text is a text, and begins with a letter.                     *)
LEMMA TrimSound ==
    ASSUME NEW S, NEW t \in Seq(S)
    PROVE  /\ Trim(t) \in Seq(S)
           /\ Trim(t) # NoText => Trim(t)[1] # Blank
<1> DEFINE kept == {i \in DOMAIN t : \E j, k \in Letters(t) : j <= i /\ i <= k}
           size == Cardinality(kept)
<1>1. Len(t) \in Nat /\ DOMAIN t = 1 .. Len(t) /\ kept \in SUBSET (1 .. Len(t))
  OBVIOUS
<1>2. Letters(t) \subseteq kept
  BY <1>1 DEF Letters
<1>3. /\ size \in Nat
      /\ \A i \in 1 .. size : Nth(kept, i) \in kept
  <2> HIDE DEF kept
  <2> QED BY <1>1, SublistAgrees
<1>4. PICK f : Numbers(f, kept, size)
  <2> HIDE DEF kept
  <2> QED BY <1>1, NthSound
<1>5. Trim(t) = [i \in 1 .. size |-> t[Nth(kept, i)]]
  BY DEF Trim, Sublist
<1>6. Trim(t) \in Seq(S)
  <2>1. \A i \in 1 .. size : t[Nth(kept, i)] \in S
    BY <1>1, <1>3
  <2> HIDE DEF kept, size
  <2> QED BY <1>3, <1>5, <2>1
<1>7. ASSUME Trim(t) # NoText PROVE Trim(t)[1] # Blank
  <2>1. 1 \in 1 .. size
    <3> HIDE DEF kept, size
    <3> QED BY <1>3, <1>5, <1>7 DEF NoText
  <2>2. PICK k \in kept : f[k] = 1 /\ Nth(kept, 1) = k
    <3> HIDE DEF kept, size
    <3> QED BY <1>4, <2>1 DEF Numbers
  <2>3. PICK j \in Letters(t) : j <= k
    OBVIOUS
  <2>4. j = k
    <3> SUFFICES ASSUME j < k PROVE FALSE
      BY <1>1, <1>2, <2>3
    <3>1. j \in kept /\ f[j] < f[k] /\ f[j] \in 1 .. size
      BY <1>2, <1>4 DEF Numbers
    <3> HIDE DEF kept, size
    <3> QED BY <1>3, <2>2, <3>1
  <2>5. Trim(t)[1] = t[k]
    <3> HIDE DEF kept, size
    <3> QED BY <1>5, <2>1, <2>2
  <2> QED BY <2>3, <2>4, <2>5 DEF Letters
<1> QED BY <1>6, <1>7

(* What is left of it after the cut is short and begins with that letter.  *)
LEMMA CutSound ==
    ASSUME NEW S, NEW t \in Seq(S)
    PROVE  LET cut == Cap(Trim(t)) IN
           /\ cut \in Seq(S) /\ Len(cut) <= MaxQueryLen
           /\ cut # NoText => 1 \in Letters(cut)
<1> DEFINE trimmed == Trim(t)
           cut == Cap(trimmed)
           n == IF Len(trimmed) > MaxQueryLen THEN MaxQueryLen ELSE Len(trimmed)
<1>1. trimmed \in Seq(S) /\ (trimmed # NoText => trimmed[1] # Blank)
  BY TrimSound
<1> HIDE DEF trimmed
<1>2. n \in Nat /\ n <= Len(trimmed) /\ n <= MaxQueryLen
  BY <1>1, SearchAssumption
<1>3. cut = SubSeq(trimmed, 1, n)
  BY DEF Cap
<1> HIDE DEF cut
<1>4. trimmed # NoText => n >= 1
  BY <1>1, SearchAssumption DEF NoText
<1> HIDE DEF n
<1>5. /\ cut \in Seq(S) /\ Len(cut) = n
      /\ \A i \in 1 .. n : cut[i] = trimmed[i]
  BY <1>1, <1>2, <1>3
<1>6. ASSUME trimmed # NoText PROVE 1 \in Letters(cut)
  BY <1>1, <1>2, <1>4, <1>5, <1>6 DEF Letters
<1>7. trimmed = NoText => cut = NoText
  BY <1>2, <1>5 DEF NoText
<1> QED BY <1>2, <1>5, <1>6, <1>7 DEF cut, trimmed

(* Trimmed and cut again it loses at most blanks at its end.               *)
LEMMA CutTrimmed ==
    ASSUME NEW S, NEW cut \in Seq(S), Len(cut) <= MaxQueryLen,
           cut # NoText => 1 \in Letters(cut)
    PROVE  LET again == Cap(Trim(cut)) IN
           /\ Letters(again) = Letters(cut)
           /\ \A i \in Letters(cut) : again[i] = cut[i]
<1> DEFINE kept == {i \in DOMAIN cut : \E j, k \in Letters(cut) : j <= i /\ i <= k}
           size == Cardinality(kept)
           trimmed == Trim(cut)
<1>1. Len(cut) \in Nat /\ DOMAIN cut = 1 .. Len(cut) /\ kept \in SUBSET (1 .. Len(cut))
  OBVIOUS
<1>2. Letters(cut) \subseteq kept
  BY <1>1 DEF Letters
<1>3. ASSUME NEW k \in kept PROVE 1 .. k \subseteq kept
  <2>1. cut # NoText /\ 1 \in Letters(cut)
    BY <1>1 DEF NoText
  <2>2. PICK m \in Letters(cut) : k <= m
    OBVIOUS
  <2>3. m \in 1 .. Len(cut)
    BY <1>1 DEF Letters
  <2> QED BY <1>1, <2>1, <2>2, <2>3
<1>4. trimmed = [i \in 1 .. size |-> cut[Nth(kept, i)]]
  BY DEF Trim, Sublist
<1>5. trimmed \in Seq(S)
  BY TrimSound
<1> HIDE DEF kept, trimmed
<1>6. size \in Nat /\ kept = 1 .. size /\ \A i \in kept : Nth(kept, i) = i
  BY <1>1, <1>3, FrontSublist
<1>7. size <= Len(cut)
  <2> DEFINE m == Len(cut)
  <2>1. m \in Nat /\ kept \in SUBSET (1 .. m)
    BY <1>1
  <2> HIDE DEF m
  <2>2. IsFiniteSet(1 .. m) /\ Cardinality(1 .. m) = m
    BY <2>1, FS_Interval
  <2> QED BY <2>1, <2>2, FS_Subset DEF m
<1> HIDE DEF size
<1>8. trimmed = [i \in 1 .. size |-> cut[i]] /\ Len(trimmed) = size
  BY <1>4, <1>5, <1>6
<1>9. Cap(trimmed) = trimmed
  <2>1. ~(Len(trimmed) > MaxQueryLen)
    BY <1>1, <1>6, <1>7, <1>8, SearchAssumption
  <2>2. Cap(trimmed) = SubSeq(trimmed, 1, Len(trimmed))
    BY <2>1 DEF Cap
  <2> QED BY <1>5, <2>2
<1>10. Letters(trimmed) = Letters(cut)
  BY <1>1, <1>2, <1>6, <1>7, <1>8 DEF Letters
<1>11. \A i \in Letters(cut) : trimmed[i] = cut[i]
  BY <1>2, <1>6, <1>8
<1> QED BY <1>9, <1>10, <1>11 DEF trimmed

(* The terms depend on the letters only.                                   *)
LEMMA FieldsAgree ==
    ASSUME NEW S, NEW t \in Seq(S), NEW u, Letters(u) = Letters(t),
           \A i \in Letters(t) : u[i] = t[i]
    PROVE  Fields(u) = Fields(t)
<1> DEFINE word(x) == [i \in Letters(x) |-> Sublist(x, RunFrom(x, i))]
<1>1. Len(t) \in Nat /\ Letters(t) \in SUBSET (1 .. Len(t))
  BY DEF Letters
<1>2. Starts(u) = Starts(t) /\ Starts(t) \in SUBSET (1 .. Len(t))
  BY <1>1 DEF Starts
<1>3. ASSUME NEW i \in Letters(t) PROVE Sublist(u, RunFrom(u, i)) = Sublist(t, RunFrom(t, i))
  <2>1. RunFrom(u, i) = RunFrom(t, i) /\ RunFrom(t, i) \in SUBSET Letters(t)
    BY DEF RunFrom
  <2> QED BY <1>1, <2>1, SublistAgrees
<1>4. word(u) = word(t)
  BY <1>3
<1> QED BY <1>2, <1>4 DEF Fields

(* The text that the server puts in a link is read as the same terms,      *)
(* though it was cut: parseSearch of what parseSearch left.                *)
THEOREM SearchAgain ==
    ASSUME NEW S, NEW t \in Seq(S)
    PROVE  SearchSpec(SearchSpec(t).raw).terms = SearchSpec(t).terms
<1> DEFINE cut == Cap(Trim(t))
<1>1. cut \in Seq(S) /\ Len(cut) <= MaxQueryLen /\ (cut # NoText => 1 \in Letters(cut))
  BY CutSound
<1> HIDE DEF cut
<1>2. Fields(Cap(Trim(cut))) = Fields(cut)
  BY <1>1, CutTrimmed, FieldsAgree
<1> QED BY <1>2 DEF SearchSpec, cut

(* Nothing is no search.                                                   *)
LEMMA SearchNothing ==
    SearchSpec(NoText).raw = NoText /\ SearchSpec(NoText).terms = <<>>
<1>1. Letters(NoText) = {} /\ Cardinality({}) = 0
  BY FS_EmptySet DEF Letters, NoText
<1>2. Trim(NoText) = NoText
  BY <1>1 DEF Trim, Sublist, NoText
<1>3. Cap(NoText) = NoText
  BY SearchAssumption DEF Cap, NoText
<1>4. Starts(NoText) = {}
  BY <1>1 DEF Starts
<1>5. Fields(NoText) = <<>>
  BY <1>1, <1>4 DEF Fields, Sublist
<1>6. FirstTerms(<<>>) = <<>>
  BY SearchAssumption DEF FirstTerms
<1> QED BY <1>2, <1>3, <1>5, <1>6 DEF SearchSpec

-----------------------------------------------------------------------------
(* No choice has the key q.                                                *)
LEMMA ChoiceIsNotText ==
    ASSUME NEW t
    PROVE  <<"q", t>> \notin Choices
BY DEF Choices, Facets

LEMMA TypedIsText ==
    ASSUME NEW qry
    PROVE  Typed(qry) \in Texts
BY BrowseAssumption DEF Typed

LEMMA Understood ==
    ASSUME NEW qry
    PROVE  /\ Raw(qry) = SearchSpec(Typed(qry)).raw
           /\ Terms(qry) = SearchSpec(Typed(qry)).terms
BY TypedIsText DEF Raw, Terms, ParseSearch

LEMMA RawIsText ==
    ASSUME NEW qry
    PROVE  Raw(qry) \in Texts
BY TypedIsText, Understood, BrowseAssumption DEF SearchSpec

(* Besides choices the query has one text: that is the one that is read.   *)
LEMMA TypedOne ==
    ASSUME NEW S, S \subseteq Choices, NEW t \in Texts
    PROVE  Typed({<<"q", t>>} \cup S) = t
<1> DEFINE qry == {<<"q", t>>} \cup S
<1>1. \A u \in Texts : <<"q", u>> \in qry <=> u = t
  BY ChoiceIsNotText
<1> QED BY <1>1 DEF Typed

LEMMA TypedNone ==
    ASSUME NEW S, S \subseteq Choices
    PROVE  Typed(S) = NoText
BY ChoiceIsNotText DEF Typed

(* A search that is parsed again yields the same terms.                    *)
LEMMA TermsAgain ==
    ASSUME NEW qry, NEW S, S \subseteq Choices
    PROVE  Terms({<<"q", Raw(qry)>>} \cup S) = Terms(qry)
<1> DEFINE again == {<<"q", Raw(qry)>>} \cup S
<1>1. Typed(again) = Raw(qry)
  BY RawIsText, TypedOne
<1>2. Typed(qry) \in Seq({Typed(qry)[i] : i \in DOMAIN Typed(qry)})
  BY TypedIsText, BrowseAssumption
<1>3. SearchSpec(SearchSpec(Typed(qry)).raw).terms = SearchSpec(Typed(qry)).terms
  BY <1>2, SearchAgain
<1> HIDE DEF again
<1> QED BY <1>1, <1>3, Understood DEF again

LEMMA TermsNone ==
    ASSUME NEW S, S \subseteq Choices
    PROVE  Terms(S) = <<>>
BY TypedNone, Understood, SearchNothing

-----------------------------------------------------------------------------
LEMMA ChosenPill ==
    ASSUME NEW pill \in Pairs, pill \in Selection(query), RemovePill(pill)
    PROVE  /\ Selection(query') = Selection(query) \ {pill}
           /\ Terms(query') = Terms(query)
<1> DEFINE rest == Selection(query) \ {pill}
<1>1. rest \subseteq Choices
  BY DEF Selection
<1>2. pill # <<"q", Raw(query)>>
  BY ChoiceIsNotText DEF Selection
<1>3. CASE Searching(query)
  <2>1. query' = {<<"q", Raw(query)>>} \cup rest
    BY <1>2, <1>3 DEF RemovePill, RemoveURL, Canonical, Values
  <2>2. Terms(query') = Terms(query)
    BY <1>1, <2>1, TermsAgain
  <2>3. Selection(query') = rest
    BY <1>1, <2>1, ChoiceIsNotText DEF Selection
  <2> QED BY <2>2, <2>3
<1>4. CASE ~Searching(query)
  <2>1. query' = rest
    BY <1>4 DEF RemovePill, RemoveURL, Canonical, Values
  <2>2. Terms(query') = Terms(query)
    BY <1>1, <1>4, <2>1, TermsNone DEF Searching
  <2>3. Selection(query') = rest
    BY <1>1, <2>1 DEF Selection
  <2> QED BY <2>2, <2>3
<1> QED BY <1>3, <1>4

LEMMA TextPill ==
    ASSUME NEW pill \in Pairs, pill \notin Selection(query), RemovePill(pill)
    PROVE  /\ pill = <<"q", Raw(query)>>
           /\ Selection(query') = Selection(query)
           /\ Terms(query') = <<>>
<1>1. pill = <<"q", Raw(query)>>
  BY DEF RemovePill, Pills, Canonical, Values
<1>2. query' = Selection(query)
  BY <1>1, ChoiceIsNotText DEF RemovePill, Pills, RemoveURL, Canonical, Values, Selection
<1>3. Selection(query) \subseteq Choices
  BY DEF Selection
<1>4. Terms(query') = <<>>
  BY <1>2, <1>3, TermsNone
<1>5. Selection(query') = Selection(query)
  BY <1>2, <1>3 DEF Selection
<1> QED BY <1>1, <1>4, <1>5

(* A pill's link takes away its own choice or the search, and leaves the   *)
(* rest: removeURL over the canonical query that stateValues builds.       *)
THEOREM PillRemoval == Spec => PillRemovesOne
<1>1. ASSUME NEW pill \in Pairs, RemovePill(pill)
      PROVE  /\ Selection(query') = Selection(query) \ {pill}
             /\ Terms(query') = IF pill[1] = "q" THEN <<>> ELSE Terms(query)
  <2>1. CASE pill \in Selection(query)
    <3>1. pill[1] # "q"
      BY <2>1 DEF Selection, Choices, Facets
    <3> QED BY <1>1, <2>1, <3>1, ChosenPill
  <2>2. CASE pill \notin Selection(query)
    <3>1. pill[1] = "q"
      BY <1>1, <2>2, TextPill
    <3> QED BY <1>1, <2>2, <3>1, TextPill
  <2> QED BY <2>1, <2>2
<1>2. \A pill \in Pairs : RemovePill(pill) =>
          /\ Selection(query') = Selection(query) \ {pill}
          /\ Terms(query') = IF pill[1] = "q" THEN <<>> ELSE Terms(query)
  BY <1>1
<1> QED BY <1>2, PTL DEF Spec, PillRemovesOne

-----------------------------------------------------------------------------
LEMMA SearchKeeps ==
    ASSUME NEW text \in Texts, SubmitSearch(text)
    PROVE  Selection(query') = Selection(query)
BY ChoiceIsNotText DEF SubmitSearch, FacetHiddenInputs, Values, Selection

LEMMA ApplyKeeps ==
    ASSUME NEW box \in Boxes, ApplyFilters(box)
    PROVE  /\ Terms(query') = Terms(query)
           /\ Checked(query') = Toggled(Checked(query), box)
<1> DEFINE sent == Toggled(Checked(query), box)
<1>1. sent \subseteq Boxes /\ sent \subseteq Choices
  BY DEF Toggled, Checked, Boxes
<1>2. query' = {<<"q", Raw(query)>>} \cup sent
  BY DEF ApplyFilters
<1>3. Terms(query') = Terms(query)
  BY <1>1, <1>2, TermsAgain
<1>4. Checked(query') = sent
  BY <1>1, <1>2, ChoiceIsNotText DEF Checked, Selection
<1> QED BY <1>3, <1>4

(* The search form keeps the selection, and the sidebar's form keeps the   *)
(* search and every box but the one that was clicked.                      *)
THEOREM FormsKeep == Spec => FormsKeepTheRest
<1>1. ASSUME NEW text \in Texts, SubmitSearch(text)
      PROVE  Selection(query') = Selection(query)
  BY <1>1, SearchKeeps
<1>2. ASSUME NEW box \in Boxes, ApplyFilters(box)
      PROVE  /\ Terms(query') = Terms(query)
             /\ Checked(query') = Toggled(Checked(query), box)
  BY <1>2, ApplyKeeps
<1>3. /\ \A text \in Texts : SubmitSearch(text) =>
             Selection(query') = Selection(query)
      /\ \A box \in Boxes : ApplyFilters(box) =>
             /\ Terms(query') = Terms(query)
             /\ Checked(query') = Toggled(Checked(query), box)
  BY <1>1, <1>2
<1> QED BY <1>3, PTL DEF Spec, FormsKeepTheRest

-----------------------------------------------------------------------------
LEMMA OneText ==
    ASSUME NEW S, S \subseteq Choices \cup Strays, NEW t \in Texts
    PROVE  LET qry == {<<"q", t>>} \cup S
           IN  /\ qry \subseteq Pairs
               /\ \A u, v \in Texts : {<<"q", u>>, <<"q", v>>} \subseteq qry => u = v
<1>1. \A u : <<"q", u>> \notin S
  BY ChoiceIsNotText, BrowseAssumption DEF Facets
<1>2. {<<"q", t>>} \cup S \subseteq Pairs
  BY DEF Pairs
<1> QED BY <1>1, <1>2

(* The query keeps known keys and a single text.                           *)
THEOREM TypeCorrect == Spec => []TypeOK
<1>1. Init => TypeOK
  BY DEF Init, TypeOK
<1>2. TypeOK /\ [Next]_query => TypeOK'
  <2> SUFFICES ASSUME TypeOK, [Next]_query PROVE TypeOK'
    OBVIOUS
  <2>1. CASE Visit
    BY <2>1, OneText DEF Visit, TypeOK
  <2>2. ASSUME NEW pill \in Pairs, RemovePill(pill) PROVE TypeOK'
    <3>1. query' \subseteq {<<"q", Raw(query)>>} \cup Selection(query)
      BY <2>2 DEF RemovePill, RemoveURL, Canonical, Values
    <3>2. Selection(query) \subseteq Choices \cup Strays
      BY DEF Selection
    <3> QED BY <3>1, <3>2, OneText, RawIsText DEF TypeOK
  <2>3. CASE Clear
    BY <2>3 DEF Clear, TypeOK
  <2>4. ASSUME NEW text \in Texts, SubmitSearch(text) PROVE TypeOK'
    <3>1. Selection(query) \subseteq Choices \cup Strays
      BY DEF Selection
    <3> QED BY <2>4, <3>1, OneText DEF SubmitSearch, FacetHiddenInputs, Values, TypeOK
  <2>5. ASSUME NEW box \in Boxes, ApplyFilters(box) PROVE TypeOK'
    <3>1. Toggled(Checked(query), box) \subseteq Choices \cup Strays
      BY DEF Toggled, Checked, Boxes
    <3> QED BY <2>5, <3>1, OneText, RawIsText DEF ApplyFilters, TypeOK
  <2>6. CASE UNCHANGED query
    BY <2>6 DEF TypeOK
  <2> QED BY <2>1, <2>2, <2>3, <2>4, <2>5, <2>6 DEF Next
<1> QED BY <1>1, <1>2, PTL DEF Spec
-----------------------------------------------------------------------------
(* The rows are the entries that match, each once.                         *)
LEMMA RowsSound ==
    ASSUME NEW qry
    PROVE  /\ Len(Rows(qry)) = Cardinality(Matching(qry))
           /\ DOMAIN Rows(qry) = 1 .. Cardinality(Matching(qry))
           /\ \A n \in DOMAIN Rows(qry) : \E k \in Matching(qry) : Rows(qry)[n] = Resources[k]
           /\ \A k \in Matching(qry) : \E n \in DOMAIN Rows(qry) : Rows(qry)[n] = Resources[k]
<1> DEFINE kept == Matching(qry)
           rows == Rows(qry)
<1>1. Len(Resources) \in Nat /\ kept \in SUBSET (1 .. Len(Resources))
  BY ResourcesAssumption DEF Matching
<1> HIDE DEF kept
<1>2. Cardinality(kept) \in Nat /\ \E f : Numbers(f, kept, Cardinality(kept))
  BY <1>1, NthSound
<1>3. PICK f : Numbers(f, kept, Cardinality(kept))
  BY <1>2
<1>4. rows = [n \in 1 .. Cardinality(kept) |-> Resources[Nth(kept, n)]]
  BY DEF Rows, Sublist, kept
<1> HIDE DEF rows
<1>5. DOMAIN rows = 1 .. Cardinality(kept) /\ Len(rows) = Cardinality(kept)
  BY <1>2, <1>4
<1>6. ASSUME NEW n \in DOMAIN rows PROVE \E k \in kept : rows[n] = Resources[k]
  BY <1>3, <1>4, <1>5 DEF Numbers
<1>7. ASSUME NEW k \in kept PROVE \E n \in DOMAIN rows : rows[n] = Resources[k]
  <2>1. f[k] \in DOMAIN rows /\ rows[f[k]] = Resources[k]
    BY <1>3, <1>4, <1>5 DEF Numbers
  <2> QED BY <2>1
<1> QED BY <1>5, <1>6, <1>7 DEF kept, rows

(* What matches more shows more.                                           *)
LEMMA MoreRows ==
    ASSUME NEW narrow, NEW wide, Matching(narrow) \subseteq Matching(wide)
    PROVE  RowsSubset(narrow, wide)
<1> SUFFICES ASSUME NEW k \in DOMAIN Rows(narrow)
             PROVE  \E n \in DOMAIN Rows(wide) : Rows(wide)[n] = Rows(narrow)[k]
  BY DEF RowsSubset
<1>1. PICK m \in Matching(narrow) : Rows(narrow)[k] = Resources[m]
  BY RowsSound
<1>2. m \in Matching(wide)
  OBVIOUS
<1>3. PICK n \in DOMAIN Rows(wide) : Rows(wide)[n] = Resources[m]
  BY <1>2, RowsSound
<1> QED BY <1>1, <1>3

(* A facet has finitely many values.                                       *)
LEMMA KnownFinite ==
    ASSUME NEW facet \in Facets
    PROVE  IsFiniteSet(Known(facet))
<1>1. IsFiniteSet(PresentCategories)
  <2> DEFINE f == [k \in 1 .. Len(Resources) |-> Resources[k].category]
  <2>1. Len(Resources) \in Nat /\ DOMAIN Resources = 1 .. Len(Resources)
    BY ResourcesAssumption
  <2>2. IsFiniteSet(1 .. Len(Resources))
    BY <2>1, FS_Interval
  <2>3. f \in Surjection(1 .. Len(Resources), PresentCategories)
    BY <2>1 DEF PresentCategories, Surjection
  <2> HIDE DEF f
  <2> QED BY <2>2, <2>3, FS_Surjection
<1>2. IsFiniteSet(Statuses)
  <2>1. Statuses = ((({} \cup {"verified"}) \cup {"admitted"}) \cup {"questionable"}) \cup {"scam"}
    BY DEF Statuses
  <2> QED BY <2>1, FS_EmptySet, FS_AddElement
<1>3. IsFiniteSet(AccessTypes) /\ IsFiniteSet({"no", "yes"})
  <2>1. AccessTypes = (({} \cup {"clearnet"}) \cup {"tor"}) \cup {"i2p"}
    BY DEF AccessTypes
  <2>2. IsFiniteSet(AccessTypes)
    BY <2>1, FS_EmptySet, FS_AddElement
  <2>3. IsFiniteSet({"no", "yes"})
    <3>1. IsFiniteSet({"no"})
      BY FS_Singleton
    <3>2. IsFiniteSet({"no"} \cup {"yes"})
      BY <3>1, FS_AddElement
    <3>3. {"no"} \cup {"yes"} = {"no", "yes"}
      OBVIOUS
    <3> QED BY <3>2, <3>3, Zenon
  <2> QED BY <2>2, <2>3
<1> QED BY <1>1, <1>2, <1>3 DEF Known, Facets

(* An entry that matched still matches when a facet has lost its only      *)
(* choice, or the search is gone.                                          *)
LEMMA RemovalWidens ==
    ASSUME NEW pill \in Pairs, RemovePill(pill), LastOfFacet(query, pill)
    PROVE  Matching(query) \subseteq Matching(query')
<1>1. CASE pill \notin Selection(query)
  <2>1. Selection(query') = Selection(query) /\ Terms(query') = <<>>
    BY <1>1, TextPill
  <2>2. \A facet \in Facets : Chosen(query', facet) = Chosen(query, facet)
    BY <2>1 DEF Chosen
  <2>3. \A r : MatchesFacets(r, query) => MatchesFacets(r, query')
    BY <2>2 DEF MatchesFacets
  <2>4. \A r : MatchesSearch(r, query')
    BY <2>1 DEF MatchesSearch
  <2> QED BY <2>3, <2>4 DEF Matching
<1>2. CASE pill \in Selection(query)
  <2>1. Selection(query') = Selection(query) \ {pill} /\ Terms(query') = Terms(query)
    BY <1>2, ChosenPill
  <2>2. PICK facet \in Facets : \E v \in Known(facet) : pill = <<facet, v>>
    BY <1>2 DEF Selection, Choices
  <2>3. PICK v \in Known(facet) : pill = <<facet, v>>
    BY <2>2
  <2>4. Cardinality(Chosen(query, facet)) = 1
    BY <2>3 DEF LastOfFacet, Facets
  <2>5. IsFiniteSet(Chosen(query, facet))
    BY KnownFinite, FS_Subset DEF Chosen
  <2>6. v \in Chosen(query, facet)
    BY <1>2, <2>3 DEF Chosen
  <2>7. Chosen(query, facet) = {v}
    BY <2>4, <2>5, <2>6, FS_Singleton
  <2>8. Chosen(query', facet) = {}
    BY <2>1, <2>3, <2>7 DEF Chosen
  <2>9. \A other \in Facets : other # facet => Chosen(query', other) = Chosen(query, other)
    BY <2>1, <2>3 DEF Chosen
  <2>10. \A r : MatchesFacets(r, query) => MatchesFacets(r, query')
    BY <2>8, <2>9 DEF MatchesFacets
  <2>11. \A r : MatchesSearch(r, query) => MatchesSearch(r, query')
    BY <2>1 DEF MatchesSearch
  <2> QED BY <2>10, <2>11 DEF Matching
<1> QED BY <1>1, <1>2

(* Taking away the search or the last choice of a facet loses no row.      *)
THEOREM RemovalCorrect == Spec => RemovingWidens
<1>1. ASSUME NEW pill \in Pairs, RemovePill(pill), LastOfFacet(query, pill)
      PROVE  RowsSubset(query, query')
  BY <1>1, RemovalWidens, MoreRows
<1>2. \A pill \in Pairs : (RemovePill(pill) /\ LastOfFacet(query, pill)) => RowsSubset(query, query')
  BY <1>1
<1> QED BY <1>2, PTL DEF Spec, RemovingWidens

-----------------------------------------------------------------------------
(* A box that is checked alone matches what its number counts.             *)
LEMMA BoxAlone ==
    ASSUME NEW box \in Boxes
    PROVE  Matching({box}) = {k \in DOMAIN Resources : box[2] \in ValuesOf(Resources[k], box[1])}
<1>0. PICK facet \in Facets : \E v \in Known(facet) : box = <<facet, v>>
  BY DEF Boxes, Choices
<1>1. PICK v \in Known(facet) : box = <<facet, v>>
  BY <1>0
<1>2. {box} \subseteq Choices /\ Selection({box}) = {box}
  BY DEF Boxes, Selection
<1>3. Terms({box}) = <<>>
  BY <1>2, TermsNone
<1>4. \A r : MatchesSearch(r, {box})
  BY <1>3 DEF MatchesSearch
<1>5. Chosen({box}, facet) = {v}
  BY <1>1, <1>2 DEF Chosen
<1>6. \A other \in Facets : other # facet => Chosen({box}, other) = {}
  BY <1>1, <1>2 DEF Chosen
<1>7. \A r : MatchesFacets(r, {box}) <=> v \in ValuesOf(r, facet)
  BY <1>5, <1>6 DEF MatchesFacets
<1> QED BY <1>1, <1>4, <1>7 DEF Matching

(* The number beside a box is the number of rows that it shows alone.      *)
THEOREM CountsCorrect == Spec => []CountsHonest
<1>1. CountsHonest
  BY BoxAlone, RowsSound DEF CountsHonest, Count
<1> QED BY <1>1, PTL

(* Without a choice and without a search the list is the whole store.      *)
LEMMA AllRows ==
    ASSUME NEW qry, Selection(qry) = {}, ~Searching(qry)
    PROVE  Rows(qry) = Resources
<1>1. Terms(qry) = <<>>
  BY DEF Searching
<1>2. \A r : MatchesSearch(r, qry)
  BY <1>1 DEF MatchesSearch
<1>3. \A r : MatchesFacets(r, qry)
  BY DEF MatchesFacets, Chosen
<1>4. /\ Len(Resources) \in Nat /\ DOMAIN Resources = 1 .. Len(Resources)
      /\ Resources = [k \in 1 .. Len(Resources) |-> Resources[k]]
  BY ResourcesAssumption
<1>5. Matching(qry) = 1 .. Len(Resources)
  BY <1>2, <1>3, <1>4 DEF Matching
<1>6. Cardinality(1 .. Len(Resources)) = Len(Resources)
  BY <1>4, FS_Interval
<1>7. Rows(qry) = [n \in 1 .. Len(Resources) |-> Resources[Nth(1 .. Len(Resources), n)]]
  BY <1>5, <1>6 DEF Rows, Sublist
<1> QED BY <1>4, <1>7, NthOfAll

(* A list that lacks an entry has a pill to remove.                        *)
THEOREM PillsCorrect == Spec => []ShorterListHasPills
<1>1. Filtered(query) <=> Pills(query) # {}
  BY DEF Filtered, Pills, Canonical, Values
<1>2. Pills(query) = {} => Rows(query) = Resources
  BY AllRows DEF Pills, Canonical, Values
<1> QED BY <1>1, <1>2, PTL DEF ShorterListHasPills
=============================================================================
