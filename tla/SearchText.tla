------------------------------ MODULE SearchText ------------------------------
(***************************************************************************)
(* What parseSearch of internal/web/directory_filters.go makes of the text *)
(* in q.  A text is a sequence of characters, all white space is Blank and *)
(* the case of letters is left out: terms are lowered in the same way      *)
(* whenever the text is read.                                              *)
(***************************************************************************)
EXTENDS Sublists, Sequences

CONSTANTS Blank, MaxQueryLen, MaxTerms

ASSUME SearchAssumption == MaxQueryLen \in Nat \ {0} /\ MaxTerms \in Nat \ {0}

NoText == <<>>

Letters(t) == {i \in DOMAIN t : t[i] # Blank}

(* strings.TrimSpace: what has no letter before it, or none behind it, goes.*)
Trim(t) ==
    Sublist(t, {i \in DOMAIN t :
                    \E j, k \in Letters(t) : j <= i /\ i <= k})

(* The first characters, if there are too many.                            *)
Cap(t) == SubSeq(t, 1, IF Len(t) > MaxQueryLen THEN MaxQueryLen ELSE Len(t))

(* strings.Fields: the runs of letters, from left to right.                *)
Starts(t) == {i \in Letters(t) : i - 1 \notin Letters(t)}

RunFrom(t, i) == {k \in Letters(t) : i <= k /\ i .. k \subseteq Letters(t)}

Fields(t) == Sublist([i \in Letters(t) |-> Sublist(t, RunFrom(t, i))], Starts(t))

FirstTerms(all) == SubSeq(all, 1, IF Len(all) > MaxTerms THEN MaxTerms ELSE Len(all))

(* Mutant of SearchSpec: the terms are taken from the text before it is cut.*)
SearchSpecUncut(t) == [raw |-> Cap(Trim(t)), terms |-> FirstTerms(Fields(Trim(t)))]

(* searchSpec: the text as it is shown and put in links, and its terms.    *)
SearchSpec(t) == [raw |-> Cap(Trim(t)), terms |-> FirstTerms(Fields(Cap(Trim(t))))]
=============================================================================
