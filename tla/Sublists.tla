------------------------------ MODULE Sublists ------------------------------
(***************************************************************************)
(* What a loop leaves of a list when it appends some of the entries to a   *)
(* new one and passes over the others (the row loop of                     *)
(* internal/web/directory_filters.go, parseTags of submit.go).             *)
(***************************************************************************)
EXTENDS Naturals, FiniteSets

(* The i-th of the positions that are kept.                                *)
Nth(kept, i) ==
    CHOOSE k \in kept : Cardinality({j \in kept : j < k}) = i - 1

(* The entries of s at the positions that are kept, in their order.        *)
Sublist(s, kept) == [i \in 1 .. Cardinality(kept) |-> s[Nth(kept, i)]]
=============================================================================
