------------------------------ MODULE NewsBoard ------------------------------
(***************************************************************************)
(* What the news store promises its callers, with no lock in sight: every  *)
(* fetched set replaces its source's list in one step, nothing else (no    *)
(* failed fetch either) changes a list, and every page is computed from    *)
(* the board as it stood at one moment between the request and the answer. *)
(* NewsStore, which copies the lists one by one under a read-write lock,   *)
(* is shown to implement this.                                             *)
(***************************************************************************)
CONSTANTS
    Sources,        \* the feeds
    Readers,        \* the requests for a page that run at the same time
    Digests(_),     \* the lists that can be published for a source
    Pages(_),       \* the pages that a board can be shown as
    EmptyBoard,
    NoItems

VARIABLES
    board,          \* the list published last for each source
    snapshot,       \* what a reader took, EmptyBoard when it holds nothing
    ready,          \* the readers that hold a snapshot
    page            \* the answer to a reader's last request

vars == <<board, snapshot, ready, page>>

Init ==
    /\ board = EmptyBoard
    /\ snapshot = [r \in Readers |-> EmptyBoard]
    /\ ready = {}
    /\ page = [r \in Readers |-> NoItems]

Publish(s) ==
    /\ \E batch \in Digests(s) : board' = [board EXCEPT ![s] = batch]
    /\ UNCHANGED <<snapshot, ready, page>>

Request(r) ==
    /\ r \notin ready
    /\ page' = [page EXCEPT ![r] = NoItems]
    /\ UNCHANGED <<board, snapshot, ready>>

Take(r) ==
    /\ r \notin ready
    /\ ready' = ready \cup {r}
    /\ snapshot' = [snapshot EXCEPT ![r] = board]
    /\ UNCHANGED <<board, page>>

Show(r) ==
    /\ r \in ready
    /\ \E p \in Pages(snapshot[r]) : page' = [page EXCEPT ![r] = p]
    /\ ready' = ready \ {r}
    /\ snapshot' = [snapshot EXCEPT ![r] = EmptyBoard]
    /\ UNCHANGED board

Next ==
    \/ \E s \in Sources : Publish(s)
    \/ \E r \in Readers : Request(r) \/ Take(r) \/ Show(r)

Spec == Init /\ [][Next]_vars
=============================================================================
