----------------------------- MODULE ProcessLife -----------------------------
(***************************************************************************)
(* What the rest of the program may assume about its process: it comes up, *)
(* it may be told to stop and then it ends, and it may end at any moment.  *)
(* ServerRun implements it, and NewsFreshness asks no more of it.         *)
(***************************************************************************)
VARIABLE phase      \* "starting", "up", "stopping", "gone"

LifeInit == phase = "starting"

ComeUp == phase = "starting" /\ phase' = "up"

ToldToStop == phase \in {"starting", "up"} /\ phase' = "stopping"

End == phase # "gone" /\ phase' = "gone"

Life == LifeInit /\ [][ComeUp \/ ToldToStop \/ End]_phase

(* A process that starts comes up or ends, one told to stop ends; one that *)
(* is up may stay up for ever.                                             *)
LifeSpec ==
    /\ Life
    /\ phase = "starting" ~> phase # "starting"
    /\ phase = "stopping" ~> phase = "gone"
=============================================================================
