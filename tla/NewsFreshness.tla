---------------------------- MODULE NewsFreshness ----------------------------
(***************************************************************************)
(* The refresh loop together with the servers it asks and the process it   *)
(* lives in: how far behind its sources the store can be.  Servers publish *)
(* at any time, also between composing an answer and its arrival; fetches  *)
(* fail; the process ends or is killed at any time and starts again with an*)
(* empty store (news.NewStore in cmd/server/main.go).                      *)
(***************************************************************************)
EXTENDS NewsScheduler

CONSTANT MaxRestarts    \* bound: how often the process starts again

ASSUME RestartsAssumption == MaxRestarts \in Nat

VARIABLES
    behind,     \* sources that have published what the store has not
    late,       \* observation: for how long, at most, since the last failure
    body,       \* the answer under way: "none" yet, "all" that is published,
                \* or "less", as something was published after it was composed
    first,      \* what came of a source in this process: "unasked", "failed"
                \* or "shown"
    restarts    \* how often the process has started again

freshVars == <<behind, late, body, first, restarts>>

(* Bound of the counters late.                                             *)
Limit == Interval + (N + 1) * Timeout + 1

(* A process starts from nothing.                                          *)
StartUp ==
    /\ Init
    /\ behind = SourceIds
    /\ late = [k \in SourceIds |-> 0]
    /\ body = "none"
    /\ first = [k \in SourceIds |-> "unasked"]

FreshInit == StartUp /\ restarts = 0

-----------------------------------------------------------------------------
Publish(k) ==
    /\ behind' = behind \cup {k}
    /\ body' = IF i = k /\ body = "all" THEN "less" ELSE body
    /\ UNCHANGED <<vars, late, first, restarts>>

(* The server writes its answer.                                           *)
Compose ==
    /\ pc = "fetch" /\ body = "none"
    /\ body' = "all"
    /\ UNCHANGED <<vars, behind, late, first, restarts>>

Ask == BeginFetch /\ body' = "none" /\ UNCHANGED <<behind, late, first, restarts>>

Arrive == FetchReturns /\ body # "none" /\ UNCHANGED freshVars

(* SetError: the store keeps what it has.                                  *)
Fail ==
    /\ FetchFails \/ FetchGivesUp \/ ParseFails
    /\ late' = [late EXCEPT ![i] = 0]
    /\ body' = "none"
    /\ first' = [first EXCEPT ![i] = IF @ = "unasked" THEN "failed" ELSE @]
    /\ UNCHANGED <<behind, restarts>>

(* What is missing after a Merge was published while the fetch ran.        *)
Show ==
    /\ Merge
    /\ behind' = IF body = "all" THEN behind \ {i} ELSE behind
    /\ late' = [late EXCEPT ![i] = IF body = "all" THEN 0 ELSE fetchFor]
    /\ body' = "none"
    /\ first' = [first EXCEPT ![i] = "shown"]
    /\ UNCHANGED restarts

Pass ==
    /\ Advance
    /\ late' = [k \in SourceIds |->
                    IF k \in behind /\ late[k] < Limit THEN late[k] + 1 ELSE late[k]]
    /\ UNCHANGED <<behind, body, first, restarts>>

Other == (EndSweep \/ TakeTick \/ Stop \/ Cancel) /\ UNCHANGED freshVars

(* The process ended or was killed, and the next one starts from nothing.  *)
Restart ==
    /\ restarts < MaxRestarts /\ restarts' = restarts + 1
    /\ pc' = "check" /\ i' = 1 /\ ok' = 0 /\ cancelled' = FALSE /\ fetchFor' = 0
    /\ tickerOn' = FALSE /\ tickIn' = Interval /\ tickBuf' = FALSE
    /\ outcome' = NoOutcome /\ lateWrites' = 0
    /\ since' = [k \in SourceIds |-> LongAgo]
    /\ behind' = SourceIds /\ late' = [k \in SourceIds |-> 0]
    /\ body' = "none" /\ first' = [k \in SourceIds |-> "unasked"]

FreshNext ==
    \/ \E k \in SourceIds : Publish(k)
    \/ Compose \/ Ask \/ Arrive \/ Fail \/ Show \/ Pass \/ Other \/ Restart

FreshSpec == FreshInit /\ [][FreshNext]_<<vars, freshVars>>

(* NewsScheduler's Fairness, for the steps as they are here.  No server    *)
(* has to compose an answer or to publish, no process has to end.          *)
FreshFairness ==
    /\ WF_<<vars, freshVars>>(Pass)
    /\ WF_<<vars, freshVars>>(Ask)
    /\ WF_<<vars, freshVars>>(Fail /\ FetchGivesUp)
    /\ WF_<<vars, freshVars>>((Fail /\ ParseFails) \/ Show)
    /\ WF_<<vars, freshVars>>(Other /\ EndSweep)
    /\ WF_<<vars, freshVars>>(Other /\ (TakeTick \/ Stop))

FreshFairSpec == FreshSpec /\ FreshFairness

-----------------------------------------------------------------------------
FreshTypeOK ==
    /\ behind \subseteq SourceIds
    /\ late \in [SourceIds -> 0 .. Limit]
    /\ body \in {"none", "all", "less"}
    /\ first \in [SourceIds -> {"unasked", "failed", "shown"}]
    /\ restarts \in 0 .. MaxRestarts

(* Whatever the other servers do, and whenever the source publishes: what  *)
(* a source has published is in the store after one interval and two turns *)
(* at most, unless the source itself fails.                                *)
FreshWithin == \A k \in SourceIds : late[k] <= Interval + (N + 1) * Timeout

(* A new process does not wait for its ticker: every source that does not  *)
(* fail is in the store after its turn in the first sweep.                 *)
FirstSweepAtOnce ==
    \A k \in SourceIds : first[k] = "unasked" => late[k] <= k * Timeout
=============================================================================
