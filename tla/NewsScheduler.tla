---------------------------- MODULE NewsScheduler ----------------------------
(***************************************************************************)
(* The refresh loop of internal/news/scheduler.go: one goroutine that      *)
(* sweeps over the sources, waits for a ticker, and stops when its context *)
(* is cancelled.  Time is counted in whole units and passes only while the *)
(* goroutine is blocked: in a fetch, or in the select.  Parsing a feed and *)
(* writing to the store take no time here (they take microseconds; the     *)
(* timeout is ten seconds, the shortest interval five minutes).            *)
(***************************************************************************)
EXTENDS Integers, FiniteSets

CONSTANTS
    N,                  \* number of sources
    Configured,         \* the interval asked for
    DefaultInterval,
    MinInterval,
    Timeout             \* fetchTimeout, http.Client's limit on a whole fetch

ASSUME SchedulerAssumption ==
    /\ N \in Nat /\ Configured \in Int
    /\ MinInterval \in Nat \ {0} /\ DefaultInterval \in Nat
    /\ DefaultInterval >= MinInterval
    /\ Timeout \in Nat \ {0}

SourceIds == 1 .. N

(* Mutant of Interval: no floor under a configured interval.               *)
IntervalNoFloor == IF Configured <= 0 THEN DefaultInterval ELSE Configured

(* newScheduler: the default for an interval that is not positive, and a   *)
(* floor under the others.                                                 *)
Interval ==
    IF Configured <= 0 THEN DefaultInterval
    ELSE IF Configured < MinInterval THEN MinInterval
    ELSE Configured

(* As far back as requests are remembered; no interval is longer.          *)
LongAgo == IF Configured > DefaultInterval THEN Configured ELSE DefaultInterval

VARIABLES
    pc,         \* "check" top of the loop, "fetch", "parse", "select", "stopped"
    i,          \* the source whose turn it is; N + 1 after the last one
    ok,         \* sources merged in this sweep
    cancelled,  \* ctx.Err() # nil
    fetchFor,   \* how long the current fetch has taken
    tickerOn,   \* the ticker exists
    tickIn,     \* time to its next tick
    tickBuf,    \* a tick waits in its channel, which holds one
    outcome,    \* what this sweep recorded in the store for each source
    lateWrites, \* observation: store writes since the cancellation, up to 2
    since       \* observation: time since the last request to each source,
                \* counted up to LongAgo

vars == <<pc, i, ok, cancelled, fetchFor, tickerOn, tickIn, tickBuf, outcome,
          lateWrites, since>>

tickerVars == <<tickerOn, tickIn, tickBuf>>

TypeOK ==
    /\ pc \in {"check", "fetch", "parse", "select", "stopped"}
    /\ i \in 1 .. (N + 1)
    /\ pc \in {"fetch", "parse"} => i \in SourceIds
    /\ ok \in 0 .. N
    /\ cancelled \in BOOLEAN
    /\ fetchFor \in 0 .. Timeout
    /\ tickerOn \in BOOLEAN /\ tickBuf \in BOOLEAN
    /\ tickIn \in 1 .. Interval
    /\ outcome \in [SourceIds -> {"none", "ok", "error"}]
    /\ lateWrites \in 0 .. 2
    /\ since \in [SourceIds -> 0 .. LongAgo]

NoOutcome == [k \in SourceIds |-> "none"]

(* Mutant of Init: the loop waits for its first tick.                      *)
InitWaits ==
    /\ pc = "select" /\ i = 1 /\ ok = 0
    /\ cancelled = FALSE
    /\ fetchFor = 0
    /\ tickerOn = TRUE /\ tickIn = Interval /\ tickBuf = FALSE
    /\ outcome = NoOutcome
    /\ lateWrites = 0
    /\ since = [k \in SourceIds |-> LongAgo]

Init ==
    /\ pc = "check" /\ i = 1 /\ ok = 0
    /\ cancelled = FALSE
    /\ fetchFor = 0
    /\ tickerOn = FALSE /\ tickIn = Interval /\ tickBuf = FALSE
    /\ outcome = NoOutcome
    /\ lateWrites = 0
    /\ since = [k \in SourceIds |-> LongAgo]

-----------------------------------------------------------------------------
(* Mutant of BeginFetch: the loop does not look at the context.            *)
BeginFetchUnchecked ==
    /\ pc = "check" /\ i \in SourceIds
    /\ pc' = "fetch"
    /\ fetchFor' = 0
    /\ since' = [since EXCEPT ![i] = 0]
    /\ UNCHANGED <<i, ok, cancelled, tickerVars, outcome, lateWrites>>

(* One turn of refreshAll's loop: look at the context, then fetch.         *)
BeginFetch ==
    /\ pc = "check" /\ i \in SourceIds
    /\ ~cancelled
    /\ pc' = "fetch"
    /\ fetchFor' = 0
    /\ since' = [since EXCEPT ![i] = 0]
    /\ UNCHANGED <<i, ok, cancelled, tickerVars, outcome, lateWrites>>

(* Mutant of Record: every source counts as merged.                        *)
RecordAllOk(result) ==
    /\ outcome' = [outcome EXCEPT ![i] = result]
    /\ ok' = ok + 1
    /\ lateWrites' = IF cancelled /\ lateWrites < 2 THEN lateWrites + 1 ELSE lateWrites
    /\ i' = i + 1
    /\ fetchFor' = 0
    /\ pc' = "check"
    /\ UNCHANGED <<cancelled, tickerVars, since>>

(* Mutant of Record: a failure ends the sweep.                             *)
RecordEndsSweep(result) ==
    /\ outcome' = [outcome EXCEPT ![i] = result]
    /\ ok' = IF result = "ok" THEN ok + 1 ELSE ok
    /\ lateWrites' = IF cancelled /\ lateWrites < 2 THEN lateWrites + 1 ELSE lateWrites
    /\ i' = IF result = "ok" THEN i + 1 ELSE N + 1
    /\ fetchFor' = 0
    /\ pc' = "check"
    /\ UNCHANGED <<cancelled, tickerVars, since>>

(* A call of SetError or Merge, and on to the next source.                 *)
Record(result) ==
    /\ outcome' = [outcome EXCEPT ![i] = result]
    /\ ok' = IF result = "ok" THEN ok + 1 ELSE ok
    /\ lateWrites' = IF cancelled /\ lateWrites < 2 THEN lateWrites + 1 ELSE lateWrites
    /\ i' = i + 1
    /\ fetchFor' = 0
    /\ pc' = "check"
    /\ UNCHANGED <<cancelled, tickerVars, since>>

(* The server may fail the request at any moment: no connection, a status  *)
(* other than 200, a broken body.                                          *)
FetchFails == pc = "fetch" /\ Record("error")

(* Mutant of FetchGivesUp: no timeout, only the context ends a fetch.      *)
FetchGivesUpCancelled == pc = "fetch" /\ cancelled /\ Record("error")

(* The client gives up by itself at the timeout, and when ctx is cancelled.*)
FetchGivesUp ==
    /\ pc = "fetch"
    /\ cancelled \/ fetchFor = Timeout
    /\ Record("error")

FetchReturns ==
    /\ pc = "fetch"
    /\ pc' = "parse"
    /\ UNCHANGED <<i, ok, cancelled, fetchFor, tickerVars, outcome, lateWrites, since>>

ParseFails == pc = "parse" /\ Record("error")

Merge == pc = "parse" /\ Record("ok")

(* refreshAll returns, after the last source or because of the context;    *)
(* the first time Start then makes the ticker.                             *)
EndSweep ==
    /\ pc = "check"
    /\ i = N + 1 \/ cancelled
    /\ pc' = "select"
    /\ tickerOn' = TRUE
    /\ tickIn' = IF tickerOn THEN tickIn ELSE Interval
    /\ UNCHANGED <<i, ok, cancelled, fetchFor, tickBuf, outcome, lateWrites, since>>

-----------------------------------------------------------------------------
(* Mutant of TakeTick: the tick is left in the channel.                    *)
TakeTickAgain ==
    /\ pc = "select" /\ tickBuf
    /\ pc' = "check" /\ i' = 1 /\ ok' = 0
    /\ outcome' = NoOutcome
    /\ UNCHANGED <<cancelled, fetchFor, tickerVars, lateWrites, since>>

(* The select of Start.  With both channels ready Go picks either.         *)
TakeTick ==
    /\ pc = "select" /\ tickBuf
    /\ tickBuf' = FALSE
    /\ pc' = "check" /\ i' = 1 /\ ok' = 0
    /\ outcome' = NoOutcome
    /\ UNCHANGED <<cancelled, fetchFor, tickerOn, tickIn, lateWrites, since>>

(* Mutant of Stop: the select has no case for the context.                 *)
StopNever == pc = "select" /\ cancelled /\ UNCHANGED vars

Stop ==
    /\ pc = "select" /\ cancelled
    /\ pc' = "stopped"
    /\ UNCHANGED <<i, ok, cancelled, fetchFor, tickerVars, outcome, lateWrites, since>>

-----------------------------------------------------------------------------
(* Blocked: nothing the goroutine waits for has happened yet.              *)
Blocked ==
    /\ ~cancelled
    /\ \/ pc = "fetch" /\ fetchFor < Timeout
       \/ pc = "select" /\ ~tickBuf

(* One unit of time.  The ticker drops a tick when its channel is full.    *)
Advance ==
    /\ Blocked
    /\ fetchFor' = IF pc = "fetch" THEN fetchFor + 1 ELSE fetchFor
    /\ since' = [k \in SourceIds |->
                    IF since[k] < LongAgo THEN since[k] + 1 ELSE since[k]]
    /\ \/ ~tickerOn /\ UNCHANGED <<tickIn, tickBuf>>
       \/ tickerOn /\ tickIn > 1 /\ tickIn' = tickIn - 1 /\ UNCHANGED tickBuf
       \/ tickerOn /\ tickIn = 1 /\ tickIn' = Interval /\ tickBuf' = TRUE
    /\ UNCHANGED <<pc, i, ok, cancelled, tickerOn, outcome, lateWrites>>

(* The signal handler cancels ctx.                                         *)
Cancel ==
    /\ ~cancelled
    /\ cancelled' = TRUE
    /\ UNCHANGED <<pc, i, ok, fetchFor, tickerVars, outcome, lateWrites, since>>

(* The goroutine has returned.                                             *)
Done == pc = "stopped" /\ UNCHANGED vars

Next ==
    \/ BeginFetch \/ FetchFails \/ FetchGivesUp \/ FetchReturns
    \/ ParseFails \/ Merge \/ EndSweep
    \/ TakeTick \/ Stop
    \/ Advance \/ Cancel
    \/ Done

Spec == Init /\ [][Next]_vars

(* Time passes, and the goroutine takes every step that does not depend on *)
(* the server.  No server has to answer, no signal has to come, and select *)
(* may prefer a tick to the cancelled context each time it can.            *)
Fairness ==
    /\ WF_vars(Advance)
    /\ WF_vars(BeginFetch) /\ WF_vars(FetchGivesUp)
    /\ WF_vars(ParseFails \/ Merge) /\ WF_vars(EndSweep)
    /\ WF_vars(TakeTick \/ Stop)

FairSpec == Spec /\ Fairness

-----------------------------------------------------------------------------
(* A sweep takes at most one timeout per source.  Production has one       *)
(* source, ten seconds and twenty minutes.                                 *)
SweepFits == N * Timeout <= Interval

(* MinInterval is there "to avoid hammering feed servers".  Every request  *)
(* to source k comes at least that floor, and at least the interval that   *)
(* was asked for, after the one before it, less the time the sources ahead *)
(* of it in the sweep may take: for the first source, in full.  Whatever   *)
(* is configured, slow servers do not pile up late ticks.                  *)
FetchGap ==
    [][\A k \in SourceIds : BeginFetch /\ i = k =>
            /\ since[k] >= MinInterval - (k - 1) * Timeout
            /\ since[k] >= Configured - (k - 1) * Timeout]_vars

(* After the cancellation the loop writes to the store at most once more:  *)
(* the outcome of the fetch that was under way.                            *)
QuietAfterCancel == lateWrites <= 1

(* When the summary is logged (the loop ran to its end), every source has  *)
(* been recorded in this sweep, failed ones included, and the count of the *)
(* successful ones is right.                                               *)
SweepComplete ==
    pc = "check" /\ i = N + 1 =>
        /\ \A k \in SourceIds : outcome[k] # "none"
        /\ ok = Cardinality({k \in SourceIds : outcome[k] = "ok"})

(* A cancelled loop ends, whatever the servers do, unless the process ends *)
(* first and a new one, which nobody has cancelled, takes its place.       *)
CancelStops == cancelled ~> (pc = "stopped" \/ ~cancelled)

(* Until it is cancelled the loop comes back to every source, though other *)
(* servers hang or fail for ever.                                          *)
EverySourcePolled ==
    \A k \in SourceIds : []<>(cancelled \/ (pc = "fetch" /\ i = k))
=============================================================================
