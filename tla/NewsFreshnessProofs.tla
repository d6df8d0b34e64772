------------------------- MODULE NewsFreshnessProofs -------------------------
(***************************************************************************)
(* Theorems about the refresh loop, for every number of sources and every  *)
(* timeout and interval, and, resting on its invariants, about how far the *)
(* store is behind its sources if a sweep fits its interval.               *)
(***************************************************************************)
EXTENDS NewsFreshness, FiniteSetTheorems, TLAPS


-----------------------------------------------------------------------------
(* The interval that newScheduler settles on is at least the floor.        *)
LEMMA IntervalType ==
    /\ Interval \in Nat \ {0} /\ Interval >= MinInterval
    /\ LongAgo \in Nat /\ LongAgo >= Interval
  BY SchedulerAssumption DEF Interval, LongAgo

(* One more source takes one more timeout.                                 *)
LEMMA OneMore == \A k \in Int : k * Timeout = (k - 1) * Timeout + Timeout
  BY SchedulerAssumption

(* Fewer sources take no more time.                                        *)
LEMMA NoMoreTime ==
  ASSUME NEW a \in Int, NEW b \in Int, a <= b
  PROVE  a * Timeout <= b * Timeout
<1>1. (b - a) * Timeout >= 0
  BY SchedulerAssumption
<1>2. b * Timeout = a * Timeout + (b - a) * Timeout
  BY SchedulerAssumption
<1> QED BY <1>1, <1>2, SchedulerAssumption

-----------------------------------------------------------------------------
TypeInv ==
    /\ TypeOK
    /\ pc \in {"check", "fetch", "parse"} => ok < i

(* Where the loop starts.                                                  *)
LEMMA TypeInit == Init => TypeInv
<1> SUFFICES ASSUME Init PROVE TypeInv
  OBVIOUS
<1>1. NoOutcome \in [SourceIds -> {"none", "ok", "error"}]
  BY DEF NoOutcome
<1>2. since \in [SourceIds -> 0 .. LongAgo]
  BY IntervalType DEF Init
<1>3. tickIn \in 1 .. Interval
  BY IntervalType DEF Init
<1>4. pc = "check" /\ i = 1 /\ i \in 1 .. (N + 1) /\ ok = 0 /\ ok \in 0 .. N
  BY SchedulerAssumption DEF Init
<1>5. fetchFor \in 0 .. Timeout /\ lateWrites \in 0 .. 2
  BY SchedulerAssumption DEF Init
<1>6. cancelled \in BOOLEAN /\ tickerOn \in BOOLEAN /\ tickBuf \in BOOLEAN
  BY DEF Init
<1>7. outcome = NoOutcome
  BY DEF Init
<1>8. ok < i
  BY <1>4
<1> QED BY <1>1, <1>2, <1>3, <1>4, <1>5, <1>6, <1>7, <1>8 DEF TypeInv, TypeOK

(* Type correctness.  ok stays in its range because it counts at most one  *)
(* success per source already passed.                                      *)
LEMMA TypeStep == TypeInv /\ [Next]_vars => TypeInv'
<1> SUFFICES ASSUME TypeInv, [Next]_vars PROVE TypeInv'
  OBVIOUS
<1> USE IntervalType, SchedulerAssumption DEF TypeInv, TypeOK, SourceIds
<1>1. CASE BeginFetch
  BY <1>1 DEF BeginFetch, tickerVars
<1>2. ASSUME NEW result \in {"ok", "error"}, pc \in {"fetch", "parse"}, Record(result)
      PROVE  TypeInv'
  BY <1>2 DEF Record, tickerVars
<1>3. CASE FetchFails
  BY <1>2, <1>3 DEF FetchFails
<1>4. CASE FetchGivesUp
  BY <1>2, <1>4 DEF FetchGivesUp
<1>5. CASE FetchReturns
  BY <1>5 DEF FetchReturns, tickerVars
<1>6. CASE ParseFails
  BY <1>2, <1>6 DEF ParseFails
<1>7. CASE Merge
  BY <1>2, <1>7 DEF Merge
<1>8. CASE EndSweep
  BY <1>8 DEF EndSweep
<1>9. CASE TakeTick
  <2>1. outcome' \in [SourceIds -> {"none", "ok", "error"}]
    BY <1>9 DEF TakeTick, NoOutcome
  <2>2. tickBuf' \in BOOLEAN
    BY <1>9, Zenon DEF TakeTick
  <2>3. pc' = "check" /\ i' = 1 /\ i' \in 1 .. (N + 1) /\ ok' = 0 /\ ok' \in 0 .. N
    BY <1>9 DEF TakeTick
  <2> QED BY <1>9, <2>1, <2>2, <2>3 DEF TakeTick
<1>10. CASE Stop
  BY <1>10 DEF Stop, tickerVars
<1>11. CASE Advance
  <2>1. since' \in [SourceIds -> 0 .. LongAgo]
    <3>1. \A k \in SourceIds : since[k] \in 0 .. LongAgo
      OBVIOUS
    <3> QED BY <1>11, <3>1 DEF Advance
  <2>2. tickIn' \in 1 .. Interval
    BY <1>11 DEF Advance
  <2>4. tickBuf' \in BOOLEAN
    BY <1>11, Zenon DEF Advance
  <2>3. fetchFor' \in 0 .. Timeout
    BY <1>11 DEF Advance, Blocked
  <2> QED BY <1>11, <2>1, <2>2, <2>3, <2>4 DEF Advance
<1>12. CASE Cancel
  BY <1>12 DEF Cancel, tickerVars
<1>13. CASE Done
  BY <1>13 DEF Done, vars
<1>14. CASE UNCHANGED vars
  BY <1>14 DEF vars
<1> QED BY <1>1, <1>3, <1>4, <1>5, <1>6, <1>7, <1>8, <1>9, <1>10, <1>11,
           <1>12, <1>13, <1>14 DEF Next

(* Types hold throughout.                                                  *)
LEMMA TypeInvariant == Spec => []TypeInv
<1> QED BY TypeInit, TypeStep, PTL DEF Spec

(* Every variable keeps its type.                                          *)
THEOREM TypeCorrect == Spec => []TypeOK
<1>1. TypeInv => TypeOK
  BY DEF TypeInv
<1> QED BY <1>1, TypeInvariant, PTL

-----------------------------------------------------------------------------
(* A write after the cancellation leaves the loop at its top, where it     *)
(* looks at the context and ends the sweep.                                *)
QuietInv ==
    /\ lateWrites <= 1
    /\ lateWrites > 0 => cancelled /\ pc \notin {"fetch", "parse"}

(* At most one write to the store follows the cancellation (scheduler.go,  *)
(* the test of ctx.Err at the top of the loop).                            *)
THEOREM QuietCorrect == Spec => []QuietAfterCancel
<1>1. Init => QuietInv
  BY DEF Init, QuietInv
<1>2. TypeInv /\ QuietInv /\ [Next]_vars => QuietInv'
  <2> SUFFICES ASSUME TypeInv, QuietInv, [Next]_vars PROVE QuietInv'
    OBVIOUS
  <2> USE DEF TypeInv, TypeOK, QuietInv
  <2>1. ASSUME NEW result, pc \in {"fetch", "parse"}, Record(result)
        PROVE  QuietInv'
    <3>1. lateWrites = 0
      BY <2>1
    <3> QED BY <2>1, <3>1 DEF Record
  <2>2. CASE FetchFails \/ FetchGivesUp \/ ParseFails \/ Merge
    BY <2>1, <2>2 DEF FetchFails, FetchGivesUp, ParseFails, Merge
  <2>3. CASE BeginFetch
    BY <2>3 DEF BeginFetch
  <2>4. CASE FetchReturns
    BY <2>4 DEF FetchReturns
  <2>5. CASE EndSweep \/ TakeTick \/ Stop
    BY <2>5 DEF EndSweep, TakeTick, Stop
  <2>6. CASE Advance \/ Cancel
    BY <2>6 DEF Advance, Cancel
  <2>7. CASE Done \/ UNCHANGED vars
    BY <2>7 DEF Done, vars
  <2> QED BY <2>2, <2>3, <2>4, <2>5, <2>6, <2>7 DEF Next
<1>3. QuietInv => QuietAfterCancel
  BY DEF QuietInv, QuietAfterCancel
<1> QED BY <1>1, <1>2, <1>3, TypeInvariant, PTL DEF Spec

-----------------------------------------------------------------------------
(* During a sweep the sources passed have an outcome, the others have not, *)
(* and ok counts the successful ones.                                      *)
Successful == {k \in SourceIds : outcome[k] = "ok"}

SweepInv ==
    pc \in {"check", "fetch", "parse"} =>
        /\ \A k \in SourceIds : outcome[k] # "none" <=> k < i
        /\ ok = Cardinality(Successful)

(* There are finitely many sources, so the successful ones can be counted. *)
LEMMA SuccessfulFinite == IsFiniteSet(Successful)
<1>1. IsFiniteSet(SourceIds)
  BY FS_Interval, SchedulerAssumption DEF SourceIds
<1> QED BY <1>1, FS_Subset DEF Successful

(* The summary line counts what the sweep really recorded (scheduler.go,   *)
(* the ok counter of refreshAll), and failures never skip a source.        *)
THEOREM SweepCorrect == Spec => []SweepComplete
<1>1. Init => SweepInv
  <2> SUFFICES ASSUME Init PROVE SweepInv
    OBVIOUS
  <2>1. Successful = {}
    BY DEF Init, NoOutcome, Successful
  <2> QED BY <2>1, FS_EmptySet DEF Init, NoOutcome, SweepInv, SourceIds
<1>2. TypeInv /\ SweepInv /\ [Next]_vars => SweepInv'
  <2> SUFFICES ASSUME TypeInv, SweepInv, [Next]_vars PROVE SweepInv'
    OBVIOUS
  <2> USE DEF TypeInv, TypeOK
  <2>1. ASSUME NEW result \in {"ok", "error"}, pc \in {"fetch", "parse"}, Record(result)
        PROVE  SweepInv'
    <3>1. i \in SourceIds /\ outcome[i] = "none" /\ i \in Int
      BY <2>1 DEF SweepInv, SourceIds
    <3>2. outcome' = [outcome EXCEPT ![i] = result] /\ i' = i + 1
      BY <2>1 DEF Record
    <3>3. \A k \in SourceIds : outcome'[k] # "none" <=> k < i'
      BY <2>1, <3>1, <3>2 DEF SweepInv, SourceIds
    <3>4. CASE result = "ok"
      <4>1. Successful' = Successful \cup {i} /\ i \notin Successful
        BY <3>1, <3>2, <3>4 DEF Successful
      <4>2. Cardinality(Successful') = Cardinality(Successful) + 1
        BY <4>1, SuccessfulFinite, FS_AddElement
      <4> QED BY <2>1, <3>3, <3>4, <4>2 DEF Record, SweepInv
    <3>5. CASE result = "error"
      <4>1. Successful' = Successful
        BY <3>1, <3>2, <3>5 DEF Successful
      <4> QED BY <2>1, <3>3, <3>5, <4>1 DEF Record, SweepInv
    <3> QED BY <3>4, <3>5
  <2>2. CASE FetchFails \/ FetchGivesUp \/ ParseFails \/ Merge
    BY <2>1, <2>2 DEF FetchFails, FetchGivesUp, ParseFails, Merge
  <2>3. CASE TakeTick
    <3>1. Successful' = {}
      BY <2>3 DEF TakeTick, NoOutcome, Successful
    <3> QED BY <2>3, <3>1, FS_EmptySet DEF TakeTick, NoOutcome, SweepInv, SourceIds
  <2>4. CASE BeginFetch \/ FetchReturns
    BY <2>4 DEF BeginFetch, FetchReturns, SweepInv, Successful
  <2>5. CASE EndSweep \/ Stop
    BY <2>5 DEF EndSweep, Stop, SweepInv
  <2>6. CASE Advance \/ Cancel
    BY <2>6 DEF Advance, Cancel, SweepInv, Successful
  <2>7. CASE Done \/ UNCHANGED vars
    BY <2>7 DEF Done, vars, SweepInv, Successful
  <2> QED BY <2>2, <2>3, <2>4, <2>5, <2>6, <2>7 DEF Next
<1>3. TypeInv /\ SweepInv => SweepComplete
  BY SchedulerAssumption
  DEF TypeInv, TypeOK, SweepInv, SweepComplete, Successful, SourceIds
<1> QED BY <1>1, <1>2, <1>3, TypeInvariant, PTL DEF Spec

-----------------------------------------------------------------------------
(* How long ago the ticker fired last, or was made.                        *)
TickAge == IF tickBuf THEN Interval ELSE Interval - tickIn

Sweeping == pc \in {"check", "fetch", "parse"}

Asked(k) ==
    \/ pc = "select"
    \/ k < i
    \/ k = i /\ pc # "check"

(* Until the cancellation: a sweep started by a tick is no older than the  *)
(* timeouts of the sources it has passed, so no tick comes before it ends; *)
(* and a request to source k lags its tick by the timeouts before it.      *)
AgeInv ==
    /\ tickBuf => tickerOn /\ tickIn = Interval
    /\ ~tickerOn => Sweeping
    /\ pc \in {"check", "select"} => fetchFor = 0
    /\ tickerOn /\ Sweeping => TickAge <= (i - 1) * Timeout + fetchFor

LagInv ==
    \A k \in SourceIds :
        IF Asked(k)
        THEN tickerOn => since[k] >= TickAge - (k - 1) * Timeout
        ELSE since[k] >= Interval - (k - 1) * Timeout

GapInv == ~cancelled => pc # "stopped" /\ AgeInv /\ LagInv

(* Where the loop starts.                                                  *)
LEMMA GapInit == Init => GapInv
<1> SUFFICES ASSUME Init PROVE GapInv
  OBVIOUS
<1>1. AgeInv
  BY DEF Init, AgeInv, Sweeping
<1>2. ASSUME NEW k \in SourceIds PROVE ~Asked(k) /\ since[k] >= Interval - (k - 1) * Timeout
  <2>1. (k - 1) * Timeout \in Nat
    BY SchedulerAssumption DEF SourceIds
  <2>2. since[k] = LongAgo /\ ~Asked(k)
    BY DEF Init, Asked, SourceIds
  <2> QED BY <2>1, <2>2, IntervalType
<1> QED BY <1>1, <1>2 DEF Init, GapInv, LagInv

(* Passing a source costs at most the rest of its timeout.                 *)
LEMMA GapRecord ==
  ASSUME TypeInv, GapInv, NEW result, pc \in {"fetch", "parse"}, Record(result)
  PROVE  GapInv'
<1> SUFFICES ASSUME ~cancelled PROVE AgeInv' /\ LagInv'
  BY DEF GapInv, Record
<1> USE SchedulerAssumption, IntervalType DEF TypeInv, TypeOK, SourceIds
<1>1. AgeInv /\ LagInv /\ i \in SourceIds
  BY DEF GapInv
<1>2. pc' = "check" /\ i' = i + 1 /\ fetchFor' = 0
      /\ UNCHANGED <<tickerOn, tickIn, tickBuf, since>>
  BY DEF Record, tickerVars
<1>3. TickAge' = TickAge /\ TickAge \in Int
  BY <1>2 DEF TickAge
<1>4. AgeInv'
  <2>1. (i' - 1) * Timeout = (i - 1) * Timeout + Timeout
    BY <1>2, OneMore
  <2>2. tickerOn => TickAge <= (i - 1) * Timeout + fetchFor
    BY <1>1 DEF AgeInv, Sweeping
  <2>3. (i - 1) * Timeout \in Int
    OBVIOUS
  <2>4. tickerOn => TickAge' <= (i' - 1) * Timeout + fetchFor'
    BY <1>2, <1>3, <2>1, <2>2, <2>3
  <2> QED BY <1>1, <1>2, <2>4 DEF AgeInv, Sweeping
<1>5. LagInv'
  <2>1. \A k \in SourceIds : Asked(k)' <=> Asked(k)
    BY <1>1, <1>2 DEF Asked
  <2> QED BY <1>1, <1>2, <1>3, <2>1 DEF LagInv
<1> QED BY <1>4, <1>5

(* A unit of time ages the tick and every request alike.  It never passes  *)
(* in a fetch while a tick waits, because the sweep fits its interval.     *)
LEMMA GapAdvance ==
  ASSUME SweepFits, TypeInv, GapInv, Advance
  PROVE  GapInv'
<1> USE SchedulerAssumption, IntervalType DEF TypeInv, TypeOK, SourceIds
<1>1. AgeInv /\ LagInv /\ ~cancelled
  BY DEF GapInv, Advance, Blocked
<1>2. UNCHANGED <<pc, i, cancelled, tickerOn>>
  BY DEF Advance
<1>3. CASE pc = "fetch"
  <2>1. i \in SourceIds /\ fetchFor < Timeout /\ fetchFor' = fetchFor + 1
    BY <1>3 DEF Advance, Blocked
  <2>2. (i - 1) * Timeout + Timeout <= Interval
    <3>1. i * Timeout <= N * Timeout
      BY <2>1, NoMoreTime
    <3>2. i * Timeout = (i - 1) * Timeout + Timeout
      BY <2>1, OneMore
    <3> QED BY <3>1, <3>2 DEF SweepFits
  <2>3. (i - 1) * Timeout \in Int
    BY <2>1
  <2>4. tickerOn => TickAge <= (i - 1) * Timeout + fetchFor
    BY <1>1, <1>3 DEF AgeInv, Sweeping
  <2>5. ~tickBuf
    BY <1>1, <2>1, <2>2, <2>3, <2>4 DEF AgeInv, TickAge
  <2>6. tickerOn => TickAge' = TickAge + 1
    BY <2>5 DEF Advance, TickAge
  <2>7. tickBuf' => tickerOn /\ tickIn' = Interval
    BY <2>5 DEF Advance
  <2>8. TickAge \in Int
    BY DEF TickAge
  <2>9. tickerOn => TickAge' <= (i - 1) * Timeout + fetchFor'
    BY <2>1, <2>3, <2>4, <2>6, <2>8
  <2> QED
    <3>1. AgeInv'
      BY <1>1, <1>2, <1>3, <2>7, <2>9 DEF AgeInv, Sweeping
    <3>2. LagInv'
      BY <1>1, <1>2, <1>3, <2>5, <2>6, <2>8 DEF LagInv, Asked, Advance, TickAge
    <3> QED BY <1>2, <1>3, <3>1, <3>2 DEF GapInv
<1>4. CASE pc = "select" /\ ~tickBuf
  <2>1. tickerOn
    BY <1>1, <1>4 DEF AgeInv, Sweeping
  <2>2. TickAge' = TickAge + 1 /\ TickAge' <= Interval /\ TickAge \in Int
    BY <1>4, <2>1 DEF Advance, TickAge
  <2>3. tickBuf' => tickIn' = Interval
    BY <1>4 DEF Advance
  <2>4. AgeInv'
    BY <1>1, <1>2, <1>4, <2>1, <2>3 DEF AgeInv, Sweeping, Advance
  <2>5. ASSUME NEW k \in SourceIds
        PROVE  Asked(k)' /\ since'[k] >= TickAge' - (k - 1) * Timeout
    <3>1. Asked(k) /\ Asked(k)'
      BY <1>2, <1>4 DEF Asked
    <3>2. since[k] >= TickAge - (k - 1) * Timeout
      BY <1>1, <2>1, <3>1 DEF LagInv
    <3>3. (k - 1) * Timeout \in Nat
      OBVIOUS
    <3>4. since'[k] = since[k] + 1 \/ since'[k] = LongAgo
      BY DEF Advance
    <3>5. since[k] \in Int /\ TickAge' - (k - 1) * Timeout <= Interval
      BY <2>2, <3>3
    <3> QED BY <2>2, <3>1, <3>2, <3>3, <3>4, <3>5
  <2> QED BY <1>2, <1>4, <2>1, <2>4, <2>5 DEF GapInv, LagInv
<1> QED BY <1>3, <1>4 DEF Advance, Blocked

(* Every step keeps the lag of each request within the timeouts before it. *)
LEMMA GapStep ==
  ASSUME SweepFits, TypeInv, GapInv, [Next]_vars
  PROVE  GapInv'
<1> USE SchedulerAssumption, IntervalType DEF TypeInv, TypeOK, SourceIds
<1>1. CASE FetchFails \/ FetchGivesUp \/ ParseFails \/ Merge
  BY <1>1, GapRecord DEF FetchFails, FetchGivesUp, ParseFails, Merge
<1>2. CASE Advance
  BY <1>2, GapAdvance
<1>3. CASE BeginFetch
  <2>1. AgeInv /\ LagInv
    BY <1>3 DEF BeginFetch, GapInv
  <2>2. TickAge' = TickAge /\ TickAge \in Int
    BY <1>3 DEF BeginFetch, tickerVars, TickAge
  <2>3. AgeInv'
    BY <1>3, <2>1, <2>2 DEF BeginFetch, tickerVars, AgeInv, Sweeping
  <2>4. ASSUME NEW k \in SourceIds, k # i
        PROVE  since'[k] = since[k] /\ (Asked(k)' <=> Asked(k))
    BY <1>3, <2>4 DEF BeginFetch, Asked
  <2>5. tickerOn => since'[i] >= TickAge - (i - 1) * Timeout
    <3>1. (i - 1) * Timeout \in Int
      OBVIOUS
    <3> QED BY <1>3, <2>1, <3>1 DEF BeginFetch, AgeInv, Sweeping, TickAge
  <2>6. LagInv'
    BY <1>3, <2>1, <2>2, <2>4, <2>5 DEF BeginFetch, tickerVars, LagInv, Asked
  <2> QED BY <1>3, <2>3, <2>6 DEF BeginFetch, GapInv
<1>4. CASE FetchReturns
  BY <1>4 DEF FetchReturns, tickerVars, GapInv, AgeInv, LagInv, Asked, TickAge, Sweeping
<1>5. CASE EndSweep
  <2> SUFFICES ASSUME ~cancelled PROVE AgeInv' /\ LagInv'
    BY <1>5 DEF EndSweep, GapInv
  <2>1. AgeInv /\ LagInv /\ i = N + 1
    BY <1>5 DEF EndSweep, GapInv
  <2>2. ASSUME NEW k \in SourceIds PROVE Asked(k) /\ Asked(k)'
    BY <1>5, <2>1 DEF EndSweep, Asked
  <2>3. AgeInv'
    BY <1>5, <2>1 DEF EndSweep, AgeInv, Sweeping
  <2>4. CASE tickerOn
    <3>1. TickAge' = TickAge /\ UNCHANGED since
      BY <1>5, <2>4 DEF EndSweep, TickAge
    <3> QED BY <2>1, <2>2, <2>3, <2>4, <3>1 DEF LagInv
  <2>5. CASE ~tickerOn
    <3>1. TickAge' = 0
      BY <1>5, <2>1, <2>5 DEF EndSweep, AgeInv, TickAge
    <3>2. ASSUME NEW k \in SourceIds PROVE since'[k] >= 0 - (k - 1) * Timeout
      <4>1. (k - 1) * Timeout \in Nat
        OBVIOUS
      <4> QED BY <1>5, <4>1 DEF EndSweep
    <3> QED BY <2>2, <2>3, <3>1, <3>2 DEF LagInv
  <2> QED BY <2>3, <2>4, <2>5
<1>6. CASE TakeTick
  <2> SUFFICES ASSUME ~cancelled PROVE AgeInv' /\ LagInv'
    BY <1>6 DEF TakeTick, GapInv
  <2>1. AgeInv /\ LagInv
    BY <1>6 DEF TakeTick, GapInv
  <2>2. TickAge' = 0 /\ TickAge = Interval /\ tickerOn
    BY <1>6, <2>1 DEF TakeTick, AgeInv, TickAge
  <2>3. (i' - 1) * Timeout = 0
    BY <1>6 DEF TakeTick
  <2>4. ASSUME NEW k \in SourceIds PROVE ~Asked(k)' /\ Asked(k)
    BY <1>6 DEF TakeTick, Asked
  <2>5. LagInv'
    BY <1>6, <2>1, <2>2, <2>4 DEF TakeTick, LagInv
  <2>6. fetchFor = 0
    BY <1>6, <2>1 DEF TakeTick, AgeInv
  <2>7. AgeInv'
    BY <1>6, <2>1, <2>2, <2>3, <2>6 DEF TakeTick, AgeInv, Sweeping
  <2> QED BY <2>5, <2>7
<1>7. CASE Stop \/ Cancel
  <2>1. cancelled'
    BY <1>7 DEF Stop, Cancel
  <2> QED BY <2>1 DEF GapInv
<1>8. CASE Done \/ UNCHANGED vars
  <2>1. UNCHANGED vars
    BY <1>8 DEF Done
  <2>2. AgeInv' <=> AgeInv
    BY <2>1 DEF vars, AgeInv, TickAge, Sweeping
  <2>3. LagInv' <=> LagInv
    BY <2>1 DEF vars, LagInv, Asked, TickAge
  <2> QED BY <2>1, <2>2, <2>3 DEF vars, GapInv
<1> QED BY <1>1, <1>2, <1>3, <1>4, <1>5, <1>6, <1>7, <1>8 DEF Next

(* Two requests to one server are the floor and the configured interval    *)
(* apart, less the time of the servers asked before it (scheduler.go,      *)
(* newScheduler, Start and refreshAll), when a whole sweep of timeouts     *)
(* fits in an interval.                                                    *)
THEOREM FetchGapCorrect == SweepFits => (Spec => FetchGap)
<1> SUFFICES ASSUME SweepFits PROVE Spec => FetchGap
  OBVIOUS
<1>1. TypeInv /\ GapInv /\ [Next]_vars => GapInv'
  BY GapStep
<1>2. TypeInv /\ GapInv =>
        [\A k \in SourceIds : BeginFetch /\ i = k =>
            /\ since[k] >= MinInterval - (k - 1) * Timeout
            /\ since[k] >= Configured - (k - 1) * Timeout]_vars
  <2> SUFFICES ASSUME TypeInv, GapInv, NEW k \in SourceIds, BeginFetch, i = k
               PROVE  /\ since[k] >= MinInterval - (k - 1) * Timeout
                      /\ since[k] >= Configured - (k - 1) * Timeout
    OBVIOUS
  <2>1. LagInv /\ ~Asked(k)
    BY DEF BeginFetch, GapInv, Asked, TypeInv, TypeOK, SourceIds
  <2>2. since[k] >= Interval - (k - 1) * Timeout
    BY <2>1 DEF LagInv
  <2>3. /\ since[k] \in Int /\ (k - 1) * Timeout \in Int /\ Interval \in Int
        /\ Interval >= MinInterval /\ Interval >= Configured
    BY SchedulerAssumption DEF TypeInv, TypeOK, SourceIds, Interval
  <2> QED BY <2>2, <2>3, SchedulerAssumption
<1> QED BY <1>1, <1>2, GapInit, TypeInvariant, PTL DEF Spec, FetchGap

-----------------------------------------------------------------------------
(* The loop with the servers it asks and with restarts.                    *)
allVars == <<vars, freshVars>>

(* What a sweep may still take when the turn of source k comes.            *)
Rest(k) == (N - k + 1) * Timeout

(* How old a sweep can be.                                                 *)
Spent == (i - 1) * Timeout + fetchFor

(* Before the first tick, in a later sweep, and between two sweeps: how    *)
(* long ago the oldest thing that is missing from source k was published.  *)
LateInFirst ==
    \A k \in SourceIds : late[k] <= IF k >= i THEN Spent ELSE (i - k) * Timeout + fetchFor

LateInSweep ==
    /\ fetchFor <= TickAge
    /\ \A k \in SourceIds : late[k] <= IF k >= i THEN Rest(k) + Interval + TickAge ELSE TickAge

LateBetween == \A k \in SourceIds : late[k] <= Rest(k) + TickAge

LateInv ==
    /\ Sweeping /\ ~tickerOn => LateInFirst
    /\ Sweeping /\ tickerOn => LateInSweep
    /\ pc = "select" => LateBetween
    /\ \A k \in SourceIds : first[k] = "unasked" => ~tickerOn /\ k >= i

(* A cancelled loop fetches nothing any more, and time is not counted.     *)
FreshInv ==
    /\ FreshWithin /\ FirstSweepAtOnce
    /\ ~cancelled => LateInv

AllInv == TypeInv /\ GapInv /\ FreshTypeOK /\ FreshInv

-----------------------------------------------------------------------------
(* The turns before source k, its own and those behind it.                 *)
LEMMA TurnsAdd ==
  ASSUME NEW a \in Int, NEW b \in Int
  PROVE  (a + b) * Timeout = a * Timeout + b * Timeout /\ a * Timeout \in Int
  BY SchedulerAssumption

(* The bound of the theorem is above every turn, and a counter can hold it.*)
LEMMA BoundType ==
  /\ Interval + (N + 1) * Timeout \in Nat /\ Limit = Interval + (N + 1) * Timeout + 1
  /\ \A a \in 0 .. (N + 1) : a * Timeout \in Nat /\ a * Timeout <= (N + 1) * Timeout
<1> USE SchedulerAssumption, IntervalType
<1>1. ASSUME NEW a \in 0 .. (N + 1)
      PROVE  a * Timeout \in Nat /\ a * Timeout <= (N + 1) * Timeout
  BY NoMoreTime
<1>2. (N + 1) * Timeout \in Nat
  BY <1>1
<1> QED BY <1>1, <1>2 DEF Limit

(* Where the loop starts, the first time and after every restart.          *)
LEMMA FreshStart ==
  ASSUME StartUp, restarts \in 0 .. MaxRestarts
  PROVE  AllInv
<1>1. TypeInv /\ GapInv
  BY TypeInit, GapInit DEF StartUp
<1>2. \A k \in SourceIds : late[k] = 0 /\ first[k] = "unasked"
  BY DEF StartUp
<1>3. FreshTypeOK
  <2>1. 0 \in 0 .. Limit
    BY BoundType
  <2> QED BY <2>1 DEF StartUp, FreshTypeOK
<1>4. pc = "check" /\ i = 1 /\ fetchFor = 0 /\ ~tickerOn
  BY DEF StartUp, Init
<1>5. FreshWithin /\ FirstSweepAtOnce
  <2>1. \A k \in SourceIds : k \in 0 .. (N + 1) /\ k * Timeout >= 0
    BY BoundType, SchedulerAssumption DEF SourceIds
  <2> QED BY <1>2, <2>1, BoundType DEF FreshWithin, FirstSweepAtOnce
<1>6. LateInv
  <2>1. Spent = 0
    BY <1>4, SchedulerAssumption DEF Spent
  <2>2. \A k \in SourceIds : k >= i
    BY <1>4 DEF SourceIds
  <2> QED BY <1>2, <1>4, <2>1, <2>2 DEF LateInv, LateInFirst, Sweeping
<1> QED BY <1>1, <1>3, <1>5, <1>6 DEF AllInv, FreshInv

(* Every step but a restart is a step of the loop or leaves it alone.      *)
LEMMA LoopStep ==
  ASSUME [FreshNext]_allVars, ~Restart
  PROVE  [Next]_vars
  BY DEF FreshNext, allVars, Publish, Compose, Ask, Arrive, Fail, Show, Pass, Other, Next

(* The counters keep their types.                                          *)
LEMMA FreshTypeStep ==
  ASSUME TypeInv, FreshTypeOK, [FreshNext]_allVars, ~Restart
  PROVE  FreshTypeOK'
<1> USE DEF FreshTypeOK
<1>0. 0 \in 0 .. Limit /\ Limit \in Nat
  BY BoundType
<1>1. ASSUME NEW k \in SourceIds, Publish(k) PROVE FreshTypeOK'
  BY <1>1 DEF Publish
<1>2. CASE Compose \/ Ask \/ Arrive \/ Other
  BY <1>2 DEF Compose, Ask, Arrive, Other, freshVars
<1>3. CASE Fail
  BY <1>0, <1>3 DEF Fail
<1>4. CASE Show
  <2>1. fetchFor \in 0 .. Limit
    BY BoundType, NoMoreTime, SchedulerAssumption, IntervalType DEF TypeInv, TypeOK, Limit
  <2> QED BY <1>0, <1>4, <2>1 DEF Show
<1>5. CASE Pass
  <2>1. \A k \in SourceIds : late'[k] \in 0 .. Limit
    BY <1>0, <1>5 DEF Pass
  <2> QED BY <1>5, <2>1 DEF Pass
<1>6. CASE UNCHANGED allVars
  BY <1>6 DEF allVars, freshVars
<1> QED BY <1>1, <1>2, <1>3, <1>4, <1>5, <1>6 DEF FreshNext

-----------------------------------------------------------------------------
(* A source has had its turn: the others have waited one timeout at most,  *)
(* and what it lacks itself is no older than its fetch.                    *)
LEMMA FreshRecord ==
  ASSUME AllInv, Fail \/ Show
  PROVE  FreshInv'
<1> USE SchedulerAssumption, IntervalType DEF AllInv, TypeInv, TypeOK, FreshTypeOK
<1>1. /\ pc \in {"fetch", "parse"} /\ i \in SourceIds /\ i \in Int
      /\ pc' = "check" /\ i' = i + 1 /\ fetchFor' = 0
      /\ UNCHANGED <<cancelled, tickerVars>>
  BY DEF Fail, Show, FetchFails, FetchGivesUp, ParseFails, Merge, Record, SourceIds
<1>2. /\ late'[i] \in 0 .. fetchFor /\ first'[i] # "unasked"
      /\ \A k \in SourceIds \ {i} : late'[k] = late[k] /\ first'[k] = first[k]
  BY <1>1 DEF Fail, Show
<1>3. FreshWithin' /\ FirstSweepAtOnce'
  <2>1. Timeout <= Interval + (N + 1) * Timeout
    BY BoundType
  <2> QED BY <1>1, <1>2, <2>1 DEF FreshInv, FreshWithin, FirstSweepAtOnce
<1>4. ASSUME ~cancelled PROVE LateInv'
  <2>1. LateInv /\ Sweeping /\ Sweeping'
    BY <1>1, <1>4 DEF FreshInv, Sweeping
  <2>2. TickAge' = TickAge /\ TickAge \in Nat
    BY <1>1 DEF TickAge, tickerVars
  <2>3. ASSUME ~tickerOn PROVE LateInFirst'
    <3> SUFFICES ASSUME NEW k \in SourceIds
                 PROVE  late'[k] <= IF k >= i' THEN Spent' ELSE (i' - k) * Timeout
      BY <1>1 DEF LateInFirst
    <3>1. Spent' = (i - 1) * Timeout + Timeout /\ Spent <= Spent'
      BY <1>1, OneMore DEF Spent
    <3>2. k \in Int /\ (i' - k) * Timeout = (i - k) * Timeout + Timeout
      BY <1>1, TurnsAdd DEF SourceIds
    <3>3. CASE k = i
      BY <1>1, <1>2, <3>2, <3>3
    <3>4. CASE k # i
      <4>1. late'[k] = late[k] /\ late[k] \in Nat
        BY <1>2, <3>4
      <4>2. late[k] <= IF k >= i THEN Spent ELSE (i - k) * Timeout + fetchFor
        BY <2>1, <2>3 DEF LateInv, LateInFirst
      <4>3. (i - k) * Timeout \in Int /\ Spent \in Int /\ Spent' \in Int
        BY <1>1, <3>2, TurnsAdd DEF Spent
      <4> QED BY <1>1, <3>1, <3>2, <3>4, <4>1, <4>2, <4>3
    <3> QED BY <3>3, <3>4
  <2>4. ASSUME tickerOn PROVE LateInSweep'
    <3>1. LateInSweep
      BY <2>1, <2>4 DEF LateInv
    <3>2. \A k \in SourceIds : Rest(k)' = Rest(k)
      BY DEF Rest
    <3> QED BY <1>1, <1>2, <2>2, <3>1, <3>2 DEF LateInSweep, SourceIds
  <2>5. ASSUME NEW k \in SourceIds, first'[k] = "unasked" PROVE ~tickerOn' /\ k >= i'
    <3>1. k # i /\ first[k] = "unasked"
      BY <1>2, <2>5
    <3>2. ~tickerOn /\ k >= i
      BY <2>1, <3>1 DEF LateInv
    <3>3. k >= i'
      BY <1>1, <3>1, <3>2 DEF SourceIds
    <3> QED BY <1>1, <3>2, <3>3 DEF tickerVars
  <2> QED BY <1>1, <2>1, <2>3, <2>4, <2>5 DEF LateInv, tickerVars
<1> QED BY <1>1, <1>3, <1>4 DEF FreshInv

(* A unit of time.  In a fetch the sweep cannot use up more than the turns *)
(* that it has had; in the select the tick comes after one interval.       *)
LEMMA FreshAdvance ==
  ASSUME SweepFits, AllInv, Pass, AgeInv'
  PROVE  FreshInv'
<1> USE SchedulerAssumption, IntervalType DEF AllInv, TypeInv, TypeOK, FreshTypeOK
<1>1. /\ ~cancelled /\ AgeInv /\ LateInv /\ Advance
      /\ UNCHANGED <<pc, i, cancelled, tickerOn, first>>
  BY DEF Pass, Advance, Blocked, GapInv, FreshInv
<1>2. \A k \in SourceIds : late'[k] \in Nat /\ late'[k] <= late[k] + 1
  BY DEF Pass, Limit
<1>3. \A k \in SourceIds : Rest(k)' = Rest(k) /\ Rest(k) \in Nat /\ Rest(k) <= N * Timeout
  <2> SUFFICES ASSUME NEW k \in SourceIds PROVE Rest(k) \in Nat /\ Rest(k) <= N * Timeout
    BY DEF Rest
  <2>1. N - k + 1 \in 0 .. (N + 1) /\ N - k + 1 <= N
    BY DEF SourceIds
  <2> QED BY <2>1, BoundType, NoMoreTime DEF Rest
<1>4. N * Timeout \in Nat /\ (N + 1) * Timeout = N * Timeout + Timeout
  BY BoundType, OneMore
<1>5. \A k \in SourceIds : first'[k] = "unasked" => ~tickerOn' /\ k >= i'
  <2>1. \A k \in SourceIds : first[k] = "unasked" => ~tickerOn /\ k >= i
    BY <1>1 DEF LateInv
  <2> QED BY <1>1, <2>1, Zenon
<1>6. CASE pc = "fetch"
  <2>1. i \in SourceIds /\ i \in Int /\ fetchFor < Timeout /\ fetchFor' = fetchFor + 1
    BY <1>6 DEF Advance, Blocked, Pass, SourceIds
  <2>2. /\ (i - 1) * Timeout \in Int /\ i * Timeout = (i - 1) * Timeout + Timeout
        /\ i * Timeout <= N * Timeout /\ Spent' = Spent + 1 /\ Spent' <= i * Timeout
        /\ Spent \in Int
    BY <2>1, <1>1, OneMore, NoMoreTime, TurnsAdd DEF SourceIds, Spent
  <2>3. CASE ~tickerOn
    <3>1. ASSUME NEW k \in SourceIds, k >= i
          PROVE  late'[k] <= Spent' /\ Spent' <= k * Timeout /\ Spent' <= N * Timeout
      <4>1. late[k] <= Spent
        BY <1>1, <1>6, <2>3, <3>1 DEF LateInv, LateInFirst, Sweeping
      <4>2. i * Timeout <= k * Timeout /\ k * Timeout \in Int
        BY <2>1, <3>1, NoMoreTime, TurnsAdd DEF SourceIds
      <4> QED BY <1>2, <1>4, <2>2, <4>1, <4>2
    <3>2. ASSUME NEW k \in SourceIds, k < i
          PROVE  /\ late'[k] <= (i' - k) * Timeout + fetchFor'
                 /\ late'[k] <= N * Timeout
      <4>1. late[k] <= (i - k) * Timeout + fetchFor
        BY <1>1, <1>6, <2>1, <2>3, <3>2 DEF LateInv, LateInFirst, Sweeping, SourceIds
      <4>2. (i - k) * Timeout <= (N - 1) * Timeout /\ (i - k) * Timeout \in Int
        BY <2>1, NoMoreTime, TurnsAdd DEF SourceIds
      <4>3. N * Timeout = (N - 1) * Timeout + Timeout /\ (N - 1) * Timeout \in Int
        BY OneMore, TurnsAdd
      <4> QED BY <1>1, <1>2, <2>1, <4>1, <4>2, <4>3
    <3>3. LateInFirst'
      BY <1>1, <2>1, <3>1, <3>2 DEF LateInFirst, SourceIds
    <3>4. FreshWithin'
      <4>1. \A k \in SourceIds : late'[k] <= N * Timeout
        BY <1>2, <1>4, <2>1, <2>2, <3>1, <3>2 DEF SourceIds
      <4> QED BY <1>2, <1>4, <4>1 DEF FreshWithin
    <3>5. FirstSweepAtOnce'
      BY <1>1, <1>2, <1>5, <2>2, <3>1, BoundType DEF FirstSweepAtOnce, SourceIds
    <3> QED BY <1>1, <1>5, <1>6, <2>3, <3>3, <3>4, <3>5 DEF FreshInv, LateInv, Sweeping
  <2>4. CASE tickerOn
    <3>1. TickAge <= Spent /\ TickAge \in Nat
      BY <1>1, <1>6, <2>4 DEF AgeInv, Sweeping, TickAge, Spent
    <3>2. ~tickBuf
      BY <1>1, <2>1, <2>2, <3>1 DEF AgeInv, TickAge, Spent, SweepFits
    <3>3. TickAge' = TickAge + 1
      BY <2>4, <3>2 DEF Pass, Advance, TickAge
    <3>4. LateInSweep
      BY <1>1, <1>6, <2>4 DEF LateInv, Sweeping
    <3>5. LateInSweep'
      <4>1. fetchFor' <= TickAge'
        BY <2>1, <3>1, <3>3, <3>4 DEF LateInSweep
      <4>2. ASSUME NEW k \in SourceIds
            PROVE  late'[k] <= IF k >= i THEN Rest(k) + Interval + TickAge' ELSE TickAge'
        <5>1. late[k] <= IF k >= i THEN Rest(k) + Interval + TickAge ELSE TickAge
          BY <3>4 DEF LateInSweep
        <5>2. late[k] \in Nat /\ late'[k] \in Nat /\ late'[k] <= late[k] + 1
          BY <1>2
        <5> QED BY <1>3, <3>1, <3>3, <5>1, <5>2
      <4> QED BY <1>1, <1>3, <4>1, <4>2 DEF LateInSweep
    <3>6. ASSUME NEW k \in SourceIds PROVE late'[k] <= Interval + (N + 1) * Timeout
      <4>1. k \in Int /\ TickAge' <= i * Timeout /\ i * Timeout \in Int /\ TickAge' \in Int
        BY <2>2, <3>1, <3>3 DEF SourceIds
      <4>2. CASE k < i
        BY <1>1, <1>2, <1>4, <2>1, <2>2, <3>5, <4>1, <4>2 DEF LateInSweep
      <4>3. CASE k >= i
        <5>1. late'[k] <= Rest(k) + Interval + TickAge'
          BY <1>1, <1>3, <3>5, <4>3 DEF LateInSweep
        <5>2. i * Timeout <= k * Timeout /\ k * Timeout \in Int
          BY <2>1, <4>1, <4>3, NoMoreTime, TurnsAdd
        <5>3. (N + 1) * Timeout = Rest(k) + k * Timeout
          <6>1. N + 1 = (N - k + 1) + k
            BY <4>1
          <6> QED BY <4>1, <6>1, TurnsAdd DEF Rest
        <5> QED BY <1>2, <1>3, <4>1, <5>1, <5>2, <5>3
      <4> QED BY <2>1, <4>1, <4>2, <4>3
    <3>7. FreshWithin' /\ FirstSweepAtOnce'
      BY <1>1, <1>5, <2>4, <3>6 DEF FreshWithin, FirstSweepAtOnce
    <3> QED BY <1>1, <1>5, <1>6, <2>4, <3>5, <3>7 DEF FreshInv, LateInv, Sweeping
  <2> QED BY <2>3, <2>4
<1>7. CASE pc = "select" /\ ~tickBuf
  <2>1. tickerOn
    BY <1>1, <1>7 DEF AgeInv, Sweeping
  <2>2. TickAge' = TickAge + 1 /\ TickAge \in Nat /\ TickAge' <= Interval
    BY <1>7, <2>1 DEF Pass, Advance, TickAge
  <2>3. \A k \in SourceIds : late'[k] <= Rest(k) + TickAge'
    BY <1>1, <1>2, <1>3, <1>7, <2>2 DEF LateInv, LateBetween
  <2>4. FreshWithin'
    BY <1>2, <1>3, <1>4, <2>2, <2>3 DEF FreshWithin
  <2>5. FirstSweepAtOnce'
    BY <1>1, <1>5, <2>1 DEF FirstSweepAtOnce
  <2>6. LateBetween'
    BY <1>3, <2>3 DEF LateBetween
  <2> QED BY <1>1, <1>5, <1>7, <2>4, <2>5, <2>6 DEF FreshInv, LateInv, Sweeping
<1> QED BY <1>1, <1>6, <1>7 DEF Advance, Blocked

(* The other steps move the loop, not the counters.                        *)
LEMMA FreshStep ==
  ASSUME SweepFits, AllInv, [FreshNext]_allVars, ~Restart
  PROVE  AllInv'
<1> USE SchedulerAssumption, IntervalType
<1>1. TypeInv' /\ GapInv'
  BY LoopStep, TypeStep, GapStep DEF AllInv
<1>2. FreshTypeOK'
  BY FreshTypeStep DEF AllInv
<1>3. CASE Fail \/ Show
  BY <1>1, <1>2, <1>3, FreshRecord DEF AllInv
<1>4. CASE Pass
  <2>1. ~cancelled'
    BY <1>4 DEF Pass, Advance, Blocked
  <2> QED BY <1>1, <1>2, <1>4, <2>1, FreshAdvance DEF AllInv, GapInv
<1>5. ASSUME UNCHANGED <<late, first>>, ~cancelled' => LateInv'
      PROVE  AllInv'
  BY <1>1, <1>2, <1>5 DEF AllInv, FreshInv, FreshWithin, FirstSweepAtOnce
<1>6. ASSUME UNCHANGED <<late, first, pc, i, fetchFor, tickerOn, tickIn, tickBuf, cancelled>>
      PROVE  AllInv'
  <2>1. ~cancelled => LateInv
    BY DEF AllInv, FreshInv
  <2>2. TickAge' = TickAge /\ Spent' = Spent /\ \A k : Rest(k)' = Rest(k)
    BY <1>6 DEF TickAge, Spent, Rest
  <2>3. ~cancelled => LateInv'
    BY <1>6, <2>1, <2>2
    DEF LateInv, LateInFirst, LateInSweep, LateBetween, Sweeping
  <2> QED BY <1>5, <1>6, <2>3
<1>7. ASSUME NEW k \in SourceIds, Publish(k) PROVE AllInv'
  BY <1>6, <1>7 DEF Publish, vars
<1>8. CASE Compose \/ UNCHANGED allVars
  BY <1>6, <1>8 DEF Compose, allVars, vars, freshVars
<1>9. CASE Ask \/ Arrive
  <2> SUFFICES ASSUME ~cancelled PROVE LateInv'
    BY <1>5, <1>9 DEF Ask, Arrive, BeginFetch, FetchReturns, freshVars
  <2>1. LateInv /\ AgeInv
    BY DEF AllInv, FreshInv, GapInv
  <2>2. /\ Sweeping /\ Sweeping' /\ pc # "select" /\ pc' # "select"
        /\ fetchFor' = fetchFor
        /\ UNCHANGED <<late, first, i, tickerOn, tickIn, tickBuf>>
    BY <1>9, <2>1 DEF Ask, Arrive, BeginFetch, FetchReturns, freshVars, tickerVars,
                      AgeInv, Sweeping
  <2>3. TickAge' = TickAge /\ Spent' = Spent /\ \A k : Rest(k)' = Rest(k)
    BY <2>2 DEF TickAge, Spent, Rest
  <2> QED BY <2>1, <2>2, <2>3 DEF LateInv, LateInFirst, LateInSweep
<1>10. CASE Other /\ EndSweep
  <2> SUFFICES ASSUME ~cancelled PROVE LateInv'
    BY <1>5, <1>10 DEF Other, EndSweep, freshVars
  <2>1. /\ LateInv /\ AgeInv /\ TypeOK /\ FreshTypeOK /\ Sweeping
        /\ i = N + 1 /\ fetchFor = 0 /\ pc' = "select" /\ ~Sweeping'
        /\ UNCHANGED <<late, first, i, tickBuf>>
    BY <1>10 DEF AllInv, TypeInv, FreshInv, GapInv, Other, EndSweep, freshVars, Sweeping, AgeInv
  <2>2. ASSUME NEW k \in SourceIds
        PROVE  first'[k] # "unasked" /\ late'[k] <= Rest(k)' + TickAge'
    <3>1. k < i /\ i - k = N - k + 1 /\ Rest(k)' = Rest(k) /\ k \in Int
      BY <2>1 DEF SourceIds, Rest
    <3>2. Rest(k) \in Nat
      BY <3>1, BoundType DEF Rest, SourceIds
    <3>3. first'[k] # "unasked"
      <4>1. ~(k >= i)
        BY <2>1, <3>1
      <4> QED BY <2>1, <4>1 DEF LateInv
    <3>4. late[k] \in Nat
      BY <2>1 DEF FreshTypeOK
    <3>5. CASE tickerOn
      <4>1. TickAge' = TickAge /\ TickAge \in Nat
        BY <1>10, <2>1, <3>5 DEF EndSweep, TickAge, TypeOK
      <4>2. late[k] <= TickAge
        BY <2>1, <3>1, <3>5 DEF LateInv, LateInSweep
      <4> QED BY <2>1, <3>1, <3>2, <3>3, <3>4, <4>1, <4>2
    <3>6. CASE ~tickerOn
      <4>1. TickAge' = 0
        BY <1>10, <2>1, <3>6 DEF EndSweep, TickAge, AgeInv
      <4>2. late[k] <= Rest(k)
        BY <2>1, <3>1, <3>2, <3>6 DEF LateInv, LateInFirst, Rest
      <4> QED BY <2>1, <3>1, <3>2, <3>3, <3>4, <4>1, <4>2
    <3> QED BY <3>5, <3>6
  <2> QED BY <2>1, <2>2 DEF LateInv, LateBetween
<1>11. CASE Other /\ TakeTick
  <2> SUFFICES ASSUME ~cancelled PROVE LateInv'
    BY <1>5, <1>11 DEF Other, TakeTick, freshVars
  <2>1. /\ LateInv /\ AgeInv /\ TypeOK /\ FreshTypeOK /\ pc = "select" /\ tickBuf
        /\ pc' = "check" /\ i' = 1 /\ ~tickBuf' /\ Sweeping'
        /\ UNCHANGED <<late, first, fetchFor, tickerOn, tickIn>>
    BY <1>11 DEF AllInv, TypeInv, FreshInv, GapInv, Other, TakeTick, freshVars, Sweeping
  <2>2. tickerOn /\ tickIn = Interval /\ fetchFor' = 0
    BY <2>1 DEF AgeInv, Sweeping
  <2>3. TickAge = Interval /\ TickAge' = 0
    BY <2>1, <2>2 DEF TickAge
  <2>4. ASSUME NEW k \in SourceIds
        PROVE  k >= i' /\ late'[k] <= Rest(k)' + Interval + TickAge'
    <3>1. late[k] <= Rest(k) + Interval
      BY <2>1, <2>3 DEF LateInv, LateBetween
    <3>2. Rest(k)' = Rest(k) /\ k \in Int /\ k >= 1
      BY DEF Rest, SourceIds
    <3>3. Rest(k) \in Nat
      BY <3>2, BoundType DEF Rest, SourceIds
    <3> QED BY <2>1, <2>3, <3>1, <3>2, <3>3
  <2>5. LateInSweep'
    BY <2>2, <2>3, <2>4 DEF LateInSweep
  <2>6. \A k \in SourceIds : first'[k] # "unasked"
    BY <2>1, <2>2 DEF LateInv
  <2> QED BY <2>1, <2>2, <2>5, <2>6 DEF LateInv
<1>12. CASE Other /\ (Stop \/ Cancel)
  <2>1. UNCHANGED <<late, first>> /\ cancelled'
    BY <1>12 DEF Other, freshVars, Stop, Cancel
  <2> QED BY <1>5, <2>1
<1> QED BY <1>3, <1>4, <1>7, <1>8, <1>9, <1>10, <1>11, <1>12 DEF FreshNext, Other

LEMMA FreshBegins == FreshInit => AllInv
<1>1. FreshInit => StartUp /\ restarts \in 0 .. MaxRestarts
  BY RestartsAssumption DEF FreshInit
<1> QED BY <1>1, FreshStart

(* A new process is where the first one began.                             *)
LEMMA RestartStep == AllInv /\ Restart => AllInv'
<1>1. AllInv /\ Restart => (StartUp /\ restarts \in 0 .. MaxRestarts)'
  BY RestartsAssumption DEF AllInv, FreshTypeOK, Restart, StartUp, Init
<1>2. StartUp /\ restarts \in 0 .. MaxRestarts => AllInv
  BY FreshStart
<1>3. (StartUp /\ restarts \in 0 .. MaxRestarts)' => AllInv'
  BY <1>2, PTL
<1> QED BY <1>1, <1>3

(* When a sweep fits its interval: what a source publishes reaches the     *)
(* store within one interval and one timeout per source and one more, if   *)
(* the source itself does not fail, whatever the other sources do          *)
(* (scheduler.go, refreshAll goes on after a failure; Start's ticker).     *)
THEOREM FreshCorrect == SweepFits => (FreshSpec => []FreshWithin)
<1> SUFFICES ASSUME SweepFits PROVE FreshSpec => []FreshWithin
  OBVIOUS
<1>1. AllInv /\ [FreshNext]_allVars => AllInv'
  BY FreshStep, RestartStep
<1>2. AllInv => FreshWithin
  BY DEF AllInv, FreshInv
<1> QED BY <1>1, <1>2, FreshBegins, PTL DEF FreshSpec, allVars

(* A process asks every source once before it waits for its ticker: within *)
(* k timeouts source k is in the store or has failed (scheduler.go, the    *)
(* refreshAll before NewTicker in Start).                                  *)
THEOREM FirstSweepCorrect == SweepFits => (FreshSpec => []FirstSweepAtOnce)
<1> SUFFICES ASSUME SweepFits PROVE FreshSpec => []FirstSweepAtOnce
  OBVIOUS
<1>1. AllInv /\ [FreshNext]_allVars => AllInv'
  BY FreshStep, RestartStep
<1>2. AllInv => FirstSweepAtOnce
  BY DEF AllInv, FreshInv
<1> QED BY <1>1, <1>2, FreshBegins, PTL DEF FreshSpec, allVars
=============================================================================
