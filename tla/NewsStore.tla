------------------------------ MODULE NewsStore ------------------------------
(***************************************************************************)
(* The news store of internal/news/store.go: a map from source to items    *)
(* and a map from source to health, both guarded by one sync.RWMutex.      *)
(* Every critical section is cut into the accesses it makes, so that a     *)
(* missing or misplaced lock call would show.                              *)
(*                                                                         *)
(* Go's RWMutex is modelled from its documented contract: a writer first   *)
(* announces itself (one at a time), from then on new readers wait, and    *)
(* the writer enters once the readers that were inside have left.  Unlock  *)
(* lets in every waiting reader before the next writer can announce.       *)
(***************************************************************************)
EXTENDS NewsItems

CONSTANTS
    Writers,        \* goroutines that call Merge and SetError
    Readers,        \* goroutines that call Latest (requests for /news)
    Monitors,       \* goroutines that call Health
    NoWriter

ASSUME ClientsAssumption ==
    /\ NoWriter \notin Writers
    /\ Writers \cap (Readers \cup Monitors) = {}
    /\ Readers \cap Monitors = {}

Clients == Readers \cup Monitors

VARIABLES
    bySource,       \* Store.bySource; a source without a key has no items
    health,         \* Store.health, per source
    holder,         \* the writer that announced itself to the RWMutex
    wpc,            \* where a writer is in Merge or SetError
    job,            \* what a writer was called with
    rpc,            \* where a reader or monitor is in Latest or Health
    seen,           \* the sources a reader has copied
    copied,         \* the lists a reader has copied
    page,           \* what a reader's last call returned
    report          \* what a monitor's last call returned

vars == <<bySource, health, holder, wpc, job, rpc, seen, copied, page, report>>

lockVars == <<holder, wpc, job>>
readVars == <<rpc, seen, copied, page, report>>

(* SourceHealth: whether the record exists, LastOK and LastErr are set,    *)
(* and ItemCount.  The two clock readings themselves are left out.         *)
Counts == {0} \cup UNION {{Len(batch) : batch \in Batches(s)} : s \in Sources}

HealthRecord == [known : BOOLEAN, ok : BOOLEAN, failed : BOOLEAN, count : Counts]

NoHealth == [known |-> FALSE, ok |-> FALSE, failed |-> FALSE, count |-> 0]

Jobs == [op : {"merge", "error"}, src : Sources, feed : Feeds \cup {NoItems}]

NoJob == [op |-> "none", src |-> "none", feed |-> NoItems]

TypeOK ==
    /\ bySource \in Boards
    /\ health \in [Sources -> HealthRecord]
    /\ holder \in Writers \cup {NoWriter}
    /\ wpc \in [Writers -> {"idle", "lock", "drain", "items", "health"}]
    /\ job \in [Writers -> Jobs \cup {NoJob}]
    /\ \A w \in Writers : wpc[w] # "idle" => job[w] \in Jobs
    /\ rpc \in [Clients -> {"idle", "called", "blocked", "locked", "unlocked"}]
    /\ seen \in [Readers -> SUBSET Sources]
    /\ copied \in [Readers -> Boards]
    /\ DOMAIN page = Readers
    /\ report \in [Monitors -> [Sources -> HealthRecord]]

Init ==
    /\ bySource = EmptyBoard
    /\ health = [s \in Sources |-> NoHealth]
    /\ holder = NoWriter
    /\ wpc = [w \in Writers |-> "idle"]
    /\ job = [w \in Writers |-> NoJob]
    /\ rpc = [c \in Clients |-> "idle"]
    /\ seen = [r \in Readers |-> {}]
    /\ copied = [r \in Readers |-> EmptyBoard]
    /\ page = [r \in Readers |-> NoItems]
    /\ report = [m \in Monitors |-> [s \in Sources |-> NoHealth]]

-----------------------------------------------------------------------------
(* Mutant of CallMerge: Merge does not lock.                               *)
CallMergeNoLock(w, s, feed) ==
    /\ wpc[w] = "idle"
    /\ job' = [job EXCEPT ![w] = [op |-> "merge", src |-> s, feed |-> feed]]
    /\ wpc' = [wpc EXCEPT ![w] = "items"]
    /\ UNCHANGED <<bySource, health, holder, readVars>>

(* Merge and SetError.  Merge cleans the fetched set before it locks; the  *)
(* cleaned list is a function of the job, so it is computed where stored.  *)
CallMerge(w, s, feed) ==
    /\ wpc[w] = "idle"
    /\ job' = [job EXCEPT ![w] = [op |-> "merge", src |-> s, feed |-> feed]]
    /\ wpc' = [wpc EXCEPT ![w] = "lock"]
    /\ UNCHANGED <<bySource, health, holder, readVars>>

(* Mutant of CallSetError: SetError does not lock.                         *)
CallSetErrorNoLock(w, s) ==
    /\ wpc[w] = "idle"
    /\ job' = [job EXCEPT ![w] = [op |-> "error", src |-> s, feed |-> NoItems]]
    /\ wpc' = [wpc EXCEPT ![w] = "health"]
    /\ UNCHANGED <<bySource, health, holder, readVars>>

CallSetError(w, s) ==
    /\ wpc[w] = "idle"
    /\ job' = [job EXCEPT ![w] = [op |-> "error", src |-> s, feed |-> NoItems]]
    /\ wpc' = [wpc EXCEPT ![w] = "lock"]
    /\ UNCHANGED <<bySource, health, holder, readVars>>

(* First half of mu.Lock: win the writers' mutex and turn readers away.    *)
Announce(w) ==
    /\ wpc[w] = "lock"
    /\ holder = NoWriter
    /\ holder' = w
    /\ wpc' = [wpc EXCEPT ![w] = "drain"]
    /\ UNCHANGED <<bySource, health, job, readVars>>

NoReaderInside == \A c \in Clients : rpc[c] # "locked"

(* Second half of mu.Lock: wait for the readers that are still inside.     *)
Enter(w) ==
    /\ wpc[w] = "drain"
    /\ NoReaderInside
    /\ wpc' = [wpc EXCEPT ![w] = IF job[w].op = "merge" THEN "items" ELSE "health"]
    /\ UNCHANGED <<bySource, health, holder, job, readVars>>

StoreItems(w) ==
    /\ wpc[w] = "items"
    /\ bySource' = [bySource EXCEPT
            ![job[w].src] = Clean(Stamp(job[w].feed, job[w].src))]
    /\ wpc' = [wpc EXCEPT ![w] = "health"]
    /\ UNCHANGED <<health, holder, job, readVars>>

(* Mutant of HealthAfter: the count of the fetched set, not of the stored. *)
HealthAfterRawCount(h, j) ==
    IF j.op = "merge"
    THEN [h EXCEPT !.known = TRUE, !.ok = TRUE, !.count = Len(j.feed)]
    ELSE [h EXCEPT !.known = TRUE, !.failed = TRUE]

(* healthLocked and the fields each operation sets in the record.          *)
HealthAfter(h, j) ==
    IF j.op = "merge"
    THEN [h EXCEPT !.known = TRUE, !.ok = TRUE,
                   !.count = Len(Clean(Stamp(j.feed, j.src)))]
    ELSE [h EXCEPT !.known = TRUE, !.failed = TRUE]

(* Mutant of StoreHealth: a merge returns without Unlock.                  *)
StoreHealthNoUnlock(w) ==
    /\ wpc[w] = "health"
    /\ health' = [health EXCEPT ![job[w].src] = HealthAfter(@, job[w])]
    /\ holder' = IF job[w].op = "merge" THEN holder ELSE NoWriter
    /\ wpc' = [wpc EXCEPT ![w] = "idle"]
    /\ job' = [job EXCEPT ![w] = NoJob]
    /\ rpc' = [c \in Clients |-> IF rpc[c] = "blocked" THEN "locked" ELSE rpc[c]]
    /\ UNCHANGED <<bySource, seen, copied, page, report>>

(* Mutant of StoreHealth: a failed fetch empties the list and its count.   *)
StoreHealthClears(w) ==
    /\ wpc[w] = "health"
    /\ health' = [health EXCEPT ![job[w].src] =
            IF job[w].op = "merge" THEN HealthAfter(@, job[w])
            ELSE [HealthAfter(@, job[w]) EXCEPT !.count = 0]]
    /\ bySource' = IF job[w].op = "merge" THEN bySource
                   ELSE [bySource EXCEPT ![job[w].src] = NoItems]
    /\ holder' = NoWriter
    /\ wpc' = [wpc EXCEPT ![w] = "idle"]
    /\ job' = [job EXCEPT ![w] = NoJob]
    /\ rpc' = [c \in Clients |-> IF rpc[c] = "blocked" THEN "locked" ELSE rpc[c]]
    /\ UNCHANGED <<seen, copied, page, report>>

(* Update the health record and return; the deferred Unlock lets in every  *)
(* reader that waits.                                                      *)
StoreHealth(w) ==
    /\ wpc[w] = "health"
    /\ health' = [health EXCEPT ![job[w].src] = HealthAfter(@, job[w])]
    /\ holder' = NoWriter
    /\ wpc' = [wpc EXCEPT ![w] = "idle"]
    /\ job' = [job EXCEPT ![w] = NoJob]
    /\ rpc' = [c \in Clients |-> IF rpc[c] = "blocked" THEN "locked" ELSE rpc[c]]
    /\ UNCHANGED <<bySource, seen, copied, page, report>>

-----------------------------------------------------------------------------
(* Latest and Health.  The variables of the last call are kept until the   *)
(* next one starts.                                                        *)
CallLatest(r) ==
    /\ rpc[r] = "idle"
    /\ rpc' = [rpc EXCEPT ![r] = "called"]
    /\ page' = [page EXCEPT ![r] = NoItems]
    /\ copied' = [copied EXCEPT ![r] = EmptyBoard]
    /\ seen' = [seen EXCEPT ![r] = {}]
    /\ UNCHANGED <<bySource, health, lockVars, report>>

CallHealth(m) ==
    /\ rpc[m] = "idle"
    /\ rpc' = [rpc EXCEPT ![m] = "called"]
    /\ UNCHANGED <<bySource, health, lockVars, seen, copied, page, report>>

(* mu.RLock: a reader enters unless a writer has announced itself.         *)
RLock(c) ==
    /\ rpc[c] = "called"
    /\ rpc' = [rpc EXCEPT ![c] = IF holder = NoWriter THEN "locked" ELSE "blocked"]
    /\ UNCHANGED <<bySource, health, lockVars, seen, copied, page, report>>

(* One turn of All's loop over the map.                                    *)
Copy(r, s) ==
    /\ rpc[r] = "locked"
    /\ s \notin seen[r]
    /\ copied' = [copied EXCEPT ![r][s] = bySource[s]]
    /\ seen' = [seen EXCEPT ![r] = @ \cup {s}]
    /\ UNCHANGED <<bySource, health, lockVars, rpc, page, report>>

(* Mutant of RUnlock: the lock is given up while the loop still runs.      *)
RUnlockEarly(r) ==
    /\ rpc[r] = "locked"
    /\ seen[r] # {}
    /\ rpc' = [rpc EXCEPT ![r] = "unlocked"]
    /\ UNCHANGED <<bySource, health, lockVars, seen, copied, page, report>>

RUnlock(r) ==
    /\ rpc[r] = "locked"
    /\ seen[r] = Sources
    /\ rpc' = [rpc EXCEPT ![r] = "unlocked"]
    /\ UNCHANGED <<bySource, health, lockVars, seen, copied, page, report>>

(* All sorts and deduplicates its own copy without the lock, Latest cuts.  *)
Return(r) ==
    /\ rpc[r] = "unlocked"
    /\ \E p \in Pages(copied[r]) : page' = [page EXCEPT ![r] = p]
    /\ rpc' = [rpc EXCEPT ![r] = "idle"]
    /\ UNCHANGED <<bySource, health, lockVars, seen, copied, report>>

(* Health copies the records under the read lock and returns.              *)
Report(m) ==
    /\ rpc[m] = "locked"
    /\ report' = [report EXCEPT ![m] = health]
    /\ rpc' = [rpc EXCEPT ![m] = "idle"]
    /\ UNCHANGED <<bySource, health, lockVars, seen, copied, page>>

-----------------------------------------------------------------------------
Write(w) == Announce(w) \/ Enter(w) \/ StoreItems(w) \/ StoreHealth(w)

Read(r) == RLock(r) \/ (\E s \in Sources : Copy(r, s)) \/ RUnlock(r) \/ Return(r)

Inspect(m) == RLock(m) \/ Report(m)

Next ==
    \/ \E w \in Writers, s \in Sources, feed \in Feeds : CallMerge(w, s, feed)
    \/ \E w \in Writers, s \in Sources : CallSetError(w, s)
    \/ \E w \in Writers : Write(w)
    \/ \E r \in Readers : CallLatest(r) \/ Read(r)
    \/ \E m \in Monitors : CallHealth(m) \/ Inspect(m)

Spec == Init /\ [][Next]_vars

(* The Go scheduler runs every goroutine that can run, and sync.Mutex      *)
(* hands itself to a writer that has waited long, so no writer is passed   *)
(* over for ever.  Nothing makes a caller call.                            *)
Fairness ==
    /\ \A w \in Writers : WF_vars(Write(w)) /\ SF_vars(Announce(w))
    /\ \A r \in Readers : WF_vars(Read(r))
    /\ \A m \in Monitors : WF_vars(Inspect(m))

FairSpec == Spec /\ Fairness

-----------------------------------------------------------------------------
(* What the mutex is for: a writer changes the maps alone.  Whoever is     *)
(* between Lock and Unlock is the announced writer, and no reader is       *)
(* between RLock and RUnlock then.                                         *)
Inside(w) == wpc[w] \in {"items", "health"}

LockExclusion ==
    \A w \in Writers :
        /\ wpc[w] \in {"drain", "items", "health"} <=> holder = w
        /\ Inside(w) => NoReaderInside

(* All copies the lists one after another, yet what a reader has copied is *)
(* at every moment what the store holds: no Merge slips in between.        *)
SnapshotWhole ==
    \A r \in Readers : rpc[r] = "locked" =>
        \A s \in seen[r] : copied[r][s] = bySource[s]

(* ItemCount is the number of items that the store really holds, whatever  *)
(* fetches and failures came before, except inside the critical section of *)
(* the Merge that is just changing both; a source has items only if some   *)
(* fetch succeeded.                                                        *)
HealthMatchesItems ==
    \A s \in Sources :
        \/ \E w \in Writers :
              wpc[w] = "health" /\ job[w].op = "merge" /\ job[w].src = s
        \/ /\ health[s].count = Len(bySource[s])
           /\ bySource[s] # NoItems => health[s].ok
           /\ health[s].known <=> health[s].ok \/ health[s].failed

(* A report of Health describes the items of that very moment.             *)
ReportMatchesItems ==
    [][\A m \in Monitors : Report(m) =>
            \A s \in Sources : report'[m][s].count = Len(bySource[s])]_vars

(* What Merge stored stands for what was fetched: nothing invented, no two *)
(* items with one link or headline, newest first, within the limit; and an *)
(* entry of the feed is missing only when an earlier entry has its link or *)
(* headline, or when the limit was reached with entries at least as new.   *)
DigestSound ==
    \A w \in Writers : wpc[w] = "health" /\ job[w].op = "merge" =>
        LET fetched == Stamp(job[w].feed, job[w].src)
            kept == bySource[job[w].src]
        IN  /\ Elements(kept) \subseteq Elements(fetched)
            /\ NoDuplicates(kept)
            /\ NewestFirst(kept)
            /\ Len(kept) <= PerSource
            /\ \A i \in DOMAIN fetched :
                    \/ fetched[i] \in Elements(kept)
                    \/ \E j \in 1 .. (i - 1) : Duplicates(fetched[j], fetched[i])
                    \/ OmitsOnlyOlder(kept, fetched[i], PerSource)

(* A page holds stored items only, newest first, no headline or link       *)
(* twice across the sources; and a stored item is missing only when a copy *)
(* at least as new is shown or the page is full of items at least as new.  *)
Answered(r) == rpc[r] = "idle" /\ seen[r] = Sources

PageSound ==
    \A r \in Readers : Answered(r) =>
        /\ Elements(page[r]) \subseteq Stored(copied[r])
        /\ NoDuplicates(page[r])
        /\ NewestFirst(page[r])
        /\ Len(page[r]) <= PageSize
        /\ \A it \in Stored(copied[r]) :
                \/ ShownByNewerCopy(page[r], it)
                \/ OmitsOnlyOlder(page[r], it, PageSize)

(* The store is a board: Merge replaces a list in one step, SetError and   *)
(* the readers leave every list alone, and a page is computed from the     *)
(* board as it stood when the reader left the lock.                        *)
Board == INSTANCE NewsBoard WITH
    board <- bySource,
    ready <- {r \in Readers : rpc[r] = "unlocked"},
    snapshot <- [r \in Readers |->
                    IF rpc[r] = "unlocked" THEN copied[r] ELSE EmptyBoard]

ImplementsBoard == Board!Spec

(* Every Merge, SetError, Latest and Health that waits for the lock        *)
(* returns: the writers are not kept out by a stream of readers, nor the   *)
(* other way.                                                              *)
CallsReturn ==
    /\ \A w \in Writers : wpc[w] = "lock" ~> wpc[w] = "idle"
    /\ \A c \in Clients : rpc[c] = "called" ~> rpc[c] = "idle"

(* The comment of dedupe: "callers sort newest-first beforehand so the     *)
(* newest copy wins".  Merge does not sort first.                          *)
NewestCopyWins ==
    \A w \in Writers : wpc[w] = "health" /\ job[w].op = "merge" =>
        LET fetched == Stamp(job[w].feed, job[w].src)
        IN  \A kept \in Elements(bySource[job[w].src]), it \in Elements(fetched) :
                SameLink(kept, it) => kept.published >= it.published
=============================================================================
