------------------------------ MODULE ServerRun ------------------------------
(***************************************************************************)
(* The life of one process of cmd/server/main.go: run starts up step by    *)
(* step, serves, and drains on a signal.  What net/http and the kernel do  *)
(* is modelled as far as run relies on it: connections wait in the         *)
(* listener's queue until Serve accepts them, Shutdown closes the listener *)
(* and waits for the accepted ones.  A connection carries one request; idle*)
(* ones do not count.  Time passes in units.                               *)
(***************************************************************************)
EXTENDS Integers, FiniteSets

CONSTANTS
    Conns,
    DrainLimit,     \* timeout of shutdownCtx, ten seconds
    Longest         \* the most an accepted connection may take: the server's
                    \* read and write timeouts together

ASSUME ServerAssumption ==
    DrainLimit \in Nat \ {0} /\ Longest \in Nat \ {0} /\ DrainLimit < Longest

VARIABLES
    pc,         \* of run: "handler", "listen", "notify", "launch", "select",
                \* "drain", "exited"
    status,     \* how the process ended; "running" until it does
    signalled,  \* ctx is cancelled
    collector,  \* the news scheduler has been started
    server,     \* srv: "off", "starting", "serving", "closed", "failed"
    listener,   \* "unbound", "bound", "closed"
    conn,       \* per visitor: "away", "queued", "active", then its fate:
                \* "answered", "late", or "refused" (nobody listens), "reset"
                \* (from the queue), "cut" (while it was served)
    age,        \* time since a connection was accepted, until its fate
    drained     \* time since Shutdown was called

vars == <<pc, status, signalled, collector, server, listener, conn, age, drained>>
serverVars == <<server, listener, conn, age, drained>>

TypeOK ==
    /\ pc \in {"handler", "listen", "notify", "launch", "select", "drain", "exited"}
    /\ status \in {"running", "failed start", "ok", "error", "killed"}
    /\ pc = "exited" <=> status # "running"
    /\ signalled \in BOOLEAN /\ collector \in BOOLEAN
    /\ server \in {"off", "starting", "serving", "closed", "failed"}
    /\ listener \in {"unbound", "bound", "closed"}
    /\ conn \in [Conns -> {"away", "queued", "active", "answered", "late",
                           "refused", "reset", "cut"}]
    /\ age \in [Conns -> 0 .. Longest]
    /\ drained \in 0 .. DrainLimit

Init ==
    /\ pc = "handler" /\ status = "running"
    /\ signalled = FALSE /\ collector = FALSE
    /\ server = "off" /\ listener = "unbound"
    /\ conn = [c \in Conns |-> "away"] /\ age = [c \in Conns |-> 0]
    /\ drained = 0

Active == {c \in Conns : conn[c] = "active"}

(* The listener goes away, and with it the connections in its queue.       *)
QueueReset == [c \in Conns |-> IF conn[c] = "queued" THEN "reset" ELSE conn[c]]

-----------------------------------------------------------------------------
(* run returns or the process is killed; the kernel closes what is open.   *)
Exit(result) ==
    /\ pc' = "exited" /\ status' = result
    /\ listener' = "closed"
    /\ conn' = [c \in Conns |-> IF conn[c] = "active" THEN "cut" ELSE QueueReset[c]]
    /\ UNCHANGED <<signalled, collector, server, age, drained>>

Proceed(from, to) ==
    pc = from /\ pc' = to /\ UNCHANGED <<status, signalled, age, drained>>

(* NewHandler loads the directory and the templates.                       *)
HandlerFails == pc = "handler" /\ Exit("failed start")

(* Mutant of HandlerReady: the port is bound before the handler is built.  *)
HandlerReadyBound ==
    \/ /\ listener = "unbound" /\ Proceed("handler", "handler")
       /\ listener' = "bound" /\ UNCHANGED <<collector, server, conn>>
    \/ /\ listener = "bound" /\ Proceed("handler", "notify")
       /\ UNCHANGED <<collector, server, listener, conn>>

HandlerReady ==
    Proceed("handler", "listen") /\ UNCHANGED <<collector, server, listener, conn>>

BindFails == pc = "listen" /\ Exit("failed start")

Bind ==
    /\ Proceed("listen", "notify")
    /\ listener' = "bound"
    /\ UNCHANGED <<collector, server, conn>>

NotifyContext ==
    Proceed("notify", "launch") /\ UNCHANGED <<collector, server, listener, conn>>

(* Mutant of Launch: Serve is not called.                                  *)
LaunchCollectorOnly ==
    /\ Proceed("launch", "select")
    /\ collector' = TRUE
    /\ UNCHANGED <<server, listener, conn>>

(* Scheduler.Start, which only starts a goroutine, and the goroutine for   *)
(* Serve, which gets to run some time later.                               *)
Launch ==
    /\ Proceed("launch", "select")
    /\ collector' = TRUE
    /\ server' = "starting"
    /\ UNCHANGED <<listener, conn>>

(* The select of run.  With both channels ready Go picks either.  Serve    *)
(* reports ErrServerClosed only after a Shutdown, so not here.             *)
ServeReturned ==
    /\ pc = "select" /\ server \in {"closed", "failed"}
    /\ Exit(IF server = "closed" THEN "ok" ELSE "error")

(* Mutant of BeginShutdown: the select has no case for the context.        *)
BeginShutdownNever == pc = "select" /\ signalled /\ UNCHANGED vars

(* Mutant of BeginShutdown: Close in place of Shutdown.                    *)
BeginShutdownHard == pc = "select" /\ signalled /\ Exit("ok")

(* Shutdown closes the listeners that Serve has registered, and returns    *)
(* from this part only when Serve has stopped accepting.                   *)
BeginShutdown ==
    /\ pc = "select" /\ signalled
    /\ pc' = "drain"
    /\ IF server = "serving"
         THEN server' = "closed" /\ listener' = "closed" /\ conn' = QueueReset
         ELSE UNCHANGED <<server, listener, conn>>
    /\ UNCHANGED <<status, signalled, collector, age, drained>>

DrainDone == pc = "drain" /\ Active = {} /\ Exit("ok")

(* Mutant of DrainTimesOut: shutdownCtx is derived from the cancelled ctx. *)
DrainTimesOutAtOnce == pc = "drain" /\ Exit("error")

(* shutdownCtx expires.  Shutdown polls the connections, so it may take    *)
(* this way out although the last one has just been answered.              *)
DrainTimesOut == pc = "drain" /\ drained = DrainLimit /\ Exit("error")

-----------------------------------------------------------------------------
(* net/http's side.  Serve called after Shutdown closes the listener and   *)
(* returns at once.                                                        *)
ServeBegins ==
    /\ server = "starting" /\ pc \in {"select", "drain"}
    /\ IF pc = "select"
         THEN server' = "serving" /\ UNCHANGED <<listener, conn>>
         ELSE server' = "closed" /\ listener' = "closed" /\ conn' = QueueReset
    /\ UNCHANGED <<pc, status, signalled, collector, age, drained>>

AcceptFails ==
    /\ server = "serving"
    /\ pc = "select"
    /\ server' = "failed" /\ listener' = "closed" /\ conn' = QueueReset
    /\ UNCHANGED <<pc, status, signalled, collector, age, drained>>

Becomes(c, from, to) ==
    /\ conn[c] = from /\ conn' = [conn EXCEPT ![c] = to]
    /\ UNCHANGED <<pc, status, signalled, collector, server, listener, age, drained>>

Connect(c) ==
    Becomes(c, "away", IF listener = "bound" THEN "queued" ELSE "refused")

Accept(c) == server = "serving" /\ pc = "select" /\ Becomes(c, "queued", "active")

(* The handler has written its answer, or the client is gone.              *)
Answer(c) == pc # "exited" /\ Becomes(c, "active", "answered")

(* The connection's deadline; a client may read or write as slowly.        *)
TimedOut(c) == pc # "exited" /\ age[c] = Longest /\ Becomes(c, "active", "late")

(* Before NotifyContext the signal kills the process, after it the context *)
(* is cancelled; a second signal changes nothing, ctx stays registered.    *)
Signal ==
    /\ ~signalled /\ pc # "exited"
    /\ IF pc \in {"handler", "listen", "notify"}
         THEN Exit("killed")
         ELSE signalled' = TRUE /\ UNCHANGED <<pc, status, collector, serverVars>>

(* Time passes for connections that are served and for the drain.  The     *)
(* drain ends as soon as it may, and so does a connection at its deadline. *)
Advance ==
    /\ Active # {} /\ pc # "exited"
    /\ \A c \in Active : age[c] < Longest
    /\ drained < DrainLimit
    /\ age' = [c \in Conns |-> IF c \in Active THEN age[c] + 1 ELSE age[c]]
    /\ drained' = IF pc = "drain" THEN drained + 1 ELSE drained
    /\ UNCHANGED <<pc, status, signalled, collector, server, listener, conn>>

Done == pc = "exited" /\ UNCHANGED vars

StartUp == HandlerFails \/ HandlerReady \/ BindFails \/ Bind \/ NotifyContext \/ Launch
WindDown == ServeReturned \/ BeginShutdown \/ DrainDone \/ DrainTimesOut

Next ==
    \/ StartUp \/ WindDown
    \/ ServeBegins \/ AcceptFails
    \/ \E c \in Conns : Connect(c) \/ Accept(c) \/ Answer(c) \/ TimedOut(c)
    \/ Signal
    \/ Advance
    \/ Done

Spec == Init /\ [][Next]_vars

(* The goroutines run, time passes, deadlines fire; nobody has to connect  *)
(* or to send a signal, no handler has to answer.                          *)
FairSpec ==
    /\ Spec
    /\ WF_vars(StartUp) /\ WF_vars(WindDown) /\ WF_vars(ServeBegins)
    /\ \A c \in Conns : WF_vars(Accept(c)) /\ WF_vars(TimedOut(c))
    /\ WF_vars(Advance)

-----------------------------------------------------------------------------
(* A start that fails "before we claim to be serving" does so before any   *)
(* visitor has connected and before the program's only traffic to the      *)
(* outside, the collector's, has begun.                                    *)
FailedStartSilent ==
    status = "failed start" => ~collector /\ \A c \in Conns : conn[c] \in {"away", "refused"}

(* run returns nil only for a signal, and then every connection that was   *)
(* accepted has been answered or has used up its own deadline.             *)
CleanExit == status = "ok" => signalled /\ \A c \in Conns : conn[c] # "cut"

(* Unless the listener itself broke, an answer is cut, and an error        *)
(* reported, only for a connection that had all of DrainLimit: run         *)
(* "returns a non-nil error only on a genuine failure".                    *)
ErrorIsGenuine ==
    /\ status = "error" /\ server # "failed" => \E c \in Conns : age[c] >= DrainLimit
    /\ \A c \in Conns : conn[c] = "cut" /\ server # "failed" => age[c] >= DrainLimit

(* A visitor that got into the queue, even before Serve was called, is not *)
(* left waiting.                                                           *)
VisitorsServed ==
    \A c \in Conns : conn[c] = "queued" ~> conn[c] \in {"answered", "late", "reset", "cut"}

(* ServerRun implements ProcessLife.                                       *)
Phase ==
    IF pc = "exited" THEN "gone"
    ELSE IF signalled THEN "stopping"
    ELSE IF pc = "select" THEN "up" ELSE "starting"

L == INSTANCE ProcessLife WITH phase <- Phase
ImplementsLife == L!LifeSpec
=============================================================================
