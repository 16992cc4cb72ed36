------------------------------ MODULE EventLoop ------------------------------
(***************************************************************************)
(* The daemon's event loop: `event_loop::run` (src/event_loop.rs), the one *)
(* task that owns every queue of the daemon.                               *)
(*                                                                         *)
(* The loop takes events (a store path to push, a request to stop, a       *)
(* receive error) from an unbounded channel that the connection tasks fill,*)
(* computes the closure of each pushed path in a task of its own, and      *)
(* handles every path of every closure once, at most MaxConcurrent of them *)
(* at a time, the rest waiting in a FIFO queue.  Once it has taken a stop  *)
(* request and no closure is being computed it leaves the loop, drains what*)
(* is still to be handled while it writes progress lines to the connection *)
(* that asked for the stop, and writes the final report.                   *)
(*                                                                         *)
(* What a path's handler does is the business of StorePathHandler; here it *)
(* is a task that ends with one of three outcomes, panics, or never ends   *)
(* (the HTTP clients have no timeout).  What the connection tasks do is the*)
(* business of Daemon; here they are the action Arrive.                    *)
(***************************************************************************)
EXTENDS StorePaths, Naturals, Sequences, Functions

CONSTANTS
    Request,        \* the push messages the daemon is ever sent
    Closure,        \* Closure[r]: the closure of the path that r pushes
    Connection,     \* the connections to the daemon's socket
    NoConnection,   \* stop_progress_writer = None
    MaxConcurrent,  \* MAX_CONCURRENT_STORE_PATHS
    Panics,         \* the paths whose handler may panic
    Stuck           \* the paths whose handler may never end

ASSUME ClosureAssumption == Closure \in [Request -> Seq(Path)]
ASSUME ConnectionAssumption == NoConnection \notin Connection
ASSUME MaxConcurrentAssumption == MaxConcurrent \in Nat \ {0}
ASSUME HandlersAssumption == Panics \subseteq Path /\ Stuck \subseteq Path

VARIABLES
    requested,   \* the requests that have entered the channel (history)
    ahead,       \* those that entered it before any stop did (history)
    talking,     \* the connections whose task may still send a stop or an error
    channel,     \* message_rx, oldest event first
    closures,    \* store_closures: the requests whose closure is being computed
    expanded,    \* the requests whose closure was handed to the loop (history)
    batch,       \* what the `for path in store_paths` loop has still to visit
    seen,        \* seen_store_hashes
    running,     \* handle_store_paths: the paths whose handler is spawned
    pending,     \* pending_handle_store_paths
    outcome,     \* how the handler of each path ended (history)
    report,      \* report: the ActionReport that is being filled in
    stopWriter,  \* stop_progress_writer
    phase,       \* where `run` is: in the loop, in the drain, returned, aborted
    out          \* the lines written to stopWriter, oldest first

vars == <<requested, ahead, talking, channel, closures, expanded, batch, seen,
          running, pending, outcome, report, stopWriter, phase, out>>

Push(r) == [type |-> "push", request |-> r]
Stop(c) == [type |-> "stop", connection |-> c]
ReceiveError(c) == [type |-> "error", connection |-> c]

\* enum Event, plus the Err arm of the channel's item type.
Event == [type : {"push"}, request : Request]
            \cup [type : {"stop", "error"}, connection : Connection]

\* struct ActionReport, without the number of bytes.
Report == [pushed : Nat, skipped : Nat,
           closureErrors : Seq(Request), handlingErrors : Seq(Path)]

\* What a StopProgressReporter writes.
Line == [type : {"left"}, n : Nat \ {0}]
            \cup [type : Outcome, path : Path]
            \cup [type : {"final"}, report : Report]

EmptyReport == [pushed |-> 0, skipped |-> 0,
                closureErrors |-> <<>>, handlingErrors |-> <<>>]

Init == /\ requested = {}
        /\ ahead = {}
        /\ talking = Connection
        /\ channel = <<>>
        /\ closures = {}
        /\ expanded = {}
        /\ batch = <<>>
        /\ seen = {}
        /\ running = {}
        /\ pending = <<>>
        /\ outcome = [p \in Path |-> "none"]
        /\ report = EmptyReport
        /\ stopWriter = NoConnection
        /\ phase = "loop"
        /\ out = <<>>

-----------------------------------------------------------------------------
(***************************************************************************)
(* The channel.  Every connection task holds a sender, and sends until its *)
(* stream of messages ends; a stop message and an error both end it.  The  *)
(* receiving end lives until `run` returns, so that an event sent during   *)
(* the drain still enters the channel, where nobody reads it.              *)
(***************************************************************************)
Alive == phase \in {"loop", "drain"}

NoStopYet == /\ stopWriter = NoConnection
             /\ \A i \in DOMAIN channel : channel[i].type # "stop"

ArrivePush(r) ==
    /\ Alive
    /\ r \notin requested
    /\ requested' = requested \cup {r}
    /\ ahead' = IF NoStopYet THEN ahead \cup {r} ELSE ahead
    /\ channel' = Append(channel, Push(r))
    /\ UNCHANGED <<talking, closures, expanded, batch, seen, running, pending,
                   outcome, report, stopWriter, phase, out>>

ArriveLast(c, e) ==
    /\ Alive
    /\ c \in talking
    /\ talking' = talking \ {c}
    /\ channel' = Append(channel, e)
    /\ UNCHANGED <<requested, ahead, closures, expanded, batch, seen, running,
                   pending, outcome, report, stopWriter, phase, out>>

Arrive == \/ \E r \in Request : ArrivePush(r)
          \/ \E c \in Connection : ArriveLast(c, Stop(c))
          \/ \E c \in Connection : ArriveLast(c, ReceiveError(c))

-----------------------------------------------------------------------------
\* (mutant) The loop is left as soon as a stop was taken.
MayBreakWithClosures == stopWriter # NoConnection

\* The condition under which the loop is left.
MayBreak == stopWriter # NoConnection /\ closures = {}

\* The loop is about to `select!`: the break condition is tested first, in
\* every iteration, and the `for` loop over a closure runs to its end.
Selecting == phase = "loop" /\ batch = <<>> /\ ~MayBreak

\* One event is received; `message_rx` is a FIFO channel.
ReceivePush ==
    /\ Selecting
    /\ channel # <<>>
    /\ Head(channel).type = "push"
    /\ channel' = Tail(channel)
    /\ closures' = closures \cup {Head(channel).request}
    /\ UNCHANGED <<requested, ahead, talking, expanded, batch, seen, running,
                   pending, outcome, report, stopWriter, phase, out>>

\* A later stop replaces the writer of an earlier one, which is dropped.
ReceiveStop ==
    /\ Selecting
    /\ channel # <<>>
    /\ Head(channel).type = "stop"
    /\ channel' = Tail(channel)
    /\ stopWriter' = Head(channel).connection
    /\ UNCHANGED <<requested, ahead, talking, closures, expanded, batch, seen,
                   running, pending, outcome, report, phase, out>>

\* An error is only logged.
ReceiveFailure ==
    /\ Selecting
    /\ channel # <<>>
    /\ Head(channel).type = "error"
    /\ channel' = Tail(channel)
    /\ UNCHANGED <<requested, ahead, talking, closures, expanded, batch, seen,
                   running, pending, outcome, report, stopWriter, phase, out>>

-----------------------------------------------------------------------------
\* A closure task ends and its paths are handed to the `for` loop.
ClosureComputed(r) ==
    /\ Selecting
    /\ r \in closures
    /\ closures' = closures \ {r}
    /\ expanded' = expanded \cup {r}
    /\ batch' = Closure[r]
    /\ UNCHANGED <<requested, ahead, talking, channel, seen, running, pending,
                   outcome, report, stopWriter, phase, out>>

\* A closure task fails: its request goes to path_closure_errors.
ClosureFailed(r) ==
    /\ Selecting
    /\ r \in closures
    /\ closures' = closures \ {r}
    /\ report' = [report EXCEPT !.closureErrors = Append(@, r)]
    /\ UNCHANGED <<requested, ahead, talking, channel, expanded, batch, seen,
                   running, pending, outcome, stopWriter, phase, out>>

\* handle_store_paths.len() < MAX_CONCURRENT_STORE_PATHS
HasRoom == Cardinality(running) < MaxConcurrent

\* A new path's handler is spawned, or queued when all slots are taken.
Schedule(p) == \/ /\ HasRoom
                  /\ running' = running \cup {p}
                  /\ pending' = pending
               \/ /\ ~HasRoom
                  /\ running' = running
                  /\ pending' = Append(pending, p)

\* (mutant) A path is new unless its handler has already ended.
IsNewIfUnresolved(p) == outcome[p] = "none"

\* seen_store_hashes.insert(...) returns true
IsNew(p) == p \notin seen

\* One iteration of the `for` loop over a closure.
VisitPath ==
    /\ phase = "loop"
    /\ batch # <<>>
    /\ batch' = Tail(batch)
    /\ seen' = seen \cup {Head(batch)}
    /\ \/ IsNew(Head(batch)) /\ Schedule(Head(batch))
       \/ ~IsNew(Head(batch)) /\ UNCHANGED <<running, pending>>
    /\ UNCHANGED <<requested, ahead, talking, channel, closures, expanded,
                   outcome, report, stopWriter, phase, out>>

-----------------------------------------------------------------------------
\* (mutant) A skipped path is counted as pushed.
CountSkippedAsPushed(o, p) ==
    \/ o = "pushed" /\ report' = [report EXCEPT !.pushed = @ + 1]
    \/ o = "skipped" /\ report' = [report EXCEPT !.pushed = @ + 1]
    \/ o = "failed" /\ report' = [report EXCEPT !.handlingErrors = Append(@, p)]

\* The outcome of one handler is entered into the report.
Count(o, p) ==
    \/ o = "pushed" /\ report' = [report EXCEPT !.pushed = @ + 1]
    \/ o = "skipped" /\ report' = [report EXCEPT !.skipped = @ + 1]
    \/ o = "failed" /\ report' = [report EXCEPT !.handlingErrors = Append(@, p)]

\* (mutant) The slot of an ended handler is not given to a waiting one.
FreeSlot(p) ==
    /\ running' = running \ {p}
    /\ pending' = pending

\* The ended handler leaves its slot to the one that has waited longest.
Refill(p) ==
    \/ /\ pending = <<>>
       /\ running' = running \ {p}
       /\ pending' = pending
    \/ /\ pending # <<>>
       /\ running' = (running \ {p}) \cup {Head(pending)}
       /\ pending' = Tail(pending)

\* The handler of p ends with outcome o while the loop runs.
PathHandled(p, o) ==
    /\ Selecting
    /\ p \in running
    /\ outcome' = [outcome EXCEPT ![p] = o]
    /\ Count(o, p)
    /\ Refill(p)
    /\ UNCHANGED <<requested, ahead, talking, channel, closures, expanded, batch,
                   seen, stopWriter, phase, out>>

-----------------------------------------------------------------------------
\* (mutant) Only the spawned handlers are announced.
LeftToHandleSpawned == Cardinality(running)

\* The number of paths that report_paths_left_to_handle announces.
LeftToHandle == Cardinality(running) + Len(pending)

\* report_paths_left_to_handle: nothing is written when nothing is left.
WriteLeft(n) ==
    out' = IF n = 0 THEN out ELSE Append(out, [type |-> "left", n |-> n])

\* The loop is left, and what is left to handle is announced.
StartDrain ==
    /\ phase = "loop"
    /\ batch = <<>>
    /\ MayBreak
    /\ phase' = "drain"
    /\ WriteLeft(LeftToHandle)
    /\ UNCHANGED <<requested, ahead, talking, channel, closures, expanded, batch,
                   seen, running, pending, outcome, report, stopWriter>>

\* The handler of p ends with outcome o during the drain.
PathDrained(p, o) ==
    /\ phase = "drain"
    /\ p \in running
    /\ out' = Append(out, [type |-> o, path |-> p])
    /\ outcome' = [outcome EXCEPT ![p] = o]
    /\ Count(o, p)
    /\ Refill(p)
    /\ UNCHANGED <<requested, ahead, talking, channel, closures, expanded, batch,
                   seen, stopWriter, phase>>

\* (mutant) `run` returns only when every event was received, and receives none.
FinishDrainWhenEmpty ==
    /\ phase = "drain"
    /\ running = {} /\ channel = <<>>
    /\ phase' = "done"
    /\ out' = Append(out, [type |-> "final", report |-> report])
    /\ UNCHANGED <<requested, ahead, talking, channel, closures, expanded, batch,
                   seen, running, pending, outcome, report, stopWriter>>

\* No handler is left in handle_store_paths: the report is written and `run`
\* returns, which ends the process.
FinishDrain ==
    /\ phase = "drain"
    /\ running = {}
    /\ phase' = "done"
    /\ out' = Append(out, [type |-> "final", report |-> report])
    /\ UNCHANGED <<requested, ahead, talking, channel, closures, expanded, batch,
                   seen, running, pending, outcome, report, stopWriter>>

-----------------------------------------------------------------------------
\* A handler panics on its thread, at any moment.  The release profile aborts the
\* process there and then: nothing more is written to stopWriter.
Panic(p) ==
    /\ Alive
    /\ p \in running \cap Panics
    /\ phase' = "panicked"
    /\ UNCHANGED <<requested, ahead, talking, channel, closures, expanded, batch,
                   seen, running, pending, outcome, report, stopWriter, out>>

-----------------------------------------------------------------------------
Receive == ReceivePush \/ ReceiveStop \/ ReceiveFailure

CloseTask(r) == ClosureComputed(r) \/ ClosureFailed(r)

HandlerTask(p) == \E o \in Outcome : PathHandled(p, o) \/ PathDrained(p, o)

LoopStep == Receive \/ VisitPath \/ StartDrain \/ FinishDrain

Next == \/ Arrive
        \/ LoopStep
        \/ \E r \in Request : CloseTask(r)
        \/ \E p \in Path : HandlerTask(p) \/ Panic(p)

\* The loop's task is scheduled again and again, `select!` picks among its
\* ready branches at random, and every closure ends and so does every handler
\* that is not stuck: the runtime and the tasks owe this, not the loop.
Fairness == /\ WF_vars(Receive)
            /\ WF_vars(VisitPath)
            /\ WF_vars(StartDrain)
            /\ WF_vars(FinishDrain)
            /\ \A r \in Request : WF_vars(CloseTask(r))
            /\ \A p \in Path \ Stuck : WF_vars(HandlerTask(p) \/ Panic(p))

Spec == Init /\ [][Next]_vars

FairSpec == Spec /\ Fairness

-----------------------------------------------------------------------------
(***************************************************************************)
(* The state of the loop has the shape of the variables of `run`.          *)
(***************************************************************************)
TypeOK ==
    /\ requested \in SUBSET Request
    /\ ahead \in SUBSET requested
    /\ talking \in SUBSET Connection
    /\ channel \in Seq(Event)
    /\ closures \in SUBSET Request
    /\ expanded \in SUBSET Request
    /\ batch \in Seq(Path)
    /\ seen \in SUBSET Path
    /\ running \in SUBSET Path
    /\ pending \in Seq(Path)
    /\ outcome \in [Path -> Outcome \cup {"none"}]
    /\ report \in Report
    /\ stopWriter \in Connection \cup {NoConnection}
    /\ phase \in {"loop", "drain", "done", "panicked"}
    /\ out \in Seq(Line)

(***************************************************************************)
(* No more handlers are spawned than MAX_CONCURRENT_STORE_PATHS, whichever *)
(* of the three places that spawn one (a new path, a refill in the loop, a *)
(* refill in the drain) did it.                                            *)
(***************************************************************************)
BoundedConcurrency == Cardinality(running) <= MaxConcurrent

(***************************************************************************)
(* A path waits only while every slot is taken.  The drain ends when no    *)
(* handler is spawned and never looks at the queue again, so that a path   *)
(* that waits beside a free slot would be dropped without a word.          *)
(***************************************************************************)
SlotsBeforeQueue == pending # <<>> => Cardinality(running) = MaxConcurrent

(***************************************************************************)
(* The paths that were seen and have no outcome yet are exactly the ones   *)
(* in a slot or in the queue, each in one place only: no path is handled   *)
(* twice, however many closures contain it, and none is forgotten.         *)
(***************************************************************************)
EachPathOnce ==
    /\ running \cup Range(pending) = {p \in seen : outcome[p] = "none"}
    /\ running \cap Range(pending) = {}
    /\ \A i, j \in DOMAIN pending : pending[i] = pending[j] => i = j
    /\ \A p \in Path \ seen : outcome[p] = "none"

(***************************************************************************)
(* Slots and queue are in order: the handlers that `run` spawns at three   *)
(* places stay within the limit, a path waits only when it has to, and each*)
(* path is in one place.                                                   *)
(***************************************************************************)
Placement == BoundedConcurrency /\ SlotsBeforeQueue /\ EachPathOnce

PathsThat(o) == {p \in Path : outcome[p] = o}

(***************************************************************************)
(* The report counts every handled path under its outcome, whether the     *)
(* handler ended in the loop or in the drain.                              *)
(***************************************************************************)
ReportAddsUp ==
    /\ report.pushed = Cardinality(PathsThat("pushed"))
    /\ report.skipped = Cardinality(PathsThat("skipped"))
    /\ Range(report.handlingErrors) = PathsThat("failed")
    /\ Len(report.handlingErrors) = Cardinality(PathsThat("failed"))

(***************************************************************************)
(* A request taken from the channel is never dropped: its closure is being *)
(* computed, or failed and is in the report, or was handed to the loop and *)
(* every path of it was seen or is about to be visited.                    *)
(***************************************************************************)
Queued == {r \in Request : Push(r) \in Range(channel)}

RequestsAccounted ==
    /\ requested = Queued \cup closures \cup expanded
                          \cup Range(report.closureErrors)
    /\ \A r \in expanded : Range(Closure[r]) \subseteq seen \cup Range(batch)

(***************************************************************************)
(* When `run` returns, every request that was taken from the channel has   *)
(* been answered for: its closure failed and is in the report, or every    *)
(* path of its closure was pushed, skipped or failed, and is in the report.*)
(***************************************************************************)
DrainIsComplete ==
    phase = "done" =>
        /\ closures = {} /\ running = {} /\ pending = <<>>
        /\ \A r \in requested \ (Queued \cup Range(report.closureErrors)) :
              \A p \in Range(Closure[r]) : outcome[p] # "none"

(***************************************************************************)
(* A push that entered the channel before any stop did is answered for,    *)
(* although the loop stops reading the channel when it takes a stop and no *)
(* closure is in flight: the channel is FIFO, and the loop waits for the   *)
(* closures of the pushes it took.                                         *)
(***************************************************************************)
PushesAheadOfStopAnswered ==
    phase = "done" => ahead \subseteq expanded \cup Range(report.closureErrors)

(***************************************************************************)
(* What the client that asked for the stop reads is consistent: it is told *)
(* how many paths are left, then reads one line for each of them and then  *)
(* the final report, which is the last line and counts all of them.        *)
(***************************************************************************)
ProgressAddsUp ==
    phase = "done" =>
        /\ out # <<>>
        /\ out[Len(out)] = [type |-> "final", report |-> report]
        /\ IF out[1].type = "left" THEN Len(out) = out[1].n + 2
                                   ELSE Len(out) = 1

(***************************************************************************)
(* The loop implements UploadQueue: the slots, the queue, the two places   *)
(* that collect outcomes and the end of the loop never take an outcome     *)
(* back, never give a path two of them, and the report that is written at  *)
(* the end is the tally of all of them.                                    *)
(***************************************************************************)
Status == [p \in Path |-> IF outcome[p] # "none" THEN outcome[p]
                          ELSE IF p \in seen THEN "accepted" ELSE "unseen"]

Tally == IF phase = "done"
         THEN [closed |-> TRUE, pushed |-> report.pushed,
               skipped |-> report.skipped,
               failed |-> Range(report.handlingErrors)]
         ELSE [closed |-> FALSE, pushed |-> 0, skipped |-> 0, failed |-> {}]

Promise == INSTANCE UploadQueue WITH status <- Status, tally <- Tally

PromiseKept == Promise!Spec

(***************************************************************************)
(* Once a stop was taken from the channel the daemon comes to an end,      *)
(* whatever still arrives meanwhile and postpones the end of the loop (the *)
(* requests are finitely many).  Only a handler that never ends can keep   *)
(* it: the drain has no timeout.                                           *)
(***************************************************************************)
StopEndsDaemon ==
    stopWriter # NoConnection ~> ~Alive \/ running \cap Stuck # {}

(***************************************************************************)
(* Every path of every closure is handled in the end, with or without a    *)
(* stop: a waiting path gets its slot.  Handlers that never end hold their *)
(* own slots and nothing else: as long as they are fewer than the slots,   *)
(* every other path is handled, before the stop and during the drain.      *)
(***************************************************************************)
SeenIsHandled ==
    Cardinality(Stuck) < MaxConcurrent =>
        \A p \in Path \ Stuck :
            p \in seen ~> outcome[p] # "none" \/ phase = "panicked"
=============================================================================
