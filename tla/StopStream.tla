----------------------------- MODULE StopStream -----------------------------
(***************************************************************************)
(* The drain of the event loop, await by await: the end of `run`           *)
(* (src/event_loop.rs), the reporter that writes a line for each path      *)
(* (src/real_stop_progress_reporter.rs), the bounded socket, and the `stop`*)
(* command that copies what it reads to its standard output (src/stop.rs). *)
(*                                                                         *)
(* EventLoop takes the end of a handler, its line, its count and the spawn *)
(* of the handler that waited longest for one step.  In the code the loop  *)
(* waits in the middle of it, after the handler has left its slot, until   *)
(* the socket has taken the whole line; errors of these writes are ignored.*)
(* This module shows that EventLoop may take it for one step nevertheless, *)
(* and what of the lines is printed when writes fail, when the stop command*)
(* is killed and when the daemon dies.                                     *)
(*                                                                         *)
(* A line is written in Chunks pieces: a write takes as many as fit.       *)
(***************************************************************************)
EXTENDS StorePaths, Naturals, SequencesExt

CONSTANTS
    MaxConcurrent,  \* MAX_CONCURRENT_STORE_PATHS
    ClosureErrors,  \* the lists of failed closures that the drain may start with
    Capacity,       \* how many pieces the socket holds
    Chunks          \* into how many pieces a line may be cut

ASSUME DrainAssumption ==
    /\ MaxConcurrent \in Nat \ {0}
    /\ ClosureErrors \subseteq Seq(Path)
    /\ Capacity \in Nat \ {0}
    /\ Chunks \in Nat \ {0}

VARIABLES
    at,        \* where the drain is
    running,   \* handle_store_paths
    pending,   \* pending_handle_store_paths
    current,   \* result and path of the handler that ended last
    outcome,   \* how the handler of each path ended (history)
    report,    \* report
    before,    \* how many paths it counted when the drain started (history)
    out,       \* the lines given to the reporter (history)
    unwritten, \* what write_all has still to write of its line
    torn,      \* the lines whose write has failed, by number (history)
    socket,    \* what the socket holds
    copying,   \* what the stop command has read and not yet printed
    printed,   \* what the stop command has printed
    client,    \* the stop command: running, or how it exited
    alive      \* the daemon has neither aborted nor been killed

drain == <<at, running, pending, current, outcome, report, before, out>>
reader == <<socket, copying, printed, client>>
stream == <<unwritten, torn, reader, alive>>
vars == <<drain, stream>>

\* The pieces of the line with number n.
Pieces(n) == [i \in 1 .. Chunks |-> <<n, i>>]

EndedWith(o) == {p \in Path : outcome[p] = o}

Handled == report.pushed + report.skipped + Len(report.handlingErrors)

\* The loop was left: any paths are running or pending, as EventLoop's
\* SlotsBeforeQueue says, any others have been handled and counted.
Init == /\ at = "announce"
        /\ running \in SUBSET Path
        /\ Cardinality(running) <= MaxConcurrent
        /\ \E left \in SUBSET (Path \ running) :
              /\ left # {} => Cardinality(running) = MaxConcurrent
              /\ pending \in SetToSeqs(left)
        /\ current = [type |-> "none"]
        /\ outcome \in [Path -> Outcome \cup {"none"}]
        /\ \A p \in running \cup ToSet(pending) : outcome[p] = "none"
        /\ \E ce \in ClosureErrors, he \in SetToSeqs(EndedWith("failed")) :
              report = [pushed |-> Cardinality(EndedWith("pushed")),
                        skipped |-> Cardinality(EndedWith("skipped")),
                        closureErrors |-> ce, handlingErrors |-> he]
        /\ before = Handled
        /\ out = <<>> /\ unwritten = <<>> /\ torn = {}
        /\ socket = <<>> /\ copying = <<>> /\ printed = <<>>
        /\ client = "running" /\ alive = TRUE

-----------------------------------------------------------------------------
(***************************************************************************)
(* The daemon.  Every step waits for the write before it to end.           *)
(***************************************************************************)
WriteLine(line) ==
    /\ out' = Append(out, line)
    /\ unwritten' = Pieces(Len(out) + 1)
    /\ torn' = torn

\* report_paths_left_to_handle
Announce ==
    /\ at = "announce" /\ unwritten = <<>>
    /\ LET n == Cardinality(running) + Len(pending)
       IN \/ n = 0 /\ UNCHANGED <<out, unwritten, torn>>
          \/ n > 0 /\ WriteLine([type |-> "left", n |-> n])
    /\ at' = "next"
    /\ UNCHANGED <<running, pending, current, outcome, report, before, reader, alive>>

\* (mutant) The reporter does not wait for its write to end.
PathEndsWithoutWaiting(p, o) ==
    /\ at = "next"
    /\ p \in running
    /\ running' = running \ {p}
    /\ current' = [type |-> o, path |-> p]
    /\ WriteLine([type |-> o, path |-> p])
    /\ at' = "count"
    /\ UNCHANGED <<pending, outcome, report, before, reader, alive>>

\* handle_store_paths.next() returns, and the result is reported.
PathEnds(p, o) ==
    /\ at = "next" /\ unwritten = <<>>
    /\ p \in running
    /\ running' = running \ {p}
    /\ current' = [type |-> o, path |-> p]
    /\ WriteLine([type |-> o, path |-> p])
    /\ at' = "count"
    /\ UNCHANGED <<pending, outcome, report, before, reader, alive>>

Counted == CASE current.type = "pushed" -> [report EXCEPT !.pushed = @ + 1]
             [] current.type = "skipped" -> [report EXCEPT !.skipped = @ + 1]
             [] current.type = "failed" ->
                    [report EXCEPT !.handlingErrors = Append(@, current.path)]

\* (mutant) The slot stays empty.
NoRefill == UNCHANGED <<running, pending>>

\* pending_handle_store_paths.pop_front()
Refill ==
    \/ pending = <<>> /\ UNCHANGED <<running, pending>>
    \/ pending # <<>> /\ running' = running \cup {Head(pending)}
                       /\ pending' = Tail(pending)

\* The rest of the loop's body.
CountAndRefill ==
    /\ at = "count" /\ unwritten = <<>>
    /\ outcome' = [outcome EXCEPT ![current.path] = current.type]
    /\ report' = Counted
    /\ Refill
    /\ at' = "next"
    /\ UNCHANGED <<current, before, out, stream>>

\* report_final_report
ReportFinal ==
    /\ at = "next" /\ unwritten = <<>>
    /\ running = {}
    /\ WriteLine([type |-> "final", report |-> report])
    /\ at' = "final"
    /\ UNCHANGED <<running, pending, current, outcome, report, before, reader, alive>>

\* `run` returns, and with it the process: the socket is closed.
Return ==
    /\ at = "final" /\ unwritten = <<>>
    /\ at' = "done"
    /\ UNCHANGED <<running, pending, current, outcome, report, before, out, stream>>

\* The socket takes as much as it has room for.
WriteSome ==
    /\ unwritten # <<>> /\ client = "running"
    /\ \E n \in 1 .. Len(unwritten) :
          /\ Len(socket) + n <= Capacity
          /\ socket' = socket \o SubSeq(unwritten, 1, n)
          /\ unwritten' = SubSeq(unwritten, n + 1, Len(unwritten))
    /\ UNCHANGED <<drain, torn, copying, printed, client, alive>>

\* (mutant) The daemon goes on trying to write.
WriteRetried == unwritten # <<>> /\ client # "running" /\ UNCHANGED vars

\* write_all returns an error, which is ignored: the rest of the line is dropped.
DropLine ==
    /\ unwritten # <<>>
    /\ unwritten' = <<>>
    /\ torn' = torn \cup {Len(out)}
    /\ UNCHANGED <<drain, reader, alive>>

\* Nobody reads any more ...
WriteFails == client # "running" /\ DropLine

\* ... or a write fails although the stop command still reads.
WriteErrs == client = "running" /\ DropLine

\* The daemon aborts or is killed; the kernel closes its end of the socket.
Die ==
    /\ alive /\ at # "done"
    /\ alive' = FALSE
    /\ UNCHANGED <<drain, unwritten, torn, reader>>

-----------------------------------------------------------------------------
(***************************************************************************)
(* The stop command, after it has written its message: tokio::io::copy.    *)
(***************************************************************************)
Read ==
    /\ client = "running" /\ copying = <<>>
    /\ \E n \in 1 .. Len(socket) :
          /\ copying' = SubSeq(socket, 1, n)
          /\ socket' = SubSeq(socket, n + 1, Len(socket))
    /\ UNCHANGED <<drain, unwritten, torn, printed, client, alive>>

CopyOut ==
    /\ client = "running" /\ copying # <<>>
    /\ printed' = printed \o copying
    /\ copying' = <<>>
    /\ UNCHANGED <<drain, unwritten, torn, socket, client, alive>>

\* The daemon's end of the socket is closed.
Closed == at = "done" \/ ~alive

\* (mutant) The command does not read what the daemon left in the socket.
ReadEofAtOnce ==
    /\ client = "running" /\ copying = <<>>
    /\ Closed
    /\ client' = "ok"
    /\ UNCHANGED <<drain, unwritten, torn, socket, copying, printed, alive>>

\* All was read and the daemon has closed: exit status 0.
ReadEof ==
    /\ client = "running" /\ copying = <<>>
    /\ Closed /\ socket = <<>>
    /\ client' = "ok"
    /\ UNCHANGED <<drain, unwritten, torn, socket, copying, printed, alive>>

\* The command is killed; or its copy fails, which it logs before it exits with 0.
Leave ==
    /\ client = "running"
    /\ client' \in {"killed", "okUnprinted"}
    /\ UNCHANGED <<drain, unwritten, torn, socket, copying, printed, alive>>

-----------------------------------------------------------------------------
Drain == /\ alive
         /\ \/ Announce \/ CountAndRefill \/ ReportFinal \/ Return
            \/ WriteSome \/ WriteFails

HandlerEnds == alive /\ \E p \in Path, o \in Outcome : PathEnds(p, o)

StopCommand == Read \/ CopyOut \/ ReadEof

Over == Closed /\ client # "running" /\ UNCHANGED vars

Next == Drain \/ HandlerEnds \/ (alive /\ WriteErrs) \/ Die \/ StopCommand \/ Leave \/ Over

Spec == Init /\ [][Next]_vars

\* The handlers end, the loop is polled, and the stop command reads and prints
\* as long as it runs; no write has to fail while it does, and nobody has to die.
Fairness == WF_vars(Drain) /\ WF_vars(HandlerEnds) /\ WF_vars(StopCommand)

FairSpec == Spec /\ Fairness

-----------------------------------------------------------------------------
(***************************************************************************)
(* The state of the drain and of the stream: the socket never holds more   *)
(* than it can, and the path that is being reported has left its slot.     *)
(***************************************************************************)
TypeOK ==
    /\ at \in {"announce", "next", "count", "final", "done"}
    /\ running \in SUBSET Path
    /\ pending \in Seq(Path)
    /\ outcome \in [Path -> Outcome \cup {"none"}]
    /\ at = "count" => current.path \notin running \cup ToSet(pending)
    /\ Len(unwritten) <= Chunks
    /\ Len(socket) <= Capacity
    /\ client \in {"running", "ok", "okUnprinted", "killed"}

(***************************************************************************)
(* The pieces <<line, part>> of a stream in which the writes of the lines  *)
(* `cut` have failed: whatever comes after the piece x of the lines up to n*)
(* is of such a line, and so is what is missing between x and y.           *)
(***************************************************************************)
WholeTo(x, n, cut) == \A l \in x[1] .. n : l \in cut \/ (l = x[1] /\ x[2] = Chunks)

Follows(x, y, cut) == \/ y = <<x[1], x[2] + 1>>
                      \/ y[2] = 1 /\ x[1] < y[1] /\ WholeTo(x, y[1] - 1, cut)

\* What is before place k of the stream s, where nothing is before the first.
Before(s, k) == IF k = 1 THEN <<0, Chunks>> ELSE s[k - 1]

InOrder(s, cut) == \A k \in 1 .. Len(s) : Follows(Before(s, k), s[k], cut)

(***************************************************************************)
(* What the stop command prints is what was reported, in order: no piece is*)
(* overtaken or printed twice, and only the rest of a line whose write has *)
(* failed is missing, however lines are cut into pieces, and although the  *)
(* line after a failed write is written all the same.                      *)
(***************************************************************************)
PrintedInOrder == InOrder(printed, torn)

(***************************************************************************)
(* A stop command that exits with 0, has met no error of its copy and whose*)
(* daemon did not die has printed every line, the final report included,   *)
(* but those whose write has failed; and the report accounts for what was  *)
(* announced on top of what was handled before.  (If the daemon dies, the  *)
(* command exits with 0 without a report.)                                 *)
(***************************************************************************)
OkMeansReported ==
    client = "ok" /\ alive =>
        /\ at = "done" /\ running = {} /\ pending = <<>>
        /\ WholeTo(Before(printed, Len(printed) + 1), Len(out), torn)
        /\ Last(out) = [type |-> "final", report |-> report]
        /\ Handled = before + (IF out[1].type = "left" THEN out[1].n ELSE 0)

(***************************************************************************)
(* The drain ends and so does the stop command, whenever the command is    *)
(* killed or fails to print and whichever writes fail: the daemon does not *)
(* hang on a stream that nobody reads, nor the command on a daemon that    *)
(* waits for room or has died.                                             *)
(***************************************************************************)
DrainEnds == <>(Closed /\ client # "running")

(***************************************************************************)
(* The drain is the drain of EventLoop: although it waits for the socket   *)
(* between the end of a handler and the next spawn, each handler is, for   *)
(* EventLoop, reported, counted and replaced in one step.                  *)
(***************************************************************************)
Abstract == INSTANCE EventLoop WITH
    Request <- {}, Closure <- <<>>, Panics <- {}, Stuck <- {},
    Connection <- {"stop"}, NoConnection <- "none",
    requested <- {}, ahead <- {}, talking <- {}, channel <- <<>>,
    closures <- {}, expanded <- {}, batch <- <<>>, seen <- Path,
    stopWriter <- "stop",
    running <- IF at = "count" THEN running \cup {current.path} ELSE running,
    phase <- CASE at = "announce" -> "loop"
               [] at \in {"next", "count", "final"} -> "drain"
               [] at = "done" -> "done",
    out <- IF at \in {"count", "final"} THEN Front(out) ELSE out

DrainsLikeEventLoop == [][Abstract!Next]_(Abstract!vars)
=============================================================================
