------------------------------- MODULE Daemon -------------------------------
(***************************************************************************)
(* The daemon together with the processes that talk to it: the event loop  *)
(* (EventLoop), the task it spawns for each connection (`handle_io`), the  *)
(* listening socket, and the `push` and `stop` commands.                   *)
(*                                                                         *)
(* A connection is the one connection of one client process.  A `push`     *)
(* process connects, writes all its store paths, closes and exits; nothing *)
(* is sent back to it.  A `stop` process connects, writes the stop byte,   *)
(* and copies what it reads until the daemon closes the connection.  The   *)
(* socket is a kernel object: a client may connect and write before the    *)
(* daemon has accepted the connection, and is told of a failure only when  *)
(* the daemon's end is closed.                                             *)
(***************************************************************************)
EXTENDS EventLoop

CONSTANTS
    Pushes,    \* Pushes[c]: the requests that the process of c writes, in order
    Garbled,   \* the requests whose text does not parse as a store path
    Stopper,   \* the connections of the `stop` processes
    Flaky      \* the connections whose process may be killed

\* A request is one message of one process.
ASSUME PushesAssumption ==
    /\ Pushes \in [Connection -> Seq(Request)]
    /\ \A c, d \in Connection : \A i \in DOMAIN Pushes[c], j \in DOMAIN Pushes[d] :
          Pushes[c][i] = Pushes[d][j] => c = d /\ i = j
    /\ Garbled \subseteq Request
    /\ Stopper \subseteq Connection
    /\ Flaky \subseteq Connection
    /\ \A c \in Stopper : Pushes[c] = <<>>

VARIABLES
    backlog,   \* the connections that wait to be accepted, oldest first
    conn,      \* how far the daemon's end of each connection is
    unsent,    \* what each process has still to write
    wire,      \* what was written and not yet decoded by handle_io
    exit,      \* whether and how each process has exited
    promised   \* the requests acknowledged when the first stop began (history)

clientVars == <<backlog, conn, unsent, wire, exit, promised>>
daemonVars == <<vars, clientVars>>

DaemonInit ==
    /\ Init
    /\ backlog = <<>>
    /\ conn = [c \in Connection |-> "none"]
    /\ unsent = [c \in Connection |->
                    IF c \in Stopper THEN <<Stop(c)>>
                    ELSE [i \in DOMAIN Pushes[c] |-> Push(Pushes[c][i])]]
    /\ wire = [c \in Connection |-> <<>>]
    /\ exit = [c \in Connection |-> "running"]
    /\ promised = {}

-----------------------------------------------------------------------------
(***************************************************************************)
(* The client processes.                                                   *)
(***************************************************************************)
\* The requests of the push processes that have exited without an error.
Acknowledged == {r \in Request \ Garbled :
                    \E c \in Connection : exit[c] = "ok" /\ r \in Range(Pushes[c])}

Connect(c) ==
    /\ exit[c] = "running" /\ conn[c] = "none"
    /\ Alive
    /\ conn' = [conn EXCEPT ![c] = "backlog"]
    /\ backlog' = Append(backlog, c)
    /\ promised' = IF c \in Stopper /\ \A s \in Stopper : conn[s] = "none"
                   THEN Acknowledged ELSE promised
    /\ UNCHANGED <<vars, unsent, wire, exit>>

\* Nobody listens any more: the process prints the error and exits with 1.
ConnectFails(c) ==
    /\ exit[c] = "running" /\ conn[c] = "none"
    /\ ~Alive
    /\ exit' = [exit EXCEPT ![c] = "failed"]
    /\ UNCHANGED <<vars, backlog, conn, unsent, wire, promised>>

Peered(c) == conn[c] \in {"backlog", "open"} /\ Alive

\* (mutant) The buffer is cleared after the first write, however short it was.
SendLosesRest(c) ==
    /\ exit[c] = "running" /\ unsent[c] # <<>>
    /\ Peered(c)
    /\ wire' = [wire EXCEPT ![c] = Append(@, Head(unsent[c]))]
    /\ unsent' = [unsent EXCEPT ![c] = <<>>]
    /\ UNCHANGED <<vars, backlog, conn, exit, promised>>

\* One message is written.  drain_buf may need several writes for it, or write
\* several at once: handle_io reads up to a separator either way (Protocol).
Send(c) ==
    /\ exit[c] = "running" /\ unsent[c] # <<>>
    /\ Peered(c)
    /\ wire' = [wire EXCEPT ![c] = Append(@, Head(unsent[c]))]
    /\ unsent' = [unsent EXCEPT ![c] = Tail(@)]
    /\ UNCHANGED <<vars, backlog, conn, exit, promised>>

\* (mutant) A process does not notice that its connection was closed.
SendFailsAtExit(c) ==
    /\ exit[c] = "running" /\ unsent[c] # <<>>
    /\ conn[c] # "none" /\ ~Alive
    /\ exit' = [exit EXCEPT ![c] = "failed"]
    /\ UNCHANGED <<vars, backlog, conn, unsent, wire, promised>>

\* The daemon's end is gone: the process prints the error and exits with 1.
SendFails(c) ==
    /\ exit[c] = "running" /\ unsent[c] # <<>>
    /\ conn[c] # "none" /\ ~Peered(c)
    /\ exit' = [exit EXCEPT ![c] = "failed"]
    /\ UNCHANGED <<vars, backlog, conn, unsent, wire, promised>>

\* A push process has written everything: it closes and exits with 0.
Close(c) ==
    /\ exit[c] = "running" /\ c \notin Stopper
    /\ conn[c] # "none" /\ unsent[c] = <<>>
    /\ exit' = [exit EXCEPT ![c] = "ok"]
    /\ UNCHANGED <<vars, backlog, conn, unsent, wire, promised>>

\* (mutant) The connection task drops both halves when it returns.
WriterDroppedByTask(c) == ~Alive \/ conn[c] = "closed"

\* The write half of the connection of a stop process is no longer held by its
\* task, by the channel or by the loop.
WriterDropped(c) ==
    \/ ~Alive
    \/ conn[c] = "closed" /\ stopWriter # c /\ Stop(c) \notin Range(channel)

\* A stop process reads to the end of the stream and exits with 0.  An error of
\* the copy is only logged.
ReadToEnd(c) ==
    /\ exit[c] = "running" /\ c \in Stopper
    /\ conn[c] # "none" /\ unsent[c] = <<>>
    /\ WriterDropped(c)
    /\ exit' = [exit EXCEPT ![c] = "ok"]
    /\ UNCHANGED <<vars, backlog, conn, unsent, wire, promised>>

\* A process is killed, perhaps in the middle of a message.
Kill(c) ==
    /\ exit[c] = "running" /\ c \in Flaky
    /\ exit' = [exit EXCEPT ![c] = "killed"]
    /\ unsent' = [unsent EXCEPT ![c] = <<>>]
    /\ UNCHANGED <<vars, backlog, conn, wire, promised>>

Client(c) == \/ Send(c) \/ SendFails(c)
             \/ Close(c) \/ ReadToEnd(c)

-----------------------------------------------------------------------------
(***************************************************************************)
(* The daemon's end.                                                       *)
(***************************************************************************)
\* The first branch of the select!: a task is spawned for a connection.
Accept ==
    /\ Selecting
    /\ backlog # <<>>
    /\ backlog' = Tail(backlog)
    /\ conn' = [conn EXCEPT ![Head(backlog)] = "open"]
    /\ UNCHANGED <<vars, unsent, wire, exit, promised>>

\* handle_io: the next message is decoded and goes to the channel.  The stream
\* ends after a stop and after an error, whatever follows them.
HandlePush(c) ==
    /\ conn[c] = "open" /\ wire[c] # <<>>
    /\ \E r \in Request \ Garbled :
          Head(wire[c]) = Push(r) /\ ArrivePush(r)
    /\ wire' = [wire EXCEPT ![c] = Tail(@)]
    /\ UNCHANGED <<backlog, conn, unsent, exit, promised>>

HandleGarbled(c) ==
    /\ conn[c] = "open" /\ wire[c] # <<>>
    /\ \E r \in Garbled : Head(wire[c]) = Push(r)
    /\ ArriveLast(c, ReceiveError(c))
    /\ conn' = [conn EXCEPT ![c] = "closed"]
    /\ UNCHANGED <<backlog, unsent, wire, exit, promised>>

HandleStop(c) ==
    /\ conn[c] = "open" /\ wire[c] # <<>>
    /\ Head(wire[c]) = Stop(c)
    /\ ArriveLast(c, Stop(c))
    /\ conn' = [conn EXCEPT ![c] = "closed"]
    /\ UNCHANGED <<backlog, unsent, wire, exit, promised>>

\* The client has closed its end and everything was read: the task returns.
HandleEof(c) ==
    /\ conn[c] = "open" /\ wire[c] = <<>> /\ exit[c] # "running"
    /\ Alive
    /\ conn' = [conn EXCEPT ![c] = "closed"]
    /\ UNCHANGED <<vars, backlog, unsent, wire, exit, promised>>

HandleIo(c) == HandlePush(c) \/ HandleGarbled(c) \/ HandleStop(c) \/ HandleEof(c)

\* A step of the loop or of one of its tasks, other than Accept.
LoopOrTask == /\ \/ LoopStep
                 \/ \E r \in Request : CloseTask(r)
                 \/ \E p \in Path : HandlerTask(p) \/ Panic(p)
              /\ UNCHANGED clientVars

-----------------------------------------------------------------------------
\* The daemon has ended and every process has exited: nothing is left to do.
AllOver == /\ ~Alive
           /\ \A c \in Connection : exit[c] # "running"
           /\ UNCHANGED daemonVars

DaemonNext == \/ \E c \in Connection : \/ Connect(c) \/ ConnectFails(c)
                                       \/ Client(c) \/ Kill(c)
                                       \/ HandleIo(c)
              \/ Accept
              \/ LoopOrTask
              \/ AllOver

\* On top of the fairness of the loop: connections are accepted, connection
\* tasks run, and a process that has connected goes on.  Nothing makes a process
\* start.
DaemonFairness ==
    /\ WF_daemonVars(Accept)
    /\ WF_daemonVars(LoopStep /\ UNCHANGED clientVars)
    /\ \A r \in Request : WF_daemonVars(CloseTask(r) /\ UNCHANGED clientVars)
    /\ \A p \in Path \ Stuck :
          WF_daemonVars((HandlerTask(p) \/ Panic(p)) /\ UNCHANGED clientVars)
    /\ \A c \in Connection : WF_daemonVars(Client(c)) /\ WF_daemonVars(HandleIo(c))

DaemonSpec == DaemonInit /\ [][DaemonNext]_daemonVars

FairDaemonSpec == DaemonSpec /\ DaemonFairness

-----------------------------------------------------------------------------
(***************************************************************************)
(* The state of the sockets and of the processes.                          *)
(***************************************************************************)
DaemonTypeOK ==
    /\ TypeOK
    /\ backlog \in Seq(Connection)
    /\ conn \in [Connection -> {"none", "backlog", "open", "closed"}]
    /\ unsent \in [Connection -> Seq(Event)]
    /\ wire \in [Connection -> Seq(Event)]
    /\ exit \in [Connection -> {"running", "ok", "failed", "killed"}]
    /\ promised \in SUBSET Request

(***************************************************************************)
(* Unless a handler panics, a stop process that no other one has followed  *)
(* or preceded does not exit with 0 before the daemon has handled          *)
(* everything and has written the final report to it: the job's post step  *)
(* returns when the uploads are over, not when the stop was received.      *)
(***************************************************************************)
Alone(c) == \A d \in Stopper \ {c} : conn[d] = "none"

StopWaitsForReport ==
    \A c \in Stopper :
        exit[c] = "ok" /\ Alone(c) /\ phase # "panicked" =>
        /\ phase = "done"
        /\ stopWriter = c
        /\ out[Len(out)].type = "final"

(***************************************************************************)
(* A process that has connected exits, whether it is served, cut off after *)
(* a message that does not parse, superseded by a second stop, or left     *)
(* behind when the daemon returns or dies.                                 *)
(***************************************************************************)
ClientsReturn == \A c \in Connection : conn[c] # "none" ~> exit[c] # "running"

(***************************************************************************)
(* A message is never lost, duplicated or reordered between a push process *)
(* and the loop: what the process has written is in the channel's history, *)
(* then on the wire; two of its messages that are in the channel are there *)
(* in the order in which it wrote them; and the loop has not taken a later *)
(* one before an earlier one.                                              *)
(***************************************************************************)
Decoded(c) == Len(Pushes[c]) - Len(wire[c]) - Len(unsent[c])

DecodedInOrder(c) ==
    \A i \in DOMAIN Pushes[c] :
        /\ i > Decoded(c) => Pushes[c][i] \notin requested
        /\ i <= Decoded(c) => Pushes[c][i] \in requested

QueuedInOrder(c) ==
    \A m, n \in DOMAIN channel : \A i, j \in DOMAIN Pushes[c] :
        m < n /\ channel[m] = Push(Pushes[c][i]) /\ channel[n] = Push(Pushes[c][j])
        => i < j

TakenInOrder(c) ==
    \A i, j \in DOMAIN Pushes[c] :
        i < j /\ Pushes[c][j] \in requested \ Queued => Pushes[c][i] \notin Queued

InOrder ==
    \A c \in Connection \ Stopper :
        exit[c] # "killed" =>
            DecodedInOrder(c) /\ QueuedInOrder(c) /\ TakenInOrder(c)

(***************************************************************************)
(* (Refuted.)  action.yaml, line 3: "Sets up and drains the sub60 Nix cache*)
(* uploader".  A push that was acknowledged (its process exited with 0)    *)
(* before the stop process even connected would be answered for when the   *)
(* daemon returns.                                                         *)
(***************************************************************************)
AcknowledgedPushesDrained ==
    phase = "done" => promised \subseteq expanded \cup Range(report.closureErrors)
=============================================================================
