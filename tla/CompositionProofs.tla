------------------------- MODULE CompositionProofs -------------------------
(***************************************************************************)
(* Proofs about the two modules that compose the event loop with other     *)
(* components.                                                             *)
(*                                                                         *)
(* Daemon, for any clients: the daemon runs the event loop, so that what   *)
(* EventLoopProofs establishes holds of the daemon with its sockets and    *)
(* processes too; a stop that is alone waits for the final report; and the *)
(* messages of a connection reach the loop in the order in which they were *)
(* written.                                                                *)
(*                                                                         *)
(* Uploader, for any paths, requests, closures, slots and upstream caches: *)
(* it is shown to be both an event loop and a set of handlers, so that the *)
(* theorems of EventLoopProofs and of StorePathHandlerProofs hold of it;   *)
(* what is left to prove is that the outcome which the loop counts is the  *)
(* result of the handler.                                                  *)
(***************************************************************************)
EXTENDS Daemon, Uploader, EventLoopProofs, StorePathHandlerProofs

(***************************************************************************)
(* Daemon.                                                                 *)
(***************************************************************************)
\* The actions that leave the event loop alone.
ClientSide(c) == \/ Connect(c) \/ ConnectFails(c) \/ Send(c) \/ SendFails(c)
                 \/ Close(c) \/ ReadToEnd(c) \/ Kill(c) \/ HandleEof(c)

LEMMA ClientSideIdle ==
    ASSUME NEW c \in Connection, ClientSide(c) PROVE UNCHANGED vars
BY DEF ClientSide, Connect, ConnectFails, Send, SendFails, Close, ReadToEnd,
       Kill, HandleEof, vars

LEMMA DaemonStepIsLoopStep == [DaemonNext]_daemonVars => [Next]_vars
<1> SUFFICES ASSUME [DaemonNext]_daemonVars PROVE Next \/ UNCHANGED vars
  OBVIOUS
<1>1. ASSUME NEW c \in Connection, ClientSide(c) PROVE UNCHANGED vars
  BY <1>1, ClientSideIdle
<1>2. ASSUME NEW c \in Connection, HandlePush(c) PROVE Next
  BY <1>2 DEF HandlePush, Next, Arrive
<1>3. ASSUME NEW c \in Connection, HandleGarbled(c) \/ HandleStop(c) PROVE Next
  BY <1>3 DEF HandleGarbled, HandleStop, Next, Arrive
<1>4. CASE Accept \/ AllOver \/ UNCHANGED daemonVars
  BY <1>4 DEF Accept, AllOver, daemonVars, vars
<1>5. CASE LoopOrTask
  BY <1>5 DEF LoopOrTask, Next
<1> QED
  BY <1>1, <1>2, <1>3, <1>4, <1>5 DEF DaemonNext, Client, HandleIo, ClientSide

LEMMA DaemonRunsEventLoop == DaemonSpec => Spec
<1>1. DaemonInit => Init
  BY DEF DaemonInit
<1> QED
  BY <1>1, DaemonStepIsLoopStep, PTL DEF DaemonSpec, Spec

-----------------------------------------------------------------------------
(***************************************************************************)
(* What is on the way to the daemon: a stop process writes nothing but its *)
(* stop, and no other process writes one.                                  *)
(***************************************************************************)
Messages(c) == IF c \in Stopper THEN {Stop(c)} ELSE {Push(r) : r \in Request}

Sockets ==
    /\ backlog \in Seq(Connection)
    /\ conn \in [Connection -> {"none", "backlog", "open", "closed"}]
    /\ unsent \in [Connection -> Seq(Event)]
    /\ wire \in [Connection -> Seq(Event)]
    /\ exit \in [Connection -> {"running", "ok", "failed", "killed"}]
    /\ promised \in SUBSET Request

LEMMA MessagesAreEvents ==
    ASSUME NEW c \in Connection PROVE Messages(c) \subseteq Event
BY LineTypes DEF Messages

LEMMA SocketsInit == DaemonInit => Sockets
<1> SUFFICES ASSUME DaemonInit PROVE Sockets
  OBVIOUS
<1>1. ASSUME NEW c \in Connection
      PROVE  (IF c \in Stopper THEN <<Stop(c)>>
              ELSE [i \in DOMAIN Pushes[c] |-> Push(Pushes[c][i])]) \in Seq(Event)
  <2>1. CASE c \in Stopper
    BY <2>1, LineTypes
  <2>2. CASE c \notin Stopper
    <3>1. /\ Pushes[c] \in Seq(Request)
          /\ DOMAIN Pushes[c] = 1 .. Len(Pushes[c]) /\ Len(Pushes[c]) \in Nat
          /\ \A i \in 1 .. Len(Pushes[c]) : Pushes[c][i] \in Request
      BY PushesAssumption, LenProperties, ElementOfSeq
    <3>2. \A i \in 1 .. Len(Pushes[c]) : Push(Pushes[c][i]) \in Event
      BY <3>1, LineTypes
    <3> QED
      BY <2>2, <3>1, <3>2, IsASeq
  <2> QED
    BY <2>1, <2>2
<1> QED
  BY <1>1, EmptySeq DEF DaemonInit, Sockets

LEMMA SocketsStep == Sockets /\ [DaemonNext]_daemonVars => Sockets'
<1> SUFFICES ASSUME Sockets, [DaemonNext]_daemonVars PROVE Sockets'
  OBVIOUS
<1> USE DEF Sockets
<1>1. ASSUME NEW c \in Connection, Connect(c) PROVE Sockets'
  <2>1. Append(backlog, c) \in Seq(Connection) /\ Acknowledged \in SUBSET Request
    BY AppendProperties DEF Acknowledged
  <2> QED
    BY <1>1, <2>1 DEF Connect
<1>2. ASSUME NEW c \in Connection, Send(c) PROVE Sockets'
  <2>1. /\ Head(unsent[c]) \in Event /\ Tail(unsent[c]) \in Seq(Event)
        /\ wire[c] \in Seq(Event)
    BY <1>2, HeadTailProperties DEF Send
  <2>2. Append(wire[c], Head(unsent[c])) \in Seq(Event)
    BY <2>1, AppendProperties
  <2> QED
    BY <1>2, <2>1, <2>2 DEF Send
<1>3. ASSUME NEW c \in Connection,
             ConnectFails(c) \/ SendFails(c) \/ Close(c) \/ ReadToEnd(c)
      PROVE  Sockets'
  BY <1>3 DEF ConnectFails, SendFails, Close, ReadToEnd
<1>4. ASSUME NEW c \in Connection, Kill(c) PROVE Sockets'
  BY <1>4, EmptySeq DEF Kill
<1>5. ASSUME NEW c \in Connection, HandlePush(c) PROVE Sockets'
  <2>1. Tail(wire[c]) \in Seq(Event)
    BY <1>5, HeadTailProperties DEF HandlePush
  <2> QED
    BY <1>5, <2>1 DEF HandlePush
<1>6. ASSUME NEW c \in Connection,
             HandleGarbled(c) \/ HandleStop(c) \/ HandleEof(c)
      PROVE  Sockets'
  BY <1>6 DEF HandleGarbled, HandleStop, HandleEof
<1>7. CASE Accept
  <2>1. Head(backlog) \in Connection /\ Tail(backlog) \in Seq(Connection)
    BY <1>7, HeadTailProperties DEF Accept
  <2> QED
    BY <1>7, <2>1 DEF Accept
<1>8. CASE LoopOrTask \/ AllOver \/ UNCHANGED daemonVars
  BY <1>8 DEF LoopOrTask, AllOver, daemonVars, clientVars
<1> QED
  BY <1>1, <1>2, <1>3, <1>4, <1>5, <1>6, <1>7, <1>8
  DEF DaemonNext, Client, HandleIo

(***************************************************************************)
(* The event loop, the sockets and the processes keep their types.         *)
(***************************************************************************)
THEOREM DaemonTypeCorrect == DaemonSpec => []DaemonTypeOK
<1>1. DaemonSpec => []TypeOK
  BY DaemonRunsEventLoop, TypeCorrect, PTL
<1>2. DaemonSpec => []Sockets
  BY SocketsInit, SocketsStep, PTL DEF DaemonSpec
<1>3. TypeOK /\ Sockets => DaemonTypeOK
  BY DEF Sockets, DaemonTypeOK
<1> QED
  BY <1>1, <1>2, <1>3, PTL

-----------------------------------------------------------------------------
(***************************************************************************)
(* A stop that is alone.  Only stop processes write stop messages, so that *)
(* nobody else's stop replaces its writer; and the write half is handed    *)
(* from the connection's task to the channel and from there to the loop.   *)
(***************************************************************************)
HasAsked(c) == c \in Stopper /\ conn[c] # "none"

Origin ==
    /\ \A c \in Connection : /\ Range(unsent[c]) \subseteq Messages(c)
                             /\ Range(wire[c]) \subseteq Messages(c)
    /\ \A e \in Range(channel) : e.type = "stop" => HasAsked(e.connection)
    /\ stopWriter # NoConnection => HasAsked(stopWriter)

\* The stop of c is in the channel, or was the last one the loop took.
StopKept(c) == stopWriter = c \/ Stop(c) \in Range(channel)

Held == \A c \in Stopper : Alone(c) =>
            /\ exit[c] = "ok" => ~Alive
            /\ conn[c] = "closed" /\ exit[c] \in {"running", "ok"} => StopKept(c)

LEMMA StopFields ==
    /\ \A c \in Connection : Stop(c).connection = c
    /\ \A e \in Event : e.type = "stop" => e = Stop(e.connection)
    /\ \A c, d \in Connection : Stop(c) # ReceiveError(d)
BY DEF Event, Stop, ReceiveError

\* A process writes only its own messages.
LEMMA MessageKinds ==
    ASSUME NEW c \in Connection
    PROVE  /\ Stop(c) \in Messages(c) => c \in Stopper
           /\ \A r \in Request : Push(r) \in Messages(c) => c \notin Stopper
BY EventKinds DEF Messages

LEMMA OriginInit == DaemonInit => Origin
<1> SUFFICES ASSUME DaemonInit PROVE Origin
  OBVIOUS
<1>1. ASSUME NEW c \in Connection PROVE Range(unsent[c]) \subseteq Messages(c)
  <2>1. CASE c \in Stopper
    <3>1. unsent[c] = <<Stop(c)>>
      BY <2>1 DEF DaemonInit
    <3>2. Range(<<Stop(c)>>) = {Stop(c)}
      BY DEF Range
    <3> QED
      BY <2>1, <3>1, <3>2 DEF Messages
  <2>2. CASE c \notin Stopper
    <3>1. unsent[c] = [i \in DOMAIN Pushes[c] |-> Push(Pushes[c][i])]
      BY <2>2 DEF DaemonInit
    <3>2. \A i \in DOMAIN Pushes[c] : Pushes[c][i] \in Request
      BY PushesAssumption, LenProperties, ElementOfSeq
    <3> QED
      BY <2>2, <3>1, <3>2 DEF Messages, Range
  <2> QED
    BY <2>1, <2>2
<1>2. \A c \in Connection : Range(wire[c]) \subseteq Messages(c)
  BY RangeOfEmpty DEF DaemonInit
<1>3. Range(channel) = {} /\ stopWriter = NoConnection
  BY RangeOfEmpty DEF DaemonInit, Init
<1> QED
  BY <1>1, <1>2, <1>3 DEF Origin

\* What the loop's own steps do to the channel and to the writer.
LEMMA LoopTakes ==
    ASSUME TypeOK, LoopOrTask
    PROVE  \/ UNCHANGED <<channel, stopWriter>>
           \/ /\ channel # <<>> /\ channel' = Tail(channel)
              /\ \/ Head(channel).type # "stop" /\ stopWriter' = stopWriter
                 \/ Head(channel).type = "stop" /\ stopWriter' = Head(channel).connection
BY DEF LoopOrTask, LoopStep, Receive, ReceivePush, ReceiveStop, ReceiveFailure,
       VisitPath, StartDrain, FinishDrain, CloseTask, ClosureComputed,
       ClosureFailed, HandlerTask, PathHandled, PathDrained, Panic

\* A process that has connected has connected for good.
LEMMA ConnectedStays ==
    ASSUME Sockets, [DaemonNext]_daemonVars, NEW c \in Connection, conn[c] # "none"
    PROVE  conn'[c] # "none"
<1>1. ASSUME NEW d \in Connection, Connect(d) PROVE conn'[c] # "none"
  BY <1>1 DEF Connect, Sockets
<1>2. ASSUME NEW d \in Connection,
             \/ ConnectFails(d) \/ Send(d) \/ SendFails(d) \/ Close(d)
             \/ ReadToEnd(d) \/ Kill(d) \/ HandlePush(d)
      PROVE  conn'[c] # "none"
  BY <1>2 DEF ConnectFails, Send, SendFails, Close, ReadToEnd, Kill, HandlePush
<1>3. ASSUME NEW d \in Connection,
             HandleGarbled(d) \/ HandleStop(d) \/ HandleEof(d)
      PROVE  conn'[c] # "none"
  BY <1>3 DEF HandleGarbled, HandleStop, HandleEof, Sockets
<1>4. CASE Accept
  BY <1>4 DEF Accept, Sockets
<1>5. CASE LoopOrTask \/ AllOver \/ UNCHANGED daemonVars
  BY <1>5 DEF LoopOrTask, AllOver, daemonVars, clientVars
<1> QED
  BY <1>1, <1>2, <1>3, <1>4, <1>5 DEF DaemonNext, Client, HandleIo

LEMMA OriginStep ==
    TypeOK /\ Sockets /\ Origin /\ [DaemonNext]_daemonVars => Origin'
<1> SUFFICES ASSUME TypeOK, Sockets, Origin, [DaemonNext]_daemonVars PROVE Origin'
  OBVIOUS
<1>0. \A c : HasAsked(c) => HasAsked(c)'
  BY ConnectedStays, PushesAssumption DEF HasAsked
<1>1. ASSUME NEW c \in Connection, Send(c) PROVE Origin'
  <2>1. /\ unsent[c] \in Seq(Event) /\ unsent[c] # <<>> /\ wire[c] \in Seq(Event)
        /\ unsent' = [unsent EXCEPT ![c] = Tail(unsent[c])]
        /\ wire' = [wire EXCEPT ![c] = Append(wire[c], Head(unsent[c]))]
        /\ UNCHANGED <<channel, stopWriter>>
    BY <1>1 DEF Send, Sockets, vars
  <2>2. Head(unsent[c]) \in Event
    BY <2>1, HeadTailProperties
  <2>3. Range(unsent[c]) = {Head(unsent[c])} \cup Range(Tail(unsent[c]))
    BY <2>1, RangeOfTail
  <2>4. Range(Append(wire[c], Head(unsent[c]))) = Range(wire[c]) \cup {Head(unsent[c])}
    BY <2>1, <2>2, RangeOfAppend
  <2>5. ASSUME NEW d \in Connection
        PROVE  Range(unsent'[d]) \subseteq Messages(d) /\ Range(wire'[d]) \subseteq Messages(d)
    BY <2>1, <2>3, <2>4 DEF Origin, Sockets
  <2> QED
    BY <1>0, <2>1, <2>5 DEF Origin, Messages
<1>2. ASSUME NEW c \in Connection, Kill(c) PROVE Origin'
  BY <1>0, <1>2, RangeOfEmpty DEF Kill, Origin, Sockets, Messages, vars
<1>3. ASSUME NEW c \in Connection,
             \/ Connect(c) \/ ConnectFails(c) \/ SendFails(c) \/ Close(c)
             \/ ReadToEnd(c) \/ HandleEof(c)
      PROVE  Origin'
  BY <1>0, <1>3 DEF Connect, ConnectFails, SendFails, Close, ReadToEnd, HandleEof,
              Origin, Messages, vars
<1>4. ASSUME NEW c \in Connection, HandlePush(c) PROVE Origin'
  <2>1. PICK r \in Request : ArrivePush(r)
    BY <1>4 DEF HandlePush
  <2>2. Range(channel') = Range(channel) \cup {Push(r)} /\ stopWriter' = stopWriter
    BY <2>1, RangeOfAppend, LineTypes DEF ArrivePush, TypeOK
  <2>3. Range(wire[c]) = {Head(wire[c])} \cup Range(Tail(wire[c]))
    BY <1>4, RangeOfTail DEF HandlePush, Sockets
  <2>4. /\ wire' = [wire EXCEPT ![c] = Tail(wire[c])] /\ unsent' = unsent
    BY <1>4 DEF HandlePush
  <2>5. ASSUME NEW d \in Connection
        PROVE  Range(unsent'[d]) \subseteq Messages(d) /\ Range(wire'[d]) \subseteq Messages(d)
    BY <2>3, <2>4 DEF Origin, Sockets
  <2> QED
    BY <1>0, <2>2, <2>5, EventKinds DEF Origin, Messages
<1>5. ASSUME NEW c \in Connection, HandleGarbled(c) PROVE Origin'
  <2>1. Range(channel') = Range(channel) \cup {ReceiveError(c)}
    BY <1>5, RangeOfAppend, LineTypes DEF HandleGarbled, ArriveLast, TypeOK
  <2>2. UNCHANGED <<unsent, wire, stopWriter>>
    BY <1>5 DEF HandleGarbled, ArriveLast
  <2> QED
    BY <1>0, <2>1, <2>2, EventKinds DEF Origin, Messages
<1>6. ASSUME NEW c \in Connection, HandleStop(c) PROVE Origin'
  <2>1. Range(channel') = Range(channel) \cup {Stop(c)}
    BY <1>6, RangeOfAppend, LineTypes DEF HandleStop, ArriveLast, TypeOK
  <2>2. UNCHANGED <<unsent, wire, stopWriter>>
    BY <1>6 DEF HandleStop, ArriveLast
  <2>3. Stop(c) \in Range(wire[c])
    BY <1>6, RangeOfTail DEF HandleStop, Sockets
  <2>4. HasAsked(c)'
    BY <1>6, <2>3, MessageKinds DEF HandleStop, Origin, Sockets, HasAsked
  <2> QED
    BY <1>0, <2>1, <2>2, <2>4, StopFields DEF Origin, Messages
<1>7. CASE LoopOrTask
  <2>1. UNCHANGED <<unsent, wire>>
    BY <1>7 DEF LoopOrTask, clientVars
  <2>2. CASE UNCHANGED <<channel, stopWriter>>
    BY <1>0, <2>1, <2>2 DEF Origin, Messages
  <2>3. CASE channel # <<>> /\ channel' = Tail(channel)
    <3>1. Range(channel) = {Head(channel)} \cup Range(channel')
      BY <2>3, RangeOfTail DEF TypeOK
    <3> QED
      BY <1>0, <1>7, <2>1, <3>1, LoopTakes DEF Origin, Messages
  <2> QED
    BY <1>7, <2>2, <2>3, LoopTakes
<1>8. CASE Accept \/ AllOver \/ UNCHANGED daemonVars
  BY <1>0, <1>8 DEF Accept, AllOver, daemonVars, clientVars, vars, Origin, Messages
<1> QED
  BY <1>1, <1>2, <1>3, <1>4, <1>5, <1>6, <1>7, <1>8
  DEF DaemonNext, Client, HandleIo

\* The stop of a stop process that is alone is not lost.
LEMMA StopKeptStep ==
    ASSUME TypeOK, Origin, [DaemonNext]_daemonVars, NEW c \in Stopper,
           Alone(c), StopKept(c)
    PROVE  StopKept(c)'
<1> USE PushesAssumption
<1>1. ASSUME NEW e \in Event, channel' = Append(channel, e), stopWriter' = stopWriter
      PROVE  StopKept(c)'
  <2>1. Range(channel') = Range(channel) \cup {e}
    BY <1>1, RangeOfAppend DEF TypeOK
  <2> QED
    BY <1>1, <2>1 DEF StopKept
<1>2. CASE UNCHANGED <<channel, stopWriter>>
  BY <1>2 DEF StopKept
<1>3. CASE LoopOrTask
  <2>1. CASE channel # <<>> /\ channel' = Tail(channel)
    <3>1. /\ Range(channel) = {Head(channel)} \cup Range(channel')
          /\ Head(channel) \in Event
      BY <2>1, RangeOfTail, HeadTailProperties DEF TypeOK
    <3>2. CASE Head(channel).type = "stop"
      <4>1. Head(channel).connection = c
        BY <3>1, <3>2 DEF Origin, HasAsked, Alone
      <4>2. stopWriter' = c
        BY <1>3, <2>1, <3>2, <4>1, LoopTakes
      <4> QED
        BY <4>2 DEF StopKept
    <3>3. CASE Head(channel).type # "stop"
      <4>1. Head(channel) # Stop(c) /\ (stopWriter' = stopWriter \/ UNCHANGED <<channel, stopWriter>>)
        BY <1>3, <3>3, LoopTakes, EventKinds
      <4> QED
        BY <3>1, <4>1 DEF StopKept
    <3> QED
      BY <3>2, <3>3
  <2> QED
    BY <1>2, <1>3, <2>1, LoopTakes
<1>4. ASSUME NEW d \in Connection, HandleIo(d) PROVE StopKept(c)'
  BY <1>1, <1>2, <1>4, LineTypes
  DEF HandleIo, HandlePush, HandleGarbled, HandleStop, HandleEof, ArrivePush,
      ArriveLast, vars
<1>5. ASSUME \/ Accept \/ AllOver \/ UNCHANGED daemonVars
             \/ \E d \in Connection : ClientSide(d)
      PROVE  StopKept(c)'
  BY <1>2, <1>5, ClientSideIdle DEF Accept, AllOver, daemonVars, vars
<1> QED
  BY <1>3, <1>4, <1>5 DEF DaemonNext, Client, ClientSide

\* Nothing happens in the loop after run has returned or was aborted.
LEMMA DoneStays ==
    ASSUME [Next]_vars, ~Alive PROVE ~Alive'
BY DEF Next, Arrive, ArrivePush, ArriveLast, LoopStep, Receive, ReceivePush,
       ReceiveStop, ReceiveFailure, VisitPath, StartDrain, FinishDrain, CloseTask,
       ClosureComputed, ClosureFailed, HandlerTask, PathHandled, PathDrained,
       Panic, Selecting, Alive, vars

LEMMA HeldStep ==
    TypeOK /\ Sockets /\ Origin /\ Held /\ [DaemonNext]_daemonVars => Held'
<1> SUFFICES ASSUME TypeOK, Sockets, Origin, Held, [DaemonNext]_daemonVars,
                    NEW c \in Stopper, Alone(c)'
             PROVE  /\ exit'[c] = "ok" => ~Alive'
                    /\ conn'[c] = "closed" /\ exit'[c] \in {"running", "ok"}
                       => StopKept(c)'
  BY DEF Held, StopKept
<1>0. Alone(c)
  BY ConnectedStays, PushesAssumption DEF Alone
<1>1. /\ exit[c] = "ok" => ~Alive
      /\ conn[c] = "closed" /\ exit[c] \in {"running", "ok"} => StopKept(c)
      /\ c \in Connection
  BY <1>0, PushesAssumption DEF Held
<1>2. ~Alive => ~Alive'
  BY DoneStays, DaemonStepIsLoopStep
<1>3. StopKept(c) => StopKept(c)'
  BY <1>0, StopKeptStep
<1>4. CASE UNCHANGED <<conn, exit>>
  BY <1>1, <1>2, <1>3, <1>4
<1>5. ASSUME NEW d \in Connection,
             Connect(d) \/ ConnectFails(d) \/ Send(d) \/ SendFails(d) \/ Kill(d)
      PROVE  /\ exit'[c] = "ok" => exit[c] = "ok"
             /\ conn'[c] = "closed" => conn[c] = "closed"
             /\ exit'[c] \in {"running", "ok"} => exit[c] = exit'[c]
  BY <1>1, <1>5
  DEF Connect, ConnectFails, Send, SendFails, Kill, Sockets
<1>6. ASSUME NEW d \in Connection, Close(d)
      PROVE  exit'[c] = exit[c] /\ conn' = conn
  BY <1>1, <1>6 DEF Close, Sockets
<1>7. ASSUME NEW d \in Connection, ReadToEnd(d)
      PROVE  /\ exit'[c] = "ok" => ~Alive
             /\ exit'[c] \in {"running", "ok"} /\ conn[c] = "closed" => StopKept(c)
             /\ conn' = conn
  <2>1. CASE d = c
    BY <1>1, <1>7, <2>1 DEF ReadToEnd, WriterDropped, StopKept, Sockets
  <2>2. CASE d # c
    BY <1>1, <1>7, <2>2 DEF ReadToEnd, Sockets
  <2> QED
    BY <2>1, <2>2
<1>8. ASSUME NEW d \in Connection, HandlePush(d)
      PROVE  UNCHANGED <<conn, exit>>
  BY <1>8 DEF HandlePush
<1>9. ASSUME NEW d \in Connection, HandleGarbled(d)
      PROVE  exit' = exit /\ conn'[c] = conn[c]
  <2>1. PICK r \in Request : Push(r) \in Range(wire[d])
    BY <1>9, PushesAssumption, RangeOfTail DEF HandleGarbled, Sockets
  <2>2. d # c
    BY <1>9, <2>1, MessageKinds DEF Origin
  <2> QED
    BY <1>1, <1>9, <2>2 DEF HandleGarbled, Sockets
<1>10. ASSUME NEW d \in Connection, HandleStop(d)
       PROVE  exit' = exit /\ (conn'[c] = conn[c] \/ StopKept(c)')
  <2>1. Range(channel') = Range(channel) \cup {Stop(d)}
    BY <1>10, RangeOfAppend, LineTypes DEF HandleStop, ArriveLast, TypeOK
  <2> QED
    BY <1>1, <1>10, <2>1 DEF HandleStop, Sockets, StopKept
<1>11. ASSUME NEW d \in Connection, HandleEof(d)
       PROVE  /\ exit' = exit
              /\ conn'[c] = conn[c] \/ exit[c] \notin {"running", "ok"}
  BY <1>1, <1>11 DEF HandleEof, Sockets
<1>12. CASE Accept
  <2>1. Head(backlog) \in Connection
    BY <1>12, HeadTailProperties DEF Accept, Sockets
  <2>2. exit' = exit /\ (conn'[c] = "closed" => conn[c] = "closed")
    BY <1>1, <1>12, <2>1 DEF Accept, Sockets
  <2> QED
    BY <1>1, <1>2, <1>3, <2>2
<1>13. CASE LoopOrTask \/ AllOver \/ UNCHANGED daemonVars
  BY <1>4, <1>13 DEF LoopOrTask, AllOver, daemonVars, clientVars
<1> QED
  BY <1>1, <1>2, <1>3, <1>4, <1>5, <1>6, <1>7, <1>8, <1>9, <1>10, <1>11, <1>12,
     <1>13 DEF DaemonNext, Client, HandleIo

(***************************************************************************)
(* A stop process that is alone exits with 0 only after the daemon has     *)
(* handled every path and has written the final report to this process, or *)
(* after a handler's panic has ended the daemon.                           *)
(***************************************************************************)
THEOREM StopWaitsCorrect == DaemonSpec => []StopWaitsForReport
<1>1. DaemonSpec => [](TypeOK /\ AfterLoop /\ ProgressAddsUp)
  BY DaemonRunsEventLoop, TypeCorrect, AfterLoopCorrect, ProgressCorrect, PTL
 
<1>2. DaemonSpec => []Sockets
  BY SocketsInit, SocketsStep, PTL DEF DaemonSpec
<1>3. DaemonSpec => []Origin
  BY <1>1, <1>2, OriginInit, OriginStep, PTL DEF DaemonSpec
<1>4. DaemonInit => Held
  BY PushesAssumption DEF DaemonInit, Held
<1>5. DaemonSpec => []Held
  BY <1>1, <1>2, <1>3, <1>4, HeldStep, PTL DEF DaemonSpec
<1>6. TypeOK /\ AfterLoop /\ ProgressAddsUp /\ Origin /\ Held => StopWaitsForReport
  <2> SUFFICES ASSUME TypeOK, AfterLoop, ProgressAddsUp, Origin, Held,
                      NEW c \in Stopper, exit[c] = "ok", Alone(c),
                      phase # "panicked"
               PROVE  /\ phase = "done" /\ stopWriter = c
                      /\ out[Len(out)].type = "final"
    BY DEF StopWaitsForReport
  <2>1. phase = "done"
    BY DEF Held, Alive, TypeOK
  <2>2. stopWriter = c
    BY <2>1 DEF AfterLoop, Origin, HasAsked, Alone
  <2>3. out[Len(out)].type = "final"
    BY <2>1 DEF ProgressAddsUp
  <2> QED
    BY <2>1, <2>2, <2>3
<1> QED
  BY <1>1, <1>2, <1>3, <1>5, <1>6, PTL

-----------------------------------------------------------------------------
(***************************************************************************)
(* Order.  What a push process has not got into the channel is the end of  *)
(* its list, the first part of it on the wire and the rest in its own      *)
(* buffer; what a killed one left on the wire is still its own, so that it *)
(* is nobody else's request that is decoded there.                         *)
(***************************************************************************)
OwnWire(c) == \A i \in 1 .. Len(wire[c]) :
                 \E j \in 1 .. Len(Pushes[c]) : wire[c][i] = Push(Pushes[c][j])

Lined(c) ==
    /\ Decoded(c) \in Nat
    /\ \A i \in 1 .. Len(wire[c]) : wire[c][i] = Push(Pushes[c][Decoded(c) + i])
    /\ \A i \in 1 .. Len(unsent[c]) :
          unsent[c][i] = Push(Pushes[c][Decoded(c) + Len(wire[c]) + i])

QueueOf(c) == OwnWire(c) /\ (exit[c] # "killed" => Lined(c))

InLine == \A c \in Connection \ Stopper : QueueOf(c)

LEMMA PushesTypes ==
    ASSUME NEW c \in Connection
    PROVE  /\ Len(Pushes[c]) \in Nat /\ DOMAIN Pushes[c] = 1 .. Len(Pushes[c])
           /\ \A i \in 1 .. Len(Pushes[c]) : Pushes[c][i] \in Request
BY PushesAssumption, LenProperties, ElementOfSeq

LEMMA WireTypes ==
    ASSUME Sockets, NEW c \in Connection
    PROVE  /\ wire[c] \in Seq(Event) /\ Len(wire[c]) \in Nat
           /\ unsent[c] \in Seq(Event) /\ Len(unsent[c]) \in Nat
BY LenProperties DEF Sockets

\* A message moves from one place to the next: the sums stay.
LEMMA Sums ==
    \A n, w, u \in Nat : /\ n - (w + 1) - (u - 1) = n - w - u
                         /\ n - (w - 1) - u = (n - w - u) + 1
                         /\ n + w + (u + 1) = n + (w + 1) + u
                         /\ (n + 1) + (w - 1) + u = n + w + u
OBVIOUS

LEMMA DecodedBound ==
    ASSUME Sockets, NEW c \in Connection, Decoded(c) \in Nat
    PROVE  Decoded(c) + Len(wire[c]) + Len(unsent[c]) = Len(Pushes[c])
<1>1. Len(Pushes[c]) \in Nat /\ Len(wire[c]) \in Nat /\ Len(unsent[c]) \in Nat
  BY PushesTypes, WireTypes
<1> QED
  BY <1>1 DEF Decoded

\* Sending leaves the number of decoded messages alone, decoding adds one.
LEMMA DecodedChange ==
    ASSUME Sockets, NEW c \in Connection
    PROVE  /\ /\ Len(unsent'[c]) = Len(unsent[c]) - 1
              /\ Len(wire'[c]) = Len(wire[c]) + 1
              => Decoded(c)' = Decoded(c)
           /\ unsent'[c] = unsent[c] /\ Len(wire'[c]) = Len(wire[c]) - 1
              => Decoded(c)' = Decoded(c) + 1
<1>1. Len(Pushes[c]) \in Nat /\ Len(wire[c]) \in Nat /\ Len(unsent[c]) \in Nat
  BY PushesTypes, WireTypes
<1>3. ASSUME Len(unsent'[c]) = Len(unsent[c]) - 1, Len(wire'[c]) = Len(wire[c]) + 1
      PROVE  Decoded(c)' = Decoded(c)
  BY <1>1, <1>3, Sums DEF Decoded
<1>4. ASSUME unsent'[c] = unsent[c], Len(wire'[c]) = Len(wire[c]) - 1
      PROVE  Decoded(c)' = Decoded(c) + 1
  BY <1>1, <1>4, Sums DEF Decoded
<1> QED
  BY <1>3, <1>4

LEMMA InLineInit == DaemonInit => InLine
<1> SUFFICES ASSUME DaemonInit, NEW c \in Connection \ Stopper PROVE QueueOf(c)
  BY DEF InLine
<1>1. wire[c] = <<>> /\ unsent[c] = [i \in 1 .. Len(Pushes[c]) |-> Push(Pushes[c][i])]
  BY PushesTypes DEF DaemonInit
<1>2. Len(wire[c]) = 0 /\ Len(unsent[c]) = Len(Pushes[c]) /\ Len(Pushes[c]) \in Nat
  BY <1>1, PushesTypes, WireTypes, SocketsInit, LenProperties
<1>3. Decoded(c) = 0
  BY <1>2 DEF Decoded
<1> QED
  BY <1>1, <1>2, <1>3 DEF QueueOf, OwnWire, Lined

\* Nothing but the decoding of a push makes a request requested.
LEMMA RequestedBy ==
    ASSUME [DaemonNext]_daemonVars
    PROVE  requested' = requested \/ \E c \in Connection : HandlePush(c)
<1>1. ASSUME NEW c \in Connection, ClientSide(c) PROVE requested' = requested
  BY <1>1, ClientSideIdle DEF vars
<1>2. ASSUME NEW c \in Connection, HandleGarbled(c) \/ HandleStop(c)
      PROVE  requested' = requested
  BY <1>2 DEF HandleGarbled, HandleStop, ArriveLast
<1>3. CASE LoopOrTask
  BY <1>3 DEF LoopOrTask, LoopStep, Receive, ReceivePush, ReceiveStop,
              ReceiveFailure, VisitPath, StartDrain, FinishDrain, CloseTask,
              ClosureComputed, ClosureFailed, HandlerTask, PathHandled,
              PathDrained, Panic
<1>4. CASE Accept \/ AllOver \/ UNCHANGED daemonVars
  BY <1>4 DEF Accept, AllOver, daemonVars, vars
<1> QED
  BY <1>1, <1>2, <1>3, <1>4 DEF DaemonNext, Client, HandleIo, ClientSide

\* What decoding a push does, to the queue of its process and to the others.
LEMMA PushDecoded ==
    ASSUME Sockets, Origin, InLine, NEW c \in Connection, HandlePush(c)
    PROVE  /\ c \notin Stopper /\ wire[c] # <<>>
           /\ wire' = [wire EXCEPT ![c] = Tail(wire[c])]
           /\ UNCHANGED <<unsent, exit>>
           /\ \E j \in 1 .. Len(Pushes[c]) :
                 /\ requested' = requested \cup {Pushes[c][j]}
                 /\ exit[c] # "killed" => j = Decoded(c) + 1
<1>1. PICK r \in Request : Head(wire[c]) = Push(r) /\ ArrivePush(r)
  BY PushesAssumption DEF HandlePush
<1>2. /\ wire[c] # <<>> /\ wire' = [wire EXCEPT ![c] = Tail(wire[c])]
      /\ UNCHANGED <<unsent, exit>>
  BY DEF HandlePush
<1>3. /\ wire[c] \in Seq(Event) /\ Len(wire[c]) \in Nat
      /\ unsent[c] \in Seq(Event) /\ Len(unsent[c]) \in Nat
  BY WireTypes
<1>4. Len(wire[c]) > 0 /\ Head(wire[c]) = wire[c][1]
  BY <1>2, <1>3, EmptySeq
<1>5. c \notin Stopper
  BY <1>1, <1>2, <1>3, RangeOfTail, MessageKinds DEF Origin
<1>6. QueueOf(c)
  BY <1>5 DEF InLine
<1>7. CASE exit[c] = "killed"
  <2>1. PICK j \in 1 .. Len(Pushes[c]) : wire[c][1] = Push(Pushes[c][j])
    BY <1>3, <1>4, <1>6 DEF QueueOf, OwnWire
  <2>2. r = Pushes[c][j]
    BY <1>1, <1>4, <2>1, PushesTypes, EventKinds
  <2> QED
    BY <1>1, <1>2, <1>5, <1>7, <2>2 DEF ArrivePush
<1>8. CASE exit[c] # "killed"
  <2>1. wire[c][1] = Push(Pushes[c][Decoded(c) + 1]) /\ Decoded(c) \in Nat
    BY <1>3, <1>4, <1>6, <1>8 DEF QueueOf, Lined
  <2>2. Decoded(c) + 1 \in 1 .. Len(Pushes[c])
    BY <1>3, <1>4, <2>1, DecodedBound
  <2>3. r = Pushes[c][Decoded(c) + 1]
    BY <1>1, <1>4, <2>1, <2>2, PushesTypes, EventKinds
  <2> QED
    BY <1>1, <1>2, <1>5, <1>8, <2>2, <2>3 DEF ArrivePush
<1> QED
  BY <1>7, <1>8

LEMMA InLineStep ==
    Sockets /\ Origin /\ InLine /\ [DaemonNext]_daemonVars => InLine'
<1> SUFFICES ASSUME Sockets, Origin, InLine, [DaemonNext]_daemonVars,
                    NEW c \in Connection \ Stopper
             PROVE  QueueOf(c)'
  BY DEF InLine
<1>0. /\ QueueOf(c) /\ Len(Pushes[c]) \in Nat
      /\ wire[c] \in Seq(Event) /\ Len(wire[c]) \in Nat
      /\ unsent[c] \in Seq(Event) /\ Len(unsent[c]) \in Nat
  BY PushesTypes, WireTypes DEF InLine
<1>1. CASE wire'[c] = wire[c] /\ unsent'[c] = unsent[c]
           /\ (exit'[c] # "killed" => exit[c] # "killed")
  BY <1>0, <1>1 DEF QueueOf, OwnWire, Lined, Decoded
<1>2. ASSUME NEW d \in Connection, Send(d) PROVE QueueOf(c)'
  <2>1. CASE d # c
    BY <1>1, <1>2, <2>1 DEF Send, Sockets
  <2>2. CASE d = c
    <3>1. /\ exit[c] = "running" /\ exit' = exit /\ unsent[c] # <<>>
          /\ wire'[c] = Append(wire[c], Head(unsent[c]))
          /\ unsent'[c] = Tail(unsent[c])
      BY <1>2, <2>2 DEF Send, Sockets
    <3>2. /\ Len(unsent[c]) > 0 /\ Head(unsent[c]) = unsent[c][1]
          /\ Head(unsent[c]) \in Event
      BY <1>0, <3>1, HeadTailProperties, EmptySeq
    <3>3. /\ Len(unsent'[c]) = Len(unsent[c]) - 1
          /\ \A i \in 1 .. Len(unsent'[c]) : unsent'[c][i] = unsent[c][i + 1]
      BY <1>0, <3>1, HeadTailProperties
    <3>4. /\ Len(wire'[c]) = Len(wire[c]) + 1
          /\ \A i \in 1 .. Len(wire[c]) : wire'[c][i] = wire[c][i]
          /\ wire'[c][Len(wire[c]) + 1] = unsent[c][1]
      BY <1>0, <3>1, <3>2, AppendProperties
    <3>5. Lined(c) /\ Decoded(c) \in Nat
      BY <1>0, <3>1 DEF QueueOf, Lined
    <3>6. Decoded(c)' = Decoded(c)
      BY <3>3, <3>4, DecodedChange
    <3>7. ASSUME NEW i \in 1 .. Len(wire'[c])
          PROVE  wire'[c][i] = Push(Pushes[c][Decoded(c) + i])
      <4>1. CASE i \in 1 .. Len(wire[c])
        BY <3>4, <3>5, <4>1 DEF Lined
      <4>2. CASE i = Len(wire[c]) + 1
        <5>1. unsent[c][1] = Push(Pushes[c][Decoded(c) + Len(wire[c]) + 1])
          BY <1>0, <3>2, <3>5 DEF Lined
        <5>2. Decoded(c) + Len(wire[c]) + 1 = Decoded(c) + i
          BY <1>0, <3>5, <4>2
        <5> QED
          BY <3>4, <4>2, <5>1, <5>2
      <4> QED
        BY <1>0, <3>4, <4>1, <4>2
    <3>8. ASSUME NEW i \in 1 .. Len(unsent'[c])
          PROVE  unsent'[c][i] = Push(Pushes[c][Decoded(c) + Len(wire'[c]) + i])
      <4>1. i + 1 \in 1 .. Len(unsent[c])
        BY <1>0, <3>2, <3>3
      <4>2. unsent[c][i + 1] = Push(Pushes[c][Decoded(c) + Len(wire[c]) + (i + 1)])
        BY <3>5, <4>1 DEF Lined
      <4>3. Decoded(c) + Len(wire[c]) + (i + 1) = Decoded(c) + Len(wire'[c]) + i
        <5>1. Len(wire'[c]) = Len(wire[c]) + 1 /\ Len(wire[c]) \in Nat /\ Decoded(c) \in Nat
          BY <1>0, <3>4, <3>5
        <5>2. i \in Nat
          BY <3>4
        <5>3. Decoded(c) + Len(wire[c]) + (i + 1) = Decoded(c) + (Len(wire[c]) + 1) + i
          BY <5>1, <5>2, Sums
        <5> QED
          BY <5>1, <5>3
      <4> QED
        BY <3>3, <4>2, <4>3
    <3>9. Lined(c)'
      BY <3>5, <3>6, <3>7, <3>8 DEF Lined
    <3>10. \A i \in 1 .. Len(wire'[c]) : Decoded(c) + i \in 1 .. Len(Pushes[c])
      BY <1>0, <3>2, <3>4, <3>5, DecodedBound
    <3>11. OwnWire(c)'
      BY <3>7, <3>10 DEF OwnWire
    <3> QED
      BY <3>9, <3>11 DEF QueueOf
  <2> QED
    BY <2>1, <2>2
<1>3. ASSUME NEW d \in Connection, Kill(d) PROVE QueueOf(c)'
  <2>1. CASE d # c
    BY <1>1, <1>3, <2>1 DEF Kill, Sockets
  <2>2. CASE d = c
    BY <1>0, <1>3, <2>2 DEF Kill, Sockets, QueueOf, OwnWire
  <2> QED
    BY <2>1, <2>2
<1>4. ASSUME NEW d \in Connection, HandlePush(d) PROVE QueueOf(c)'
  <2>1. /\ wire[d] # <<>> /\ wire' = [wire EXCEPT ![d] = Tail(wire[d])]
        /\ UNCHANGED <<unsent, exit>>
    BY <1>4, PushDecoded
  <2>2. CASE d # c
    BY <1>1, <2>1, <2>2 DEF Sockets
  <2>3. CASE d = c
    <3>1. /\ wire'[c] = Tail(wire[c]) /\ unsent'[c] = unsent[c]
          /\ exit'[c] = exit[c] /\ wire[c] # <<>>
      BY <2>1, <2>3 DEF Sockets
    <3>2. /\ Len(wire'[c]) = Len(wire[c]) - 1
          /\ \A i \in 1 .. Len(wire'[c]) : wire'[c][i] = wire[c][i + 1]
      BY <1>0, <3>1, HeadTailProperties
    <3>3. Decoded(c)' = Decoded(c) + 1
      BY <3>1, <3>2, DecodedChange
    <3>4. \A i \in 1 .. Len(wire'[c]) : i + 1 \in 1 .. Len(wire[c])
      BY <1>0, <3>2
    <3>5. OwnWire(c)'
      BY <1>0, <3>2, <3>4 DEF QueueOf, OwnWire
    <3>6. ASSUME Lined(c) PROVE Lined(c)'
      <4>1. Decoded(c) \in Nat /\ Decoded(c)' \in Nat
        BY <3>3, <3>6 DEF Lined
      <4>2. ASSUME NEW i \in 1 .. Len(wire'[c])
            PROVE  wire'[c][i] = Push(Pushes[c][Decoded(c)' + i])
        <5>1. wire[c][i + 1] = Push(Pushes[c][Decoded(c) + (i + 1)])
          BY <3>4, <3>6 DEF Lined
        <5>2. Decoded(c) + (i + 1) = Decoded(c)' + i
          BY <1>0, <3>2, <3>3, <4>1
        <5> QED
          BY <3>2, <5>1, <5>2
      <4>3. ASSUME NEW i \in 1 .. Len(unsent[c])
            PROVE  unsent[c][i] = Push(Pushes[c][Decoded(c)' + Len(wire'[c]) + i])
        <5>1. Decoded(c)' + Len(wire'[c]) + i = Decoded(c) + Len(wire[c]) + i
          <6>1. Len(wire'[c]) = Len(wire[c]) - 1 /\ Len(wire[c]) \in Nat /\ i \in Nat
            BY <1>0, <3>2
          <6>2. (Decoded(c) + 1) + (Len(wire[c]) - 1) + i = Decoded(c) + Len(wire[c]) + i
            BY <4>1, <6>1, Sums
          <6> QED
            BY <3>3, <6>1, <6>2
        <5> QED
          BY <3>6, <5>1 DEF Lined
      <4> QED
        BY <3>1, <4>1, <4>2, <4>3 DEF Lined
    <3> QED
      BY <1>0, <3>1, <3>5, <3>6 DEF QueueOf
  <2> QED
    BY <2>2, <2>3
<1>5. ASSUME NEW d \in Connection,
             \/ Connect(d) \/ ConnectFails(d) \/ SendFails(d) \/ Close(d)
             \/ ReadToEnd(d) \/ HandleGarbled(d) \/ HandleStop(d) \/ HandleEof(d)
      PROVE  QueueOf(c)'
  BY <1>1, <1>5
  DEF Connect, ConnectFails, SendFails, Close, ReadToEnd, HandleGarbled,
      HandleStop, HandleEof, Sockets
<1>6. CASE Accept \/ LoopOrTask \/ AllOver \/ UNCHANGED daemonVars
  BY <1>1, <1>6 DEF Accept, LoopOrTask, AllOver, daemonVars, clientVars
<1> QED
  BY <1>2, <1>3, <1>4, <1>5, <1>6 DEF DaemonNext, Client, HandleIo

\* A killed process stays killed.
LEMMA KilledStays ==
    ASSUME Sockets, [DaemonNext]_daemonVars, NEW c \in Connection, exit'[c] # "killed"
    PROVE  exit[c] # "killed"
<1>1. ASSUME NEW d \in Connection,
             \/ ConnectFails(d) \/ SendFails(d) \/ Close(d) \/ ReadToEnd(d)
             \/ Kill(d)
      PROVE  exit[c] # "killed"
  BY <1>1 DEF ConnectFails, SendFails, Close, ReadToEnd, Kill, Sockets
<1>2. CASE exit' = exit
  BY <1>2
<1>3. ASSUME NEW d \in Connection, HandleIo(d) \/ Connect(d) \/ Send(d)
      PROVE  exit' = exit
  BY <1>3 DEF HandleIo, HandlePush, HandleGarbled, HandleStop, HandleEof,
              Connect, Send
<1>4. CASE Accept \/ LoopOrTask \/ AllOver \/ UNCHANGED daemonVars
  BY <1>4 DEF Accept, LoopOrTask, AllOver, daemonVars, clientVars
<1> QED
  BY <1>1, <1>2, <1>3, <1>4 DEF DaemonNext, Client

DecodedOrder ==
    \A c \in Connection \ Stopper : exit[c] # "killed" => DecodedInOrder(c)

LEMMA DecodedOrderStep ==
    Sockets /\ Origin /\ InLine /\ DecodedOrder /\ [DaemonNext]_daemonVars
    => DecodedOrder'
<1> SUFFICES ASSUME Sockets, Origin, InLine, DecodedOrder, [DaemonNext]_daemonVars,
                    NEW c \in Connection \ Stopper, exit'[c] # "killed",
                    NEW i \in 1 .. Len(Pushes[c])
             PROVE  /\ i > Decoded(c)' => Pushes[c][i] \notin requested'
                    /\ i <= Decoded(c)' => Pushes[c][i] \in requested'
  BY PushesTypes DEF DecodedOrder, DecodedInOrder
<1>0. /\ wire[c] \in Seq(Event) /\ Len(wire[c]) \in Nat
      /\ unsent[c] \in Seq(Event) /\ Len(unsent[c]) \in Nat
      /\ Len(Pushes[c]) \in Nat
  BY WireTypes, PushesTypes
<1>1. exit[c] # "killed"
  BY KilledStays
<1>2. /\ i > Decoded(c) => Pushes[c][i] \notin requested
      /\ i <= Decoded(c) => Pushes[c][i] \in requested
      /\ Decoded(c) \in Nat
  BY <1>1, PushesTypes DEF DecodedOrder, DecodedInOrder, InLine, QueueOf, Lined
<1>3. ASSUME NEW d \in Connection, HandlePush(d)
      PROVE  /\ i > Decoded(c)' => Pushes[c][i] \notin requested'
             /\ i <= Decoded(c)' => Pushes[c][i] \in requested'
  <2>1. /\ wire[d] # <<>>
        /\ wire' = [wire EXCEPT ![d] = Tail(wire[d])] /\ UNCHANGED <<unsent, exit>>
    BY <1>3, PushDecoded
  <2>2. PICK j \in 1 .. Len(Pushes[d]) :
                 /\ requested' = requested \cup {Pushes[d][j]}
                 /\ exit[d] # "killed" => j = Decoded(d) + 1
    BY <1>3, PushDecoded
  <2>3. Pushes[c][i] = Pushes[d][j] => c = d /\ i = j
    BY PushesAssumption, PushesTypes
  <2>4. CASE d # c
    <3>1. Decoded(c)' = Decoded(c)
      BY <2>1, <2>4 DEF Decoded, Sockets
    <3> QED
      BY <1>2, <2>2, <2>3, <2>4, <3>1
  <2>5. CASE d = c
    <3>1. Decoded(c)' = Decoded(c) + 1
      BY <1>0, <2>1, <2>5, HeadTailProperties DEF Decoded, Sockets
    <3> QED
      BY <1>1, <1>2, <2>2, <2>3, <2>5, <3>1
  <2> QED
    BY <2>4, <2>5
<1>4. ASSUME NEW d \in Connection, Send(d)
      PROVE  Decoded(c)' = Decoded(c) /\ requested' = requested
  <2>1. requested' = requested
    BY <1>4 DEF Send, vars
  <2>2. CASE d # c
    BY <1>4, <2>1, <2>2 DEF Send, Decoded, Sockets
  <2>3. CASE d = c
    <3>1. /\ unsent[c] # <<>> /\ unsent'[c] = Tail(unsent[c])
          /\ wire'[c] = Append(wire[c], Head(unsent[c]))
      BY <1>4, <2>3 DEF Send, Sockets
    <3>2. /\ Head(unsent[c]) \in Event /\ Len(unsent'[c]) = Len(unsent[c]) - 1
      BY <1>0, <3>1, HeadTailProperties
    <3>3. Len(wire'[c]) = Len(wire[c]) + 1
      BY <1>0, <3>1, <3>2, AppendProperties
    <3> QED
      BY <1>0, <2>1, <3>2, <3>3 DEF Decoded
  <2> QED
    BY <2>2, <2>3
<1>5. ASSUME NEW d \in Connection, Kill(d)
      PROVE  Decoded(c)' = Decoded(c) /\ requested' = requested
  <2>1. d # c
    BY <1>5 DEF Kill, Sockets
  <2> QED
    BY <1>5, <2>1 DEF Kill, Sockets, Decoded, vars
<1>6. ASSUME NEW d \in Connection,
             \/ Connect(d) \/ ConnectFails(d) \/ SendFails(d) \/ Close(d)
             \/ ReadToEnd(d) \/ HandleGarbled(d) \/ HandleStop(d) \/ HandleEof(d)
      PROVE  Decoded(c)' = Decoded(c) /\ requested' = requested
  BY <1>6
  DEF Connect, ConnectFails, SendFails, Close, ReadToEnd, HandleGarbled,
      HandleStop, HandleEof, ArriveLast, vars, Decoded
<1>7. CASE Accept \/ LoopOrTask \/ AllOver \/ UNCHANGED daemonVars
  <2>1. Decoded(c)' = Decoded(c)
    BY <1>7 DEF Accept, LoopOrTask, AllOver, daemonVars, clientVars, Decoded
  <2>2. \A d \in Connection : ~HandlePush(d) \/ wire' # wire
    <3> SUFFICES ASSUME NEW d \in Connection, HandlePush(d) PROVE wire' # wire
      OBVIOUS
    <3>1. wire[d] # <<>> /\ wire' = [wire EXCEPT ![d] = Tail(wire[d])]
      BY PushDecoded
    <3>2. Len(Tail(wire[d])) # Len(wire[d])
      BY <3>1, WireTypes, HeadTailProperties
    <3> QED
      BY <3>1, <3>2 DEF Sockets
  <2>3. wire' = wire
    BY <1>7 DEF Accept, LoopOrTask, AllOver, daemonVars, clientVars
  <2>4. requested' = requested
    BY <2>2, <2>3, RequestedBy
  <2> QED
    BY <1>2, <2>1, <2>4
<1> QED
  BY <1>2, <1>3, <1>4, <1>5, <1>6, <1>7 DEF DaemonNext, Client, HandleIo

\* What a step does to the channel: it enters one event, takes one, or neither.
LEMMA ChannelChange ==
    ASSUME TypeOK, Sockets, Origin, InLine, [DaemonNext]_daemonVars
    PROVE  \/ UNCHANGED <<channel, requested>>
           \/ channel # <<>> /\ channel' = Tail(channel) /\ requested' = requested
           \/ \E e \in Event : /\ channel' = Append(channel, e)
                               /\ \A r \in Request : e # Push(r)
                               /\ requested' = requested
           \/ \E d \in Connection, r \in Request :
                 /\ HandlePush(d) /\ r \notin requested
                 /\ channel' = Append(channel, Push(r))
                 /\ requested' = requested \cup {r}
<1>1. ASSUME NEW d \in Connection, HandlePush(d)
      PROVE  \E r \in Request :
                 /\ r \notin requested
                 /\ channel' = Append(channel, Push(r))
                 /\ requested' = requested \cup {r}
  BY <1>1 DEF HandlePush, ArrivePush
<1>2. ASSUME NEW d \in Connection, HandleGarbled(d) \/ HandleStop(d)
      PROVE  \E e \in Event : /\ channel' = Append(channel, e)
                              /\ \A r \in Request : e # Push(r)
                              /\ requested' = requested
  BY <1>2, LineTypes, EventKinds DEF HandleGarbled, HandleStop, ArriveLast
<1>3. ASSUME NEW d \in Connection, ClientSide(d)
      PROVE  UNCHANGED <<channel, requested>>
  BY <1>3, ClientSideIdle DEF vars
<1>4. CASE LoopOrTask
  <2>1. requested' = requested
    BY <1>4 DEF LoopOrTask, LoopStep, Receive, ReceivePush, ReceiveStop,
                ReceiveFailure, VisitPath, StartDrain, FinishDrain, CloseTask,
                ClosureComputed, ClosureFailed, HandlerTask, PathHandled,
                PathDrained, Panic
  <2> QED
    BY <1>4, <2>1, LoopTakes
<1>5. CASE Accept \/ AllOver \/ UNCHANGED daemonVars
  BY <1>5 DEF Accept, AllOver, daemonVars, vars
<1> QED
  BY <1>1, <1>2, <1>3, <1>4, <1>5 DEF DaemonNext, Client, HandleIo, ClientSide

InChannel == \A c \in Connection \ Stopper :
                exit[c] # "killed" => QueuedInOrder(c) /\ TakenInOrder(c)

LEMMA InChannelStep ==
    /\ TypeOK /\ RequestsAccounted /\ Sockets /\ Origin /\ InLine
    /\ DecodedOrder /\ DecodedOrder' /\ InChannel /\ [DaemonNext]_daemonVars
    => InChannel'
<1> SUFFICES ASSUME TypeOK, RequestsAccounted, Sockets, Origin, InLine,
                    DecodedOrder, DecodedOrder', InChannel, [DaemonNext]_daemonVars,
                    NEW c \in Connection \ Stopper, exit'[c] # "killed"
             PROVE  QueuedInOrder(c)' /\ TakenInOrder(c)'
  BY DEF InChannel
<1>0. /\ QueuedInOrder(c) /\ TakenInOrder(c) /\ DecodedInOrder(c)
      /\ DecodedInOrder(c)' /\ exit[c] # "killed"
  BY KilledStays DEF InChannel, DecodedOrder
<1>1. /\ channel \in Seq(Event) /\ Len(channel) \in Nat
      /\ DOMAIN channel = 1 .. Len(channel)
  BY LenProperties DEF TypeOK
<1>2. /\ Len(Pushes[c]) \in Nat /\ DOMAIN Pushes[c] = 1 .. Len(Pushes[c])
      /\ \A i \in 1 .. Len(Pushes[c]) : Pushes[c][i] \in Request
  BY PushesTypes
<1>3. CASE UNCHANGED <<channel, requested>>
  BY <1>0, <1>3 DEF QueuedInOrder, TakenInOrder, Queued
<1>4. CASE channel # <<>> /\ channel' = Tail(channel) /\ requested' = requested
  <2>1. /\ Len(channel') = Len(channel) - 1 /\ DOMAIN channel' = 1 .. Len(channel')
        /\ \A m \in 1 .. Len(channel') : channel'[m] = channel[m + 1]
        /\ Head(channel) = channel[1] /\ Len(channel) > 0
    BY <1>1, <1>4, HeadTailProperties, LenProperties, EmptySeq
  <2>2. \A m \in 1 .. Len(channel') : m + 1 \in 1 .. Len(channel)
    BY <1>1, <2>1
  <2>3. QueuedInOrder(c)'
    <3> SUFFICES ASSUME NEW m \in 1 .. Len(channel'), NEW n \in 1 .. Len(channel'),
                        NEW i \in 1 .. Len(Pushes[c]), NEW j \in 1 .. Len(Pushes[c]),
                        m < n, channel'[m] = Push(Pushes[c][i]),
                        channel'[n] = Push(Pushes[c][j])
                 PROVE  i < j
      BY <1>2, <2>1 DEF QueuedInOrder
    <3>1. m + 1 < n + 1
      BY <2>1
    <3> QED
      BY <1>0, <1>1, <1>2, <2>1, <2>2, <3>1 DEF QueuedInOrder
  <2>4. Queued = Queued' \cup {r \in Request : Push(r) = Head(channel)}
    BY <1>4, QueuedBeforeTail
  <2>5. TakenInOrder(c)'
    <3> SUFFICES ASSUME NEW i \in 1 .. Len(Pushes[c]), NEW j \in 1 .. Len(Pushes[c]),
                        i < j, Pushes[c][j] \in requested, Pushes[c][j] \notin Queued',
                        Pushes[c][i] \in Queued'
                 PROVE  FALSE
      BY <1>2, <1>4 DEF TakenInOrder
    <3>1. Pushes[c][i] \in Queued /\ Pushes[c][j] \in Queued
      BY <1>0, <1>2, <2>4 DEF TakenInOrder
    <3>2. channel[1] = Push(Pushes[c][j])
      BY <2>1, <2>4, <3>1
    <3>3. PICK m \in 1 .. Len(channel') : channel'[m] = Push(Pushes[c][i])
      BY <2>1 DEF Queued, Range
    <3>4. channel[m + 1] = Push(Pushes[c][i]) /\ m + 1 \in 1 .. Len(channel)
      BY <2>1, <2>2, <3>3
    <3>5. 1 < m + 1 /\ 1 \in 1 .. Len(channel)
      BY <1>1, <2>1
    <3>6. j < i
      BY <1>0, <1>1, <1>2, <3>2, <3>4, <3>5 DEF QueuedInOrder
    <3> QED
      BY <1>2, <3>6
  <2> QED
    BY <2>3, <2>5
<1>5. ASSUME NEW e \in Event, channel' = Append(channel, e),
             \A r \in Request : e # Push(r), requested' = requested
      PROVE  QueuedInOrder(c)' /\ TakenInOrder(c)'
  <2>1. /\ DOMAIN channel' = 1 .. Len(channel) + 1
        /\ \A m \in 1 .. Len(channel) : channel'[m] = channel[m]
        /\ channel'[Len(channel) + 1] = e
    BY <1>1, <1>5, AppendProperties, LenProperties
  <2>2. Queued' = Queued
    BY <1>5, QueuedAfterAppend
  <2>3. \A m \in DOMAIN channel' : \A i \in 1 .. Len(Pushes[c]) :
           channel'[m] = Push(Pushes[c][i]) => m \in 1 .. Len(channel)
    BY <1>1, <1>2, <1>5, <2>1
  <2>4. QueuedInOrder(c)'
    BY <1>0, <1>1, <1>2, <2>1, <2>3 DEF QueuedInOrder
  <2> QED
    BY <1>0, <1>5, <2>2, <2>4 DEF TakenInOrder
<1>6. ASSUME NEW d \in Connection, NEW r \in Request, HandlePush(d),
             r \notin requested, channel' = Append(channel, Push(r)),
             requested' = requested \cup {r}
      PROVE  QueuedInOrder(c)' /\ TakenInOrder(c)'
  <2>1. /\ DOMAIN channel' = 1 .. Len(channel) + 1
        /\ \A m \in 1 .. Len(channel) : channel'[m] = channel[m]
        /\ channel'[Len(channel) + 1] = Push(r)
    BY <1>1, <1>6, LineTypes, AppendProperties, LenProperties
  <2>2. Queued' = Queued \cup {r}
    BY <1>6, QueuedAfterAppend, LineTypes, EventKinds
  <2>3. \A m \in 1 .. Len(channel), q \in Request :
           channel[m] = Push(q) => q \in requested
    BY <1>1 DEF RequestsAccounted, Queued, Range
  <2>4. \A i, j \in 1 .. Len(Pushes[c]) :
           Pushes[c][i] \in requested /\ Pushes[c][j] = r => i < j
    <3> SUFFICES ASSUME NEW i \in 1 .. Len(Pushes[c]), NEW j \in 1 .. Len(Pushes[c]),
                        Pushes[c][i] \in requested, Pushes[c][j] = r
                 PROVE  i < j
      OBVIOUS
    <3>1. Decoded(c) \in Nat
      BY <1>0 DEF InLine, QueueOf, Lined
    <3>2. i <= Decoded(c)
      BY <1>0, <1>2, <3>1 DEF DecodedInOrder
    <3>3. ~(j <= Decoded(c))
      BY <1>0, <1>2, <1>6 DEF DecodedInOrder
    <3> QED
      BY <1>2, <3>1, <3>2, <3>3
  <2>5. QueuedInOrder(c)'
    <3> SUFFICES ASSUME NEW m \in 1 .. Len(channel) + 1, NEW n \in 1 .. Len(channel) + 1,
                        NEW i \in 1 .. Len(Pushes[c]), NEW j \in 1 .. Len(Pushes[c]),
                        m < n, channel'[m] = Push(Pushes[c][i]),
                        channel'[n] = Push(Pushes[c][j])
                 PROVE  i < j
      BY <1>2, <2>1 DEF QueuedInOrder
    <3>1. m \in 1 .. Len(channel) /\ channel[m] = Push(Pushes[c][i])
      BY <1>1, <2>1
    <3>2. CASE n \in 1 .. Len(channel)
      BY <1>0, <1>1, <1>2, <2>1, <3>1, <3>2 DEF QueuedInOrder
    <3>3. CASE n = Len(channel) + 1
      <4>1. Pushes[c][j] = r
        BY <1>2, <2>1, <3>3, EventKinds
      <4> QED
        BY <1>2, <2>3, <2>4, <3>1, <4>1
    <3> QED
      BY <1>1, <3>2, <3>3
  <2>6. TakenInOrder(c)'
    <3> SUFFICES ASSUME NEW i \in 1 .. Len(Pushes[c]), NEW j \in 1 .. Len(Pushes[c]),
                        i < j, Pushes[c][j] \in requested' \ Queued',
                        Pushes[c][i] \in Queued'
                 PROVE  FALSE
      BY <1>2 DEF TakenInOrder
    <3>1. Pushes[c][j] \in requested \ Queued
      BY <1>6, <2>2
    <3>2. Pushes[c][i] \notin Queued
      BY <1>0, <1>2, <3>1 DEF TakenInOrder
    <3>3. Pushes[c][i] = r
      BY <2>2, <3>2
    <3>4. j < i
      BY <2>4, <3>1, <3>3
    <3> QED
      BY <1>2, <3>4
  <2> QED
    BY <2>5, <2>6
<1> QED
  BY <1>3, <1>4, <1>5, <1>6, ChannelChange

(***************************************************************************)
(* The requests of a push process that was not killed reach the channel,   *)
(* and leave it for the loop, in the order in which they were written, and *)
(* none is lost or doubled on the way.                                     *)
(***************************************************************************)
THEOREM InOrderCorrect == DaemonSpec => []InOrder
<1>1. DaemonSpec => [](TypeOK /\ RequestsAccounted)
  BY DaemonRunsEventLoop, TypeCorrect, RequestsCorrect, PTL
<1>2. DaemonSpec => []Sockets
  BY SocketsInit, SocketsStep, PTL DEF DaemonSpec
<1>3. DaemonSpec => []Origin
  BY <1>1, <1>2, OriginInit, OriginStep, PTL DEF DaemonSpec
<1>4. DaemonSpec => []InLine
  BY <1>2, <1>3, InLineInit, InLineStep, PTL DEF DaemonSpec
<1>5. DaemonInit => DecodedOrder
  <2> SUFFICES ASSUME DaemonInit, NEW c \in Connection \ Stopper,
                      NEW i \in 1 .. Len(Pushes[c])
               PROVE  /\ i > Decoded(c) => Pushes[c][i] \notin requested
                      /\ i <= Decoded(c) => Pushes[c][i] \in requested
    BY PushesTypes DEF DecodedOrder, DecodedInOrder
  <2>1. Len(wire[c]) = 0 /\ Len(unsent[c]) = Len(Pushes[c]) /\ Len(Pushes[c]) \in Nat
    BY PushesTypes, WireTypes, SocketsInit, LenProperties DEF DaemonInit
  <2> QED
    BY <2>1 DEF DaemonInit, Init, Decoded
<1>6. DaemonSpec => []DecodedOrder
  BY <1>2, <1>3, <1>4, <1>5, DecodedOrderStep, PTL DEF DaemonSpec
<1>7. DaemonInit => InChannel
  <2> SUFFICES ASSUME DaemonInit PROVE InChannel
    OBVIOUS
  <2>1. channel = <<>> /\ requested = {} /\ Range(channel) = {}
    BY RangeOfEmpty DEF DaemonInit, Init
  <2> QED
    BY <2>1 DEF InChannel, QueuedInOrder, TakenInOrder
<1>8. DaemonSpec => []InChannel
  BY <1>1, <1>2, <1>3, <1>4, <1>6, <1>7, InChannelStep, PTL DEF DaemonSpec
<1>9. DecodedOrder /\ InChannel => InOrder
  BY DEF DecodedOrder, InChannel, InOrder
<1> QED
  BY <1>6, <1>8, <1>9, PTL

-----------------------------------------------------------------------------
(***************************************************************************)
(* Uploader.                                                               *)
(***************************************************************************)
LEMMA UploaderStepIsLoopStep == [UploaderNext]_uploaderVars => [Next]_vars
<1> SUFFICES ASSUME [UploaderNext]_uploaderVars PROVE Next \/ UNCHANGED vars
  OBVIOUS
<1>1. CASE Loop
  BY <1>1 DEF Loop, Next
<1>2. ASSUME NEW p \in Path, Collect(p) PROVE Next
  BY <1>2 DEF Collect, Next, HandlerTask
<1>3. ASSUME NEW p \in Path, HandlerPanics(p) PROVE Next
  BY <1>3 DEF HandlerPanics, Next
<1>4. ASSUME NEW p \in Path, RunHandler(p) \/ Abort(p) \/ OtherJob(p)
      PROVE  UNCHANGED vars
  BY <1>4 DEF RunHandler, Abort, OtherJob
<1>5. CASE UNCHANGED uploaderVars
  BY <1>5 DEF uploaderVars
<1> QED
  BY <1>1, <1>2, <1>3, <1>4, <1>5 DEF UploaderNext

LEMMA UploaderStepIsHandlerStep ==
    [UploaderNext]_uploaderVars => [HandlersNext]_handlerVars
<1> SUFFICES ASSUME [UploaderNext]_uploaderVars
             PROVE  HandlersNext \/ UNCHANGED handlerVars
  OBVIOUS
<1>1. ASSUME NEW p \in Path, RunHandler(p) PROVE HandlersNext
  BY <1>1 DEF RunHandler, HandlersNext
<1>2. ASSUME NEW p \in Path, HandlerPanics(p) \/ Abort(p) PROVE HandlersNext
  BY <1>2 DEF HandlerPanics, Abort, HandlersNext
<1>3. ASSUME NEW p \in Path, OtherJob(p) PROVE HandlersNext
  BY <1>3 DEF OtherJob, HandlersNext
<1>4. ASSUME Loop \/ UNCHANGED uploaderVars \/ \E p \in Path : Collect(p)
      PROVE  UNCHANGED handlerVars
  BY <1>4 DEF Loop, Collect, uploaderVars
<1> QED
  BY <1>1, <1>2, <1>3, <1>4 DEF UploaderNext

LEMMA UploaderRunsEventLoop == UploaderSpec => Spec
<1>1. UploaderInit => Init
  BY DEF UploaderInit
<1> QED
  BY <1>1, UploaderStepIsLoopStep, PTL DEF UploaderSpec, Spec

LEMMA UploaderRunsHandlers == UploaderSpec => HandlersSpec
<1>1. UploaderInit => HandlersInit
  BY DEF UploaderInit
<1> QED
  BY <1>1, UploaderStepIsHandlerStep, PTL DEF UploaderSpec, HandlersSpec

(***************************************************************************)
(* The loop and the handlers keep their types.                             *)
(***************************************************************************)
THEOREM UploaderTypeCorrect == UploaderSpec => []UploaderTypeOK
<1>1. UploaderSpec => []TypeOK
  BY UploaderRunsEventLoop, TypeCorrect, PTL
<1>2. UploaderSpec => []HandlersTypeOK
  BY UploaderRunsHandlers, HandlersTypeCorrect, PTL
<1> QED
  BY <1>1, <1>2, PTL DEF UploaderTypeOK

-----------------------------------------------------------------------------
(***************************************************************************)
(* Loop and handlers.  A path has the outcome that its handler returned;   *)
(* a handler that has begun is in a slot or has an outcome; and only a     *)
(* handler that has ended has published a NARInfo.                         *)
(***************************************************************************)
Linked ==
    \A p \in Path :
        /\ outcome[p] # "none" => pc[p] = outcome[p]
        /\ outcome[p] = "none" /\ p \notin running =>
              pc[p] = "select" /\ p \notin published
        /\ pc[p] = "pushed" => p \in published
        /\ p \in published => pc[p] \in {"pushed", "failed", "crashed"}

\* A handler's step is about its own path, and about a path that has no result.
LEMMA HandleTouches ==
    ASSUME HandlersTypeOK, NEW p \in Path, Handle(p) \/ Crash(p)
    PROVE  /\ \A q \in Path \ {p} : /\ pc'[q] = pc[q]
                                    /\ q \in published' <=> q \in published
           /\ pc'[p] = "pushed" => p \in published' \/ pc[p] = "pushed"
           /\ p \in published' => \/ p \in published
                                  \/ pc'[p] \in {"pushed", "failed", "crashed"}
           /\ p \in published => p \in published'
           /\ pc[p] \in {"pushed", "failed", "crashed"} => pc' = pc
BY DEF HandlersTypeOK, Outcome, Handle, Crash, Goto, Asking, servers,
       CacheAnswers, UpstreamAnswers, SelectCache, SelectUpstream, AwaitUpstream,
       AwaitCache, Initiate, Transferred, TransferFails, QueryInfos,
       UploadNarinfo

LEMMA LinkedStep ==
    UploaderTypeOK /\ Placement /\ Linked /\ [UploaderNext]_uploaderVars => Linked'
<1> SUFFICES ASSUME UploaderTypeOK, Placement, Linked, [UploaderNext]_uploaderVars
             PROVE  Linked'
  OBVIOUS
<1>1. TypeOK /\ HandlersTypeOK
  BY DEF UploaderTypeOK
<1>2. ASSUME NEW p \in Path, RunHandler(p) \/ HandlerPanics(p) \/ Abort(p)
      PROVE  Linked'
  <2>1. /\ p \in running /\ (Handle(p) \/ Crash(p))
        /\ UNCHANGED <<outcome, running>>
    BY <1>2 DEF RunHandler, HandlerPanics, Abort, Panic, vars
  <2>2. outcome[p] = "none"
    BY <2>1 DEF Placement, EachPathOnce
  <2> QED
    BY <1>1, <2>1, <2>2, HandleTouches DEF Linked
<1>3. ASSUME NEW p \in Path, OtherJob(p) PROVE Linked'
  BY <1>3 DEF OtherJob, PublishedElsewhere, Linked, vars
<1>4. ASSUME NEW p \in Path, Collect(p) PROVE Linked'
  <2>1. /\ outcome' = [outcome EXCEPT ![p] = pc[p]] /\ pc[p] \in Outcome
        /\ UNCHANGED <<pc, published>>
        /\ running \subseteq running' \cup {p}
    BY <1>4 DEF Collect, PathHandled, PathDrained, Refill, handlerVars
  <2> QED
    BY <1>1, <2>1 DEF Linked, TypeOK, Outcome
<1>5. CASE Loop
  <2>1. UNCHANGED <<outcome, pc, published>> /\ running \subseteq running'
    BY <1>5 DEF Loop, Arrive, ArrivePush, ArriveLast, LoopStep,
                Receive, ReceivePush, ReceiveStop, ReceiveFailure, VisitPath, Schedule,
                StartDrain, FinishDrain, CloseTask, ClosureComputed, ClosureFailed,
                handlerVars
  <2> QED
    BY <2>1 DEF Linked
<1>6. CASE UNCHANGED uploaderVars
  BY <1>6 DEF uploaderVars, vars, handlerVars, Linked
<1> QED
  BY <1>2, <1>3, <1>4, <1>5, <1>6 DEF UploaderNext

\* What EventLoopProofs says of the loop, and the link to the handlers.
Reached == /\ UploaderTypeOK /\ Placement /\ Linked
           /\ ReportAddsUp /\ RequestsAccounted /\ AfterLoop
           /\ PushesAheadOfStopAnswered

LEMMA ReachedCorrect == UploaderSpec => []Reached
<1>1. UploaderInit => Linked
  BY DEF UploaderInit, Init, HandlersInit, Linked
<1>2. UploaderSpec => [](/\ Placement /\ ReportAddsUp /\ RequestsAccounted
                         /\ AfterLoop /\ PushesAheadOfStopAnswered)
  BY UploaderRunsEventLoop, PlacementCorrect, ReportCorrect, RequestsCorrect,
     AfterLoopCorrect, PushesAheadCorrect, PTL
<1> QED
  BY <1>1, <1>2, UploaderTypeCorrect, LinkedStep, PTL DEF UploaderSpec, Reached

\* When run returns, every path that was seen has its handler's result.
LEMMA AllSeenReturned ==
    ASSUME Reached, phase = "done"
    PROVE  \A p \in seen : outcome[p] # "none" /\ pc[p] = outcome[p] /\ p \in Path
<1>1. running = {}
  BY DEF Reached, AfterLoop
<1>2. pending = <<>>
  BY <1>1, FS_EmptySet, MaxConcurrentAssumption DEF Reached, Placement, SlotsBeforeQueue
<1>3. seen \in SUBSET Path
  BY DEF Reached, UploaderTypeOK, TypeOK
<1> QED
  BY <1>1, <1>2, <1>3, RangeOfEmpty DEF Reached, Placement, EachPathOnce, Linked

-----------------------------------------------------------------------------
(***************************************************************************)
(* When `run` returns, the closure of every push that entered the channel  *)
(* ahead of the stop can be fetched, but for what the report names.        *)
(***************************************************************************)
THEOREM DrainedCorrect == UploaderSpec => []DrainedClosuresWhole
<1>1. UploaderSpec => []ReportedIsAvailable
  BY UploaderRunsHandlers, ReportedCorrect, PTL
<1>2. Reached /\ ReportedIsAvailable => DrainedClosuresWhole
  <2> SUFFICES ASSUME Reached, ReportedIsAvailable, phase = "done",
                      NEW r \in ahead \ Range(report.closureErrors),
                      NEW p \in Range(Closure[r]) \ Range(report.handlingErrors)
               PROVE  Fetchable(p)
    BY DEF DrainedClosuresWhole
  <2>1. r \in expanded /\ batch = <<>>
    BY DEF Reached, PushesAheadOfStopAnswered, AfterLoop
  <2>2. p \in seen
    BY <2>1, RangeOfEmpty DEF Reached, RequestsAccounted
  <2>3. p \in Path /\ outcome[p] # "none" /\ pc[p] = outcome[p]
    BY <2>2, AllSeenReturned
  <2>4. outcome[p] # "failed"
    BY <2>3 DEF Reached, ReportAddsUp, PathsThat
  <2>5. pc[p] \in {"pushed", "skipped"}
    BY <2>3, <2>4 DEF Reached, UploaderTypeOK, TypeOK, Outcome
  <2> QED
    BY <2>3, <2>5
    DEF ReportedIsAvailable, Fetchable
<1> QED
  BY <1>1, <1>2, ReachedCorrect, PTL

(***************************************************************************)
(* The report's number of pushed paths is the number of NARInfos that the  *)
(* daemon has published, but for uploads that failed after the server had  *)
(* acted on them.                                                          *)
(***************************************************************************)
THEOREM PushedCorrect == UploaderSpec => []PushedIsPublished
<1>1. Reached => PushedIsPublished
  <2> SUFFICES ASSUME Reached, phase = "done"
               PROVE  /\ PathsThat("pushed") \subseteq published
                      /\ published \subseteq PathsThat("pushed")
                                              \cup Range(report.handlingErrors)
                      /\ report.pushed <= Cardinality(published)
    BY DEF PushedIsPublished
  <2>1. running = {} /\ published \in SUBSET Path
    BY DEF Reached, AfterLoop, UploaderTypeOK, HandlersTypeOK
  <2>2. PathsThat("pushed") \subseteq published
    BY DEF PathsThat, Reached, Linked
  <2>3. published \subseteq PathsThat("pushed") \cup PathsThat("failed")
    BY <2>1 DEF PathsThat, Reached, Linked, UploaderTypeOK, TypeOK, Outcome
  <2>4. report.pushed <= Cardinality(published)
    <3>1. IsFiniteSet(published)
      BY <2>1, PathAssumption, FS_Subset
    <3> QED
      BY <2>2, <3>1, FS_Subset DEF Reached, ReportAddsUp
  <2> QED
    BY <2>2, <2>3, <2>4 DEF Reached, ReportAddsUp
<1> QED
  BY <1>1, ReachedCorrect, PTL

(***************************************************************************)
(* No more NARs are written at a time than there are slots.                *)
(***************************************************************************)
THEOREM UploadsBounded == UploaderSpec => []BoundedUploads
<1>1. Reached => BoundedUploads
  <2> SUFFICES ASSUME Reached PROVE Cardinality(UploadsInProgress) <= MaxConcurrent
    BY DEF BoundedUploads
  <2>1. UploadsInProgress \subseteq running
    BY DEF UploadsInProgress, Reached, Linked, UploaderTypeOK, TypeOK, Outcome
  <2>2. IsFiniteSet(running) /\ Cardinality(running) \in Nat
    BY LeftToHandleType DEF Reached, UploaderTypeOK
  <2>3. /\ Cardinality(UploadsInProgress) <= Cardinality(running)
        /\ Cardinality(UploadsInProgress) \in Nat
    BY <2>1, <2>2, FS_Subset, FS_CardinalityType
  <2> QED
    BY <2>2, <2>3, MaxConcurrentAssumption DEF Reached, Placement, BoundedConcurrency
<1> QED
  BY <1>1, ReachedCorrect, PTL
=============================================================================
