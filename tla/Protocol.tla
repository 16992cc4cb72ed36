------------------------------ MODULE Protocol ------------------------------
(***************************************************************************)
(* The wire protocol of the daemon's socket (src/protocol.rs): one Sender  *)
(* in a `push` or `stop` process, one Receiver in the daemon, and the      *)
(* stream socket between them.                                             *)
(*                                                                         *)
(* Framing is what this module is about, so the stream is made of bytes: a *)
(* store path is its text and a separator, a stop is the sentinel.  Writes *)
(* and reads move any number of bytes, so a message may arrive in pieces   *)
(* and several may arrive together.  The socket is external: a bounded FIFO*)
(* of bytes.  Daemon takes from here that a connection is a queue of       *)
(* messages.                                                               *)
(***************************************************************************)
EXTENDS Naturals, Sequences

CONSTANTS
    Path,        \* store paths
    Byte,        \* what texts are made of: anything but NUL
    Separator,   \* PATH_SEPARATOR
    Sentinel,    \* STOP_SENTINEL
    Text,        \* Text[p]: p as it is written
    Malformed,   \* the paths whose text the Receiver does not parse
    StopDaemon,  \* Message::StopDaemon
    Capacity,    \* how many bytes the socket holds
    BufSize,     \* the length of the Receiver's buffer
    MaxSent      \* bound: how many messages are sent

\* StoreDir::from_str refuses the sentinel in a store directory, and nothing
\* else: a text may contain the separator.
ASSUME TextAssumption ==
    /\ Sentinel \notin Byte /\ Separator # Sentinel
    /\ Text \in [Path -> Seq(Byte)]
    /\ \A p, q \in Path : Text[p] = Text[q] => p = q
    /\ \A p \in Path : Text[p] # <<>>
    /\ Malformed \subseteq Path
    /\ StopDaemon \notin Path
ASSUME SizeAssumption == Capacity \in Nat \ {0} /\ BufSize \in Nat \ {0}
ASSUME MaxSentAssumption == MaxSent \in Nat

VARIABLES
    sent,        \* the messages handed to the Sender, oldest first (history)
    buf,         \* Sender.buf
    numWritten,  \* Sender.num_written
    sender,      \* the process of the Sender: sending, closed, or broken off
    socket,      \* written and not yet read
    unhandled,   \* Receiver.buf[unhandled_range]
    received,    \* the items that poll_next has returned, oldest first
    receiver     \* whether poll_next goes on, is_done, or has returned None

vars == <<sent, buf, numWritten, sender, socket, unhandled, received, receiver>>

Message == Path \cup {StopDaemon}

\* Ok(message), and the two errors of ReceiveError.
Received(m) == [ok |-> TRUE, message |-> m]
InvalidStorePath == [ok |-> FALSE, error |-> "InvalidStorePath"]
IoError == [ok |-> FALSE, error |-> "Io"]

Init == /\ sent = <<>>
        /\ buf = <<>>
        /\ numWritten = 0
        /\ sender = "open"
        /\ socket = <<>>
        /\ unhandled = <<>>
        /\ received = <<>>
        /\ receiver = "open"

-----------------------------------------------------------------------------
(***************************************************************************)
(* The Sender.                                                             *)
(***************************************************************************)
Encoded(m) == IF m = StopDaemon THEN <<Sentinel>> ELSE Append(Text[m], Separator)

\* start_send: the message is only buffered.
StartSend(m) ==
    /\ sender = "open" /\ Len(sent) < MaxSent
    /\ sent' = Append(sent, m)
    /\ buf' = buf \o Encoded(m)
    /\ UNCHANGED <<numWritten, sender, socket, unhandled, received, receiver>>

\* drain_buf: a write of n bytes is counted, and the buffer is cleared with the
\* last one.
AfterWrite(n) ==
    IF numWritten + n < Len(buf)
    THEN numWritten' = numWritten + n /\ UNCHANGED buf
    ELSE buf' = <<>> /\ numWritten' = 0

\* poll_write takes as many of the remaining bytes as it likes, and at least one.
PollWrite ==
    /\ sender = "open" /\ receiver = "open"
    /\ \E n \in 1 .. Len(buf) - numWritten :
          /\ Len(socket) + n <= Capacity
          /\ socket' = socket \o SubSeq(buf, numWritten + 1, numWritten + n)
          /\ AfterWrite(n)
    /\ UNCHANGED <<sent, sender, unhandled, received, receiver>>

\* The write fails or writes nothing, or the process is killed: what is left in
\* the buffer is never written.
BreakOff ==
    /\ sender = "open"
    /\ sender' = "broken"
    /\ UNCHANGED <<sent, buf, numWritten, socket, unhandled, received, receiver>>

\* poll_close, once drain_buf is done.
PollClose ==
    /\ sender = "open" /\ buf = <<>>
    /\ sender' = "closed"
    /\ UNCHANGED <<sent, buf, numWritten, socket, unhandled, received, receiver>>

-----------------------------------------------------------------------------
(***************************************************************************)
(* The Receiver: poll_next.                                                *)
(***************************************************************************)
\* (mutant) The sentinel is looked for everywhere.
StopNextAnywhere == \E i \in DOMAIN unhandled : unhandled[i] = Sentinel

\* The sentinel counts only as the first byte of a message.
StopNext == unhandled # <<>> /\ Head(unhandled) = Sentinel

\* memchr(PATH_SEPARATOR, bytes).
IsSeparatorOffset(i) ==
    /\ unhandled[i] = Separator
    /\ \A j \in DOMAIN unhandled : j < i => unhandled[j] # Separator

NoSeparator == \A i \in DOMAIN unhandled : unhandled[i] # Separator

\* A stop is the last item of the stream.
ReceiveStop ==
    /\ receiver = "open" /\ StopNext
    /\ received' = Append(received, Received(StopDaemon))
    /\ receiver' = "done"
    /\ UNCHANGED <<sent, buf, numWritten, sender, socket, unhandled>>

\* from_utf8 and parse.  An error is the last item of the stream.  (A text that
\* is not UTF-8 is reported as Io; here it is one more InvalidStorePath.)
Parse(text) ==
    \/ \E p \in Path \ Malformed :
          /\ Text[p] = text
          /\ received' = Append(received, Received(p))
          /\ UNCHANGED receiver
    \/ /\ \A p \in Path \ Malformed : Text[p] # text
       /\ received' = Append(received, InvalidStorePath)
       /\ receiver' = "done"

\* A separator was read: the text before it is taken out of the buffer.
ReceivePath ==
    /\ receiver = "open" /\ ~StopNext
    /\ \E i \in DOMAIN unhandled :
          /\ IsSeparatorOffset(i)
          /\ unhandled' = SubSeq(unhandled, i + 1, Len(unhandled))
          /\ Parse(SubSeq(unhandled, 1, i - 1))
    /\ UNCHANGED <<sent, buf, numWritten, sender, socket>>

\* (mutant) One byte of the buffer is kept for a terminator.
SpaceLeftButOne == BufSize - 1 - Len(unhandled)

\* The part of the buffer behind what copy_within has moved to its front.
SpaceLeft == BufSize - Len(unhandled)

NeedsMore == receiver = "open" /\ ~StopNext /\ NoSeparator

\* poll_read returns at least one byte and at most what there is room for.
PollRead ==
    /\ NeedsMore
    /\ \E n \in 1 .. Len(socket) :
          /\ n <= SpaceLeft
          /\ unhandled' = unhandled \o SubSeq(socket, 1, n)
          /\ socket' = SubSeq(socket, n + 1, Len(socket))
    /\ UNCHANGED <<sent, buf, numWritten, sender, received, receiver>>

EndOfStream == sender # "open" /\ socket = <<>>

\* (mutant) The end of the stream is waited for with an empty buffer only.
PollReadZeroWhenEmpty ==
    /\ NeedsMore
    /\ EndOfStream /\ unhandled = <<>>
    /\ receiver' = "none"
    /\ UNCHANGED <<sent, buf, numWritten, sender, socket, unhandled, received>>

\* poll_read returns 0 at the end of the stream, and when there is no room left;
\* the Receiver does not tell these apart and returns None.
PollReadZero ==
    /\ NeedsMore
    /\ EndOfStream \/ SpaceLeft = 0
    /\ receiver' = "none"
    /\ UNCHANGED <<sent, buf, numWritten, sender, socket, unhandled, received>>

PollReadFails ==
    /\ NeedsMore
    /\ received' = Append(received, IoError)
    /\ receiver' = "done"
    /\ UNCHANGED <<sent, buf, numWritten, sender, socket, unhandled>>

-----------------------------------------------------------------------------
PollNext == ReceiveStop \/ ReceivePath \/ PollRead \/ PollReadZero

Next == \/ \E m \in Message : StartSend(m)
        \/ PollWrite \/ BreakOff \/ PollClose
        \/ PollNext \/ PollReadFails

Spec == Init /\ [][Next]_vars

\* Both tasks are polled: a Sender is flushed or closed, a Receiver is read to
\* its end.
FairSpec == Spec /\ WF_vars(PollWrite) /\ WF_vars(PollNext)

-----------------------------------------------------------------------------
(***************************************************************************)
(* The buffers keep to their sizes, and num_written stays inside the       *)
(* Sender's buffer, where the next write slices it.                        *)
(***************************************************************************)
TypeOK ==
    /\ sent \in Seq(Message)
    /\ buf \in Seq(Byte \cup {Separator, Sentinel})
    /\ numWritten \in Nat /\ (numWritten < Len(buf) \/ numWritten = 0)
    /\ sender \in {"open", "closed", "broken"}
    /\ socket \in Seq(Byte \cup {Separator, Sentinel}) /\ Len(socket) <= Capacity
    /\ unhandled \in Seq(Byte \cup {Separator, Sentinel}) /\ Len(unhandled) <= BufSize
    /\ receiver \in {"open", "done", "none"}

\* The text of m is framed as more than one message.
Splits(m) == m \in Path /\ \E i \in DOMAIN Text[m] : Text[m][i] = Separator

\* None of the first n messages does that.
Intact(n) == \A k \in 1 .. n : k <= Len(sent) => ~Splits(sent[k])

(***************************************************************************)
(* However writes and reads cut the stream, the Receiver returns the       *)
(* messages that were sent, in order, none twice and none made up of two,  *)
(* up to the first one whose text contains a separator; an error ends it,  *)
(* and is the error of the message that is due there.                      *)
(***************************************************************************)
Expected(m) == IF m \in Malformed THEN InvalidStorePath ELSE Received(m)

ReceivedIsSent ==
    /\ \A i \in DOMAIN received :
          received[i] # IoError /\ Intact(i) =>
              i <= Len(sent) /\ received[i] = Expected(sent[i])
    /\ \A i \in DOMAIN received :
          received[i] \notin {Received(p) : p \in Path} =>
              i = Len(received) /\ receiver = "done"

(***************************************************************************)
(* When the Receiver returns None after a Sender that closed, everything   *)
(* was received, unless the next path does not leave room for its separator*)
(* in the buffer: nothing else is ever dropped, whatever lies beside a read*)
(* boundary.  (As long as no text has contained a separator.)              *)
(***************************************************************************)
OnlyOversizedDropped ==
    receiver = "none" /\ sender = "closed" /\ Intact(Len(received)) =>
        \/ Len(received) = Len(sent)
        \/ LET next == sent[Len(received) + 1]
           IN  next \in Path /\ Len(Text[next]) >= BufSize

(***************************************************************************)
(* A Receiver whose Sender has closed or broken off ends, also in the      *)
(* middle of a message: the connection's task does not outlive its client. *)
(***************************************************************************)
ReceiverEnds == sender # "open" ~> receiver # "open"
=============================================================================
