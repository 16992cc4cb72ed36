--------------------------- MODULE ProtocolProofs ---------------------------
(***************************************************************************)
(* Proofs about Protocol, for any paths and texts, any sizes of the buffer *)
(* and of the socket, and any way in which writes and reads cut the stream:*)
(* the Receiver returns what was sent, and drops nothing but a path that   *)
(* its buffer cannot hold, up to the first text that contains a separator. *)
(*                                                                         *)
(* The argument is that the bytes between the two ends, wherever they are, *)
(* are always the encodings of the messages that were sent and not yet     *)
(* returned, one after the other.  A sequence of encodings has no          *)
(* definition here but the offsets at which its messages end: that there   *)
(* are such offsets is the invariant, and each step says what becomes of   *)
(* them.                                                                   *)
(***************************************************************************)
EXTENDS Protocol, Integers, SequenceTheorems, TLAPS

AnyByte == Byte \cup {Separator, Sentinel}

Item == {Received(m) : m \in Message} \cup {InvalidStorePath, IoError}

Typed == TypeOK /\ received \in Seq(Item)

-----------------------------------------------------------------------------
(***************************************************************************)
(* A sequence and its two parts.                                           *)
(***************************************************************************)
LEMMA Parts ==
    ASSUME NEW S, NEW s \in Seq(S), NEW n \in 0 .. Len(s)
    PROVE  /\ SubSeq(s, 1, n) \in Seq(S) /\ Len(SubSeq(s, 1, n)) = n
           /\ \A i \in 1 .. n : SubSeq(s, 1, n)[i] = s[i]
           /\ SubSeq(s, n + 1, Len(s)) \in Seq(S)
           /\ Len(SubSeq(s, n + 1, Len(s))) = Len(s) - n
           /\ \A i \in 1 .. Len(s) - n : SubSeq(s, n + 1, Len(s))[i] = s[n + i]
<1>1. Len(s) \in Nat /\ n \in Nat /\ \A i \in 1 .. Len(s) : s[i] \in S
  BY LenProperties, ElementOfSeq
<1>2. /\ SubSeq(s, 1, n) \in Seq(S) /\ Len(SubSeq(s, 1, n)) = n
      /\ \A i \in 1 .. n : SubSeq(s, 1, n)[i] = s[i]
  <2>1. \A i \in 1 .. n : s[i] \in S
    BY <1>1
  <2> QED
    BY <1>1, <2>1, SubSeqProperties
<1>3. /\ SubSeq(s, n + 1, Len(s)) \in Seq(S)
      /\ Len(SubSeq(s, n + 1, Len(s))) = Len(s) - n
      /\ \A i \in 1 .. Len(s) - n : SubSeq(s, n + 1, Len(s))[i] = s[n + i]
  <2>1. \A i \in n + 1 .. Len(s) : s[i] \in S
    BY <1>1
  <2>2. /\ SubSeq(s, n + 1, Len(s)) \in Seq(S)
        /\ Len(SubSeq(s, n + 1, Len(s))) = IF n + 1 <= Len(s) THEN Len(s) - (n + 1) + 1 ELSE 0
        /\ \A i \in 1 .. Len(s) - (n + 1) + 1 : SubSeq(s, n + 1, Len(s))[i] = s[n + 1 + i - 1]
    BY <1>1, <2>1, SubSeqProperties
  <2>3. Len(SubSeq(s, n + 1, Len(s))) = Len(s) - n
    BY <1>1, <2>2
  <2>4. ASSUME NEW i \in 1 .. Len(s) - n
        PROVE  SubSeq(s, n + 1, Len(s))[i] = s[n + i]
    <3>1. i \in 1 .. Len(s) - (n + 1) + 1 /\ n + 1 + i - 1 = n + i
      BY <1>1
    <3> QED
      BY <2>2, <3>1
  <2> QED
    BY <2>2, <2>3, <2>4
<1> QED
  BY <1>2, <1>3

LEMMA Associative ==
    \A s, t, u \in Seq(AnyByte) : (s \o t) \o u = s \o (t \o u)
BY ConcatAssociative

\* What of a concatenation is in its first part.
LEMMA FrontOfConcat ==
    ASSUME NEW s \in Seq(AnyByte), NEW t \in Seq(AnyByte)
    PROVE  /\ s \o t \in Seq(AnyByte) /\ Len(s \o t) = Len(s) + Len(t)
           /\ \A i \in 1 .. Len(s) : (s \o t)[i] = s[i]
<1>1. Len(s) \in Nat /\ Len(t) \in Nat
  BY LenProperties
<1> QED
  BY <1>1, ConcatProperties

LEMMA EncodedShape ==
    ASSUME NEW m \in Message
    PROVE  /\ Encoded(m) \in Seq(AnyByte) /\ Len(Encoded(m)) \in Nat \ {0}
           /\ m = StopDaemon => Encoded(m)[1] = Sentinel
           /\ m # StopDaemon =>
                 /\ m \in Path /\ Text[m] \in Seq(Byte) /\ Len(Text[m]) \in Nat \ {0}
                 /\ Len(Encoded(m)) = Len(Text[m]) + 1
                 /\ \A i \in 1 .. Len(Text[m]) :
                       Encoded(m)[i] = Text[m][i] /\ Encoded(m)[i] \in Byte
                 /\ Encoded(m)[Len(Text[m]) + 1] = Separator
<1>1. CASE m = StopDaemon
  BY <1>1 DEF Encoded, AnyByte
<1>2. CASE m # StopDaemon
  <2>1. m \in Path /\ Text[m] \in Seq(Byte) /\ Text[m] # <<>>
    BY <1>2, TextAssumption DEF Message
  <2>2. Text[m] \in Seq(AnyByte) /\ Separator \in AnyByte
    BY <2>1, SeqMonotonic DEF AnyByte
  <2>3. Len(Text[m]) \in Nat \ {0} /\ \A i \in 1 .. Len(Text[m]) : Text[m][i] \in Byte
    BY <2>1, EmptySeq, ElementOfSeq
  <2>4. /\ Encoded(m) \in Seq(AnyByte) /\ Len(Encoded(m)) = Len(Text[m]) + 1
        /\ \A i \in 1 .. Len(Text[m]) : Encoded(m)[i] = Text[m][i]
        /\ Encoded(m)[Len(Text[m]) + 1] = Separator
    BY <1>2, <2>2, AppendProperties DEF Encoded
  <2> QED
    BY <1>2, <2>1, <2>3, <2>4
<1> QED
  BY <1>1, <1>2

-----------------------------------------------------------------------------
(***************************************************************************)
(* Types.                                                                  *)
(***************************************************************************)
LEMMA Lengths ==
    ASSUME Typed
    PROVE  /\ Len(sent) \in Nat /\ Len(buf) \in Nat /\ Len(socket) \in Nat
           /\ Len(unhandled) \in Nat /\ Len(received) \in Nat
           /\ DOMAIN unhandled = 1 .. Len(unhandled)
           /\ DOMAIN received = 1 .. Len(received)
           /\ numWritten \in 0 .. Len(buf)
BY LenProperties DEF Typed, TypeOK

LEMMA TypeInit == Init => Typed
<1> SUFFICES ASSUME Init PROVE Typed
  OBVIOUS
<1>1. \A S : <<>> \in Seq(S) /\ Len(<<>>) = 0
  BY EmptySeq
<1> QED
  BY <1>1, SizeAssumption DEF Init, Typed, TypeOK

\* What a write does to the socket and to the buffer.
LEMMA Written ==
    ASSUME Typed, PollWrite
    PROVE  \E n \in 1 .. Len(buf) - numWritten :
              /\ Len(socket) + n <= Capacity
              /\ SubSeq(buf, numWritten + 1, numWritten + n) \in Seq(AnyByte)
              /\ Len(SubSeq(buf, numWritten + 1, numWritten + n)) = n
              /\ socket' = socket \o SubSeq(buf, numWritten + 1, numWritten + n)
              /\ \/ /\ numWritten + n < Len(buf)
                    /\ numWritten' = numWritten + n /\ buf' = buf
                 \/ /\ numWritten + n = Len(buf)
                    /\ numWritten' = 0 /\ buf' = <<>>
<1>1. PICK n \in 1 .. Len(buf) - numWritten :
          /\ Len(socket) + n <= Capacity
          /\ socket' = socket \o SubSeq(buf, numWritten + 1, numWritten + n)
          /\ AfterWrite(n)
  BY DEF PollWrite
<1>2. numWritten \in Nat /\ Len(buf) \in Nat /\ n \in Nat /\ numWritten + n <= Len(buf)
  BY Lengths
<1>3. \A i \in numWritten + 1 .. numWritten + n : buf[i] \in AnyByte
  <2>1. \A i \in 1 .. Len(buf) : buf[i] \in AnyByte
    BY ElementOfSeq DEF Typed, TypeOK, AnyByte
  <2> QED
    BY <1>2, <2>1
<1>4. /\ SubSeq(buf, numWritten + 1, numWritten + n) \in Seq(AnyByte)
      /\ Len(SubSeq(buf, numWritten + 1, numWritten + n)) =
            IF numWritten + 1 <= numWritten + n
            THEN numWritten + n - (numWritten + 1) + 1 ELSE 0
  BY <1>2, <1>3, SubSeqProperties
<1>5. Len(SubSeq(buf, numWritten + 1, numWritten + n)) = n
  BY <1>2, <1>4
<1>6. \/ numWritten + n < Len(buf) /\ numWritten' = numWritten + n /\ buf' = buf
      \/ numWritten + n = Len(buf) /\ numWritten' = 0 /\ buf' = <<>>
  BY <1>1, <1>2 DEF AfterWrite
<1> QED
  BY <1>1, <1>4, <1>5, <1>6

\* What a read does.
LEMMA TakenIn ==
    ASSUME Typed, PollRead
    PROVE  \E n \in 1 .. Len(socket) :
              /\ n <= BufSize - Len(unhandled)
              /\ unhandled' = unhandled \o SubSeq(socket, 1, n)
              /\ socket' = SubSeq(socket, n + 1, Len(socket))
              /\ SubSeq(socket, 1, n) \in Seq(AnyByte) /\ Len(SubSeq(socket, 1, n)) = n
              /\ socket' \in Seq(AnyByte) /\ Len(socket') = Len(socket) - n
<1>1. PICK n \in 1 .. Len(socket) :
          /\ n <= BufSize - Len(unhandled)
          /\ unhandled' = unhandled \o SubSeq(socket, 1, n)
          /\ socket' = SubSeq(socket, n + 1, Len(socket))
  BY DEF PollRead, SpaceLeft
<1>2. socket \in Seq(AnyByte) /\ n \in 0 .. Len(socket)
  BY Lengths DEF Typed, TypeOK, AnyByte
<1> QED
  BY <1>1, <1>2, Parts

LEMMA TypeStep == Typed /\ [Next]_vars => Typed'
<1> SUFFICES ASSUME Typed, [Next]_vars PROVE Typed'
  OBVIOUS
<1>0. /\ sent \in Seq(Message) /\ buf \in Seq(AnyByte)
      /\ socket \in Seq(AnyByte) /\ unhandled \in Seq(AnyByte)
      /\ received \in Seq(Item)
      /\ InvalidStorePath \in Item /\ IoError \in Item
      /\ \A m \in Message : Received(m) \in Item
      /\ Len(socket) <= Capacity /\ Len(unhandled) <= BufSize
      /\ Capacity \in Nat /\ BufSize \in Nat
  BY SizeAssumption DEF Typed, TypeOK, AnyByte, Item
<1>1. ASSUME NEW m \in Message, StartSend(m) PROVE Typed'
  <2>1. Append(sent, m) \in Seq(Message)
    BY <1>0, AppendProperties
  <2>2. buf \o Encoded(m) \in Seq(AnyByte) /\ Len(buf \o Encoded(m)) = Len(buf) + Len(Encoded(m))
    BY <1>0, EncodedShape, ConcatProperties
  <2>3. Len(buf) \in Nat /\ Len(Encoded(m)) \in Nat \ {0}
    BY Lengths, EncodedShape
  <2>4. numWritten < Len(buf \o Encoded(m)) \/ numWritten = 0
    BY <2>2, <2>3, Lengths
  <2> QED
    BY <1>1, <2>1, <2>2, <2>4 DEF StartSend, Typed, TypeOK, AnyByte
<1>2. CASE PollWrite
  <2>1. PICK n \in 1 .. Len(buf) - numWritten :
              /\ Len(socket) + n <= Capacity
              /\ SubSeq(buf, numWritten + 1, numWritten + n) \in Seq(AnyByte)
              /\ Len(SubSeq(buf, numWritten + 1, numWritten + n)) = n
              /\ socket' = socket \o SubSeq(buf, numWritten + 1, numWritten + n)
              /\ \/ /\ numWritten + n < Len(buf)
                    /\ numWritten' = numWritten + n /\ buf' = buf
                 \/ /\ numWritten + n = Len(buf)
                    /\ numWritten' = 0 /\ buf' = <<>>
    BY <1>2, Written
  <2>2. socket' \in Seq(AnyByte) /\ Len(socket') <= Capacity
    <3>1. /\ socket' \in Seq(AnyByte)
          /\ Len(socket') = Len(socket) + Len(SubSeq(buf, numWritten + 1, numWritten + n))
      BY <1>0, <2>1, ConcatProperties
    <3> QED
      BY <2>1, <3>1
  <2>3. /\ buf' \in Seq(AnyByte) /\ numWritten' \in Nat
        /\ numWritten' < Len(buf') \/ numWritten' = 0
    <3>1. CASE numWritten' = 0 /\ buf' = <<>>
      BY <3>1, EmptySeq
    <3>2. CASE numWritten + n < Len(buf) /\ numWritten' = numWritten + n /\ buf' = buf
      BY <1>0, <3>2, Lengths
    <3> QED
      BY <2>1, <3>1, <3>2
  <2> QED
    BY <1>2, <2>2, <2>3 DEF PollWrite, Typed, TypeOK, AnyByte
<1>3. CASE BreakOff \/ PollClose
  BY <1>3 DEF BreakOff, PollClose, Typed, TypeOK
<1>4. CASE ReceiveStop
  <2>1. received' \in Seq(Item)
    BY <1>0, <1>4, AppendProperties DEF ReceiveStop, Message
  <2> QED
    BY <1>4, <2>1 DEF ReceiveStop, Typed, TypeOK
<1>5. CASE ReceivePath
  <2>1. PICK i \in 1 .. Len(unhandled) :
          /\ unhandled' = SubSeq(unhandled, i + 1, Len(unhandled))
          /\ Parse(SubSeq(unhandled, 1, i - 1))
    BY <1>5, Lengths DEF ReceivePath
  <2>2. i \in 0 .. Len(unhandled) /\ Len(unhandled) \in Nat
    BY Lengths
  <2>3. unhandled' \in Seq(AnyByte) /\ Len(unhandled') = Len(unhandled) - i
    BY <1>0, <2>1, <2>2, Parts
  <2>4. Len(unhandled') <= BufSize
    BY <1>0, <2>2, <2>3
  <2>5. received' \in Seq(Item) /\ receiver' \in {"open", "done", "none"}
    <3>1. CASE received' = Append(received, InvalidStorePath) /\ receiver' = "done"
      BY <1>0, <3>1, AppendProperties
    <3>2. ASSUME NEW p \in Path, received' = Append(received, Received(p)),
                 receiver' = receiver
          PROVE  received' \in Seq(Item) /\ receiver' \in {"open", "done", "none"}
      BY <1>0, <3>2, AppendProperties DEF Message, Typed, TypeOK
    <3> QED
      BY <2>1, <3>1, <3>2 DEF Parse
  <2> QED
    BY <1>5, <2>3, <2>4, <2>5 DEF ReceivePath, Typed, TypeOK, AnyByte
<1>6. CASE PollRead
  <2>1. PICK n \in 1 .. Len(socket) :
              /\ n <= BufSize - Len(unhandled)
              /\ unhandled' = unhandled \o SubSeq(socket, 1, n)
              /\ SubSeq(socket, 1, n) \in Seq(AnyByte) /\ Len(SubSeq(socket, 1, n)) = n
              /\ socket' \in Seq(AnyByte) /\ Len(socket') = Len(socket) - n
    BY <1>6, TakenIn
  <2>2. /\ unhandled' \in Seq(AnyByte)
        /\ Len(unhandled') = Len(unhandled) + n
    BY <1>0, <2>1, ConcatProperties
  <2>3. Len(unhandled') <= BufSize /\ Len(socket') <= Capacity
    BY <1>0, <2>1, <2>2, Lengths
  <2> QED
    BY <1>6, <2>1, <2>2, <2>3 DEF PollRead, Typed, TypeOK, AnyByte
<1>7. CASE PollReadZero
  BY <1>7 DEF PollReadZero, Typed, TypeOK
<1>8. CASE PollReadFails
  <2>1. received' \in Seq(Item)
    BY <1>0, <1>8, AppendProperties DEF PollReadFails
  <2> QED
    BY <1>8, <2>1 DEF PollReadFails, Typed, TypeOK
<1>9. CASE UNCHANGED vars
  BY <1>9 DEF vars, Typed, TypeOK
<1> QED
  BY <1>1, <1>2, <1>3, <1>4, <1>5, <1>6, <1>7, <1>8, <1>9 DEF Next, PollNext

LEMMA TypedCorrect == Spec => []Typed
BY TypeInit, TypeStep, PTL DEF Spec

(***************************************************************************)
(* The buffers keep to their sizes and num_written to the Sender's buffer, *)
(* whatever part of a message a write or a read moves.                     *)
(***************************************************************************)
THEOREM TypeCorrect == Spec => []TypeOK
<1>1. Typed => TypeOK
  BY DEF Typed
<1> QED
  BY <1>1, TypedCorrect, PTL

-----------------------------------------------------------------------------
(***************************************************************************)
(* Framing.  Transit is what lies between the two ends: the Receiver's     *)
(* buffer, the socket, and what the Sender has still to write.  The message*)
(* number k ends at ends[k] of it.                                         *)
(***************************************************************************)
Rest == SubSeq(buf, numWritten + 1, Len(buf))
Transit == (unhandled \o socket) \o Rest

Frames(ends, messages, k, bytes) ==
    /\ ends[k - 1] \in Nat
    /\ ends[k] = ends[k - 1] + Len(Encoded(messages[k]))
    /\ \A i \in 1 .. Len(Encoded(messages[k])) :
          bytes[ends[k - 1] + i] = Encoded(messages[k])[i]

\* bytes are the encodings of the messages from number low + 1 on.
Framed(ends, low, messages, bytes) ==
    /\ low \in 0 .. Len(messages)
    /\ ends \in [low .. Len(messages) -> Nat]
    /\ ends[low] = 0 /\ ends[Len(messages)] = Len(bytes)
    /\ \A j, k \in low .. Len(messages) : j <= k => ends[j] <= ends[k]
    /\ \A k \in low + 1 .. Len(messages) : Frames(ends, messages, k, bytes)

\* A text that contains a separator is as good as any other as long as it is
\* under way; it is when it was returned in pieces that the offsets are lost.
Framing ==
    receiver # "done" /\ Intact(Len(received)) =>
        \E ends : Framed(ends, Len(received), sent, Transit)

LEMMA TransitType ==
    ASSUME Typed
    PROVE  /\ Rest \in Seq(AnyByte) /\ unhandled \in Seq(AnyByte)
           /\ socket \in Seq(AnyByte) /\ unhandled \o socket \in Seq(AnyByte)
           /\ Transit \in Seq(AnyByte)
           /\ Len(Transit) = Len(unhandled) + Len(socket) + Len(Rest)
           /\ Len(Rest) = Len(buf) - numWritten /\ Len(Rest) \in Nat
           /\ \A i \in 1 .. Len(unhandled) : Transit[i] = unhandled[i]
<1>1. /\ buf \in Seq(AnyByte) /\ numWritten \in 0 .. Len(buf)
      /\ unhandled \in Seq(AnyByte) /\ socket \in Seq(AnyByte)
      /\ Len(unhandled) \in Nat /\ Len(socket) \in Nat /\ Len(buf) \in Nat
  BY Lengths DEF Typed, TypeOK, AnyByte
<1>2. Rest \in Seq(AnyByte) /\ Len(Rest) = Len(buf) - numWritten
  BY <1>1, Parts DEF Rest
<1>3. /\ unhandled \o socket \in Seq(AnyByte)
      /\ Len(unhandled \o socket) = Len(unhandled) + Len(socket)
      /\ \A i \in 1 .. Len(unhandled) : (unhandled \o socket)[i] = unhandled[i]
  BY <1>1, FrontOfConcat
<1>4. /\ Transit \in Seq(AnyByte)
      /\ Len(Transit) = Len(unhandled \o socket) + Len(Rest)
      /\ \A i \in 1 .. Len(unhandled \o socket) : Transit[i] = (unhandled \o socket)[i]
  BY <1>2, <1>3, FrontOfConcat DEF Transit
<1>5. Len(Rest) \in Nat
  BY <1>1, <1>2
<1> QED
  BY <1>1, <1>2, <1>3, <1>4, <1>5

\* Writing and reading move bytes from one place to the next.
LEMMA WriteKeepsTransit == ASSUME Typed, PollWrite PROVE Transit' = Transit
<1>0. /\ buf \in Seq(AnyByte) /\ unhandled' = unhandled
      /\ numWritten \in Nat /\ Len(buf) \in Nat
  BY Lengths DEF Typed, TypeOK, AnyByte, PollWrite
<1>1. PICK n \in 1 .. Len(buf) - numWritten :
          /\ SubSeq(buf, numWritten + 1, numWritten + n) \in Seq(AnyByte)
          /\ socket' = socket \o SubSeq(buf, numWritten + 1, numWritten + n)
          /\ \/ /\ numWritten + n < Len(buf)
                /\ numWritten' = numWritten + n /\ buf' = buf
             \/ /\ numWritten + n = Len(buf)
                /\ numWritten' = 0 /\ buf' = <<>>
  BY Written
<1> DEFINE part == SubSeq(buf, numWritten + 1, numWritten + n)
<1>2. Rest = part \o Rest' /\ Rest' \in Seq(AnyByte)
  <2>1. /\ numWritten + 1 \in 1 .. Len(buf) + 1
        /\ numWritten + n \in (numWritten + 1) - 1 .. Len(buf)
        /\ Len(buf) \in numWritten + n .. Len(buf)
        /\ numWritten + n \in 0 .. Len(buf)
    BY <1>0
  <2>2. Rest = part \o SubSeq(buf, (numWritten + n) + 1, Len(buf))
    BY <1>0, <2>1, ConcatAdjacentSubSeq DEF Rest
  <2>3. SubSeq(buf, (numWritten + n) + 1, Len(buf)) \in Seq(AnyByte)
    BY <1>0, <2>1, Parts
  <2>4. Rest' = SubSeq(buf, (numWritten + n) + 1, Len(buf))
    <3>1. CASE numWritten' = numWritten + n /\ buf' = buf
      BY <3>1 DEF Rest
    <3>2. CASE numWritten + n = Len(buf) /\ numWritten' = 0 /\ buf' = <<>>
      <4>1. Rest' = SubSeq(<<>>, 1, 0)
        BY <3>2 DEF Rest
      <4>2. SubSeq(<<>>, 1, 0) = <<>>
        BY SubSeqEmpty
      <4>3. SubSeq(buf, (numWritten + n) + 1, Len(buf)) = <<>>
        BY <1>0, <3>2, SubSeqEmpty
      <4> QED
        BY <4>1, <4>2, <4>3
    <3> QED
      BY <1>1, <3>1, <3>2
  <2> QED
    BY <2>2, <2>3, <2>4
<1>3. /\ unhandled \in Seq(AnyByte) /\ socket \in Seq(AnyByte)
      /\ unhandled \o socket \in Seq(AnyByte)
  BY TransitType
<1>4. unhandled \o (socket \o part) = (unhandled \o socket) \o part
  BY <1>1, <1>3, Associative, Zenon
<1>5. ((unhandled \o socket) \o part) \o Rest' = (unhandled \o socket) \o (part \o Rest')
  BY <1>1, <1>2, <1>3, Associative, Zenon
<1> QED
  BY <1>0, <1>1, <1>2, <1>4, <1>5 DEF Transit

LEMMA ReadKeepsTransit == ASSUME Typed, PollRead PROVE Transit' = Transit
<1>1. PICK n \in 1 .. Len(socket) :
              /\ unhandled' = unhandled \o SubSeq(socket, 1, n)
              /\ socket' = SubSeq(socket, n + 1, Len(socket))
              /\ SubSeq(socket, 1, n) \in Seq(AnyByte)
              /\ socket' \in Seq(AnyByte)
  BY TakenIn
<1>2. Rest' = Rest
  BY DEF PollRead, Rest
<1>3. /\ unhandled \in Seq(AnyByte) /\ socket \in Seq(AnyByte)
  BY TransitType
<1>4. Len(socket) \in Nat
  BY Lengths
<1>5. SubSeq(socket, 1, n) \o SubSeq(socket, n + 1, Len(socket)) = socket
  <2>1. /\ 1 \in 1 .. Len(socket) + 1 /\ n \in 1 - 1 .. Len(socket)
        /\ Len(socket) \in n .. Len(socket)
    BY <1>4
  <2> QED
    BY <1>3, <2>1, ConcatAdjacentSubSeq, SubSeqFull
<1>6. (unhandled \o SubSeq(socket, 1, n)) \o socket'
         = unhandled \o (SubSeq(socket, 1, n) \o socket')
  BY <1>1, <1>3, Associative, Zenon
<1>7. unhandled' \o socket' = unhandled \o socket
  BY <1>1, <1>5, <1>6
<1> QED
  BY <1>2, <1>7 DEF Transit

\* Sending adds the encoding of the message at the end.
LEMMA SendAddsToTransit ==
    ASSUME Typed, NEW m \in Message, StartSend(m)
    PROVE  Transit' = Transit \o Encoded(m)
<1>0. /\ buf \in Seq(AnyByte) /\ Encoded(m) \in Seq(AnyByte)
      /\ buf' = buf \o Encoded(m) /\ UNCHANGED <<unhandled, socket, numWritten>>
      /\ numWritten \in 0 .. Len(buf)
      /\ Len(buf) \in Nat /\ Len(Encoded(m)) \in Nat
      /\ Rest \in Seq(AnyByte) /\ Len(Rest) = Len(buf) - numWritten
      /\ unhandled \o socket \in Seq(AnyByte)
  BY Lengths, EncodedShape, TransitType DEF StartSend, Typed, TypeOK, AnyByte
<1>1. /\ buf' \in Seq(AnyByte) /\ Len(buf') = Len(buf) + Len(Encoded(m))
      /\ \A i \in 1 .. Len(buf) + Len(Encoded(m)) :
            buf'[i] = IF i <= Len(buf) THEN buf[i] ELSE Encoded(m)[i - Len(buf)]
  BY <1>0, ConcatProperties
<1>2. numWritten \in 0 .. Len(buf')
  BY <1>0, <1>1
<1>3. /\ Rest' \in Seq(AnyByte) /\ Len(Rest') = Len(buf') - numWritten
      /\ \A i \in 1 .. Len(buf') - numWritten : Rest'[i] = buf'[numWritten + i]
  BY <1>0, <1>1, <1>2, Parts DEF Rest
<1>4. \A i \in 1 .. Len(buf) - numWritten : Rest[i] = buf[numWritten + i]
  BY <1>0, Parts DEF Rest
<1>5. /\ Rest \o Encoded(m) \in Seq(AnyByte)
      /\ Len(Rest \o Encoded(m)) = Len(Rest) + Len(Encoded(m))
      /\ \A i \in 1 .. Len(Rest) + Len(Encoded(m)) :
            (Rest \o Encoded(m))[i] = IF i <= Len(Rest) THEN Rest[i] ELSE Encoded(m)[i - Len(Rest)]
  BY <1>0, ConcatProperties
<1>6. Len(Rest') = Len(Rest \o Encoded(m))
  BY <1>0, <1>1, <1>3, <1>5
<1>7. ASSUME NEW i \in 1 .. Len(Rest') PROVE Rest'[i] = (Rest \o Encoded(m))[i]
  <2>0. i \in 1 .. Len(Rest) + Len(Encoded(m)) /\ i \in 1 .. Len(buf') - numWritten
    BY <1>3, <1>5, <1>6
  <2>1. Rest'[i] = buf'[numWritten + i]
    BY <1>3, <2>0
  <2>2. CASE i <= Len(Rest)
    <3>1. /\ i \in 1 .. Len(buf) - numWritten /\ numWritten + i <= Len(buf)
          /\ numWritten + i \in 1 .. Len(buf) + Len(Encoded(m))
      BY <1>0, <2>0, <2>2
    <3> QED
      BY <1>1, <1>4, <1>5, <2>0, <2>1, <2>2, <3>1
  <2>3. CASE ~ (i <= Len(Rest))
    <3>1. /\ ~ (numWritten + i <= Len(buf)) /\ (numWritten + i) - Len(buf) = i - Len(Rest)
          /\ numWritten + i \in 1 .. Len(buf) + Len(Encoded(m))
      BY <1>0, <2>0, <2>3
    <3>2. buf'[numWritten + i] = Encoded(m)[(numWritten + i) - Len(buf)]
      BY <1>1, <3>1
    <3>3. (Rest \o Encoded(m))[i] = Encoded(m)[i - Len(Rest)]
      BY <1>5, <2>0, <2>3
    <3> QED
      BY <2>1, <3>1, <3>2, <3>3
  <2> QED
    BY <2>2, <2>3
<1>8. Rest' = Rest \o Encoded(m)
  BY <1>3, <1>5, <1>6, <1>7, SeqEqual
<1>9. ((unhandled \o socket) \o Rest) \o Encoded(m) = (unhandled \o socket) \o (Rest \o Encoded(m))
  BY <1>0, Associative, Zenon
<1> QED
  BY <1>0, <1>8, <1>9 DEF Transit

\* Taking a message out of the Receiver's buffer takes it from the front.
LEMMA TakeFromTransit ==
    ASSUME Typed, NEW i \in 1 .. Len(unhandled),
           unhandled' = SubSeq(unhandled, i + 1, Len(unhandled)),
           UNCHANGED <<socket, buf, numWritten>>
    PROVE  /\ Len(Transit') = Len(Transit) - i
           /\ \A j \in 1 .. Len(Transit) - i : Transit'[j] = Transit[i + j]
<1>0. /\ unhandled \in Seq(AnyByte) /\ socket \in Seq(AnyByte) /\ Rest \in Seq(AnyByte)
      /\ Len(unhandled) \in Nat /\ Len(socket) \in Nat /\ Len(Rest) \in Nat
      /\ i \in 0 .. Len(unhandled) /\ Rest' = Rest
  BY Lengths, TransitType DEF Rest
<1> DEFINE after == socket \o Rest
<1>1. after \in Seq(AnyByte) /\ Len(after) \in Nat
  BY <1>0, ConcatProperties, LenProperties
<1>2. /\ unhandled' \in Seq(AnyByte) /\ Len(unhandled') = Len(unhandled) - i
      /\ \A j \in 1 .. Len(unhandled) - i : unhandled'[j] = unhandled[i + j]
  BY <1>0, Parts
<1>3. Transit = unhandled \o after /\ Transit' = unhandled' \o after
  <2>1. Transit' = (unhandled' \o socket) \o Rest
    BY <1>0 DEF Transit
  <2> QED
    BY <1>0, <1>2, <2>1, Associative, Zenon DEF Transit
<1> HIDE DEF after
<1>4. /\ Len(Transit) = Len(unhandled) + Len(after)
      /\ \A j \in 1 .. Len(unhandled) + Len(after) :
            Transit[j] = IF j <= Len(unhandled) THEN unhandled[j] ELSE after[j - Len(unhandled)]
  BY <1>0, <1>1, <1>3, ConcatProperties
<1>5. /\ Len(Transit') = Len(unhandled') + Len(after)
      /\ \A j \in 1 .. Len(unhandled') + Len(after) :
            Transit'[j] = IF j <= Len(unhandled') THEN unhandled'[j]
                          ELSE after[j - Len(unhandled')]
  BY <1>1, <1>2, <1>3, ConcatProperties
<1>6. Len(Transit') = Len(Transit) - i
  BY <1>0, <1>1, <1>2, <1>4, <1>5
<1>7. ASSUME NEW j \in 1 .. Len(Transit) - i PROVE Transit'[j] = Transit[i + j]
  <2>1. /\ j \in 1 .. Len(unhandled') + Len(after)
        /\ i + j \in 1 .. Len(unhandled) + Len(after)
    BY <1>0, <1>1, <1>2, <1>4, <1>5
  <2>2. CASE j <= Len(unhandled')
    <3>1. i + j <= Len(unhandled) /\ j \in 1 .. Len(unhandled) - i
      BY <1>0, <1>2, <2>1, <2>2
    <3>2. Transit'[j] = unhandled'[j] /\ Transit[i + j] = unhandled[i + j]
      BY <1>4, <1>5, <2>1, <2>2, <3>1
    <3> QED
      BY <1>2, <3>1, <3>2
  <2>3. CASE ~ (j <= Len(unhandled'))
    <3>1. ~ (i + j <= Len(unhandled)) /\ (i + j) - Len(unhandled) = j - Len(unhandled')
      <4>1. \A n \in Nat : \A k, l \in Int :
               /\ ~ (l <= n - k) => ~ (k + l <= n)
               /\ (k + l) - n = l - (n - k)
        OBVIOUS
      <4>2. Len(unhandled') = Len(unhandled) - i /\ Len(unhandled) \in Nat
        BY <1>0, <1>2
      <4>3. i \in Int /\ j \in Int
        BY <1>0
      <4> QED
        BY <2>3, <4>1, <4>2, <4>3
    <3>2. /\ Transit'[j] = after[j - Len(unhandled')]
          /\ Transit[i + j] = after[(i + j) - Len(unhandled)]
      BY <1>4, <1>5, <2>1, <2>3, <3>1
    <3> QED
      BY <3>1, <3>2
  <2> QED
    BY <2>2, <2>3
<1> QED
  BY <1>6, <1>7

-----------------------------------------------------------------------------
\* A message is added at the end.
LEMMA FramedAppend ==
    ASSUME NEW messages \in Seq(Message), NEW bytes \in Seq(AnyByte),
           NEW m \in Message, NEW low, NEW ends, Framed(ends, low, messages, bytes)
    PROVE  \E e : Framed(e, low, Append(messages, m), bytes \o Encoded(m))
<1> DEFINE n == Len(messages)
           ms == Append(messages, m)
           bs == bytes \o Encoded(m)
           e == [k \in low .. n + 1 |-> IF k = n + 1 THEN Len(bs) ELSE ends[k]]
<1>1. /\ n \in Nat /\ Len(ms) = n + 1 /\ ms[n + 1] = m
      /\ \A k \in 1 .. n : ms[k] = messages[k]
  BY AppendProperties, LenProperties
<1>2. /\ Encoded(m) \in Seq(AnyByte) /\ Len(Encoded(m)) \in Nat /\ Len(bytes) \in Nat
  BY EncodedShape, LenProperties
<1>3. /\ Len(bs) = Len(bytes) + Len(Encoded(m))
      /\ \A i \in 1 .. Len(bytes) + Len(Encoded(m)) :
            bs[i] = IF i <= Len(bytes) THEN bytes[i] ELSE Encoded(m)[i - Len(bytes)]
  BY <1>2, ConcatProperties
<1>4. /\ low \in 0 .. n /\ ends \in [low .. n -> Nat]
      /\ ends[low] = 0 /\ ends[n] = Len(bytes)
      /\ \A j, k \in low .. n : j <= k => ends[j] <= ends[k]
      /\ \A k \in low + 1 .. n : Frames(ends, messages, k, bytes)
  BY DEF Framed
<1>5. /\ e[n + 1] = Len(bytes) + Len(Encoded(m)) /\ \A k \in low .. n : e[k] = ends[k]
  BY <1>1, <1>3, <1>4
<1>6. e \in [low .. n + 1 -> Nat]
  BY <1>1, <1>2, <1>3, <1>4
<1> HIDE DEF n, ms, bs, e
<1>7. low \in 0 .. n + 1 /\ e[low] = 0 /\ e[n + 1] = Len(bs)
  BY <1>1, <1>3, <1>4, <1>5
<1>8. ASSUME NEW j \in low .. n + 1, NEW k \in low .. n + 1, j <= k PROVE e[j] <= e[k]
  <2>1. CASE k \in low .. n
    <3>1. j \in low .. n
      BY <1>1, <1>8, <2>1
    <3> QED
      BY <1>4, <1>5, <1>8, <2>1, <3>1
  <2>2. CASE k = n + 1 /\ j \in low .. n
    <3>1. ends[j] <= ends[n] /\ ends[j] \in Nat
      BY <1>1, <1>4, <2>2
    <3> QED
      BY <1>2, <1>4, <1>5, <2>2, <3>1
  <2>3. CASE k = n + 1 /\ j = n + 1
    BY <1>2, <1>5, <2>3
  <2> QED
    BY <1>1, <1>4, <2>1, <2>2, <2>3
<1>9. ASSUME NEW k \in low + 1 .. n + 1 PROVE Frames(e, ms, k, bs)
  <2>0. k - 1 \in low .. n /\ k - 1 \in Nat /\ k \in 1 .. n + 1
    BY <1>1, <1>4
  <2>1. CASE k \in low + 1 .. n
    <3>1. k \in low .. n /\ k \in 1 .. n
      BY <1>1, <1>4, <2>1
    <3>2. Frames(ends, messages, k, bytes)
      BY <1>4, <2>1
    <3>3. e[k] = ends[k] /\ e[k - 1] = ends[k - 1] /\ ms[k] = messages[k]
      BY <1>1, <1>5, <2>0, <3>1
    <3>4. ends[k] <= Len(bytes) /\ ends[k] \in Nat /\ ends[k - 1] \in Nat
      <4>1. n \in low .. n /\ k <= n
        BY <1>1, <1>4, <3>1
      <4> QED
        BY <1>4, <2>0, <3>1, <4>1
    <3>5. Len(Encoded(messages[k])) \in Nat
      <4>1. messages[k] \in Message
        BY <3>1, ElementOfSeq DEF n
      <4> QED
        BY <4>1, EncodedShape
    <3>6. ASSUME NEW i \in 1 .. Len(Encoded(messages[k]))
          PROVE  bs[ends[k - 1] + i] = Encoded(messages[k])[i]
      <4>1. /\ ends[k - 1] + i \in 1 .. Len(bytes) + Len(Encoded(m))
            /\ ends[k - 1] + i <= Len(bytes)
        BY <1>2, <3>2, <3>4, <3>5 DEF Frames
      <4>2. bs[ends[k - 1] + i] = bytes[ends[k - 1] + i]
        BY <1>3, <4>1
      <4> QED
        BY <3>2, <4>2 DEF Frames
    <3> QED
      BY <3>2, <3>3, <3>6 DEF Frames
  <2>2. CASE k = n + 1
    <3>1. /\ e[k - 1] = Len(bytes) /\ ms[k] = m
          /\ e[k] = Len(bytes) + Len(Encoded(m))
      <4>1. k - 1 = n
        BY <1>1, <2>2
      <4> QED
        BY <1>1, <1>4, <1>5, <2>0, <2>2, <4>1
    <3>2. ASSUME NEW i \in 1 .. Len(Encoded(m)) PROVE bs[Len(bytes) + i] = Encoded(m)[i]
      <4>1. /\ Len(bytes) + i \in 1 .. Len(bytes) + Len(Encoded(m))
            /\ ~ (Len(bytes) + i <= Len(bytes)) /\ (Len(bytes) + i) - Len(bytes) = i
        BY <1>2
      <4> QED
        BY <1>3, <4>1
    <3> QED
      BY <1>2, <3>1, <3>2 DEF Frames
  <2> QED
    BY <1>1, <1>4, <2>1, <2>2
<1>10. Framed(e, low, ms, bs)
  BY <1>1, <1>6, <1>7, <1>8, <1>9 DEF Framed
<1> QED
  BY <1>10 DEF ms, bs

\* The first message is taken out.
LEMMA FramedTail ==
    ASSUME NEW messages \in Seq(Message), NEW bytes, Len(bytes) \in Nat,
           NEW low, NEW ends, Framed(ends, low, messages, bytes), low < Len(messages),
           NEW left, Len(left) = Len(bytes) - ends[low + 1],
           \A j \in 1 .. Len(bytes) - ends[low + 1] : left[j] = bytes[ends[low + 1] + j]
    PROVE  \E e : Framed(e, low + 1, messages, left)
<1> DEFINE n == Len(messages)
           cut == ends[low + 1]
           e == [k \in low + 1 .. n |-> ends[k] - cut]
<1>1. /\ n \in Nat /\ low \in 0 .. n /\ low < n /\ ends \in [low .. n -> Nat]
      /\ ends[low] = 0 /\ ends[n] = Len(bytes)
      /\ \A j, k \in low .. n : j <= k => ends[j] <= ends[k]
      /\ \A k \in low + 1 .. n : Frames(ends, messages, k, bytes)
  BY LenProperties DEF Framed
<1>2. low \in Nat /\ low + 1 \in low .. n /\ \A k \in low + 1 .. n : k \in low .. n
  BY <1>1
<1>3. \A k \in low + 1 .. n : ends[k] \in Nat /\ cut <= ends[k]
  BY <1>1, <1>2
<1>4. cut \in Nat
  BY <1>1, <1>2
<1>5. \A k \in low + 1 .. n : e[k] = ends[k] - cut
  OBVIOUS
<1>6. e \in [low + 1 .. n -> Nat]
  BY <1>3, <1>4
<1>7. Len(left) = Len(bytes) - cut /\ \A j \in 1 .. Len(bytes) - cut : left[j] = bytes[cut + j]
  OBVIOUS
<1> HIDE DEF n, cut, e
<1>8. low + 1 \in 0 .. n /\ e[low + 1] = 0 /\ e[n] = Len(left)
  <2>1. ends[low + 1] = cut /\ low + 1 \in low + 1 .. n /\ n \in low + 1 .. n
    BY <1>1, <1>2 DEF cut
  <2>2. e[low + 1] = cut - cut /\ e[n] = Len(bytes) - cut
    BY <1>1, <1>5, <2>1
  <2>3. low + 1 \in 0 .. n
    BY <1>1, <1>2
  <2> QED
    BY <1>4, <1>7, <2>2, <2>3
<1>9. ASSUME NEW j \in low + 1 .. n, NEW k \in low + 1 .. n, j <= k PROVE e[j] <= e[k]
  <2>1. ends[j] <= ends[k] /\ ends[j] \in Nat /\ ends[k] \in Nat
    BY <1>1, <1>2, <1>9
  <2> QED
    BY <1>4, <1>5, <2>1
<1>10. ASSUME NEW k \in (low + 1) + 1 .. n PROVE Frames(e, messages, k, left)
  <2>1. k \in low + 1 .. n /\ k - 1 \in low + 1 .. n
    BY <1>1, <1>2
  <2>2. Frames(ends, messages, k, bytes)
    BY <1>1, <2>1
  <2>3. messages[k] \in Message
    BY <1>2, <2>1, ElementOfSeq DEF n
  <2>4. Len(Encoded(messages[k])) \in Nat
    BY <2>3, EncodedShape
  <2>5. /\ ends[k] \in Nat /\ ends[k - 1] \in Nat /\ cut <= ends[k - 1]
        /\ e[k] = ends[k] - cut /\ e[k - 1] = ends[k - 1] - cut
        /\ ends[k] <= Len(bytes)
    <3>1. n \in low .. n /\ k <= n /\ k \in low .. n
      BY <1>1, <1>2, <2>1
    <3> QED
      BY <1>1, <1>3, <1>5, <2>1, <3>1
  <2>6. ends[k] = ends[k - 1] + Len(Encoded(messages[k]))
    BY <2>2 DEF Frames
  <2>7. e[k - 1] \in Nat /\ e[k] = e[k - 1] + Len(Encoded(messages[k]))
    BY <1>4, <2>4, <2>5, <2>6
  <2>8. ASSUME NEW i \in 1 .. Len(Encoded(messages[k]))
        PROVE  left[e[k - 1] + i] = Encoded(messages[k])[i]
    <3>1. e[k - 1] + i \in 1 .. Len(bytes) - cut /\ cut + (e[k - 1] + i) = ends[k - 1] + i
      <4>1. /\ i \in 1 .. Len(Encoded(messages[k])) /\ Len(bytes) \in Nat
            /\ cut \in Nat /\ Len(Encoded(messages[k])) \in Nat
        BY <1>4, <2>4
      <4>2. \A x, c, b, l \in Nat : \A h \in 1 .. l :
               c <= x /\ x + l <= b =>
                  /\ (x - c) + h \in 1 .. b - c
                  /\ c + ((x - c) + h) = x + h
        OBVIOUS
      <4>3. /\ ends[k - 1] \in Nat /\ cut <= ends[k - 1]
            /\ ends[k - 1] + Len(Encoded(messages[k])) <= Len(bytes)
        BY <2>5, <2>6
      <4>4. /\ (ends[k - 1] - cut) + i \in 1 .. Len(bytes) - cut
            /\ cut + ((ends[k - 1] - cut) + i) = ends[k - 1] + i
        BY <4>1, <4>2, <4>3
      <4> QED
        BY <2>5, <4>4
    <3>2. left[e[k - 1] + i] = bytes[ends[k - 1] + i]
      BY <1>7, <3>1
    <3> QED
      BY <2>2, <3>2 DEF Frames
  <2> QED
    BY <2>7, <2>8 DEF Frames
<1>11. Framed(e, low + 1, messages, left)
  BY <1>6, <1>8, <1>9, <1>10 DEF Framed, n
<1> QED
  BY <1>11

-----------------------------------------------------------------------------
(***************************************************************************)
(* What the Receiver takes for a message is the message that is due.       *)
(***************************************************************************)
Due == sent[Len(received) + 1]

\* The messages up to the one that is due, and up to those before it.
LEMMA IntactDue ==
    ASSUME Typed, Intact(Len(received) + 1)
    PROVE  /\ Intact(Len(received))
           /\ Len(received) < Len(sent) => ~Splits(Due)
<1>1. Len(received) \in Nat /\ Len(sent) \in Nat
  BY Lengths
<1> QED
  BY <1>1 DEF Intact, Due

\* Sending does not make what was sent before any cleaner.
LEMMA IntactBefore ==
    ASSUME Typed, NEW m \in Message, StartSend(m), NEW n \in Nat, Intact(n)'
    PROVE  Intact(n)
<1>1. /\ Len(sent') = Len(sent) + 1 /\ Len(sent) \in Nat
      /\ \A k \in 1 .. Len(sent) : sent'[k] = sent[k]
  BY AppendProperties, Lengths DEF StartSend, Typed, TypeOK
<1> QED
  BY <1>1 DEF Intact, Splits

\* The message that is due lies at the front.
LEMMA DueInFront ==
    ASSUME Typed, NEW ends, Framed(ends, Len(received), sent, Transit),
           Len(received) < Len(sent)
    PROVE  /\ Due \in Message
           /\ ends[Len(received) + 1] = Len(Encoded(Due))
           /\ Len(Encoded(Due)) <= Len(Transit)
           /\ \A i \in 1 .. Len(Encoded(Due)) : Transit[i] = Encoded(Due)[i]
<1> DEFINE low == Len(received)
<1>1. low \in Nat /\ Len(sent) \in Nat /\ low + 1 \in low + 1 .. Len(sent)
  BY Lengths
<1>2. /\ Frames(ends, sent, low + 1, Transit) /\ ends[low] = 0
      /\ ends[low + 1] <= ends[Len(sent)] /\ ends[Len(sent)] = Len(Transit)
  BY <1>1 DEF Framed
<1>3. (low + 1) - 1 = low
  BY <1>1
<1>4. Due \in Message
  BY <1>1, ElementOfSeq DEF Due, Typed, TypeOK
<1>5. Len(Encoded(Due)) \in Nat
  BY <1>4, EncodedShape
<1>6. /\ ends[low + 1] = 0 + Len(Encoded(Due))
      /\ \A i \in 1 .. Len(Encoded(Due)) : Transit[0 + i] = Encoded(Due)[i]
  BY <1>2, <1>3 DEF Frames, Due
<1>7. \A i \in 1 .. Len(Encoded(Due)) : 0 + i = i
  BY <1>5
<1> QED
  BY <1>2, <1>4, <1>5, <1>6, <1>7

\* As long as there are bytes, a message is due.
LEMMA BytesMeanDue ==
    ASSUME Typed, NEW ends, Framed(ends, Len(received), sent, Transit),
           Len(Transit) > 0
    PROVE  Len(received) < Len(sent)
BY Lengths DEF Framed

\* The first byte tells a stop from a path.
LEMMA FirstByte ==
    ASSUME Typed, NEW ends, Framed(ends, Len(received), sent, Transit),
           Len(received) < Len(sent), unhandled # <<>>
    PROVE  StopNext <=> Due = StopDaemon
<1>1. /\ Due \in Message /\ Len(Encoded(Due)) \in Nat \ {0}
      /\ \A i \in 1 .. Len(Encoded(Due)) : Transit[i] = Encoded(Due)[i]
  BY DueInFront, EncodedShape
<1>2. 1 \in 1 .. Len(Encoded(Due)) /\ 1 \in 1 .. Len(unhandled)
  BY <1>1, EmptySeq DEF Typed, TypeOK
<1>3. Head(unhandled) = Encoded(Due)[1]
  BY <1>1, <1>2, TransitType
<1>4. CASE Due = StopDaemon
  BY <1>1, <1>3, <1>4, EncodedShape DEF StopNext
<1>5. CASE Due # StopDaemon
  <2>1. 1 \in 1 .. Len(Text[Due])
    BY <1>1, <1>5, EncodedShape
  <2>2. Encoded(Due)[1] \in Byte
    BY <1>1, <1>5, <2>1, EncodedShape
  <2> QED
    BY <1>3, <1>5, <2>2, TextAssumption DEF StopNext
<1> QED
  BY <1>4, <1>5

\* The first separator ends the path that is due.
LEMMA SeparatorEndsDue ==
    ASSUME Typed, NEW ends, Framed(ends, Len(received), sent, Transit), ~StopNext,
           Intact(Len(received) + 1), NEW i \in 1 .. Len(unhandled), IsSeparatorOffset(i)
    PROVE  /\ Len(received) < Len(sent) /\ Due \in Path
           /\ ends[Len(received) + 1] = i /\ SubSeq(unhandled, 1, i - 1) = Text[Due]
<1>0. /\ Len(unhandled) \in Nat /\ DOMAIN unhandled = 1 .. Len(unhandled)
      /\ unhandled \in Seq(AnyByte)
      /\ \A j \in 1 .. Len(unhandled) : Transit[j] = unhandled[j]
  BY Lengths, TransitType
<1>1. Len(Transit) > 0
  <2>1. Len(socket) \in Nat /\ Len(Rest) \in Nat
    BY Lengths, TransitType
  <2>2. Len(Transit) = Len(unhandled) + Len(socket) + Len(Rest)
    BY TransitType
  <2> QED
    BY <1>0, <2>1, <2>2
<1>2. Len(received) < Len(sent)
  BY <1>1, BytesMeanDue
<1>3. unhandled # <<>>
  BY <1>0, EmptySeq
<1>4. Due \in Message /\ Due # StopDaemon
  BY <1>2, <1>3, FirstByte, DueInFront
<1> DEFINE text == Text[Due]
<1>5. /\ Due \in Path /\ text \in Seq(Byte) /\ Len(text) \in Nat \ {0}
      /\ Len(Encoded(Due)) = Len(text) + 1
      /\ \A j \in 1 .. Len(text) :
            Encoded(Due)[j] = text[j] /\ Encoded(Due)[j] \in Byte
      /\ Encoded(Due)[Len(text) + 1] = Separator
  BY <1>4, EncodedShape
<1>6. /\ ends[Len(received) + 1] = Len(text) + 1
      /\ \A j \in 1 .. Len(text) + 1 : Transit[j] = Encoded(Due)[j]
  BY <1>2, <1>5, DueInFront
<1>7. /\ \A j \in 1 .. Len(text) : Transit[j] = text[j] /\ Transit[j] # Separator
      /\ Transit[Len(text) + 1] = Separator
  <2>1. /\ Len(text) + 1 \in 1 .. Len(text) + 1
        /\ \A j \in 1 .. Len(text) : j \in 1 .. Len(text) + 1
    BY <1>5
  <2>2. \A j \in 1 .. Len(text) : text[j] # Separator
    BY <1>2, <1>5, IntactDue, LenProperties DEF Splits
  <2> QED
    BY <1>5, <1>6, <2>1, <2>2
<1> HIDE DEF text
<1>8. i = Len(text) + 1
  <2>1. Transit[i] = Separator /\ \A j \in 1 .. Len(unhandled) : j < i => Transit[j] # Separator
    BY <1>0 DEF IsSeparatorOffset
  <2>2. ~ (i <= Len(text))
    BY <1>0, <1>5, <1>7, <2>1
  <2>3. ~ (i > Len(text) + 1)
    <3> SUFFICES ASSUME i > Len(text) + 1 PROVE FALSE
      OBVIOUS
    <3>1. Len(text) + 1 \in 1 .. Len(unhandled) /\ Len(text) + 1 < i
      BY <1>0, <1>5
    <3> QED
      BY <1>7, <2>1, <3>1
  <2> QED
    BY <1>0, <1>5, <2>2, <2>3
<1>9. SubSeq(unhandled, 1, i - 1) = text
  <2>1. i - 1 = Len(text) /\ i - 1 \in 0 .. Len(unhandled)
    BY <1>0, <1>5, <1>8
  <2>2. /\ SubSeq(unhandled, 1, i - 1) \in Seq(AnyByte)
        /\ Len(SubSeq(unhandled, 1, i - 1)) = Len(text)
        /\ \A j \in 1 .. Len(text) : SubSeq(unhandled, 1, i - 1)[j] = unhandled[j]
    BY <1>0, <2>1, Parts
  <2>3. \A j \in 1 .. Len(text) : unhandled[j] = text[j]
    <3>1. \A j \in 1 .. Len(text) : j \in 1 .. Len(unhandled)
      BY <1>0, <1>5, <2>1
    <3> QED
      BY <1>0, <1>7, <3>1
  <2>4. text \in Seq(AnyByte)
    BY <1>5, SeqMonotonic DEF AnyByte
  <2> QED
    BY <2>2, <2>3, <2>4, SeqEqual
<1> QED
  BY <1>2, <1>5, <1>6, <1>8, <1>9 DEF text

\* What ReceivePath returns is what was expected.
LEMMA ParsedIsDue ==
    ASSUME Typed, NEW ends, Framed(ends, Len(received), sent, Transit), ReceivePath,
           Intact(Len(received) + 1)
    PROVE  \E i \in 1 .. Len(unhandled) :
              /\ Len(received) < Len(sent) /\ ends[Len(received) + 1] = i
              /\ unhandled' = SubSeq(unhandled, i + 1, Len(unhandled))
              /\ Due \in Path
              /\ \/ /\ Due \notin Malformed /\ receiver' = receiver
                    /\ received' = Append(received, Received(Due))
                 \/ /\ Due \in Malformed /\ receiver' = "done"
                    /\ received' = Append(received, InvalidStorePath)
<1>1. PICK i \in 1 .. Len(unhandled) :
          /\ IsSeparatorOffset(i)
          /\ unhandled' = SubSeq(unhandled, i + 1, Len(unhandled))
          /\ Parse(SubSeq(unhandled, 1, i - 1))
  BY Lengths DEF ReceivePath
<1>2. /\ Len(received) < Len(sent) /\ Due \in Path
      /\ ends[Len(received) + 1] = i /\ SubSeq(unhandled, 1, i - 1) = Text[Due]
  BY <1>1, SeparatorEndsDue DEF ReceivePath
<1>3. Parse(Text[Due])
  BY <1>1, <1>2
<1>4. CASE Due \in Malformed
  <2>1. \A p \in Path \ Malformed : Text[p] # Text[Due]
    BY <1>2, <1>4, TextAssumption
  <2> QED
    BY <1>1, <1>2, <1>3, <1>4, <2>1 DEF Parse
<1>5. CASE Due \notin Malformed
  <2>1. \A p \in Path \ Malformed : Text[p] = Text[Due] => p = Due
    BY <1>2, TextAssumption
  <2> QED
    BY <1>1, <1>2, <1>3, <1>5, <2>1 DEF Parse
<1> QED
  BY <1>4, <1>5

LEMMA FramingStep == Typed /\ Framing /\ [Next]_vars => Framing'
<1> SUFFICES ASSUME Typed, Framing, [Next]_vars, receiver' # "done",
                    Intact(Len(received))'
             PROVE  \E e : Framed(e, Len(received'), sent', Transit')
  BY DEF Framing
<1>1. CASE UNCHANGED <<sent, received, receiver>> /\ Transit' = Transit
  BY <1>1 DEF Framing, Intact
<1>2. ASSUME NEW m \in Message, StartSend(m)
      PROVE  \E e : Framed(e, Len(received'), sent', Transit')
  <2>0. Intact(Len(received))
    <3>1. received' = received /\ Len(received) \in Nat
      BY <1>2, Lengths DEF StartSend
    <3>2. Intact(Len(received))'  => \A n \in Nat : n = Len(received) => Intact(n)'
      BY <3>1 DEF Intact
    <3> QED
      BY <1>2, <3>1, <3>2, IntactBefore
  <2>1. PICK ends : Framed(ends, Len(received), sent, Transit)
    BY <1>2, <2>0 DEF Framing, StartSend
  <2>2. sent \in Seq(Message) /\ Transit \in Seq(AnyByte)
    BY TransitType DEF Typed, TypeOK
  <2>3. \E e : Framed(e, Len(received), Append(sent, m), Transit \o Encoded(m))
    BY <2>1, <2>2, FramedAppend
  <2> QED
    BY <1>2, <2>3, SendAddsToTransit DEF StartSend
<1>3. CASE PollWrite
  BY <1>1, <1>3, WriteKeepsTransit DEF PollWrite
<1>4. CASE PollRead
  BY <1>1, <1>4, ReadKeepsTransit DEF PollRead
<1>5. CASE BreakOff \/ PollClose \/ UNCHANGED vars
  BY <1>1, <1>5 DEF BreakOff, PollClose, vars, Transit, Rest
<1>6. CASE PollReadZero
  BY <1>6 DEF PollReadZero, NeedsMore, Framing, Intact, Transit, Rest
<1>7. CASE ReceiveStop \/ PollReadFails
  BY <1>7 DEF ReceiveStop, PollReadFails
<1>8. CASE ReceivePath
  <2>0. Intact(Len(received) + 1)
    <3>1. PICK p \in Path : received' = Append(received, Received(p))
      BY <1>8 DEF ReceivePath, Parse
    <3>2. Len(received') = Len(received) + 1 /\ sent' = sent
      BY <1>8, <3>1, AppendProperties DEF Typed, Item, Message, ReceivePath
    <3> QED
      BY <3>2 DEF Intact
  <2>1. PICK ends : Framed(ends, Len(received), sent, Transit)
    BY <1>8, <2>0, IntactDue DEF Framing, ReceivePath
  <2>2. PICK i \in 1 .. Len(unhandled) :
              /\ Len(received) < Len(sent) /\ ends[Len(received) + 1] = i
              /\ unhandled' = SubSeq(unhandled, i + 1, Len(unhandled))
              /\ Due \in Path
              /\ \/ received' = Append(received, Received(Due))
                 \/ receiver' = "done"
    BY <1>8, <2>0, <2>1, ParsedIsDue
  <2>3. /\ Len(Transit') = Len(Transit) - i
        /\ \A j \in 1 .. Len(Transit) - i : Transit'[j] = Transit[i + j]
    BY <1>8, <2>2, TakeFromTransit DEF ReceivePath
  <2>4. sent \in Seq(Message) /\ Len(Transit) \in Nat /\ sent' = sent
    BY <1>8, TransitType, LenProperties DEF Typed, TypeOK, ReceivePath
  <2>5. \E e : Framed(e, Len(received) + 1, sent, Transit')
    BY <2>1, <2>2, <2>3, <2>4, FramedTail
  <2>6. Received(Due) \in Item /\ received \in Seq(Item)
    BY <2>2 DEF Item, Message, Typed
  <2>7. Len(received') = Len(received) + 1
    BY <2>2, <2>6, AppendProperties
  <2> QED
    BY <2>4, <2>5, <2>7
<1> QED
  BY <1>2, <1>3, <1>4, <1>5, <1>6, <1>7, <1>8 DEF Next, PollNext

LEMMA FramingInit == Init => Framing
<1> SUFFICES ASSUME Init PROVE \E e : Framed(e, Len(received), sent, Transit)
  BY DEF Framing
<1>1. Typed
  BY TypeInit
<1>2. Len(received) = 0 /\ Len(sent) = 0 /\ Len(unhandled) = 0 /\ Len(socket) = 0
      /\ Len(buf) = 0 /\ numWritten = 0
  BY EmptySeq DEF Init
<1>3. Len(Transit) = 0
  <2>1. Len(Rest) = 0
    BY <1>1, <1>2, TransitType
  <2>2. Len(Transit) = Len(unhandled) + Len(socket) + Len(Rest)
    BY <1>1, TransitType
  <2> QED
    BY <1>2, <2>1, <2>2
<1> DEFINE e == [k \in 0 .. 0 |-> 0]
<1>4. /\ e \in [0 .. 0 -> Nat] /\ e[0] = 0
      /\ \A j, k \in 0 .. 0 : j <= k => e[j] <= e[k]
      /\ 0 \in 0 .. 0 /\ 0 + 1 .. 0 = {}
  OBVIOUS
<1> HIDE DEF e
<1>5. Framed(e, 0, sent, Transit)
  <2>1. \A k \in 0 + 1 .. Len(sent) : Frames(e, sent, k, Transit)
    BY <1>2
  <2> QED
    BY <1>2, <1>3, <1>4, <2>1 DEF Framed
<1> QED
  BY <1>2, <1>5

LEMMA FramingCorrect == Spec => [](Typed /\ Framing)
BY TypedCorrect, FramingInit, FramingStep, PTL DEF Spec

-----------------------------------------------------------------------------
(***************************************************************************)
(* What was returned.  Until an item ends the stream, all of them are      *)
(* paths.                                                                  *)
(***************************************************************************)
IsPath(item) == item \in {Received(p) : p \in Path}

Answers ==
    /\ ReceivedIsSent
    /\ receiver # "done" => \A i \in 1 .. Len(received) : IsPath(received[i])

\* An item is returned: the one that is due, or the error of a read.
LEMMA AnswersAppend ==
    ASSUME Typed, Answers, receiver = "open", sent' = sent,
           NEW item \in Item, received' = Append(received, item),
           item # IoError /\ Intact(Len(received) + 1) =>
               Len(received) < Len(sent) /\ item = Expected(Due),
           IsPath(item) \/ receiver' = "done"
    PROVE  Answers'
<1> DEFINE n == Len(received)
<1>1. /\ n \in Nat /\ Len(sent) \in Nat /\ DOMAIN received = 1 .. n
      /\ Len(received') = n + 1 /\ received'[n + 1] = item
      /\ \A i \in 1 .. n : received'[i] = received[i]
  BY Lengths, AppendProperties DEF Typed
<1>2. DOMAIN received' = 1 .. n + 1
  BY <1>1, AppendProperties, LenProperties DEF Typed
<1>3. \A i \in 1 .. n + 1 : i \in 1 .. n \/ i = n + 1
  BY <1>1
<1>4. \A i \in 1 .. n : IsPath(received[i])
  BY DEF Answers
<1>5. ASSUME NEW i \in 1 .. n + 1, received'[i] # IoError, Intact(i)
      PROVE  i <= Len(sent) /\ received'[i] = Expected(sent[i])
  <2>1. CASE i \in 1 .. n
    BY <1>1, <1>5, <2>1 DEF Answers, ReceivedIsSent
  <2>2. CASE i = n + 1
    BY <1>1, <1>5, <2>2 DEF Due
  <2> QED
    BY <1>3, <2>1, <2>2
<1>6. ASSUME NEW i \in 1 .. n + 1, ~IsPath(received'[i])
      PROVE  i = n + 1 /\ receiver' = "done"
  BY <1>1, <1>3, <1>4, <1>6
<1>7. ReceivedIsSent'
  BY <1>1, <1>2, <1>5, <1>6 DEF ReceivedIsSent, Intact, IsPath, Expected
<1>8. ASSUME receiver' # "done", NEW i \in 1 .. n + 1 PROVE IsPath(received'[i])
  BY <1>6, <1>8
<1> QED
  BY <1>1, <1>7, <1>8 DEF Answers, IsPath

LEMMA AnswersStep == Typed /\ Framing /\ Answers /\ [Next]_vars => Answers'
<1> SUFFICES ASSUME Typed, Framing, Answers, [Next]_vars PROVE Answers'
  OBVIOUS
<1>1. CASE UNCHANGED <<sent, received>>
           /\ (receiver' = "done" => receiver = "done")
           /\ (receiver' # "done" => receiver # "done")
  BY <1>1, Lengths DEF Answers, ReceivedIsSent, Intact, IsPath, Expected
<1>2. ASSUME NEW m \in Message, StartSend(m) PROVE Answers'
  <2>1. /\ Len(sent') = Len(sent) + 1 /\ Len(sent) \in Nat
        /\ \A i \in 1 .. Len(sent) : sent'[i] = sent[i]
        /\ UNCHANGED <<received, receiver>> /\ DOMAIN received = 1 .. Len(received)
        /\ Len(received) \in Nat
    BY <1>2, AppendProperties, Lengths DEF StartSend, Typed, TypeOK
  <2>2. ASSUME NEW i \in 1 .. Len(received), received[i] # IoError, Intact(i)'
        PROVE  i <= Len(sent') /\ received[i] = Expected(sent'[i])
    <3>1. i <= Len(sent) /\ received[i] = Expected(sent[i])
      BY <1>2, <2>1, <2>2, IntactBefore DEF Answers, ReceivedIsSent
    <3> QED
      BY <2>1, <3>1
  <2> QED
    BY <2>1, <2>2 DEF Answers, ReceivedIsSent, IsPath, Expected
<1>3. CASE PollWrite \/ PollRead \/ BreakOff \/ PollClose \/ UNCHANGED vars
  BY <1>1, <1>3 DEF PollWrite, PollRead, BreakOff, PollClose, vars
<1>4. CASE PollReadZero
  BY <1>1, <1>4 DEF PollReadZero, NeedsMore
<1>5. CASE PollReadFails
  <2>1. IoError \in Item
    BY DEF Item
  <2> QED
    BY <1>5, <2>1, AnswersAppend DEF PollReadFails, NeedsMore
<1>6. CASE ReceiveStop
  <2>1. Received(StopDaemon) \in Item
    BY DEF Item, Message
  <2>2. ASSUME Intact(Len(received) + 1)
        PROVE  Len(received) < Len(sent) /\ Received(StopDaemon) = Expected(Due)
    <3>1. PICK ends : Framed(ends, Len(received), sent, Transit)
      BY <1>6, <2>2, IntactDue DEF Framing, ReceiveStop
    <3>2. unhandled # <<>> /\ Len(unhandled) > 0
      BY <1>6, EmptySeq DEF ReceiveStop, StopNext, Typed, TypeOK
    <3>3. Len(Transit) > 0
      <4>1. Len(socket) \in Nat /\ Len(Rest) \in Nat /\ Len(unhandled) \in Nat
        BY Lengths, TransitType
      <4>2. Len(Transit) = Len(unhandled) + Len(socket) + Len(Rest)
        BY TransitType
      <4> QED
        BY <3>2, <4>1, <4>2
    <3>4. Len(received) < Len(sent) /\ Due = StopDaemon
      BY <1>6, <3>1, <3>2, <3>3, BytesMeanDue, FirstByte DEF ReceiveStop
    <3> QED
      BY <3>4, TextAssumption DEF Expected
  <2> QED
    BY <1>6, <2>1, <2>2, AnswersAppend DEF ReceiveStop
<1>7. CASE ReceivePath
  <2>1. PICK item : /\ received' = Append(received, item) /\ item \in Item
                    /\ IsPath(item) \/ receiver' = "done"
    <3>1. CASE received' = Append(received, InvalidStorePath) /\ receiver' = "done"
      BY <3>1 DEF Item
    <3>2. ASSUME NEW p \in Path, received' = Append(received, Received(p))
          PROVE  Received(p) \in Item /\ IsPath(Received(p))
      BY DEF Item, Message, IsPath
    <3> QED
      BY <1>7, <3>1, <3>2 DEF ReceivePath, Parse
  <2>2. ASSUME Intact(Len(received) + 1)
        PROVE  Len(received) < Len(sent) /\ item = Expected(Due)
    <3>1. PICK ends : Framed(ends, Len(received), sent, Transit)
      BY <1>7, <2>2, IntactDue DEF Framing, ReceivePath
    <3>2. /\ Len(received) < Len(sent) /\ Due \in Path
          /\ \/ Due \notin Malformed /\ received' = Append(received, Received(Due))
             \/ Due \in Malformed /\ received' = Append(received, InvalidStorePath)
      BY <1>7, <2>2, <3>1, ParsedIsDue
    <3>3. received' = Append(received, Expected(Due)) /\ Expected(Due) \in Item
      BY <3>2 DEF Expected, Item, Message
    <3>4. /\ received'[Len(received) + 1] = item
          /\ received'[Len(received) + 1] = Expected(Due)
      <4>1. received \in Seq(Item)
        BY DEF Typed
      <4>2. \A x \in Item : Append(received, x)[Len(received) + 1] = x
        BY <4>1, AppendProperties
      <4> QED
        BY <2>1, <3>3, <4>2
    <3> QED
      BY <3>2, <3>4
  <2> QED
    BY <1>7, <2>1, <2>2, AnswersAppend DEF ReceivePath
<1> QED
  BY <1>2, <1>3, <1>4, <1>5, <1>6, <1>7 DEF Next, PollNext

(***************************************************************************)
(* The Receiver returns the messages that were sent, in their order, none  *)
(* twice and none made up of two, and an error only as the last item, as   *)
(* long as no text contains a separator.                                   *)
(***************************************************************************)
THEOREM ReceivedCorrect == Spec => []ReceivedIsSent
<1>1. Init => Answers
  <2> SUFFICES ASSUME Init PROVE Answers
    OBVIOUS
  <2>1. Len(received) = 0 /\ DOMAIN received = 1 .. Len(received)
    BY TypeInit, Lengths, EmptySeq DEF Init
  <2> QED
    BY <2>1 DEF Answers, ReceivedIsSent
<1>2. Spec => []Answers
  BY <1>1, FramingCorrect, AnswersStep, PTL DEF Spec
<1>3. Answers => ReceivedIsSent
  BY DEF Answers
<1> QED
  BY <1>2, <1>3, PTL

-----------------------------------------------------------------------------
(***************************************************************************)
(* What is dropped.  A Sender closes with an empty buffer; a Receiver ends *)
(* with None when it cannot go on with what it has, and either no byte will*)
(* ever follow or there is no room for one.                                *)
(***************************************************************************)
Ending ==
    /\ sender = "closed" => buf = <<>>
    /\ receiver = "none" => /\ ~StopNext /\ NoSeparator
                            /\ SpaceLeft = 0 \/ EndOfStream

LEMMA EndingStep == Typed /\ Ending /\ [Next]_vars => Ending'
<1> SUFFICES ASSUME Typed, Ending, [Next]_vars PROVE Ending'
  OBVIOUS
<1> USE DEF Ending, StopNext, NoSeparator, SpaceLeft, EndOfStream
<1>1. ASSUME NEW m \in Message, StartSend(m) PROVE Ending'
  BY <1>1 DEF StartSend
<1>2. CASE PollWrite
  BY <1>2 DEF PollWrite
<1>3. CASE BreakOff \/ PollClose
  BY <1>3 DEF BreakOff, PollClose
<1>4. CASE ReceiveStop \/ PollReadFails
  BY <1>4 DEF ReceiveStop, PollReadFails
<1>5. CASE ReceivePath
  BY <1>5 DEF ReceivePath, Parse
<1>6. CASE PollRead
  BY <1>6 DEF PollRead, NeedsMore
<1>7. CASE PollReadZero
  BY <1>7 DEF PollReadZero, NeedsMore
<1>8. CASE UNCHANGED vars
  BY <1>8 DEF vars
<1> QED
  BY <1>1, <1>2, <1>3, <1>4, <1>5, <1>6, <1>7, <1>8 DEF Next, PollNext

LEMMA DroppedIsOversized ==
    ASSUME Typed, Framing, Ending, receiver = "none", sender = "closed",
           Intact(Len(received)), Len(received) # Len(sent)
    PROVE  Due \in Path /\ Len(Text[Due]) >= BufSize
<1>1. PICK ends : Framed(ends, Len(received), sent, Transit)
  BY DEF Framing
<1>2. Len(received) < Len(sent)
  BY <1>1, Lengths DEF Framed
<1>3. /\ Due \in Message /\ Len(Encoded(Due)) \in Nat \ {0}
      /\ Len(Encoded(Due)) <= Len(Transit)
      /\ \A i \in 1 .. Len(Encoded(Due)) : Transit[i] = Encoded(Due)[i]
  BY <1>1, <1>2, DueInFront, EncodedShape
<1>4. /\ Len(unhandled) \in Nat /\ Len(socket) \in Nat /\ BufSize \in Nat \ {0}
      /\ DOMAIN unhandled = 1 .. Len(unhandled)
      /\ \A i \in 1 .. Len(unhandled) : Transit[i] = unhandled[i]
  BY Lengths, TransitType, SizeAssumption
<1>5. Len(Transit) = Len(unhandled) + Len(socket)
  <2>1. buf = <<>> /\ Len(buf) = 0
    BY EmptySeq DEF Ending
  <2>2. Len(Rest) = 0
    BY <2>1, Lengths, TransitType
  <2>3. Len(Transit) = Len(unhandled) + Len(socket) + Len(Rest)
    BY TransitType
  <2> QED
    BY <1>4, <2>2, <2>3
<1>6. Len(unhandled) >= BufSize \/ Len(Transit) = Len(unhandled)
  <2>1. CASE SpaceLeft = 0
    BY <1>4, <2>1 DEF SpaceLeft
  <2>2. CASE EndOfStream
    <3>1. Len(socket) = 0
      BY <2>2, EmptySeq DEF EndOfStream
    <3> QED
      BY <1>4, <1>5, <3>1
  <2> QED
    BY <2>1, <2>2 DEF Ending
<1>7. Len(unhandled) > 0
  BY <1>3, <1>4, <1>6
<1>8. Due # StopDaemon
  <2>1. unhandled # <<>>
    BY <1>7, EmptySeq
  <2> QED
    BY <1>1, <1>2, <2>1, FirstByte DEF Ending
<1>9. /\ Due \in Path /\ Len(Text[Due]) \in Nat
      /\ Len(Encoded(Due)) = Len(Text[Due]) + 1
      /\ Encoded(Due)[Len(Text[Due]) + 1] = Separator
  BY <1>3, <1>8, EncodedShape
<1>10. Len(Text[Due]) + 1 > Len(unhandled)
  <2> SUFFICES ASSUME ~ (Len(Text[Due]) + 1 > Len(unhandled)) PROVE FALSE
    OBVIOUS
  <2>1. Len(Text[Due]) + 1 \in 1 .. Len(unhandled)
    BY <1>4, <1>9
  <2>2. Len(Text[Due]) + 1 \in 1 .. Len(Encoded(Due))
    BY <1>9
  <2>3. unhandled[Len(Text[Due]) + 1] = Separator
    BY <1>3, <1>4, <1>9, <2>1, <2>2
  <2> QED
    BY <1>4, <2>1, <2>3 DEF Ending, NoSeparator
<1>11. Len(Text[Due]) >= BufSize
  <2>1. CASE Len(unhandled) >= BufSize
    BY <1>4, <1>9, <1>10, <2>1
  <2>2. CASE Len(Transit) = Len(unhandled)
    BY <1>3, <1>4, <1>9, <1>10, <2>2
  <2> QED
    BY <1>6, <2>1, <2>2
<1> QED
  BY <1>9, <1>11

(***************************************************************************)
(* When the Receiver returns None after a Sender that closed, everything   *)
(* was received, unless the next path is too long for the buffer or a path *)
(* before it was split by a separator in its text.                         *)
(***************************************************************************)
THEOREM DroppedCorrect == Spec => []OnlyOversizedDropped
<1>1. Init => Ending
  BY DEF Init, Ending
<1>2. Spec => []Ending
  BY <1>1, TypedCorrect, EndingStep, PTL DEF Spec
<1>3. Typed /\ Framing /\ Ending => OnlyOversizedDropped
  BY DroppedIsOversized DEF OnlyOversizedDropped, Due
<1> QED
  BY <1>2, <1>3, FramingCorrect, PTL
=============================================================================
