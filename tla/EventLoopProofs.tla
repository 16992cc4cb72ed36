--------------------------- MODULE EventLoopProofs ---------------------------
(***************************************************************************)
(* Proofs about EventLoop, for any number of paths, requests, connections  *)
(* and slots.                                                              *)
(***************************************************************************)
EXTENDS EventLoop, FiniteSetTheorems, SequenceTheorems, TLAPS

-----------------------------------------------------------------------------
(***************************************************************************)
(* Sequences used as queues.                                               *)
(***************************************************************************)

\* What is in a queue after an element was added at its end.
LEMMA RangeOfAppend ==
    ASSUME NEW S, NEW s \in Seq(S), NEW e \in S
    PROVE  Range(Append(s, e)) = Range(s) \cup {e}
<1>1. /\ Append(s, e) \in Seq(S)
      /\ DOMAIN Append(s, e) = 1 .. Len(s) + 1
      /\ DOMAIN s = 1 .. Len(s)
      /\ Len(s) \in Nat
      /\ \A i \in 1 .. Len(s) : Append(s, e)[i] = s[i]
      /\ Append(s, e)[Len(s) + 1] = e
  BY AppendProperties, LenProperties
<1>2. 1 .. Len(s) + 1 = 1 .. Len(s) \cup {Len(s) + 1}
  BY <1>1
<1> QED
  BY <1>1, <1>2 DEF Range

\* What is in a queue before its first element is taken.
LEMMA RangeOfTail ==
    ASSUME NEW S, NEW s \in Seq(S), s # <<>>
    PROVE  Range(s) = {Head(s)} \cup Range(Tail(s))
<1>1. /\ DOMAIN s = 1 .. Len(s)
      /\ DOMAIN Tail(s) = 1 .. Len(s) - 1
      /\ Len(s) \in Nat \ {0}
      /\ Head(s) = s[1]
      /\ \A i \in 1 .. Len(s) - 1 : Tail(s)[i] = s[i + 1]
  BY HeadTailProperties, LenProperties, EmptySeq
<1>2. Range(s) \subseteq {Head(s)} \cup Range(Tail(s))
  <2> SUFFICES ASSUME NEW i \in 1 .. Len(s)
               PROVE  s[i] \in {Head(s)} \cup Range(Tail(s))
    BY <1>1 DEF Range
  <2>1. CASE i = 1
    BY <2>1, <1>1
  <2>2. CASE i # 1
    <3>1. i - 1 \in 1 .. Len(s) - 1 /\ (i - 1) + 1 = i
      BY <2>2, <1>1
    <3> QED
      BY <3>1, <1>1 DEF Range
  <2> QED
    BY <2>1, <2>2
<1>3. {Head(s)} \cup Range(Tail(s)) \subseteq Range(s)
  <2>1. \A i \in 1 .. Len(s) - 1 : i + 1 \in 1 .. Len(s)
    BY <1>1
  <2> QED
    BY <2>1, <1>1 DEF Range
<1> QED
  BY <1>2, <1>3

LEMMA RangeOfEmpty == Range(<<>>) = {}
BY DEF Range

LEMMA RangeInSet ==
    ASSUME NEW S, NEW s \in Seq(S)
    PROVE  Range(s) \subseteq S
BY ElementOfSeq, LenProperties DEF Range

\* No element is twice in the queue.
NoRepeats(s) == \A i, j \in DOMAIN s : s[i] = s[j] => i = j

LEMMA NoRepeatsAppend ==
    ASSUME NEW S, NEW s \in Seq(S), NEW e \in S, NoRepeats(s), e \notin Range(s)
    PROVE  NoRepeats(Append(s, e))
<1>1. /\ DOMAIN Append(s, e) = 1 .. Len(s) + 1
      /\ DOMAIN s = 1 .. Len(s)
      /\ Len(s) \in Nat
      /\ \A i \in 1 .. Len(s) : Append(s, e)[i] = s[i]
      /\ Append(s, e)[Len(s) + 1] = e
      /\ \A i \in 1 .. Len(s) : s[i] # e
  BY AppendProperties, LenProperties DEF Range
<1> QED
  BY <1>1 DEF NoRepeats

LEMMA NoRepeatsTail ==
    ASSUME NEW S, NEW s \in Seq(S), s # <<>>, NoRepeats(s)
    PROVE  NoRepeats(Tail(s)) /\ Head(s) \notin Range(Tail(s))
<1>1. /\ DOMAIN s = 1 .. Len(s)
      /\ DOMAIN Tail(s) = 1 .. Len(s) - 1
      /\ Len(s) \in Nat \ {0}
      /\ Head(s) = s[1]
      /\ \A i \in 1 .. Len(s) - 1 : Tail(s)[i] = s[i + 1]
      /\ \A i \in 1 .. Len(s) - 1 : i + 1 \in 1 .. Len(s)
  BY HeadTailProperties, LenProperties, EmptySeq
<1>2. NoRepeats(Tail(s))
  BY <1>1 DEF NoRepeats
<1>3. Head(s) \notin Range(Tail(s))
  <2> SUFFICES ASSUME NEW i \in 1 .. Len(s) - 1
               PROVE  Tail(s)[i] # Head(s)
    BY <1>1 DEF Range
  <2> QED
    BY <1>1 DEF NoRepeats
<1> QED
  BY <1>2, <1>3

-----------------------------------------------------------------------------
(***************************************************************************)
(* Type correctness.                                                       *)
(***************************************************************************)

\* The lines and events that the actions write.
LEMMA LineTypes ==
    /\ \A n \in Nat \ {0} : [type |-> "left", n |-> n] \in Line
    /\ \A o \in Outcome, p \in Path : [type |-> o, path |-> p] \in Line
    /\ \A r \in Report : [type |-> "final", report |-> r] \in Line
    /\ \A r \in Request : Push(r) \in Event
    /\ \A c \in Connection : Stop(c) \in Event /\ ReceiveError(c) \in Event
BY DEF Line, Event, Push, Stop, ReceiveError

\* The number of paths left to handle is a number, 0 when there are none.
LEMMA LeftToHandleType ==
    ASSUME TypeOK
    PROVE  /\ IsFiniteSet(running)
           /\ Cardinality(running) \in Nat
           /\ Len(pending) \in Nat
           /\ LeftToHandle \in Nat
<1>1. IsFiniteSet(running)
  BY PathAssumption, FS_Subset DEF TypeOK
<1>2. Cardinality(running) \in Nat
  BY <1>1, FS_CardinalityType
<1>3. Len(pending) \in Nat
  BY LenProperties DEF TypeOK
<1> QED
  BY <1>1, <1>2, <1>3 DEF LeftToHandle

\* Counting an outcome keeps the report a report.
LEMMA CountType ==
    ASSUME TypeOK, NEW p \in Path, NEW o \in Outcome, Count(o, p)
    PROVE  report' \in Report
<1>1. /\ report \in Report
      /\ Append(report.handlingErrors, p) \in Seq(Path)
  BY AppendProperties DEF TypeOK, Report
<1>2. CASE o = "pushed"
  BY <1>1, <1>2 DEF Count, Report
<1>3. CASE o = "skipped"
  BY <1>1, <1>3 DEF Count, Report
<1>4. CASE o = "failed"
  BY <1>1, <1>4 DEF Count, Report
<1> QED
  BY <1>2, <1>3, <1>4 DEF Outcome

\* A path leaves its slot: slots and queue keep their types.
LEMMA RefillType ==
    ASSUME TypeOK, NEW p \in Path, Refill(p)
    PROVE  running' \in SUBSET Path /\ pending' \in Seq(Path)
<1>1. CASE pending = <<>>
  BY <1>1 DEF TypeOK, Refill
<1>2. CASE pending # <<>>
  <2>1. Head(pending) \in Path /\ Tail(pending) \in Seq(Path)
    BY <1>2, HeadTailProperties DEF TypeOK
  <2> QED
    BY <1>2, <2>1 DEF TypeOK, Refill
<1> QED
  BY <1>1, <1>2

LEMMA TypeInit == Init => TypeOK
BY EmptySeq DEF Init, TypeOK, EmptyReport, Report

LEMMA TypeStep == TypeOK /\ [Next]_vars => TypeOK'
<1> SUFFICES ASSUME TypeOK, [Next]_vars PROVE TypeOK'
  OBVIOUS
<1> USE DEF TypeOK
<1>1. ASSUME NEW r \in Request, ArrivePush(r) PROVE TypeOK'
  BY <1>1, LineTypes, AppendProperties DEF ArrivePush
<1>2. ASSUME NEW c \in Connection, NEW e \in {Stop(c), ReceiveError(c)},
             ArriveLast(c, e)
      PROVE  TypeOK'
  BY <1>2, LineTypes, AppendProperties DEF ArriveLast
<1>3. CASE ReceivePush
  <2>1. Head(channel) \in Event /\ Tail(channel) \in Seq(Event)
    BY <1>3, HeadTailProperties DEF ReceivePush
  <2>2. Head(channel).request \in Request
    BY <1>3, <2>1 DEF ReceivePush, Event
  <2> QED
    BY <1>3, <2>1, <2>2 DEF ReceivePush
<1>4. CASE ReceiveStop
  <2>1. Head(channel) \in Event /\ Tail(channel) \in Seq(Event)
    BY <1>4, HeadTailProperties DEF ReceiveStop
  <2>2. Head(channel).connection \in Connection
    BY <1>4, <2>1 DEF ReceiveStop, Event
  <2> QED
    BY <1>4, <2>1, <2>2 DEF ReceiveStop
<1>5. CASE ReceiveFailure
  BY <1>5, HeadTailProperties DEF ReceiveFailure
<1>6. ASSUME NEW r \in Request, ClosureComputed(r) PROVE TypeOK'
  BY <1>6, ClosureAssumption DEF ClosureComputed
<1>7. ASSUME NEW r \in Request, ClosureFailed(r) PROVE TypeOK'
  <2>1. Append(report.closureErrors, r) \in Seq(Request)
    BY AppendProperties DEF Report
  <2>2. report' \in Report
    BY <1>7, <2>1 DEF ClosureFailed, Report
  <2> QED
    BY <1>7, <2>2 DEF ClosureFailed
<1>8. CASE VisitPath
  <2>1. Head(batch) \in Path /\ Tail(batch) \in Seq(Path)
    BY <1>8, HeadTailProperties DEF VisitPath
  <2>2. running' \in SUBSET Path /\ pending' \in Seq(Path)
    <3>1. Append(pending, Head(batch)) \in Seq(Path)
      BY <2>1, AppendProperties
    <3> QED
      BY <1>8, <2>1, <3>1 DEF VisitPath, Schedule
  <2> QED
    BY <1>8, <2>1, <2>2 DEF VisitPath
<1>9. ASSUME NEW p \in Path, NEW o \in Outcome, PathHandled(p, o) PROVE TypeOK'
  <2>1. report' \in Report
    BY <1>9, CountType DEF PathHandled
  <2>2. running' \in SUBSET Path /\ pending' \in Seq(Path)
    BY <1>9, RefillType DEF PathHandled
  <2> QED
    BY <1>9, <2>1, <2>2 DEF PathHandled
<1>10. CASE StartDrain
  <2>1. LeftToHandle \in Nat
    BY LeftToHandleType
  <2>2. out' \in Seq(Line)
    BY <1>10, <2>1, LineTypes, AppendProperties DEF StartDrain, WriteLeft
  <2> QED
    BY <1>10, <2>2 DEF StartDrain
<1>11. ASSUME NEW p \in Path, NEW o \in Outcome, PathDrained(p, o) PROVE TypeOK'
  <2>1. report' \in Report
    BY <1>11, CountType DEF PathDrained
  <2>2. running' \in SUBSET Path /\ pending' \in Seq(Path)
    BY <1>11, RefillType DEF PathDrained
  <2>3. out' \in Seq(Line)
    BY <1>11, LineTypes, AppendProperties DEF PathDrained
  <2> QED
    BY <1>11, <2>1, <2>2, <2>3 DEF PathDrained
<1>12. CASE FinishDrain
  <2>1. out' \in Seq(Line)
    BY <1>12, LineTypes, AppendProperties DEF FinishDrain
  <2> QED
    BY <1>12, <2>1 DEF FinishDrain
<1>13. CASE UNCHANGED vars
  BY <1>13 DEF vars
<1>14. ASSUME NEW p \in Path, Panic(p) PROVE TypeOK'
  BY <1>14 DEF Panic
<1> QED
  BY <1>1, <1>2, <1>3, <1>4, <1>5, <1>6, <1>7, <1>8, <1>9, <1>10, <1>11,
     <1>12, <1>13, <1>14
  DEF Next, Arrive, LoopStep, Receive, CloseTask, HandlerTask

(***************************************************************************)
(* The variables of `event_loop::run` keep their types.                    *)
(***************************************************************************)
THEOREM TypeCorrect == Spec => []TypeOK
BY TypeInit, TypeStep, PTL DEF Spec

-----------------------------------------------------------------------------
(***************************************************************************)
(* Slots and queue.  The three invariants are inductive only together: that*)
(* a free slot implies an empty queue is what lets a new path take the slot*)
(* and what lets the drain end, and that no path is in two places is what  *)
(* makes a refill keep the number of spawned handlers.                     *)
(***************************************************************************)
LEMMA PlacementUnchanged ==
    ASSUME Placement, UNCHANGED <<seen, running, pending, outcome>>
    PROVE  Placement'
BY DEF Placement, BoundedConcurrency, SlotsBeforeQueue, EachPathOnce

\* A path that was never seen takes a free slot or joins the queue.
LEMMA ScheduleKeepsPlacement ==
    ASSUME TypeOK, Placement, NEW p \in Path, p \notin seen, Schedule(p),
           seen' = seen \cup {p}, outcome' = outcome
    PROVE  Placement'
<1>1. /\ IsFiniteSet(running) /\ Cardinality(running) \in Nat
      /\ MaxConcurrent \in Nat
      /\ pending \in Seq(Path)
  BY LeftToHandleType, MaxConcurrentAssumption DEF TypeOK
<1>2. p \notin running /\ p \notin Range(pending) /\ outcome[p] = "none"
  BY DEF Placement, EachPathOnce
<1>3. CASE HasRoom
  <2>1. running' = running \cup {p} /\ pending' = pending
    BY <1>3 DEF Schedule
  <2>2. Cardinality(running') = Cardinality(running) + 1
    BY <1>1, <1>2, <2>1, FS_AddElement
  <2>3. pending = <<>>
    BY <1>1, <1>3 DEF HasRoom, Placement, SlotsBeforeQueue
  <2>4. BoundedConcurrency' /\ SlotsBeforeQueue'
    BY <1>1, <1>3, <2>1, <2>2, <2>3
    DEF HasRoom, BoundedConcurrency, SlotsBeforeQueue
  <2>5. EachPathOnce'
    BY <1>2, <2>1 DEF Placement, EachPathOnce
  <2> QED
    BY <2>4, <2>5 DEF Placement
<1>4. CASE ~HasRoom
  <2>1. running' = running /\ pending' = Append(pending, p)
    BY <1>4 DEF Schedule
  <2>2. BoundedConcurrency' /\ SlotsBeforeQueue'
    BY <1>1, <1>4, <2>1
    DEF HasRoom, Placement, BoundedConcurrency, SlotsBeforeQueue
  <2>3. Range(pending') = Range(pending) \cup {p}
    BY <1>1, <2>1, RangeOfAppend
  <2>4. NoRepeats(pending')
    BY <1>1, <1>2, <2>1, NoRepeatsAppend DEF Placement, EachPathOnce, NoRepeats
  <2>5. EachPathOnce'
    BY <1>2, <2>1, <2>3, <2>4 DEF Placement, EachPathOnce, NoRepeats
  <2> QED
    BY <2>2, <2>5 DEF Placement
<1> QED
  BY <1>3, <1>4

\* A handler ends, and the one that has waited longest takes its slot.
LEMMA RefillKeepsPlacement ==
    ASSUME TypeOK, Placement, NEW p \in running, NEW o \in Outcome, Refill(p),
           seen' = seen, outcome' = [outcome EXCEPT ![p] = o]
    PROVE  Placement' /\ LeftToHandle' = LeftToHandle - 1
<1>1. /\ IsFiniteSet(running) /\ Cardinality(running) \in Nat
      /\ MaxConcurrent \in Nat
      /\ pending \in Seq(Path) /\ Len(pending) \in Nat
      /\ p \in Path /\ p \in seen /\ outcome \in [Path -> Outcome \cup {"none"}]
      /\ o # "none"
  BY LeftToHandleType, MaxConcurrentAssumption
  DEF TypeOK, Placement, EachPathOnce, Outcome
<1>2. {q \in seen : outcome'[q] = "none"} = {q \in seen : outcome[q] = "none"} \ {p}
  BY <1>1 DEF TypeOK
<1>3. \A q \in Path \ seen : outcome'[q] = "none"
  BY <1>1 DEF Placement, EachPathOnce
<1>4. /\ IsFiniteSet(running \ {p})
      /\ Cardinality(running \ {p}) = Cardinality(running) - 1
  BY <1>1, FS_RemoveElement
<1>5. CASE pending = <<>>
  <2>1. running' = running \ {p} /\ pending' = pending
    BY <1>5 DEF Refill
  <2>2. BoundedConcurrency' /\ SlotsBeforeQueue'
    BY <1>1, <1>4, <1>5, <2>1 DEF Placement, BoundedConcurrency, SlotsBeforeQueue
  <2>3. EachPathOnce'
    BY <1>2, <1>3, <1>5, <2>1, RangeOfEmpty DEF Placement, EachPathOnce
  <2>4. LeftToHandle' = LeftToHandle - 1
    BY <1>1, <1>4, <2>1 DEF LeftToHandle
  <2> QED
    BY <2>2, <2>3, <2>4 DEF Placement
<1>6. CASE pending # <<>>
  <2> DEFINE h == Head(pending)
  <2>1. running' = (running \ {p}) \cup {h} /\ pending' = Tail(pending)
    BY <1>6 DEF Refill
  <2>2. /\ Range(pending) = {h} \cup Range(Tail(pending))
        /\ Len(Tail(pending)) = Len(pending) - 1
    BY <1>1, <1>6, RangeOfTail, HeadTailProperties
  <2>3. NoRepeats(Tail(pending)) /\ h \notin Range(Tail(pending))
    BY <1>1, <1>6, NoRepeatsTail DEF Placement, EachPathOnce, NoRepeats
  <2>4. h \notin running
    BY <2>2 DEF Placement, EachPathOnce
  <2>5. Cardinality(running') = Cardinality(running)
    <3>1. h \notin running \ {p}
      BY <2>4
    <3>2. Cardinality((running \ {p}) \cup {h}) = Cardinality(running \ {p}) + 1
      BY <1>4, <3>1, FS_AddElement
    <3> QED
      BY <1>1, <1>4, <2>1, <3>2
  <2>6. BoundedConcurrency' /\ SlotsBeforeQueue'
    BY <1>6, <2>5 DEF Placement, BoundedConcurrency, SlotsBeforeQueue
  <2>7. EachPathOnce'
    <3>1. running' \cup Range(pending') = {q \in seen' : outcome'[q] = "none"}
      BY <1>2, <2>1, <2>2, <2>3, <2>4 DEF Placement, EachPathOnce
    <3>2. running' \cap Range(pending') = {}
      BY <2>1, <2>2, <2>3 DEF Placement, EachPathOnce
    <3> QED
      BY <1>3, <2>1, <2>3, <3>1, <3>2 DEF EachPathOnce, NoRepeats
  <2>8. LeftToHandle' = LeftToHandle - 1
    BY <1>1, <2>1, <2>2, <2>5 DEF LeftToHandle
  <2> QED
    BY <2>6, <2>7, <2>8 DEF Placement
<1> QED
  BY <1>5, <1>6

LEMMA PlacementInit == Init => Placement
<1> SUFFICES ASSUME Init PROVE Placement
  OBVIOUS
<1>1. BoundedConcurrency /\ SlotsBeforeQueue
  BY FS_EmptySet, MaxConcurrentAssumption
  DEF Init, BoundedConcurrency, SlotsBeforeQueue
<1>2. EachPathOnce
  BY RangeOfEmpty DEF Init, EachPathOnce
<1> QED
  BY <1>1, <1>2 DEF Placement

LEMMA PlacementStep == TypeOK /\ Placement /\ [Next]_vars => Placement'
<1> SUFFICES ASSUME TypeOK, Placement, [Next]_vars PROVE Placement'
  OBVIOUS
<1>1. ASSUME \/ Arrive \/ Receive \/ StartDrain \/ FinishDrain \/ UNCHANGED vars
             \/ \E r \in Request : CloseTask(r)
             \/ \E p \in Path : Panic(p)
      PROVE  Placement'
  <2>1. UNCHANGED <<seen, running, pending, outcome>>
    BY <1>1 DEF Arrive, ArrivePush, ArriveLast, Receive, ReceivePush, ReceiveStop,
                ReceiveFailure, StartDrain, FinishDrain, CloseTask,
                ClosureComputed, ClosureFailed, Panic, vars
  <2> QED
    BY <2>1, PlacementUnchanged
<1>2. CASE VisitPath
  <2>1. Head(batch) \in Path
    BY <1>2, HeadTailProperties DEF VisitPath, TypeOK
  <2>2. CASE IsNew(Head(batch))
    BY <1>2, <2>1, <2>2, ScheduleKeepsPlacement DEF VisitPath, IsNew
  <2>3. CASE ~IsNew(Head(batch))
    <3>1. UNCHANGED <<seen, running, pending, outcome>>
      BY <1>2, <2>3 DEF VisitPath, IsNew
    <3> QED
      BY <3>1, PlacementUnchanged
  <2> QED
    BY <2>2, <2>3
<1>3. ASSUME NEW p \in Path, HandlerTask(p) PROVE Placement'
  BY <1>3, RefillKeepsPlacement DEF HandlerTask, PathHandled, PathDrained
<1> QED
  BY <1>1, <1>2, <1>3 DEF Next, LoopStep

(***************************************************************************)
(* At most MAX_CONCURRENT_STORE_PATHS handlers are spawned, by the three   *)
(* places of `run` that spawn one; a path waits only while all slots are   *)
(* taken, which is what lets the drain end without looking at the queue;   *)
(* and every path that was seen is in one slot, at one place of the queue, *)
(* or has an outcome.                                                      *)
(***************************************************************************)
THEOREM PlacementCorrect == Spec => []Placement
BY TypeCorrect, PlacementInit, PlacementStep, PTL DEF Spec

-----------------------------------------------------------------------------
(***************************************************************************)
(* The report.                                                             *)
(***************************************************************************)

\* The outcome of a path that had none is counted where it belongs.
LEMMA CountKeepsReport ==
    ASSUME TypeOK, ReportAddsUp, NEW p \in Path, outcome[p] = "none",
           NEW o \in Outcome, outcome' = [outcome EXCEPT ![p] = o], Count(o, p)
    PROVE  ReportAddsUp'
<1>1. /\ \A x \in Outcome : IsFiniteSet(PathsThat(x)) /\ p \notin PathsThat(x)
      /\ \A x \in Outcome : Cardinality(PathsThat(x)) \in Nat
  <2>1. \A x \in Outcome : PathsThat(x) \in SUBSET Path /\ p \notin PathsThat(x)
    BY DEF PathsThat, Outcome
  <2>2. \A x \in Outcome : IsFiniteSet(PathsThat(x))
    BY <2>1, PathAssumption, FS_Subset
  <2> QED
    BY <2>1, <2>2, FS_CardinalityType
<1>2. /\ PathsThat(o)' = PathsThat(o) \cup {p}
      /\ \A x \in Outcome \ {o} : PathsThat(x)' = PathsThat(x)
  BY DEF PathsThat, TypeOK, Outcome
<1>3. Cardinality(PathsThat(o) \cup {p}) = Cardinality(PathsThat(o)) + 1
  BY <1>1, FS_AddElement
<1>4. /\ report \in Report
      /\ report.handlingErrors \in Seq(Path)
      /\ report.pushed \in Nat /\ report.skipped \in Nat
  BY DEF TypeOK, Report
<1>5. CASE o = "pushed"
  <2>1. /\ report'.pushed = report.pushed + 1
        /\ report'.skipped = report.skipped
        /\ report'.handlingErrors = report.handlingErrors
    BY <1>4, <1>5 DEF Count, Report
  <2> QED
    BY <1>2, <1>3, <1>5, <2>1 DEF ReportAddsUp, Outcome
<1>6. CASE o = "skipped"
  <2>1. /\ report'.pushed = report.pushed
        /\ report'.skipped = report.skipped + 1
        /\ report'.handlingErrors = report.handlingErrors
    BY <1>4, <1>6 DEF Count, Report
  <2> QED
    BY <1>2, <1>3, <1>6, <2>1 DEF ReportAddsUp, Outcome
<1>7. CASE o = "failed"
  <2>1. /\ report'.pushed = report.pushed
        /\ report'.skipped = report.skipped
        /\ report'.handlingErrors = Append(report.handlingErrors, p)
    BY <1>4, <1>7 DEF Count, Report
  <2>2. /\ Range(report'.handlingErrors) = Range(report.handlingErrors) \cup {p}
        /\ Len(report'.handlingErrors) = Len(report.handlingErrors) + 1
    BY <1>4, <2>1, RangeOfAppend, AppendProperties
  <2> QED
    BY <1>2, <1>3, <1>7, <2>1, <2>2 DEF ReportAddsUp, Outcome
<1> QED
  BY <1>5, <1>6, <1>7 DEF Outcome

LEMMA ReportInit == Init => ReportAddsUp
<1> SUFFICES ASSUME Init PROVE ReportAddsUp
  OBVIOUS
<1>1. \A o \in Outcome : PathsThat(o) = {}
  BY DEF Init, PathsThat, Outcome
<1> QED
  BY <1>1, FS_EmptySet, RangeOfEmpty, EmptySeq
  DEF Init, EmptyReport, ReportAddsUp, Outcome

LEMMA ReportStep ==
    TypeOK /\ Placement /\ ReportAddsUp /\ [Next]_vars => ReportAddsUp'
<1> SUFFICES ASSUME TypeOK, Placement, ReportAddsUp, [Next]_vars
             PROVE  ReportAddsUp'
  OBVIOUS
<1>1. ASSUME \/ Arrive \/ LoopStep \/ UNCHANGED vars
             \/ \E r \in Request : ClosureComputed(r)
             \/ \E p \in Path : Panic(p)
      PROVE  ReportAddsUp'
  <2>1. UNCHANGED <<outcome, report>>
    BY <1>1 DEF Arrive, ArrivePush, ArriveLast, LoopStep, Receive, ReceivePush,
                ReceiveStop, ReceiveFailure, VisitPath, StartDrain, FinishDrain,
                ClosureComputed, Panic, vars
  <2> QED
    BY <2>1 DEF ReportAddsUp, PathsThat
<1>2. ASSUME NEW r \in Request, ClosureFailed(r) PROVE ReportAddsUp'
  <2>1. /\ outcome' = outcome
        /\ report'.pushed = report.pushed
        /\ report'.skipped = report.skipped
        /\ report'.handlingErrors = report.handlingErrors
    BY <1>2 DEF ClosureFailed, TypeOK, Report
  <2> QED
    BY <2>1 DEF ReportAddsUp, PathsThat
<1>3. ASSUME NEW p \in Path, HandlerTask(p) PROVE ReportAddsUp'
  <2>1. PICK o \in Outcome : /\ p \in running
                             /\ outcome' = [outcome EXCEPT ![p] = o]
                             /\ Count(o, p)
    BY <1>3 DEF HandlerTask, PathHandled, PathDrained
  <2>2. outcome[p] = "none"
    BY <2>1 DEF Placement, EachPathOnce
  <2> QED
    BY <2>1, <2>2, CountKeepsReport
<1> QED
  BY <1>1, <1>2, <1>3 DEF Next, CloseTask

(***************************************************************************)
(* The report counts every path under its outcome: nothing is counted twice*)
(* and nothing is left out, in the loop and in the drain.                  *)
(***************************************************************************)
THEOREM ReportCorrect == Spec => []ReportAddsUp
BY PlacementCorrect, TypeCorrect, ReportInit, ReportStep, PTL DEF Spec

-----------------------------------------------------------------------------
(***************************************************************************)
(* Requests.  No request is lost between the channel, the closure tasks,   *)
(* the `for` loop over a closure and the report.                           *)
(***************************************************************************)

\* The requests in a channel after an event was added.
LEMMA QueuedAfterAppend ==
    ASSUME TypeOK, NEW e \in Event, channel' = Append(channel, e)
    PROVE  Queued' = Queued \cup {r \in Request : Push(r) = e}
<1>1. Range(channel') = Range(channel) \cup {e}
  BY RangeOfAppend DEF TypeOK
<1> QED
  BY <1>1 DEF Queued

\* The requests in a channel before its first event is taken.
LEMMA QueuedBeforeTail ==
    ASSUME TypeOK, channel # <<>>, channel' = Tail(channel)
    PROVE  Queued = Queued' \cup {r \in Request : Push(r) = Head(channel)}
<1>1. Range(channel) = {Head(channel)} \cup Range(channel')
  BY RangeOfTail DEF TypeOK
<1> QED
  BY <1>1 DEF Queued

\* Events tell their kinds and their requests apart.
LEMMA EventKinds ==
    /\ \A r, q \in Request : Push(r) = Push(q) => r = q
    /\ \A r \in Request, c \in Connection :
          Push(r) # Stop(c) /\ Push(r) # ReceiveError(c)
    /\ \A e \in Event : e.type = "push" => e.request \in Request /\ e = Push(e.request)
    /\ \A e \in Event, r \in Request : e.type # "push" => e # Push(r)
    /\ \A r \in Request : Push(r).type = "push" /\ Push(r).request = r
    /\ \A c \in Connection : Stop(c).type = "stop" /\ ReceiveError(c).type = "error"
BY DEF Event, Push, Stop, ReceiveError

LEMMA RequestsInit == Init => RequestsAccounted
BY RangeOfEmpty DEF Init, EmptyReport, RequestsAccounted, Queued

LEMMA RequestsStep == TypeOK /\ RequestsAccounted /\ [Next]_vars => RequestsAccounted'
<1> SUFFICES ASSUME TypeOK, RequestsAccounted, [Next]_vars
             PROVE  RequestsAccounted'
  OBVIOUS
<1>1. ASSUME NEW r \in Request, ArrivePush(r) PROVE RequestsAccounted'
  <2>1. Queued' = Queued \cup {r}
    BY <1>1, QueuedAfterAppend, LineTypes, EventKinds DEF ArrivePush
  <2> QED
    BY <1>1, <2>1 DEF ArrivePush, RequestsAccounted
<1>2. ASSUME NEW c \in Connection, NEW e \in {Stop(c), ReceiveError(c)},
             ArriveLast(c, e)
      PROVE  RequestsAccounted'
  <2>1. Queued' = Queued
    BY <1>2, QueuedAfterAppend, LineTypes, EventKinds DEF ArriveLast
  <2> QED
    BY <1>2, <2>1 DEF ArriveLast, RequestsAccounted
<1>3. CASE Receive
  <2>1. /\ Head(channel) \in Event
        /\ Queued = Queued' \cup {r \in Request : Push(r) = Head(channel)}
    BY <1>3, QueuedBeforeTail, HeadTailProperties
    DEF TypeOK, Receive, ReceivePush, ReceiveStop, ReceiveFailure
  <2>2. CASE ReceivePush
    <3>1. /\ Head(channel).request \in Request
          /\ {r \in Request : Push(r) = Head(channel)} = {Head(channel).request}
      BY <2>1, <2>2, EventKinds DEF ReceivePush
    <3> QED
      BY <2>1, <2>2, <3>1 DEF ReceivePush, RequestsAccounted
  <2>3. CASE ReceiveStop \/ ReceiveFailure
    <3>1. {r \in Request : Push(r) = Head(channel)} = {}
      BY <2>1, <2>3, EventKinds DEF ReceiveStop, ReceiveFailure
    <3> QED
      BY <2>1, <2>3, <3>1 DEF ReceiveStop, ReceiveFailure, RequestsAccounted
  <2> QED
    BY <1>3, <2>2, <2>3 DEF Receive
<1>4. ASSUME NEW r \in Request, ClosureComputed(r) PROVE RequestsAccounted'
  <2>1. /\ closures = closures' \cup {r}
        /\ expanded' = expanded \cup {r}
        /\ batch = <<>> /\ batch' = Closure[r]
        /\ UNCHANGED <<requested, channel, seen, report>>
    BY <1>4 DEF ClosureComputed, Selecting
  <2>2. Range(batch) = {}
    BY <2>1, RangeOfEmpty
  <2> QED
    BY <2>1, <2>2 DEF RequestsAccounted, Queued
<1>5. ASSUME NEW r \in Request, ClosureFailed(r) PROVE RequestsAccounted'
  <2>1. report'.closureErrors = Append(report.closureErrors, r)
    BY <1>5 DEF ClosureFailed, TypeOK, Report
  <2>2. Range(report'.closureErrors) = Range(report.closureErrors) \cup {r}
    BY <2>1, RangeOfAppend DEF TypeOK, Report
  <2>3. /\ closures = closures' \cup {r}
        /\ UNCHANGED <<requested, channel, expanded, seen, batch>>
    BY <1>5 DEF ClosureFailed
  <2> QED
    BY <2>2, <2>3 DEF RequestsAccounted, Queued
<1>6. CASE VisitPath
  <2>1. Range(batch) = {Head(batch)} \cup Range(batch')
    BY <1>6, RangeOfTail DEF VisitPath, TypeOK
  <2> QED
    BY <1>6, <2>1 DEF VisitPath, RequestsAccounted, Queued
<1>7. ASSUME NEW p \in Path, HandlerTask(p) PROVE RequestsAccounted'
  <2>1. PICK o \in Outcome : Count(o, p)
    BY <1>7 DEF HandlerTask, PathHandled, PathDrained
  <2>2. report'.closureErrors = report.closureErrors
    BY <2>1 DEF Count, TypeOK, Report
  <2>3. UNCHANGED <<requested, channel, closures, expanded, batch, seen>>
    BY <1>7 DEF HandlerTask, PathHandled, PathDrained
  <2> QED
    BY <2>2, <2>3 DEF RequestsAccounted, Queued
<1>8. ASSUME \/ StartDrain \/ FinishDrain \/ UNCHANGED vars
             \/ \E p \in Path : Panic(p)
      PROVE  RequestsAccounted'
  BY <1>8 DEF StartDrain, FinishDrain, Panic, vars, RequestsAccounted, Queued
<1> QED
  BY <1>1, <1>2, <1>3, <1>4, <1>5, <1>6, <1>7, <1>8
  DEF Next, Arrive, LoopStep, CloseTask

(***************************************************************************)
(* Every request that entered the channel is still in it, has its closure  *)
(* computed, failed and is in the report, or was expanded, and every path  *)
(* of an expanded closure was seen or is about to be.                      *)
(***************************************************************************)
THEOREM RequestsCorrect == Spec => []RequestsAccounted
BY TypeCorrect, RequestsInit, RequestsStep, PTL DEF Spec

-----------------------------------------------------------------------------
(***************************************************************************)
(* The drain.  After the loop no closure is in flight and nothing is left  *)
(* of a closure to visit; `run` returns only when no handler is spawned.   *)
(***************************************************************************)
AfterLoop == /\ phase \in {"drain", "done"} =>
                    closures = {} /\ batch = <<>> /\ stopWriter # NoConnection
             /\ phase = "done" => running = {}

LEMMA AfterLoopStep == TypeOK /\ AfterLoop /\ [Next]_vars => AfterLoop'
<1> SUFFICES ASSUME TypeOK, AfterLoop, [Next]_vars PROVE AfterLoop'
  OBVIOUS
<1>1. CASE Arrive
  BY <1>1 DEF Arrive, ArrivePush, ArriveLast, AfterLoop
<1>2. CASE Receive
  BY <1>2 DEF Receive, ReceivePush, ReceiveStop, ReceiveFailure, Selecting, AfterLoop
<1>3. ASSUME NEW r \in Request, CloseTask(r) PROVE AfterLoop'
  BY <1>3 DEF CloseTask, ClosureComputed, ClosureFailed, Selecting, AfterLoop
<1>4. CASE VisitPath
  BY <1>4 DEF VisitPath, AfterLoop
<1>5. ASSUME NEW p \in Path, HandlerTask(p) PROVE AfterLoop'
  BY <1>5 DEF HandlerTask, PathHandled, PathDrained, Selecting, AfterLoop
<1>6. CASE StartDrain \/ FinishDrain
  BY <1>6 DEF StartDrain, FinishDrain, MayBreak, AfterLoop
<1>7. CASE UNCHANGED vars
  BY <1>7 DEF vars, AfterLoop
<1>8. ASSUME NEW p \in Path, Panic(p) PROVE AfterLoop'
  BY <1>8 DEF Panic, AfterLoop
<1> QED
  BY <1>1, <1>2, <1>3, <1>4, <1>5, <1>6, <1>7, <1>8 DEF Next, LoopStep

LEMMA AfterLoopCorrect == Spec => []AfterLoop
<1>1. Init => AfterLoop
  BY DEF Init, AfterLoop
<1> QED
  BY <1>1, TypeCorrect, AfterLoopStep, PTL DEF Spec

\* When run returns the queue is empty: it could not be full of waiting paths
\* beside an empty set of slots.
LEMMA NothingLeft ==
    ASSUME TypeOK, Placement, RequestsAccounted, AfterLoop
    PROVE  DrainIsComplete
<1> SUFFICES ASSUME phase = "done"
             PROVE  /\ closures = {} /\ running = {} /\ pending = <<>>
                    /\ \A r \in requested \ (Queued \cup Range(report.closureErrors)) :
                          \A p \in Range(Closure[r]) : outcome[p] # "none"
  BY DEF DrainIsComplete
<1>1. closures = {} /\ batch = <<>> /\ running = {}
  BY DEF AfterLoop
<1>2. pending = <<>>
  BY <1>1, FS_EmptySet, MaxConcurrentAssumption DEF Placement, SlotsBeforeQueue
<1>3. \A p \in seen : outcome[p] # "none"
  BY <1>1, <1>2, RangeOfEmpty DEF Placement, EachPathOnce
<1>4. ASSUME NEW r \in requested \ (Queued \cup Range(report.closureErrors)),
             NEW p \in Range(Closure[r])
      PROVE  outcome[p] # "none"
  <2>1. r \in expanded
    BY <1>1, <1>4 DEF RequestsAccounted
  <2>2. p \in seen
    BY <1>1, <2>1, <1>4, RangeOfEmpty DEF RequestsAccounted
  <2> QED
    BY <1>3, <2>2
<1> QED
  BY <1>1, <1>2, <1>4

(***************************************************************************)
(* When `run` returns, every request taken from the channel is answered    *)
(* for: its closure failed and is in the report, or every path of its      *)
(* closure was pushed, was skipped or failed.                              *)
(***************************************************************************)
THEOREM DrainCorrect == Spec => []DrainIsComplete
BY PlacementCorrect, TypeCorrect, RequestsCorrect, AfterLoopCorrect, NothingLeft, PTL

-----------------------------------------------------------------------------
(***************************************************************************)
(* Pushes ahead of a stop.  In the channel they come before every stop, and*)
(* once a stop was taken none of them is in the channel any more.          *)
(***************************************************************************)
AheadOfStop ==
    /\ \A i, j \in DOMAIN channel :
          /\ channel[i].type = "stop"
          /\ channel[j].type = "push" /\ channel[j].request \in ahead
          => j < i
    /\ stopWriter # NoConnection => ahead \cap Queued = {}

\* Taking the first event shifts the others by one.
LEMMA ChannelTail ==
    ASSUME TypeOK, channel # <<>>
    PROVE  /\ DOMAIN channel = 1 .. Len(channel) /\ Len(channel) \in Nat \ {0}
           /\ DOMAIN Tail(channel) = 1 .. Len(channel) - 1
           /\ \A i \in 1 .. Len(channel) - 1 : /\ Tail(channel)[i] = channel[i + 1]
                                               /\ i + 1 \in 1 .. Len(channel)
           /\ Head(channel) = channel[1]
BY HeadTailProperties, LenProperties, EmptySeq DEF TypeOK

LEMMA AheadOfStopStep == TypeOK /\ AheadOfStop /\ [Next]_vars => AheadOfStop'
<1> SUFFICES ASSUME TypeOK, AheadOfStop, [Next]_vars PROVE AheadOfStop'
  OBVIOUS
<1>1. ASSUME NEW r \in Request, ArrivePush(r) PROVE AheadOfStop'
  <2>1. /\ DOMAIN channel = 1 .. Len(channel) /\ Len(channel) \in Nat
        /\ DOMAIN channel' = 1 .. Len(channel) + 1
        /\ \A i \in 1 .. Len(channel) : channel'[i] = channel[i]
        /\ channel'[Len(channel) + 1] = Push(r)
    BY <1>1, LineTypes, AppendProperties, LenProperties DEF ArrivePush, TypeOK
  <2>2. Queued' = Queued \cup {r}
    BY <1>1, QueuedAfterAppend, LineTypes, EventKinds DEF ArrivePush
  <2>3. Push(r).type = "push" /\ Push(r).request = r
    BY EventKinds
  <2>4. CASE NoStopYet
    <3>1. \A i \in DOMAIN channel' : channel'[i].type # "stop"
      BY <2>1, <2>3, <2>4 DEF NoStopYet
    <3>2. stopWriter' = NoConnection
      BY <1>1, <2>4 DEF ArrivePush, NoStopYet
    <3> QED
      BY <3>1, <3>2 DEF AheadOfStop
  <2>5. CASE ~NoStopYet
    <3>1. ahead' = ahead /\ r \notin ahead /\ stopWriter' = stopWriter
      BY <1>1, <2>5 DEF ArrivePush, TypeOK
    <3> QED
      BY <2>1, <2>2, <2>3, <3>1 DEF AheadOfStop
  <2> QED
    BY <2>4, <2>5
<1>2. ASSUME NEW c \in Connection, NEW e \in {Stop(c), ReceiveError(c)},
             ArriveLast(c, e)
      PROVE  AheadOfStop'
  <2>1. /\ DOMAIN channel = 1 .. Len(channel) /\ Len(channel) \in Nat
        /\ DOMAIN channel' = 1 .. Len(channel) + 1
        /\ \A i \in 1 .. Len(channel) : channel'[i] = channel[i]
        /\ channel'[Len(channel) + 1] = e
    BY <1>2, LineTypes, AppendProperties, LenProperties DEF ArriveLast, TypeOK
  <2>2. Queued' = Queued
    BY <1>2, QueuedAfterAppend, LineTypes, EventKinds DEF ArriveLast
  <2>3. e.type # "push"
    BY EventKinds
  <2>4. ahead' = ahead /\ stopWriter' = stopWriter
    BY <1>2 DEF ArriveLast
  <2> QED
    BY <2>1, <2>2, <2>3, <2>4 DEF AheadOfStop
<1>3. CASE Receive
  <2>1. /\ channel # <<>> /\ channel' = Tail(channel) /\ ahead' = ahead
        /\ Head(channel).type # "stop" => stopWriter' = stopWriter
    BY <1>3 DEF Receive, ReceivePush, ReceiveStop, ReceiveFailure
  <2>2. Queued' \subseteq Queued
    BY <2>1, QueuedBeforeTail
  <2>3. \A i, j \in DOMAIN channel' :
           /\ channel'[i].type = "stop"
           /\ channel'[j].type = "push" /\ channel'[j].request \in ahead'
           => j < i
    BY <2>1, ChannelTail DEF AheadOfStop
  <2>4. CASE Head(channel).type = "stop"
    <3>1. \A j \in DOMAIN channel :
             ~(channel[j].type = "push" /\ channel[j].request \in ahead)
      BY <2>1, <2>4, ChannelTail DEF AheadOfStop
    <3>2. ahead \cap Queued = {}
      BY <3>1, EventKinds DEF Queued, Range
    <3> QED
      BY <2>1, <2>2, <2>3, <3>2 DEF AheadOfStop
  <2>5. CASE Head(channel).type # "stop"
    BY <2>1, <2>2, <2>3, <2>5 DEF AheadOfStop
  <2> QED
    BY <2>4, <2>5
<1>4. ASSUME \/ VisitPath \/ StartDrain \/ FinishDrain \/ UNCHANGED vars
             \/ \E r \in Request : CloseTask(r)
             \/ \E p \in Path : HandlerTask(p) \/ Panic(p)
      PROVE  AheadOfStop'
  <2>1. UNCHANGED <<channel, ahead, stopWriter>>
    BY <1>4 DEF VisitPath, StartDrain, FinishDrain, vars, CloseTask,
                ClosureComputed, ClosureFailed, HandlerTask, PathHandled,
                PathDrained, Panic
  <2> QED
    BY <2>1 DEF AheadOfStop, Queued
<1> QED
  BY <1>1, <1>2, <1>3, <1>4 DEF Next, Arrive, LoopStep

(***************************************************************************)
(* A push that entered the channel before any stop did is answered for when*)
(* `run` returns, although events may be left in the channel.              *)
(***************************************************************************)
THEOREM PushesAheadCorrect == Spec => []PushesAheadOfStopAnswered
<1>1. Init => AheadOfStop
  BY RangeOfEmpty DEF Init, AheadOfStop, Queued
<1>2. Spec => []AheadOfStop
  BY <1>1, TypeCorrect, AheadOfStopStep, PTL DEF Spec
<1>3. TypeOK /\ AheadOfStop /\ RequestsAccounted /\ AfterLoop
      => PushesAheadOfStopAnswered
  BY DEF TypeOK, AheadOfStop, RequestsAccounted, AfterLoop, PushesAheadOfStopAnswered
<1> QED
  BY <1>2, <1>3, TypeCorrect, RequestsCorrect, AfterLoopCorrect, PTL

-----------------------------------------------------------------------------
(***************************************************************************)
(* Progress lines.  During the drain the number announced is the number of *)
(* lines written for single paths plus the number of paths left.           *)
(***************************************************************************)
Progress ==
    /\ phase = "loop" => out = <<>>
    /\ phase = "drain" =>
          IF out = <<>> THEN LeftToHandle = 0
          ELSE /\ out[1].type = "left" /\ out[1].n \in Nat
               /\ out[1].n + 1 = Len(out) + LeftToHandle
    /\ ProgressAddsUp

LEMMA ProgressUnchanged ==
    ASSUME Progress, UNCHANGED <<running, pending, phase, out, report>>
    PROVE  Progress'
BY DEF Progress, ProgressAddsUp, LeftToHandle

\* While the loop runs nothing is written.
LEMMA ProgressInLoop ==
    ASSUME Progress, phase = "loop", phase' = phase, out' = out
    PROVE  Progress'
BY DEF Progress, ProgressAddsUp

LEMMA ProgressStep ==
    TypeOK /\ Placement /\ Progress /\ [Next]_vars => Progress'
<1> SUFFICES ASSUME TypeOK, Placement, Progress, [Next]_vars PROVE Progress'
  OBVIOUS
<1>1. CASE Arrive \/ UNCHANGED vars
  BY <1>1, ProgressUnchanged DEF Arrive, ArrivePush, ArriveLast, vars
<1>2. ASSUME Receive \/ VisitPath \/ \E r \in Request : CloseTask(r)
      PROVE  Progress'
  BY <1>2, ProgressInLoop
  DEF Receive, ReceivePush, ReceiveStop, ReceiveFailure, VisitPath, CloseTask,
      ClosureComputed, ClosureFailed, Selecting
<1>3. ASSUME NEW p \in Path, NEW o \in Outcome, PathHandled(p, o) PROVE Progress'
  BY <1>3, ProgressInLoop DEF PathHandled, Selecting
<1>4. CASE StartDrain
  <2>1. /\ out = <<>> /\ phase' = "drain" /\ LeftToHandle' = LeftToHandle
        /\ LeftToHandle \in Nat
        /\ WriteLeft(LeftToHandle)
    BY <1>4, LeftToHandleType DEF StartDrain, Progress, LeftToHandle
  <2>2. CASE LeftToHandle = 0
    BY <2>1, <2>2 DEF WriteLeft, Progress, ProgressAddsUp
  <2>3. CASE LeftToHandle # 0
    <3> DEFINE line == [type |-> "left", n |-> LeftToHandle]
    <3>1. out' = <<line>>
      BY <2>1, <2>3 DEF WriteLeft
    <3>2. Len(out') = 1 /\ out'[1] = line /\ out' # <<>>
      BY <3>1
    <3> QED
      BY <2>1, <3>2 DEF Progress, ProgressAddsUp
  <2> QED
    BY <2>2, <2>3
<1>5. ASSUME NEW p \in Path, NEW o \in Outcome, PathDrained(p, o) PROVE Progress'
  <2>1. /\ phase = "drain" /\ phase' = "drain"
        /\ out' = Append(out, [type |-> o, path |-> p])
    BY <1>5 DEF PathDrained
  <2>2. LeftToHandle \in Nat \ {0} /\ LeftToHandle' = LeftToHandle - 1
    <3>1. LeftToHandle' = LeftToHandle - 1
      BY <1>5, RefillKeepsPlacement DEF PathDrained
    <3>2. /\ IsFiniteSet(running) /\ Cardinality(running) \in Nat
          /\ Len(pending) \in Nat /\ running # {}
      BY <1>5, LeftToHandleType DEF PathDrained
    <3>3. Cardinality(running) # 0
      BY <3>2, FS_EmptySet
    <3> QED
      BY <3>1, <3>2, <3>3 DEF LeftToHandle
  <2>3. out # <<>>
    BY <2>1, <2>2 DEF Progress
  <2>4. /\ Len(out) \in Nat \ {0}
        /\ Len(out') = Len(out) + 1 /\ out' # <<>> /\ out'[1] = out[1]
    BY <2>1, <2>3, LineTypes, AppendProperties, LenProperties, EmptySeq DEF TypeOK
  <2> QED
    BY <2>1, <2>2, <2>3, <2>4 DEF Progress, ProgressAddsUp
<1>6. CASE FinishDrain
  <2> DEFINE line == [type |-> "final", report |-> report]
  <2>1. /\ phase = "drain" /\ phase' = "done" /\ running = {} /\ report' = report
        /\ out' = Append(out, line)
    BY <1>6 DEF FinishDrain
  <2>2. LeftToHandle = 0
    <3>1. Cardinality(running) = 0
      BY <2>1, FS_EmptySet
    <3>2. pending = <<>>
      BY <3>1, MaxConcurrentAssumption DEF Placement, SlotsBeforeQueue
    <3> QED
      BY <3>1, <3>2, EmptySeq DEF LeftToHandle
  <2>3. /\ Len(out) \in Nat /\ Len(out') = Len(out) + 1 /\ out' # <<>>
        /\ out'[Len(out')] = line
        /\ out # <<>> => out'[1] = out[1] /\ Len(out) # 0
        /\ out = <<>> => out'[1] = line /\ Len(out) = 0
    BY <2>1, LineTypes, AppendProperties, LenProperties, EmptySeq DEF TypeOK
  <2>4. CASE out = <<>>
    BY <2>1, <2>3, <2>4 DEF Progress, ProgressAddsUp
  <2>5. CASE out # <<>>
    BY <2>1, <2>2, <2>3, <2>5 DEF Progress, ProgressAddsUp
  <2> QED
    BY <2>4, <2>5
<1>7. ASSUME NEW p \in Path, Panic(p) PROVE Progress'
  BY <1>7 DEF Panic, Progress, ProgressAddsUp
<1> QED
  BY <1>1, <1>2, <1>3, <1>4, <1>5, <1>6, <1>7 DEF Next, LoopStep, HandlerTask

(***************************************************************************)
(* The client that asked for the stop is told how many paths are left, then*)
(* gets one line for each of them, then the final report.                  *)
(***************************************************************************)
THEOREM ProgressCorrect == Spec => []ProgressAddsUp
<1>1. Init => Progress
  BY DEF Init, Progress, ProgressAddsUp
<1>2. Progress => ProgressAddsUp
  BY DEF Progress
<1> QED
  BY <1>1, <1>2, PlacementCorrect, TypeCorrect, ProgressStep, PTL DEF Spec

-----------------------------------------------------------------------------
(***************************************************************************)
(* The loop implements UploadQueue.                                        *)
(***************************************************************************)
LEMMA StatusInit == Init => Promise!Init
BY DEF Init, Promise!Init, Promise!Open, Status, Tally

LEMMA StatusStep ==
    TypeOK /\ Placement /\ ReportAddsUp /\ AfterLoop /\ [Next]_vars
    => [Promise!Next]_(Promise!vars)
<1> SUFFICES ASSUME TypeOK, Placement, ReportAddsUp, AfterLoop, [Next]_vars
             PROVE  Promise!Next \/ UNCHANGED Promise!vars
  OBVIOUS
<1>1. ASSUME phase # "done", phase' # "done"
      PROVE  Tally = Promise!Open /\ Tally' = Tally
  BY <1>1 DEF Tally, Promise!Open
<1>2. ASSUME UNCHANGED <<seen, outcome>> PROVE Status' = Status
  BY <1>2 DEF Status
<1>3. CASE Arrive \/ UNCHANGED vars
  <2>1. UNCHANGED <<seen, outcome, phase, report>>
    BY <1>3 DEF Arrive, ArrivePush, ArriveLast, vars
  <2> QED
    BY <1>2, <2>1 DEF Tally, Promise!vars
<1>4. ASSUME \/ Receive \/ StartDrain \/ \E r \in Request : CloseTask(r)
             \/ \E p \in Path : Panic(p)
      PROVE  UNCHANGED Promise!vars
  <2>1. UNCHANGED <<seen, outcome>> /\ phase # "done" /\ phase' # "done"
    BY <1>4 DEF Receive, ReceivePush, ReceiveStop, ReceiveFailure, StartDrain,
                CloseTask, ClosureComputed, ClosureFailed, Panic, Selecting, Alive
  <2> QED
    BY <1>1, <1>2, <2>1 DEF Promise!vars
<1>5. CASE VisitPath
  <2> DEFINE p == Head(batch)
  <2>1. /\ p \in Path /\ seen' = seen \cup {p} /\ outcome' = outcome
        /\ phase # "done" /\ phase' # "done"
    BY <1>5, HeadTailProperties DEF VisitPath, TypeOK
  <2>2. CASE p \in seen
    BY <1>1, <1>2, <2>1, <2>2 DEF Promise!vars
  <2>3. CASE p \notin seen
    <3>1. outcome[p] = "none"
      BY <2>1, <2>3 DEF Placement, EachPathOnce
    <3>2. Status[p] = "unseen" /\ Status' = [Status EXCEPT ![p] = "accepted"]
      BY <2>1, <2>3, <3>1 DEF Status
    <3>3. Promise!Accept(p)
      BY <1>1, <2>1, <3>2 DEF Promise!Accept
    <3> QED
      BY <2>1, <3>3 DEF Promise!Next
  <2> QED
    BY <2>2, <2>3
<1>6. ASSUME NEW p \in Path, HandlerTask(p) PROVE Promise!Next
  <2>1. PICK o \in Outcome : /\ p \in running /\ seen' = seen
                             /\ outcome' = [outcome EXCEPT ![p] = o]
                             /\ phase # "done" /\ phase' # "done"
    BY <1>6 DEF HandlerTask, PathHandled, PathDrained, Selecting
  <2>2. p \in seen /\ outcome[p] = "none" /\ o # "none"
    BY <2>1 DEF Placement, EachPathOnce, Outcome
  <2>3. Status[p] = "accepted" /\ Status' = [Status EXCEPT ![p] = o]
    BY <2>1, <2>2 DEF Status, TypeOK
  <2>4. Promise!Resolve(p, o) /\ o \in Promise!Outcome
    BY <1>1, <2>1, <2>3 DEF Promise!Resolve, Promise!Outcome, Outcome
  <2> QED
    BY <2>4 DEF Promise!Next
<1>7. CASE FinishDrain
  <2>1. /\ phase = "drain" /\ phase' = "done" /\ running = {}
        /\ UNCHANGED <<seen, outcome, report>>
    BY <1>7 DEF FinishDrain
  <2>2. Tally = Promise!Open
    BY <2>1 DEF Tally, Promise!Open
  <2>3. pending = <<>>
    BY <2>1, FS_EmptySet, MaxConcurrentAssumption DEF Placement, SlotsBeforeQueue
  <2>4. \A p \in seen : outcome[p] # "none"
    BY <2>1, <2>3, RangeOfEmpty DEF Placement, EachPathOnce
  <2>5. Promise!PathsThat("accepted") = {}
    BY <2>4 DEF Promise!PathsThat, Status, TypeOK, Outcome
  <2>6. \A o \in Outcome : Promise!PathsThat(o) = PathsThat(o)
    BY DEF Promise!PathsThat, PathsThat, Status, TypeOK, Outcome
  <2>7. Tally' = [closed |-> TRUE,
                  pushed |-> Cardinality(Promise!PathsThat("pushed")),
                  skipped |-> Cardinality(Promise!PathsThat("skipped")),
                  failed |-> Promise!PathsThat("failed")]
    BY <2>1, <2>6 DEF Tally, ReportAddsUp, Outcome
  <2>8. Promise!Close
    <3>1. \A S : Promise!Cardinality(S) = Cardinality(S)
      BY DEF Promise!Cardinality, Cardinality
    <3> QED
      BY <1>2, <2>1, <2>2, <2>5, <2>7, <3>1 DEF Promise!Close
  <2> QED
    BY <2>8 DEF Promise!Next
<1> QED
  BY <1>3, <1>4, <1>5, <1>6, <1>7 DEF Next, LoopStep

(***************************************************************************)
(* Every behaviour of the event loop is, seen through the outcomes of the  *)
(* paths and the final report, one of UploadQueue: a path gets at most one *)
(* outcome, for good, and the tally that ends the session covers every     *)
(* accepted path.                                                          *)
(***************************************************************************)
THEOREM ImplementsUploadQueue == Spec => PromiseKept
BY PlacementCorrect, TypeCorrect, ReportCorrect, AfterLoopCorrect, StatusInit,
   StatusStep, PTL DEF Spec, PromiseKept, Promise!Spec
=============================================================================
