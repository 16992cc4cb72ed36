-------------------------- MODULE StopStreamProofs --------------------------
(***************************************************************************)
(* Proofs about StopStream, for any number of paths and slots, any size of *)
(* the socket and any number of pieces of a line: the drain that waits for *)
(* the socket in its middle is the drain of EventLoop, what the stop       *)
(* command prints is what was reported but the rest of lines whose write   *)
(* has failed, and exit status 0 of a drain to its end means that all of it*)
(* was.                                                                    *)
(***************************************************************************)
EXTENDS StopStream, Integers, FiniteSetTheorems, SequenceTheorems, TLAPS

Ended == [type : Outcome, path : Path]
Report == [pushed : Nat, skipped : Nat,
           closureErrors : Seq(Path), handlingErrors : Seq(Path)]
Line == [type : {"left"}, n : Nat] \cup Ended \cup [type : {"final"}, report : Report]

DrainTyped ==
    /\ at \in {"announce", "next", "count", "final", "done"}
    /\ running \in SUBSET Path
    /\ pending \in Seq(Path)
    /\ outcome \in [Path -> Outcome \cup {"none"}]
    /\ report \in Report
    /\ before \in Nat
    /\ out \in Seq(Line)
    /\ at = "count" => current \in Ended

-----------------------------------------------------------------------------
(***************************************************************************)
(* Sequences and cardinalities.                                            *)
(***************************************************************************)
LEMMA AppendFacts ==
    ASSUME NEW S, NEW s \in Seq(S), NEW x \in S
    PROVE  /\ Append(s, x) \in Seq(S) /\ Append(s, x) # <<>>
           /\ Len(Append(s, x)) = Len(s) + 1 /\ Len(s) \in Nat
           /\ Last(Append(s, x)) = x /\ Front(Append(s, x)) = s
           /\ \A i \in 1 .. Len(s) : Append(s, x)[i] = s[i]
<1>1. /\ Append(s, x) \in Seq(S) /\ Append(s, x) # <<>>
      /\ Len(Append(s, x)) = Len(s) + 1 /\ Len(s) \in Nat
      /\ \A i \in 1 .. Len(s) : Append(s, x)[i] = s[i]
      /\ Append(s, x)[Len(s) + 1] = x
  BY AppendProperties, LenProperties
<1>2. Last(Append(s, x)) = x
  BY <1>1 DEF Last
<1>3. Len(Append(s, x)) - 1 = Len(s)
  BY <1>1
<1>4. Front(Append(s, x)) = SubSeq(Append(s, x), 1, Len(s))
  BY <1>3 DEF Front
<1>5. \A i \in 1 .. Len(s) : Append(s, x)[i] \in S
  BY <1>1, ElementOfSeq
<1>6. /\ Front(Append(s, x)) \in Seq(S) /\ Len(Front(Append(s, x))) = Len(s)
      /\ \A i \in 1 .. Len(s) : Front(Append(s, x))[i] = Append(s, x)[i]
  BY <1>1, <1>4, <1>5, SubSeqProperties
<1>7. Front(Append(s, x)) = s
  BY <1>1, <1>6, SeqEqual
<1> QED
  BY <1>1, <1>2, <1>7

\* A sequence that is not empty is its front and its last element.
LEMMA FrontLast ==
    ASSUME NEW S, NEW s \in Seq(S), s # <<>>
    PROVE  Append(Front(s), Last(s)) = s
<1>1. Len(s) \in Nat \ {0} /\ \A i \in 1 .. Len(s) : s[i] \in S
  BY EmptySeq, ElementOfSeq
<1>2. PICK n \in Nat : Len(s) = n + 1 /\ Len(s) - 1 = n
  <2>1. Len(s) - 1 \in Nat /\ Len(s) = (Len(s) - 1) + 1
    BY <1>1
  <2> QED
    BY <2>1
<1>3. \A i \in 1 .. n : s[i] \in S
  BY <1>1, <1>2
<1>4. /\ Front(s) \in Seq(S) /\ Len(Front(s)) = n
      /\ \A i \in 1 .. n : Front(s)[i] = s[i]
  BY <1>2, <1>3, SubSeqProperties DEF Front
<1>5. Last(s) \in S /\ Last(s) = s[n + 1]
  BY <1>1, <1>2 DEF Last
<1>6. /\ Append(Front(s), Last(s)) \in Seq(S)
      /\ Len(Append(Front(s), Last(s))) = n + 1
      /\ \A i \in 1 .. n : Append(Front(s), Last(s))[i] = s[i]
      /\ Append(Front(s), Last(s))[n + 1] = s[n + 1]
  BY <1>4, <1>5, AppendProperties
<1>7. \A i \in 1 .. n + 1 : i \in 1 .. n \/ i = n + 1
  OBVIOUS
<1>8. \A i \in 1 .. n + 1 : Append(Front(s), Last(s))[i] = s[i]
  BY <1>6, <1>7
<1> QED
  BY <1>2, <1>6, <1>8, SeqEqual

LEMMA RunningFinite ==
    ASSUME NEW S \in SUBSET Path
    PROVE  IsFiniteSet(S) /\ Cardinality(S) \in Nat
BY PathAssumption, FS_Subset, FS_CardinalityType

-----------------------------------------------------------------------------
(***************************************************************************)
(* Types.                                                                  *)
(***************************************************************************)
LEMMA DrainTypedInit == Init => DrainTyped
<1> SUFFICES ASSUME Init PROVE DrainTyped
  OBVIOUS
<1>1. PICK left \in SUBSET Path : pending \in SetToSeqs(left)
  BY DEF Init
<1>2. Cardinality(left) \in Nat /\ pending \in [1 .. Cardinality(left) -> Path]
  BY <1>1, RunningFinite DEF SetToSeqs
<1>3. pending \in Seq(Path)
  BY <1>2, SeqDef
<1>4. PICK ce \in ClosureErrors, he \in SetToSeqs(EndedWith("failed")) :
         report = [pushed |-> Cardinality(EndedWith("pushed")),
                   skipped |-> Cardinality(EndedWith("skipped")),
                   closureErrors |-> ce, handlingErrors |-> he]
  BY DEF Init
<1>5. \A o : EndedWith(o) \in SUBSET Path
  BY DEF EndedWith
<1>6. /\ Cardinality(EndedWith("pushed")) \in Nat /\ Cardinality(EndedWith("skipped")) \in Nat
      /\ Cardinality(EndedWith("failed")) \in Nat
  BY <1>5, RunningFinite
<1>7. he \in [1 .. Cardinality(EndedWith("failed")) -> Path]
  BY <1>5 DEF SetToSeqs
<1>8. ce \in Seq(Path) /\ he \in Seq(Path)
  BY <1>6, <1>7, SeqDef, DrainAssumption
<1>9. report \in Report
  BY <1>4, <1>6, <1>8 DEF Report
<1>10. before \in Nat /\ out \in Seq(Line)
  BY <1>9, LenProperties, EmptySeq DEF Init, Report, Handled
<1> QED
  BY <1>3, <1>9, <1>10 DEF Init, DrainTyped

LEMMA WrittenLines ==
    ASSUME DrainTyped
    PROVE  /\ \A n \in Nat : [type |-> "left", n |-> n] \in Line
           /\ \A p \in Path, o \in Outcome : [type |-> o, path |-> p] \in Ended
           /\ Ended \subseteq Line
           /\ [type |-> "final", report |-> report] \in Line
BY DEF DrainTyped, Line, Ended

LEMMA CountedType ==
    ASSUME DrainTyped, at = "count"
    PROVE  /\ Counted \in Report
           /\ \/ /\ current.type = "pushed"
                 /\ Counted = [report EXCEPT !.pushed = @ + 1]
              \/ /\ current.type = "skipped"
                 /\ Counted = [report EXCEPT !.skipped = @ + 1]
              \/ /\ current.type = "failed"
                 /\ Counted = [report EXCEPT !.handlingErrors = Append(@, current.path)]
<1>1. current.type \in Outcome /\ current.path \in Path
  BY DEF DrainTyped, Ended
<1>2. Append(report.handlingErrors, current.path) \in Seq(Path)
  BY <1>1, AppendProperties DEF DrainTyped, Report
<1>a. /\ report.pushed + 1 \in Nat /\ report.skipped + 1 \in Nat
  BY DEF DrainTyped, Report
<1>3. CASE current.type = "pushed"
  <2>1. [report EXCEPT !.pushed = @ + 1] \in Report
    BY <1>a DEF DrainTyped, Report
  <2> QED
    BY <1>3, <2>1 DEF Counted
<1>4. CASE current.type = "skipped"
  <2>1. [report EXCEPT !.skipped = @ + 1] \in Report
    BY <1>a DEF DrainTyped, Report
  <2> QED
    BY <1>4, <2>1 DEF Counted
<1>5. CASE current.type = "failed"
  BY <1>2, <1>5 DEF Counted, DrainTyped, Report
<1> QED
  BY <1>1, <1>3, <1>4, <1>5 DEF Outcome

LEMMA DrainTypedStep == DrainTyped /\ [Next]_vars => DrainTyped'
<1> SUFFICES ASSUME DrainTyped, [Next]_vars PROVE DrainTyped'
  OBVIOUS
<1>1. CASE Announce
  <2>1. Cardinality(running) + Len(pending) \in Nat
    BY RunningFinite, LenProperties DEF DrainTyped
  <2>2. out' = out \/ out' = Append(out, [type |-> "left", n |-> Cardinality(running) + Len(pending)])
    BY <1>1 DEF Announce, WriteLine
  <2>3. [type |-> "left", n |-> Cardinality(running) + Len(pending)] \in Line
    BY <2>1 DEF Line
  <2>4. out' \in Seq(Line)
    BY <2>2, <2>3, AppendProperties DEF DrainTyped
  <2> QED
    BY <1>1, <2>4 DEF Announce, DrainTyped
<1>2. ASSUME NEW p \in Path, NEW o \in Outcome, PathEnds(p, o) PROVE DrainTyped'
  <2>1. out' \in Seq(Line) /\ current' \in Ended
    BY <1>2, WrittenLines, AppendProperties DEF PathEnds, WriteLine, DrainTyped
  <2> QED
    BY <1>2, <2>1 DEF PathEnds, DrainTyped
<1>3. CASE CountAndRefill
  <2>1. current \in Ended /\ report' \in Report
    BY <1>3, CountedType DEF CountAndRefill, DrainTyped
  <2>2. outcome' \in [Path -> Outcome \cup {"none"}]
    BY <1>3, <2>1 DEF CountAndRefill, DrainTyped, Ended
  <2>3. running' \in SUBSET Path /\ pending' \in Seq(Path)
    BY <1>3, HeadTailProperties DEF CountAndRefill, Refill, DrainTyped
  <2> QED
    BY <1>3, <2>1, <2>2, <2>3 DEF CountAndRefill, DrainTyped
<1>4. CASE ReportFinal
  <2>1. out' \in Seq(Line)
    BY <1>4, WrittenLines, AppendProperties DEF ReportFinal, WriteLine, DrainTyped
  <2> QED
    BY <1>4, <2>1 DEF ReportFinal, DrainTyped
<1>5. CASE Return
  BY <1>5 DEF Return, DrainTyped
<1>6. CASE \/ WriteSome \/ WriteFails \/ WriteErrs \/ Die \/ Read \/ CopyOut \/ ReadEof
           \/ Leave \/ Over \/ UNCHANGED vars
  BY <1>6 DEF WriteSome, WriteFails, WriteErrs, DropLine, Die, Read, CopyOut, ReadEof,
              Leave, Over, vars, drain, DrainTyped
<1> QED
  BY <1>1, <1>2, <1>3, <1>4, <1>5, <1>6 DEF Next, Drain, HandlerEnds, StopCommand

-----------------------------------------------------------------------------
(***************************************************************************)
(* Where the paths are.  A path that waits is not running and is waiting   *)
(* once; nothing waits while a slot is free, where the slot of the path    *)
(* that is being reported is not.                                          *)
(***************************************************************************)
Places ==
    /\ \A i, j \in 1 .. Len(pending) : i # j => pending[i] # pending[j]
    /\ \A i \in 1 .. Len(pending) : pending[i] \notin running
    /\ at = "count" => /\ current.path \notin running
                       /\ \A i \in 1 .. Len(pending) : pending[i] # current.path
    /\ pending # <<>> =>
          Cardinality(running) = IF at = "count" THEN MaxConcurrent - 1 ELSE MaxConcurrent

LEMMA PlacesInit == Init => Places
<1> SUFFICES ASSUME Init PROVE Places
  OBVIOUS
<1>1. PICK left \in SUBSET (Path \ running) :
         /\ left # {} => Cardinality(running) = MaxConcurrent
         /\ pending \in SetToSeqs(left)
  BY DEF Init
<1>2. /\ Cardinality(left) \in Nat
      /\ pending \in [1 .. Cardinality(left) -> left]
      /\ \A i, j \in 1 .. Cardinality(left) : i # j => pending[i] # pending[j]
  BY <1>1, RunningFinite DEF SetToSeqs
<1>3. Len(pending) = Cardinality(left)
  BY <1>2, LenProperties, SeqDef
<1>4. left = {} => pending = <<>>
  <2> SUFFICES ASSUME left = {} PROVE pending = <<>>
    OBVIOUS
  <2>1. Cardinality(left) = 0
    BY FS_EmptySet
  <2>2. pending \in Seq(Path) /\ Len(pending) = 0
    BY <1>3, <2>1, DrainTypedInit DEF DrainTyped
  <2> QED
    BY <2>2, EmptySeq
<1> QED
  BY <1>1, <1>2, <1>3, <1>4 DEF Init, Places

LEMMA PlacesStep == DrainTyped /\ Places /\ [Next]_vars => Places'
<1> SUFFICES ASSUME DrainTyped, Places, [Next]_vars PROVE Places'
  OBVIOUS
<1>0. Cardinality(running) \in Nat /\ IsFiniteSet(running) /\ Len(pending) \in Nat
  BY RunningFinite, LenProperties DEF DrainTyped
<1>1. CASE /\ UNCHANGED <<running, pending>> /\ at # "count" /\ at' # "count"
  BY <1>1 DEF Places
<1>2. ASSUME NEW p \in Path, NEW o \in Outcome, PathEnds(p, o) PROVE Places'
  <2>1. /\ at = "next" /\ at' = "count" /\ p \in running /\ running' = running \ {p}
        /\ pending' = pending /\ current'.path = p
    BY <1>2 DEF PathEnds
  <2>2. Cardinality(running') = Cardinality(running) - 1
    BY <1>0, <2>1, FS_RemoveElement
  <2> QED
    BY <1>0, <2>1, <2>2 DEF Places
<1>3. CASE CountAndRefill
  <2>1. at = "count" /\ at' = "next" /\ current' = current
    BY <1>3 DEF CountAndRefill
  <2>2. CASE pending = <<>> /\ UNCHANGED <<running, pending>>
    BY <2>1, <2>2 DEF Places
  <2>3. CASE pending # <<>> /\ running' = running \cup {Head(pending)}
             /\ pending' = Tail(pending)
    <3>1. /\ Len(pending) > 0 /\ Head(pending) = pending[1]
          /\ Len(pending') = Len(pending) - 1
          /\ \A i \in 1 .. Len(pending') : pending'[i] = pending[i + 1]
      BY <2>3, HeadTailProperties, EmptySeq DEF DrainTyped
    <3>2. \A i \in 1 .. Len(pending') : i + 1 \in 1 .. Len(pending) /\ i + 1 # 1
      BY <1>0, <3>1
    <3>3. 1 \in 1 .. Len(pending) /\ Head(pending) \notin running
      BY <1>0, <3>1 DEF Places
    <3>4. Cardinality(running') = Cardinality(running) + 1
      BY <1>0, <2>3, <3>3, FS_AddElement
    <3>5. Cardinality(running') = MaxConcurrent
      BY <1>0, <2>1, <2>3, <3>4, DrainAssumption DEF Places
    <3>6. \A i \in 1 .. Len(pending') : pending'[i] \notin running'
      BY <2>3, <3>1, <3>2, <3>3 DEF Places
    <3>7. ASSUME NEW i \in 1 .. Len(pending'), NEW j \in 1 .. Len(pending'), i # j
          PROVE  pending'[i] # pending'[j]
      <4>1. i + 1 # j + 1
        BY <1>0, <3>1, <3>7
      <4> QED
        BY <3>1, <3>2, <4>1 DEF Places
    <3> QED
      BY <2>1, <3>5, <3>6, <3>7 DEF Places
  <2> QED
    BY <1>3, <2>2, <2>3 DEF CountAndRefill, Refill
<1>4. CASE Announce \/ ReportFinal \/ Return
  BY <1>1, <1>4 DEF Announce, ReportFinal, Return
<1>5. CASE \/ WriteSome \/ WriteFails \/ WriteErrs \/ Die \/ Read \/ CopyOut \/ ReadEof
           \/ Leave \/ Over \/ UNCHANGED vars
  BY <1>5 DEF WriteSome, WriteFails, WriteErrs, DropLine, Die, Read, CopyOut, ReadEof,
              Leave, Over, vars, drain, Places
<1> QED
  BY <1>2, <1>3, <1>4, <1>5 DEF Next, Drain, HandlerEnds, StopCommand

-----------------------------------------------------------------------------
(***************************************************************************)
(* What the last line is.  The path that is being reported has its line,   *)
(* and the final report is the last, written when no path is left.         *)
(***************************************************************************)
Lines ==
    /\ at = "announce" => out = <<>> /\ Handled = before
    /\ at = "count" => out # <<>> /\ Last(out) = current
    /\ at \in {"final", "done"} =>
          /\ running = {} /\ pending = <<>>
          /\ out # <<>> /\ Last(out) = [type |-> "final", report |-> report]

\* Nothing waits when nothing runs.
LEMMA NothingLeft ==
    ASSUME DrainTyped, Places, at # "count", running = {}
    PROVE  pending = <<>>
<1>1. Cardinality(running) = 0
  BY FS_EmptySet
<1> QED
  BY <1>1, DrainAssumption DEF Places

LEMMA LinesStep == DrainTyped /\ Places /\ Lines /\ [Next]_vars => Lines'
<1> SUFFICES ASSUME DrainTyped, Places, Lines, [Next]_vars PROVE Lines'
  OBVIOUS
<1>1. CASE Announce
  BY <1>1 DEF Announce, Lines
<1>2. ASSUME NEW p \in Path, NEW o \in Outcome, PathEnds(p, o) PROVE Lines'
  <2>1. [type |-> o, path |-> p] \in Line
    BY WrittenLines
  <2>2. out' # <<>> /\ Last(out') = current' /\ at' = "count"
    BY <1>2, <2>1, AppendFacts DEF PathEnds, WriteLine, DrainTyped
  <2> QED
    BY <2>2 DEF Lines
<1>3. CASE CountAndRefill
  BY <1>3 DEF CountAndRefill, Lines
<1>4. CASE ReportFinal
  <2>1. [type |-> "final", report |-> report] \in Line
    BY WrittenLines
  <2>2. /\ out' # <<>> /\ at' = "final" /\ running' = {} /\ report' = report
        /\ Last(out') = [type |-> "final", report |-> report]
    BY <1>4, <2>1, AppendFacts DEF ReportFinal, WriteLine, DrainTyped
  <2>3. pending' = <<>>
    BY <1>4, NothingLeft DEF ReportFinal
  <2> QED
    BY <2>2, <2>3 DEF Lines
<1>5. CASE Return
  BY <1>5 DEF Return, Lines
<1>6. CASE \/ WriteSome \/ WriteFails \/ WriteErrs \/ Die \/ Read \/ CopyOut \/ ReadEof
           \/ Leave \/ Over \/ UNCHANGED vars
  BY <1>6 DEF WriteSome, WriteFails, WriteErrs, DropLine, Die, Read, CopyOut, ReadEof,
              Leave, Over, vars, drain, Lines, Handled
<1> QED
  BY <1>1, <1>2, <1>3, <1>4, <1>5, <1>6 DEF Next, Drain, HandlerEnds, StopCommand

-----------------------------------------------------------------------------
(***************************************************************************)
(* What was announced is what the report counts more than before and what  *)
(* is still to come, where the path that is being reported is neither; if  *)
(* nothing was announced, there is nothing to come.                        *)
(***************************************************************************)
ToHandle == Cardinality(running) + Len(pending)
Announced == out # <<>> /\ out[1].type = "left"

Accounted ==
    /\ Announced =>
          before + out[1].n = Handled + ToHandle + (IF at = "count" THEN 1 ELSE 0)
    /\ at # "announce" /\ ~Announced =>
          at # "count" /\ Handled = before /\ running = {} /\ pending = <<>>

LEMMA SumTypes ==
    ASSUME DrainTyped
    PROVE  /\ Handled \in Nat /\ Cardinality(running) \in Nat
           /\ Len(pending) \in Nat /\ ToHandle \in Nat /\ IsFiniteSet(running)
<1>1. Cardinality(running) \in Nat /\ Len(pending) \in Nat /\ IsFiniteSet(running)
  BY RunningFinite, LenProperties DEF DrainTyped
<1>2. report.pushed \in Nat /\ report.skipped \in Nat /\ Len(report.handlingErrors) \in Nat
  BY LenProperties DEF DrainTyped, Report
<1> QED
  BY <1>1, <1>2 DEF Handled, ToHandle

\* A line is added: only to no lines can it be the first.
LEMMA FirstLine ==
    ASSUME NEW S, NEW s \in Seq(S), NEW x \in S
    PROVE  /\ s # <<>> => Append(s, x)[1] = s[1]
           /\ s = <<>> => Append(s, x)[1] = x
<1>1. s # <<>> => Len(s) \in Nat \ {0}
  BY EmptySeq
<1>2. s # <<>> => 1 \in 1 .. Len(s)
  BY <1>1
<1> QED
  BY <1>2, AppendProperties, EmptySeq

LEMMA CountedSum ==
    ASSUME DrainTyped, CountAndRefill
    PROVE  Handled' = Handled + 1
<1>1. at = "count" /\ report' = Counted /\ current.path \in Path
  BY DEF CountAndRefill, DrainTyped, Ended
<1>2. /\ report.pushed \in Nat /\ report.skipped \in Nat
      /\ report.handlingErrors \in Seq(Path) /\ Len(report.handlingErrors) \in Nat
  BY LenProperties DEF DrainTyped, Report
<1>3. CASE report' = [report EXCEPT !.pushed = @ + 1]
  <2>1. /\ report'.pushed = report.pushed + 1 /\ report'.skipped = report.skipped
        /\ report'.handlingErrors = report.handlingErrors
    BY <1>3 DEF DrainTyped, Report
  <2> QED
    BY <1>2, <2>1 DEF Handled
<1>4. CASE report' = [report EXCEPT !.skipped = @ + 1]
  <2>1. /\ report'.pushed = report.pushed /\ report'.skipped = report.skipped + 1
        /\ report'.handlingErrors = report.handlingErrors
    BY <1>4 DEF DrainTyped, Report
  <2> QED
    BY <1>2, <2>1 DEF Handled
<1>5. CASE report' = [report EXCEPT !.handlingErrors = Append(@, current.path)]
  <2>1. /\ report'.pushed = report.pushed /\ report'.skipped = report.skipped
        /\ report'.handlingErrors = Append(report.handlingErrors, current.path)
    BY <1>5 DEF DrainTyped, Report
  <2>2. Len(report'.handlingErrors) = Len(report.handlingErrors) + 1
    BY <1>1, <1>2, <2>1, AppendProperties
  <2>3. Handled' = report.pushed + report.skipped + (Len(report.handlingErrors) + 1)
    BY <2>1, <2>2 DEF Handled
  <2>4. \A i, j, k \in Nat : i + j + (k + 1) = (i + j + k) + 1
    OBVIOUS
  <2> QED
    BY <1>2, <2>3, <2>4 DEF Handled
<1> QED
  BY <1>1, <1>3, <1>4, <1>5, CountedType

LEMMA AccountedStep ==
    DrainTyped /\ Places /\ Lines /\ Accounted /\ [Next]_vars => Accounted'
<1> SUFFICES ASSUME DrainTyped, Places, Lines, Accounted, [Next]_vars PROVE Accounted'
  OBVIOUS
<1>0. /\ Handled \in Nat /\ Cardinality(running) \in Nat
      /\ Len(pending) \in Nat /\ ToHandle \in Nat /\ IsFiniteSet(running)
  BY SumTypes
<1>1. CASE Announce
  <2>1. /\ at' = "next" /\ out = <<>> /\ Handled = before /\ before \in Nat
        /\ UNCHANGED <<running, pending, before>>
        /\ Handled' = Handled /\ ToHandle' = ToHandle
    BY <1>1 DEF Announce, Lines, Handled, ToHandle, DrainTyped
  <2>2. CASE ToHandle = 0 /\ out' = out
    <3>1. Cardinality(running) = 0 /\ Len(pending) = 0
      BY <1>0, <2>2 DEF ToHandle
    <3>2. running = {} /\ pending = <<>>
      BY <1>0, <3>1, FS_EmptySet, EmptySeq DEF DrainTyped
    <3> QED
      BY <2>1, <2>2, <3>2 DEF Accounted, Announced
  <2>3. CASE out' = Append(out, [type |-> "left", n |-> ToHandle])
    <3>1. [type |-> "left", n |-> ToHandle] \in Line
      BY <1>0 DEF Line
    <3>2. out'[1] = [type |-> "left", n |-> ToHandle]
      BY <2>1, <2>3, <3>1, FirstLine DEF DrainTyped
    <3> QED
      BY <1>0, <2>1, <2>3, <3>1, <3>2, AppendProperties DEF Accounted, Announced, DrainTyped
  <2> QED
    BY <1>1, <2>2, <2>3 DEF Announce, WriteLine, ToHandle
<1>2. ASSUME NEW p \in Path, NEW o \in Outcome, PathEnds(p, o) PROVE Accounted'
  <2>1. /\ at = "next" /\ at' = "count" /\ p \in running /\ running' = running \ {p}
        /\ UNCHANGED <<pending, report, before>>
        /\ out' = Append(out, [type |-> o, path |-> p])
    BY <1>2 DEF PathEnds, WriteLine
  <2>2. Cardinality(running') = Cardinality(running) - 1
    BY <1>0, <2>1, FS_RemoveElement
  <2>3. Handled' = Handled /\ ToHandle' = ToHandle - 1
    BY <1>0, <2>1, <2>2 DEF Handled, ToHandle
  <2>4. [type |-> o, path |-> p] \in Line /\ [type |-> o, path |-> p].type # "left"
    BY WrittenLines DEF Outcome
  <2>5. Announced
    BY <2>1 DEF Accounted
  <2>6. Announced' /\ out'[1] = out[1]
    BY <2>1, <2>4, <2>5, FirstLine, AppendProperties DEF Announced, DrainTyped
  <2> QED
    BY <1>0, <2>1, <2>3, <2>5, <2>6 DEF Accounted
<1>3. CASE CountAndRefill
  <2>1. /\ at = "count" /\ at' = "next" /\ Handled' = Handled + 1
        /\ UNCHANGED <<out, before>> /\ Announced
    BY <1>3, CountedSum DEF CountAndRefill, Accounted
  <2>2. CASE pending = <<>> /\ UNCHANGED <<running, pending>>
    BY <1>0, <2>1, <2>2 DEF Accounted, Announced, ToHandle
  <2>3. CASE pending # <<>> /\ running' = running \cup {Head(pending)}
             /\ pending' = Tail(pending)
    <3>1. Len(pending) \in Nat \ {0} /\ Head(pending) = pending[1]
          /\ Len(pending') = Len(pending) - 1
      BY <2>3, HeadTailProperties, EmptySeq DEF DrainTyped
    <3>2. 1 \in 1 .. Len(pending) /\ Head(pending) \notin running
      BY <3>1 DEF Places
    <3>3. Cardinality(running') = Cardinality(running) + 1
      BY <1>0, <2>3, <3>2, FS_AddElement
    <3>4. ToHandle' = ToHandle
      BY <1>0, <3>1, <3>3 DEF ToHandle
    <3> QED
      BY <1>0, <2>1, <3>4 DEF Accounted, Announced
  <2> QED
    BY <1>3, <2>2, <2>3 DEF CountAndRefill, Refill
<1>4. CASE ReportFinal
  <2>1. /\ at = "next" /\ at' = "final" /\ Handled' = Handled /\ ToHandle' = ToHandle
        /\ out' = Append(out, [type |-> "final", report |-> report])
        /\ UNCHANGED <<running, pending, before>>
    BY <1>4 DEF ReportFinal, WriteLine, Handled, ToHandle
  <2>2. (Announced' <=> Announced) /\ (Announced => out'[1] = out[1])
    BY <2>1, WrittenLines, FirstLine, AppendProperties DEF Announced, DrainTyped
  <2> QED
    BY <1>0, <2>1, <2>2 DEF Accounted
<1>5. CASE Return
  BY <1>5 DEF Return, Accounted, Announced, Handled, ToHandle
<1>6. CASE \/ WriteSome \/ WriteFails \/ WriteErrs \/ Die \/ Read \/ CopyOut \/ ReadEof
           \/ Leave \/ Over \/ UNCHANGED vars
  BY <1>6 DEF WriteSome, WriteFails, WriteErrs, DropLine, Die, Read, CopyOut, ReadEof,
              Leave, Over, vars, drain, Accounted, Announced, Handled, ToHandle
<1> QED
  BY <1>1, <1>2, <1>3, <1>4, <1>5, <1>6 DEF Next, Drain, HandlerEnds, StopCommand

-----------------------------------------------------------------------------
(***************************************************************************)
(* Streams of pieces.                                                      *)
(***************************************************************************)
Piece == Nat \X (1 .. Chunks)

\* The piece after which a stream goes on.
End(s) == Before(s, Len(s) + 1)

LEMMA PiecesType ==
    ASSUME NEW n \in Nat
    PROVE  /\ Pieces(n) \in Seq(Piece) /\ Len(Pieces(n)) = Chunks
           /\ \A i \in 1 .. Chunks : Pieces(n)[i] = <<n, i>>
<1>1. Pieces(n) \in [1 .. Chunks -> Piece] /\ Chunks \in Nat
  BY DrainAssumption DEF Pieces, Piece
<1>2. Pieces(n) \in Seq(Piece) /\ DOMAIN Pieces(n) = 1 .. Chunks
  BY <1>1, SeqDef
<1>3. Len(Pieces(n)) = Chunks
  BY <1>1, <1>2, LenProperties
<1> QED
  BY <1>2, <1>3 DEF Pieces

\* What is in two streams, one after the other.
LEMMA Joined ==
    ASSUME NEW s \in Seq(Piece), NEW t \in Seq(Piece)
    PROVE  /\ Len(s) \in Nat /\ Len(t) \in Nat
           /\ s \o t \in Seq(Piece) /\ Len(s \o t) = Len(s) + Len(t)
           /\ \A k \in 1 .. Len(s) : (s \o t)[k] = s[k] /\ Before(s \o t, k) = Before(s, k)
           /\ \A k \in 1 .. Len(t) : /\ (s \o t)[Len(s) + k] = t[k]
                                     /\ Before(s \o t, Len(s) + k) =
                                           IF k = 1 THEN End(s) ELSE t[k - 1]
           /\ End(s \o t) = IF t = <<>> THEN End(s) ELSE t[Len(t)]
<1>1. /\ Len(s) \in Nat /\ Len(t) \in Nat
      /\ s \o t \in Seq(Piece) /\ Len(s \o t) = Len(s) + Len(t)
      /\ \A i \in 1 .. Len(s) + Len(t) :
            (s \o t)[i] = IF i <= Len(s) THEN s[i] ELSE t[i - Len(s)]
  BY LenProperties, ConcatProperties
<1>2. \A k \in 1 .. Len(s) : (s \o t)[k] = s[k]
  BY <1>1
<1>3. \A k \in 1 .. Len(s) : Before(s \o t, k) = Before(s, k)
  <2> SUFFICES ASSUME NEW k \in 1 .. Len(s) PROVE Before(s \o t, k) = Before(s, k)
    OBVIOUS
  <2>1. k # 1 => k - 1 \in 1 .. Len(s)
    BY <1>1
  <2> QED
    BY <1>2, <2>1 DEF Before
<1>4. ASSUME NEW k \in 1 .. Len(t)
      PROVE  (s \o t)[Len(s) + k] = t[k]
  <2>1. Len(s) + k \in 1 .. Len(s) + Len(t) /\ ~(Len(s) + k <= Len(s)) /\ (Len(s) + k) - Len(s) = k
    BY <1>1
  <2> QED
    BY <1>1, <2>1
<1>5. ASSUME NEW k \in 1 .. Len(t) + 1
      PROVE  Before(s \o t, Len(s) + k) = IF k = 1 THEN End(s) ELSE t[k - 1]
  <2>1. CASE k = 1
    <3>1. Len(s) # 0 => Len(s) \in 1 .. Len(s) /\ (Len(s) + 1) - 1 = Len(s) /\ Len(s) + 1 # 1
      BY <1>1
    <3>2. Len(s) # 0 => (s \o t)[Len(s)] = s[Len(s)]
      BY <1>2, <3>1
    <3> QED
      BY <1>1, <2>1, <3>1, <3>2 DEF Before, End
  <2>2. CASE k # 1
    <3>1. k - 1 \in 1 .. Len(t) /\ Len(s) + k # 1 /\ (Len(s) + k) - 1 = Len(s) + (k - 1)
      BY <1>1, <2>2
    <3> QED
      BY <1>4, <2>2, <3>1 DEF Before
  <2> QED
    BY <2>1, <2>2
<1>6. End(s \o t) = IF t = <<>> THEN End(s) ELSE t[Len(t)]
  <2>1. End(s \o t) = Before(s \o t, Len(s) + (Len(t) + 1))
    <3>1. (Len(s) + Len(t)) + 1 = Len(s) + (Len(t) + 1)
      BY <1>1
    <3> QED
      BY <1>1, <3>1 DEF End
  <2>2. Len(t) + 1 \in 1 .. Len(t) + 1 /\ (Len(t) + 1) - 1 = Len(t)
    BY <1>1
  <2>3. t = <<>> <=> Len(t) + 1 = 1
    BY <1>1, EmptySeq
  <2> QED
    BY <1>5, <2>1, <2>2, <2>3
<1>7. \A k \in 1 .. Len(t) : k \in 1 .. Len(t) + 1
  BY <1>1
<1> QED
  BY <1>1, <1>2, <1>3, <1>4, <1>5, <1>6, <1>7

\* More failed writes excuse no less.
LEMMA MoreCut ==
    ASSUME NEW S, NEW T, S \subseteq T
    PROVE  /\ \A x, n : WholeTo(x, n, S) => WholeTo(x, n, T)
           /\ \A s : InOrder(s, S) => InOrder(s, T)
<1>1. \A x, n : WholeTo(x, n, S) => WholeTo(x, n, T)
  BY DEF WholeTo
<1>2. \A x, y : Follows(x, y, S) => Follows(x, y, T)
  BY <1>1 DEF Follows
<1> QED
  BY <1>1, <1>2 DEF InOrder

\* A beginning of a stream is in order, and what comes next follows its end.
LEMMA Beginning ==
    ASSUME NEW s \in Seq(Piece), NEW t \in Seq(Piece), NEW cut, InOrder(s \o t, cut)
    PROVE  InOrder(s, cut) /\ (t # <<>> => Follows(End(s), t[1], cut))
<1>1. ASSUME NEW k \in 1 .. Len(s) PROVE Follows(Before(s, k), s[k], cut)
  <2>1. k \in 1 .. Len(s \o t)
    BY Joined
  <2> QED
    BY <2>1, Joined DEF InOrder
<1>2. ASSUME t # <<>> PROVE Follows(End(s), t[1], cut)
  <2>1. Len(t) \in Nat \ {0}
    BY <1>2, EmptySeq
  <2>2. 1 \in 1 .. Len(t) /\ Len(s) + 1 \in 1 .. Len(s \o t)
    BY <2>1, Joined
  <2>3. (s \o t)[Len(s) + 1] = t[1] /\ Before(s \o t, Len(s) + 1) = End(s)
    BY <2>2, Joined
  <2> QED
    BY <2>2, <2>3 DEF InOrder
<1> QED
  BY <1>1, <1>2 DEF InOrder

\* A line is added to a stream that is whole to the line before it.
LEMMA LineAdded ==
    ASSUME NEW s \in Seq(Piece), NEW n \in Nat, NEW cut,
           InOrder(s, cut), WholeTo(End(s), n, cut), End(s)[1] \in Nat, End(s)[1] <= n
    PROVE  /\ InOrder(s \o Pieces(n + 1), cut)
           /\ End(s \o Pieces(n + 1)) = <<n + 1, Chunks>>
<1> DEFINE t == Pieces(n + 1)
<1>1. /\ n + 1 \in Nat /\ t \in Seq(Piece) /\ Len(t) = Chunks
      /\ \A i \in 1 .. Chunks : t[i] = <<n + 1, i>>
      /\ Chunks \in Nat \ {0}
  <2>1. n + 1 \in Nat
    OBVIOUS
  <2> QED
    BY <2>1, PiecesType, DrainAssumption
<1> HIDE DEF t
<1>2. /\ Len(s) \in Nat /\ Len(s \o t) = Len(s) + Chunks
      /\ \A k \in 1 .. Len(s) : (s \o t)[k] = s[k] /\ Before(s \o t, k) = Before(s, k)
      /\ \A k \in 1 .. Chunks : /\ (s \o t)[Len(s) + k] = t[k]
                                /\ Before(s \o t, Len(s) + k) =
                                      IF k = 1 THEN End(s) ELSE t[k - 1]
  BY <1>1, Joined
<1>3. Follows(End(s), <<n + 1, 1>>, cut)
  <2>1. End(s)[1] < n + 1 /\ (n + 1) - 1 = n
    OBVIOUS
  <2> QED
    BY <2>1 DEF Follows
<1>4. ASSUME NEW k \in 1 .. Chunks
      PROVE  Follows(Before(s \o t, Len(s) + k), (s \o t)[Len(s) + k], cut)
  <2>1. CASE k = 1
    BY <1>1, <1>2, <1>3, <2>1
  <2>2. CASE k # 1
    <3>1. k - 1 \in 1 .. Chunks /\ (k - 1) + 1 = k
      BY <1>1, <2>2
    <3>2. Before(s \o t, Len(s) + k) = <<n + 1, k - 1>> /\ (s \o t)[Len(s) + k] = <<n + 1, k>>
      BY <1>1, <1>2, <2>2, <3>1
    <3> QED
      BY <3>1, <3>2 DEF Follows
  <2> QED
    BY <2>1, <2>2
<1>5. ASSUME NEW k \in 1 .. Len(s \o t)
      PROVE  Follows(Before(s \o t, k), (s \o t)[k], cut)
  <2>1. CASE k <= Len(s)
    <3>1. k \in 1 .. Len(s)
      BY <1>2, <2>1
    <3> QED
      BY <1>2, <3>1 DEF InOrder
  <2>2. CASE ~(k <= Len(s))
    <3>1. k - Len(s) \in 1 .. Chunks /\ Len(s) + (k - Len(s)) = k
      BY <1>1, <1>2, <2>2
    <3> QED
      BY <1>4, <3>1
  <2> QED
    BY <2>1, <2>2
<1>6. End(s \o t) = <<n + 1, Chunks>>
  <2>1. t # <<>> /\ Chunks \in 1 .. Chunks
    BY <1>1, EmptySeq
  <2> QED
    BY <1>1, <2>1, Joined
<1> QED
  BY <1>5, <1>6 DEF InOrder, t

-----------------------------------------------------------------------------
(***************************************************************************)
(* The stream.  As long as the stop command runs, what is printed, what the*)
(* command holds, what the socket holds and what is still to be written of *)
(* the last line are, one after the other, in order, and miss nothing of   *)
(* the lines so far but what failed writes have dropped.                   *)
(***************************************************************************)
StreamTyped ==
    /\ unwritten \in Seq(Piece) /\ Len(unwritten) <= Chunks
    /\ \A i \in 1 .. Len(unwritten) : unwritten[i][1] = Len(out)
    /\ socket \in Seq(Piece) /\ Len(socket) <= Capacity
    /\ copying \in Seq(Piece)
    /\ printed \in Seq(Piece)
    /\ client \in {"running", "ok", "okUnprinted", "killed"}

Whole(s) == /\ End(s)[1] \in Nat /\ End(s)[1] <= Len(out)
            /\ WholeTo(End(s), Len(out), torn)

Flows == client = "running" =>
    LET all == printed \o (copying \o (socket \o unwritten))
    IN  InOrder(all, torn) /\ Whole(all)

AtTheEnd == /\ at = "done" => unwritten = <<>> /\ alive
            /\ client = "ok" /\ alive => at = "done" /\ Whole(printed)

Stream == StreamTyped /\ Flows /\ PrintedInOrder /\ AtTheEnd

\* A sequence is cut in two.
LEMMA Cut ==
    ASSUME NEW S, NEW s \in Seq(S), NEW n \in 1 .. Len(s)
    PROVE  /\ SubSeq(s, 1, n) \in Seq(S) /\ Len(SubSeq(s, 1, n)) = n
           /\ SubSeq(s, n + 1, Len(s)) \in Seq(S)
           /\ Len(SubSeq(s, n + 1, Len(s))) = Len(s) - n
           /\ SubSeq(s, 1, n) \o SubSeq(s, n + 1, Len(s)) = s
<1>1. Len(s) \in Nat /\ \A i \in 1 .. Len(s) : s[i] \in S
  BY LenProperties, ElementOfSeq
<1>2. n \in Int /\ n + 1 \in Int /\ Len(s) \in Int /\ 1 \in Int
  BY <1>1
<1>3. (\A i \in 1 .. n : s[i] \in S) /\ (\A i \in n + 1 .. Len(s) : s[i] \in S)
  BY <1>1
<1>4. SubSeq(s, 1, n) \in Seq(S) /\ Len(SubSeq(s, 1, n)) = n
  BY <1>1, <1>2, <1>3, SubSeqProperties
<1>5. /\ SubSeq(s, n + 1, Len(s)) \in Seq(S)
      /\ Len(SubSeq(s, n + 1, Len(s))) =
            IF n + 1 <= Len(s) THEN Len(s) - (n + 1) + 1 ELSE 0
  BY <1>2, <1>3, SubSeqProperties
<1>6. Len(SubSeq(s, n + 1, Len(s))) = Len(s) - n
  BY <1>1, <1>5
<1>7. SubSeq(s, 1, n) \o SubSeq(s, n + 1, Len(s)) = SubSeq(s, 1, Len(s))
  <2>1. 1 \in 1 .. Len(s) + 1 /\ n \in 1 - 1 .. Len(s) /\ Len(s) \in n .. Len(s)
    BY <1>1
  <2> QED
    BY <2>1, ConcatAdjacentSubSeq
<1> QED
  BY <1>4, <1>5, <1>6, <1>7, SubSeqFull

LEMMA PieceAssoc ==
    \A u, v, w \in Seq(Piece) : (u \o v) \o w = u \o (v \o w)
BY ConcatAssociative

\* What is added at the end of the stream comes after all that is before it.
LEMMA LastApart ==
    ASSUME StreamTyped
    PROVE  \A t \in Seq(Piece) :
              (printed \o (copying \o socket)) \o t = printed \o (copying \o (socket \o t))
<1>1. printed \in Seq(Piece) /\ copying \in Seq(Piece) /\ socket \in Seq(Piece)
  BY DEF StreamTyped
<1>2. copying \o socket \in Seq(Piece)
  BY <1>1, ConcatProperties
<1>3. SUFFICES ASSUME NEW t \in Seq(Piece)
               PROVE  (printed \o (copying \o socket)) \o t
                         = printed \o (copying \o (socket \o t))
  OBVIOUS
<1>4. (copying \o socket) \o t = copying \o (socket \o t)
  BY <1>1, PieceAssoc, Zenon
<1> DEFINE u == copying \o socket
<1>5. u \in Seq(Piece)
  BY <1>2
<1> HIDE DEF u
<1>6. (printed \o u) \o t = printed \o (u \o t)
  BY <1>1, <1>5, PieceAssoc, Zenon
<1> QED
  BY <1>4, <1>6, Zenon DEF u

LEMMA EndType ==
    ASSUME NEW s \in Seq(Piece)
    PROVE  End(s) \in Piece
<1>1. Len(s) \in Nat /\ Chunks \in Nat \ {0}
  BY LenProperties, DrainAssumption
<1>2. CASE Len(s) + 1 = 1
  BY <1>1, <1>2 DEF End, Before, Piece
<1>3. CASE Len(s) + 1 # 1
  <2>1. (Len(s) + 1) - 1 = Len(s) /\ Len(s) \in 1 .. Len(s)
    BY <1>1, <1>3
  <2> QED
    BY <1>3, <2>1, ElementOfSeq DEF End, Before
<1> QED
  BY <1>2, <1>3

\* A line is given to the reporter, when the one before it is written.
LEMMA StreamWrites ==
    ASSUME DrainTyped, Stream, unwritten = <<>>, at # "done", at' # "done",
           NEW line \in Line, WriteLine(line), UNCHANGED <<reader, alive>>
    PROVE  Stream'
<1> DEFINE n == Len(out)
           all == printed \o (copying \o (socket \o unwritten))
<1>1. n \in Nat /\ Len(out') = n + 1 /\ torn' = torn /\ unwritten' = Pieces(n + 1)
  BY AppendProperties, LenProperties DEF DrainTyped, WriteLine
<1>2. /\ Pieces(n + 1) \in Seq(Piece) /\ Len(Pieces(n + 1)) = Chunks
      /\ \A i \in 1 .. Chunks : Pieces(n + 1)[i] = <<n + 1, i>>
      /\ Chunks \in Nat \ {0}
  <2>1. n + 1 \in Nat
    BY <1>1
  <2> QED
    BY <2>1, PiecesType, DrainAssumption
<1>3. UNCHANGED <<socket, copying, printed, client, alive>>
  BY DEF reader
<1> HIDE DEF n
<1>4. StreamTyped'
  BY <1>1, <1>2, <1>3 DEF Stream, StreamTyped
<1>5. PrintedInOrder'
  BY <1>1, <1>3 DEF Stream, PrintedInOrder
<1>6. AtTheEnd'
  BY <1>3 DEF Stream, AtTheEnd
<1>7. ASSUME client = "running" PROVE Flows'
  <2>1. /\ printed \in Seq(Piece) /\ copying \in Seq(Piece) /\ socket \in Seq(Piece)
        /\ unwritten \in Seq(Piece)
    BY DEF Stream, StreamTyped
  <2>2. /\ socket \o unwritten = socket /\ copying \o socket \in Seq(Piece)
        /\ all = printed \o (copying \o socket) /\ all \in Seq(Piece)
    BY <2>1, ConcatEmptySeq, ConcatProperties
  <2>3. InOrder(all, torn) /\ Whole(all)
    BY <1>7 DEF Stream, Flows
  <2> HIDE DEF all
  <2>4. /\ InOrder(all \o Pieces(n + 1), torn)
        /\ End(all \o Pieces(n + 1)) = <<n + 1, Chunks>>
    BY <1>1, <2>2, <2>3, LineAdded DEF Whole, n
  <2>5. printed \o (copying \o (socket \o Pieces(n + 1))) = all \o Pieces(n + 1)
    <3> DEFINE t == Pieces(n + 1)
    <3>1. t \in Seq(Piece)
      BY <1>2
    <3> HIDE DEF t
    <3>2. (printed \o (copying \o socket)) \o t = printed \o (copying \o (socket \o t))
      <4>1. StreamTyped
        BY DEF Stream
      <4> QED
        BY <3>1, <4>1, LastApart, Zenon
    <3> QED
      BY <2>2, <3>2, Zenon DEF t
  <2>6. WholeTo(<<n + 1, Chunks>>, n + 1, torn)
    BY <1>1 DEF WholeTo
  <2>7. /\ printed' \o (copying' \o (socket' \o unwritten')) = all \o Pieces(n + 1)
        /\ n + 1 \in Nat /\ n + 1 <= n + 1
    BY <1>1, <1>3, <2>5
  <2> HIDE DEF n
  <2>8. InOrder(all \o Pieces(n + 1), torn') /\ End(all \o Pieces(n + 1))[1] = n + 1
    BY <1>1, <2>4
  <2>9. WholeTo(End(all \o Pieces(n + 1)), Len(out'), torn')
    BY <1>1, <2>4, <2>6
  <2> QED
    BY <1>1, <2>7, <2>8, <2>9 DEF Flows, Whole
<1>8. CASE client # "running"
  BY <1>3, <1>4, <1>5, <1>6, <1>8 DEF Stream, Flows
<1> QED
  BY <1>4, <1>5, <1>6, <1>7, <1>8 DEF Stream

\* Pieces move on, or the stop command leaves.
LEMMA StreamPasses ==
    ASSUME Stream, StreamTyped', AtTheEnd', PrintedInOrder', UNCHANGED <<out, torn>>,
           client' = "running" =>
              /\ client = "running"
              /\ printed' \o (copying' \o (socket' \o unwritten'))
                    = printed \o (copying \o (socket \o unwritten))
    PROVE  Stream'
BY DEF Stream, Flows, Whole

\* The rest of a line is dropped.
LEMMA StreamBreaks ==
    ASSUME DrainTyped, Stream, DropLine
    PROVE  Stream'
<1> DEFINE s == printed \o (copying \o socket)
<1>1. /\ unwritten # <<>> /\ unwritten' = <<>> /\ torn' = torn \cup {Len(out)}
      /\ UNCHANGED <<at, out, socket, copying, printed, client, alive>>
  BY DEF DropLine, drain, reader
<1>2. /\ printed \in Seq(Piece) /\ copying \in Seq(Piece) /\ socket \in Seq(Piece)
      /\ unwritten \in Seq(Piece) /\ <<>> \in Seq(Piece) /\ Len(<<>>) = 0
  BY EmptySeq DEF Stream, StreamTyped
<1>3. StreamTyped'
  BY <1>1, <1>2, DrainAssumption DEF Stream, StreamTyped
<1>4. PrintedInOrder'
  BY <1>1, MoreCut DEF Stream, PrintedInOrder
<1>5. AtTheEnd'
  BY <1>1 DEF Stream, AtTheEnd
<1>6. ASSUME client = "running" PROVE Flows'
  <2>1. /\ copying \o socket \in Seq(Piece) /\ s \in Seq(Piece) /\ socket \o unwritten \in Seq(Piece)
        /\ socket \o <<>> = socket
    BY <1>2, ConcatProperties, ConcatEmptySeq
  <2>2. printed \o (copying \o (socket \o unwritten)) = s \o unwritten
    <3>1. StreamTyped
      BY DEF Stream
    <3> QED
      BY <1>2, <3>1, LastApart, Zenon
  <2>3. InOrder(s \o unwritten, torn)
    BY <1>6, <2>2 DEF Stream, Flows
  <2> HIDE DEF s
  <2>4. InOrder(s, torn) /\ Follows(End(s), unwritten[1], torn)
    BY <1>1, <1>2, <2>1, <2>3, Beginning
  <2>5. InOrder(s, torn')
    BY <1>1, <2>4, MoreCut
  <2>6. unwritten[1] \in Piece /\ unwritten[1][1] = Len(out) /\ Len(out) \in Nat
    <3>1. Len(unwritten) \in Nat \ {0}
      BY <1>1, <1>2, EmptySeq
    <3>2. 1 \in 1 .. Len(unwritten)
      BY <3>1
    <3> QED
      BY <1>2, <3>2, ElementOfSeq, LenProperties DEF Stream, StreamTyped, DrainTyped
  <2>7. End(s) \in Piece /\ End(s)[1] \in Nat
    BY <2>1, EndType DEF Piece
  <2>8. /\ End(s)[1] <= Len(out) /\ WholeTo(End(s), Len(out), torn')
    <3>1. CASE unwritten[1] = <<End(s)[1], End(s)[2] + 1>>
      BY <1>1, <2>6, <2>7, <3>1 DEF WholeTo
    <3>2. CASE End(s)[1] < unwritten[1][1] /\ WholeTo(End(s), unwritten[1][1] - 1, torn)
      <4>1. \A l \in End(s)[1] .. Len(out) : l \in End(s)[1] .. Len(out) - 1 \/ l = Len(out)
        BY <2>6, <2>7
      <4> QED
        BY <1>1, <2>6, <2>7, <3>2, <4>1 DEF WholeTo
    <3> QED
      BY <2>4, <3>1, <3>2 DEF Follows
  <2>9. printed' \o (copying' \o (socket' \o unwritten')) = s
    BY <1>1, <2>1 DEF s
  <2> QED
    BY <1>1, <2>5, <2>7, <2>8, <2>9 DEF Flows, Whole
<1>7. ASSUME client # "running" PROVE Flows'
  BY <1>1, <1>7 DEF Flows
<1> QED
  BY <1>3, <1>4, <1>5, <1>6, <1>7 DEF Stream

LEMMA StreamStep == DrainTyped /\ Lines /\ Stream /\ [Next]_vars => Stream'
<1> SUFFICES ASSUME DrainTyped, Lines, Stream, [Next]_vars PROVE Stream'
  OBVIOUS
<1>0. /\ unwritten \in Seq(Piece) /\ Len(unwritten) \in Nat /\ Len(unwritten) <= Chunks
      /\ socket \in Seq(Piece) /\ Len(socket) \in Nat /\ Len(socket) <= Capacity
      /\ copying \in Seq(Piece) /\ printed \in Seq(Piece)
      /\ Chunks \in Nat /\ Capacity \in Nat
      /\ <<>> \in Seq(Piece) /\ Len(<<>>) = 0
  BY LenProperties, EmptySeq, DrainAssumption DEF Stream, StreamTyped
<1>1. CASE Announce
  <2>1. CASE UNCHANGED <<out, unwritten, torn>>
    BY <1>1, <2>1 DEF Announce, reader, Stream, StreamTyped, Flows, Whole, PrintedInOrder,
                      AtTheEnd
  <2>2. CASE WriteLine([type |-> "left", n |-> Cardinality(running) + Len(pending)])
    <3>1. [type |-> "left", n |-> Cardinality(running) + Len(pending)] \in Line
      BY RunningFinite, LenProperties DEF DrainTyped, Line
    <3>2. /\ unwritten = <<>> /\ at' # "done" /\ at # "done" /\ UNCHANGED <<reader, alive>>
      BY <1>1 DEF Announce
    <3> QED
      BY <2>2, <3>1, <3>2, StreamWrites
  <2> QED
    BY <1>1, <2>1, <2>2 DEF Announce
<1>2. ASSUME NEW p \in Path, NEW o \in Outcome, PathEnds(p, o) PROVE Stream'
  <2>1. [type |-> o, path |-> p] \in Line
    BY WrittenLines
  <2>2. /\ unwritten = <<>> /\ at' # "done" /\ at # "done" /\ UNCHANGED <<reader, alive>>
        /\ WriteLine([type |-> o, path |-> p])
    BY <1>2 DEF PathEnds
  <2> QED
    BY <2>1, <2>2, StreamWrites
<1>3. CASE CountAndRefill \/ (alive /\ Return)
  <2>1. /\ UNCHANGED <<out, unwritten, torn, socket, copying, printed, client, alive>>
        /\ at # "done" /\ (at' = "done" => unwritten = <<>> /\ alive)
    BY <1>3 DEF CountAndRefill, Return, stream, reader
  <2>2. AtTheEnd' /\ StreamTyped' /\ PrintedInOrder'
    BY <2>1 DEF Stream, AtTheEnd, StreamTyped, PrintedInOrder
  <2> QED
    BY <2>1, <2>2, StreamPasses
<1>4. CASE ReportFinal
  <2>1. /\ unwritten = <<>> /\ at' # "done" /\ at # "done" /\ UNCHANGED <<reader, alive>>
        /\ WriteLine([type |-> "final", report |-> report])
    BY <1>4 DEF ReportFinal
  <2>2. [type |-> "final", report |-> report] \in Line
    BY WrittenLines
  <2> QED
    BY <2>1, <2>2, StreamWrites
<1>5. CASE WriteFails \/ WriteErrs
  BY <1>5, StreamBreaks DEF WriteFails, WriteErrs
<1>6. CASE WriteSome
  <2>1. PICK n \in 1 .. Len(unwritten) :
           /\ Len(socket) + n <= Capacity
           /\ socket' = socket \o SubSeq(unwritten, 1, n)
           /\ unwritten' = SubSeq(unwritten, n + 1, Len(unwritten))
    BY <1>6 DEF WriteSome
  <2>2. /\ unwritten # <<>> /\ client = "running"
        /\ UNCHANGED <<at, out, torn, copying, printed, client, alive>>
    BY <1>6 DEF WriteSome, drain
  <2>3. /\ SubSeq(unwritten, 1, n) \in Seq(Piece) /\ Len(SubSeq(unwritten, 1, n)) = n
        /\ unwritten' \in Seq(Piece) /\ Len(unwritten') = Len(unwritten) - n
        /\ SubSeq(unwritten, 1, n) \o unwritten' = unwritten
    BY <1>0, <2>1, Cut
  <2>4. socket' \in Seq(Piece) /\ Len(socket') = Len(socket) + n
    BY <1>0, <2>1, <2>3, ConcatProperties
  <2>5. Len(socket') <= Capacity /\ Len(unwritten') <= Chunks
    BY <1>0, <2>1, <2>3, <2>4
  <2>6. \A i \in 1 .. Len(unwritten') : unwritten'[i][1] = Len(out)
    <3>1. ASSUME NEW i \in 1 .. Len(unwritten')
          PROVE  unwritten'[i] = unwritten[n + i] /\ n + i \in 1 .. Len(unwritten)
      <4>1. n + i \in 1 .. Len(unwritten) /\ ~(n + i <= n) /\ (n + i) - n = i
        BY <1>0, <2>3
      <4>2. (SubSeq(unwritten, 1, n) \o unwritten')[n + i] = unwritten'[i]
        BY <1>0, <2>3, <4>1, ConcatProperties
      <4> QED
        BY <2>3, <4>1, <4>2
    <3> QED
      BY <3>1 DEF Stream, StreamTyped
  <2>7. StreamTyped'
    BY <2>2, <2>3, <2>4, <2>5, <2>6 DEF Stream, StreamTyped
  <2>8. socket' \o unwritten' = socket \o unwritten
    <3>1. (socket \o SubSeq(unwritten, 1, n)) \o unwritten' =
              socket \o (SubSeq(unwritten, 1, n) \o unwritten')
      <4>1. /\ socket \in Seq(Piece) /\ SubSeq(unwritten, 1, n) \in Seq(Piece)
            /\ unwritten' \in Seq(Piece)
        BY <1>0, <2>3
      <4> QED
        BY <4>1, PieceAssoc
    <3> QED
      BY <2>1, <2>3, <3>1
  <2>9. AtTheEnd' /\ PrintedInOrder'
    BY <2>2 DEF Stream, AtTheEnd, PrintedInOrder
  <2> QED
    BY <2>2, <2>7, <2>8, <2>9, StreamPasses
<1>7. CASE Die
  <2>1. /\ at # "done" /\ ~alive'
        /\ UNCHANGED <<at, out, unwritten, torn, socket, copying, printed, client>>
    BY <1>7 DEF Die, drain, reader
  <2>2. AtTheEnd' /\ StreamTyped' /\ PrintedInOrder'
    BY <2>1 DEF Stream, AtTheEnd, StreamTyped, PrintedInOrder
  <2> QED
    BY <2>1, <2>2, StreamPasses
<1>8. CASE Read
  <2>1. PICK n \in 1 .. Len(socket) :
           /\ copying' = SubSeq(socket, 1, n)
           /\ socket' = SubSeq(socket, n + 1, Len(socket))
    BY <1>8 DEF Read
  <2>2. /\ client = "running" /\ copying = <<>>
        /\ UNCHANGED <<at, out, unwritten, torn, printed, client, alive>>
    BY <1>8 DEF Read, drain
  <2>3. /\ copying' \in Seq(Piece) /\ socket' \in Seq(Piece)
        /\ Len(socket') = Len(socket) - n /\ copying' \o socket' = socket
    BY <1>0, <2>1, Cut
  <2>4. Len(socket') <= Capacity
    BY <1>0, <2>1, <2>3
  <2>5. StreamTyped'
    BY <2>2, <2>3, <2>4 DEF Stream, StreamTyped
  <2>6. copying' \o (socket' \o unwritten') = socket \o unwritten
    <3>1. (copying' \o socket') \o unwritten = copying' \o (socket' \o unwritten)
      <4>1. copying' \in Seq(Piece) /\ socket' \in Seq(Piece) /\ unwritten \in Seq(Piece)
        BY <1>0, <2>3
      <4> QED
        BY <4>1, PieceAssoc
    <3> QED
      BY <2>2, <2>3, <3>1
  <2>7. socket \o unwritten \in Seq(Piece)
    BY <1>0, ConcatProperties
  <2>8. copying' \o (socket' \o unwritten') = copying \o (socket \o unwritten)
    BY <2>2, <2>6, <2>7, ConcatEmptySeq
  <2>9. AtTheEnd' /\ PrintedInOrder'
    BY <2>2 DEF Stream, AtTheEnd, PrintedInOrder
  <2> QED
    BY <2>2, <2>5, <2>8, <2>9, StreamPasses
<1>9. CASE CopyOut
  <2>1. /\ client = "running" /\ printed' = printed \o copying /\ copying' = <<>>
        /\ UNCHANGED <<at, out, unwritten, torn, socket, client, alive>>
    BY <1>9 DEF CopyOut, drain
  <2>2. StreamTyped'
    BY <1>0, <2>1, ConcatProperties DEF Stream, StreamTyped
  <2>3. socket \o unwritten \in Seq(Piece) /\ printed \o copying \in Seq(Piece)
    BY <1>0, ConcatProperties
  <2>4. (printed \o copying) \o (socket \o unwritten) =
            printed \o (copying \o (socket \o unwritten))
    BY <1>0, <2>3, PieceAssoc, Zenon
  <2>5. <<>> \o (socket \o unwritten) = socket \o unwritten
    BY <2>3, ConcatEmptySeq
  <2>6. InOrder((printed \o copying) \o (socket \o unwritten), torn)
    BY <2>1, <2>4 DEF Stream, Flows
  <2>7. PrintedInOrder'
    BY <2>1, <2>3, <2>6, Beginning DEF PrintedInOrder
  <2>8. AtTheEnd'
    BY <2>1 DEF Stream, AtTheEnd
  <2> QED
    BY <2>1, <2>2, <2>4, <2>5, <2>7, <2>8, StreamPasses
<1>10. CASE ReadEof
  <2>1. /\ client = "running" /\ client' = "ok" /\ copying = <<>>
        /\ at = "done" \/ ~alive
        /\ socket = <<>>
        /\ UNCHANGED <<at, out, unwritten, torn, socket, copying, printed, alive>>
    BY <1>10 DEF ReadEof, drain, Closed
  <2>2. StreamTyped' /\ PrintedInOrder'
    BY <2>1 DEF Stream, StreamTyped, PrintedInOrder
  <2>3. ASSUME alive PROVE at = "done" /\ unwritten = <<>> /\ Whole(printed)
    <3>1. at = "done" /\ unwritten = <<>>
      BY <2>1, <2>3 DEF Stream, AtTheEnd
    <3>2. printed \o (<<>> \o (<<>> \o <<>>)) = printed
      BY <1>0, ConcatEmptySeq
    <3> QED
      BY <2>1, <3>1, <3>2 DEF Stream, Flows
  <2>4. AtTheEnd'
    BY <2>1, <2>3 DEF Stream, AtTheEnd, Whole
  <2> QED
    BY <2>1, <2>2, <2>4, StreamPasses
<1>11. CASE Leave
  <2>1. /\ client = "running" /\ client' \in {"killed", "okUnprinted"}
        /\ UNCHANGED <<at, out, unwritten, torn, socket, copying, printed, alive>>
    BY <1>11 DEF Leave, drain
  <2>2. AtTheEnd' /\ StreamTyped' /\ PrintedInOrder'
    BY <2>1 DEF Stream, AtTheEnd, StreamTyped, PrintedInOrder
  <2> QED
    BY <2>1, <2>2, StreamPasses
<1>12. CASE Over \/ UNCHANGED vars
  <2>1. UNCHANGED <<at, out, unwritten, torn, socket, copying, printed, client, alive>>
    BY <1>12 DEF Over, vars, drain, stream, reader
  <2> QED
    BY <2>1 DEF Stream, StreamTyped, Flows, Whole, PrintedInOrder, AtTheEnd
<1> QED
  BY <1>1, <1>2, <1>3, <1>4, <1>5, <1>6, <1>7, <1>8, <1>9, <1>10, <1>11, <1>12
  DEF Next, Drain, HandlerEnds, StopCommand

-----------------------------------------------------------------------------
(***************************************************************************)
(* The inductive invariant and what follows from it.                       *)
(***************************************************************************)
Inv == DrainTyped /\ Places /\ Lines /\ Accounted /\ Stream

LEMMA InvInit == Init => Inv
<1> SUFFICES ASSUME Init PROVE Inv
  OBVIOUS
<1>1. DrainTyped /\ Places
  BY DrainTypedInit, PlacesInit
<1>2. Lines /\ Accounted
  BY DEF Init, Lines, Accounted, Announced
<1>3. <<>> \in Seq(Piece) /\ Len(<<>>) = 0
  BY EmptySeq
<1>4. <<>> \o <<>> = <<>>
  BY <1>3, ConcatEmptySeq
<1>5. InOrder(<<>>, {}) /\ End(<<>>) = <<0, Chunks>> /\ Len(out) = 0
  BY <1>3 DEF InOrder, End, Before, Init
<1>6. WholeTo(<<0, Chunks>>, 0, {})
  BY DEF WholeTo
<1>7. Flows /\ PrintedInOrder
  BY <1>4, <1>5, <1>6 DEF Init, Flows, Whole, PrintedInOrder
<1>8. StreamTyped /\ AtTheEnd
  BY <1>3, DrainAssumption DEF Init, StreamTyped, AtTheEnd
<1> QED
  BY <1>1, <1>2, <1>7, <1>8 DEF Inv, Stream

\* Inv is an invariant.
THEOREM InvCorrect == Spec => []Inv
<1>1. Inv /\ [Next]_vars => Inv'
  BY DrainTypedStep, PlacesStep, LinesStep, AccountedStep, StreamStep DEF Inv
<1> QED
  BY <1>1, InvInit, PTL DEF Spec

(***************************************************************************)
(* The path that is being reported has left its slot and waits nowhere, and*)
(* the socket never holds more than it can.                                *)
(***************************************************************************)
THEOREM TypeCorrect == Spec => []TypeOK
<1>1. ASSUME Inv PROVE TypeOK
  <2>1. at = "count" => current.path \notin running \cup ToSet(pending)
    <3>1. DOMAIN pending = 1 .. Len(pending)
      BY <1>1, LenProperties DEF Inv, DrainTyped
    <3> QED
      BY <1>1, <3>1 DEF Inv, Places, ToSet
  <2> QED
    BY <1>1, <2>1 DEF Inv, DrainTyped, Stream, StreamTyped, TypeOK
<1> QED
  BY <1>1, InvCorrect, PTL

(***************************************************************************)
(* What the stop command prints is what was reported, in order, but the    *)
(* rest of lines whose write has failed, for every way of cutting lines    *)
(* into writes and reads, whenever the command is killed or the daemon     *)
(* dies.                                                                   *)
(***************************************************************************)
THEOREM PrintedCorrect == Spec => []PrintedInOrder
BY InvCorrect, PTL DEF Inv, Stream

(***************************************************************************)
(* A stop command that exits with 0, printed all it read and whose daemon  *)
(* did not die has printed every line but those whose write has failed, the*)
(* final report is the last of them, and it counts every path that was     *)
(* announced on top of those that were handled before the drain.           *)
(***************************************************************************)
THEOREM OkCorrect == Spec => []OkMeansReported
<1>1. ASSUME Inv PROVE OkMeansReported
  <2> SUFFICES ASSUME client = "ok", alive PROVE
         /\ at = "done" /\ running = {} /\ pending = <<>>
         /\ WholeTo(Before(printed, Len(printed) + 1), Len(out), torn)
         /\ Last(out) = [type |-> "final", report |-> report]
         /\ Handled = before + (IF out[1].type = "left" THEN out[1].n ELSE 0)
    BY DEF OkMeansReported
  <2>1. /\ at = "done" /\ Whole(printed) /\ running = {} /\ pending = <<>>
        /\ out # <<>> /\ Last(out) = [type |-> "final", report |-> report]
    BY <1>1 DEF Inv, Stream, AtTheEnd, Lines
  <2>2. Cardinality(running) = 0 /\ Len(pending) = 0
    BY <2>1, FS_EmptySet, EmptySeq
  <2>3. Handled \in Nat /\ before \in Nat
    BY <1>1, SumTypes DEF Inv, DrainTyped
  <2>4. ASSUME out[1].type = "left" PROVE Handled = before + out[1].n
    BY <1>1, <2>1, <2>2, <2>3, <2>4 DEF Inv, Accounted, Announced, ToHandle
  <2>5. ASSUME out[1].type # "left" PROVE Handled = before + 0
    BY <1>1, <2>1, <2>3, <2>5 DEF Inv, Accounted, Announced
  <2> QED
    BY <2>1, <2>4, <2>5 DEF Whole, End
<1> QED
  BY <1>1, InvCorrect, PTL

-----------------------------------------------------------------------------
(***************************************************************************)
(* The refinement.  The variables of EventLoop that the drain does not fix,*)
(* as functions of its own.                                                *)
(***************************************************************************)
LoopRunning == IF at = "count" THEN running \cup {current.path} ELSE running
LoopPhase == CASE at = "announce" -> "loop"
               [] at \in {"next", "count", "final"} -> "drain"
               [] at = "done" -> "done"
LoopOut == IF at \in {"count", "final"} THEN Front(out) ELSE out

LEMMA LoopStutters ==
    ASSUME UNCHANGED <<LoopRunning, pending, outcome, report, LoopPhase, LoopOut>>
    PROVE  UNCHANGED Abstract!vars
BY DEF LoopRunning, LoopPhase, LoopOut, Abstract!vars

\* EventLoop counts as this module does.
LEMMA SameCardinality == \A S : Abstract!Cardinality(S) = Cardinality(S)
BY DEF Cardinality, Abstract!Cardinality, IsFiniteSet, Abstract!IsFiniteSet

\* What the drain writes first is what StartDrain writes.
LEMMA AnnounceStartsDrain ==
    ASSUME Inv, Announce
    PROVE  Abstract!StartDrain
<1>1. /\ at = "announce" /\ at' = "next"
      /\ UNCHANGED <<running, pending, outcome, report>>
  BY DEF Announce
<1>2. /\ LoopPhase = "loop" /\ LoopPhase' = "drain"
      /\ LoopRunning = running /\ LoopRunning' = running /\ LoopOut = out /\ LoopOut' = out'
  BY <1>1 DEF LoopPhase, LoopRunning, LoopOut
<1>3. Cardinality(running) + Len(pending) \in Nat
  BY SumTypes DEF Inv, ToHandle
<1>4. out' = IF Cardinality(running) + Len(pending) = 0 THEN out
             ELSE Append(out, [type |-> "left", n |-> Cardinality(running) + Len(pending)])
  BY <1>3 DEF Announce, WriteLine
<1>5. Abstract!LeftToHandle = Cardinality(running) + Len(pending)
  BY <1>2, SameCardinality DEF Abstract!LeftToHandle, LoopRunning
<1>6. Abstract!WriteLeft(Abstract!LeftToHandle)
  BY <1>2, <1>4, <1>5 DEF Abstract!WriteLeft, LoopOut
<1>7. Abstract!MayBreak
  BY DEF Abstract!MayBreak
<1> QED
  BY <1>1, <1>2, <1>6, <1>7 DEF Abstract!StartDrain, LoopPhase, LoopRunning

LEMMA PathEndsStutters ==
    ASSUME Inv, NEW p \in Path, NEW o \in Outcome, PathEnds(p, o)
    PROVE  UNCHANGED Abstract!vars
<1>1. /\ at = "next" /\ at' = "count" /\ p \in running /\ running' = running \ {p}
      /\ current'.path = p /\ out' = Append(out, [type |-> o, path |-> p])
      /\ UNCHANGED <<pending, outcome, report>>
  BY DEF PathEnds, WriteLine
<1>2. Front(out') = out
  BY <1>1, WrittenLines, AppendFacts DEF Inv, DrainTyped
<1>3. LoopRunning' = LoopRunning
  BY <1>1 DEF LoopRunning
<1>4. LoopPhase' = LoopPhase /\ LoopOut' = LoopOut
  BY <1>1, <1>2 DEF LoopPhase, LoopOut
<1> QED
  BY <1>1, <1>3, <1>4, LoopStutters

\* The rest of the loop's body is the step that EventLoop takes for all of it.
LEMMA CountDrainsPath ==
    ASSUME Inv, CountAndRefill
    PROVE  Abstract!PathDrained(current.path, current.type)
<1>1. /\ at = "count" /\ at' = "next" /\ out' = out
      /\ outcome' = [outcome EXCEPT ![current.path] = current.type]
      /\ report' = Counted /\ Refill
  BY DEF CountAndRefill
<1>2. current \in Ended /\ current = [type |-> current.type, path |-> current.path]
  BY <1>1 DEF Inv, DrainTyped, Ended
<1>3. /\ LoopPhase = "drain" /\ LoopPhase' = "drain"
      /\ LoopRunning = running \cup {current.path} /\ LoopRunning' = running'
      /\ LoopOut = Front(out) /\ LoopOut' = out
  BY <1>1 DEF LoopPhase, LoopRunning, LoopOut
<1>4. LoopOut' = Append(LoopOut, [type |-> current.type, path |-> current.path])
  <2>1. out \in Seq(Line) /\ out # <<>> /\ Last(out) = current
    BY <1>1 DEF Inv, DrainTyped, Lines
  <2> QED
    BY <1>2, <1>3, <2>1, FrontLast
<1>5. Abstract!Count(current.type, current.path)
  BY <1>1, CountedType DEF Inv, Abstract!Count
<1>6. LoopRunning \ {current.path} = running
  BY <1>1, <1>3 DEF Inv, Places
<1>7. \/ pending = <<>> /\ LoopRunning' = LoopRunning \ {current.path} /\ pending' = pending
      \/ /\ pending # <<>> /\ pending' = Tail(pending)
         /\ LoopRunning' = (LoopRunning \ {current.path}) \cup {Head(pending)}
  BY <1>1, <1>3, <1>6 DEF Refill
<1>8. Abstract!Refill(current.path)
  BY <1>7 DEF Abstract!Refill, LoopRunning
<1>9. current.path \in LoopRunning
  BY <1>3
<1> QED
  BY <1>1, <1>3, <1>4, <1>5, <1>8, <1>9
  DEF Abstract!PathDrained, LoopRunning, LoopPhase, LoopOut

LEMMA ReportStutters ==
    ASSUME Inv, ReportFinal
    PROVE  UNCHANGED Abstract!vars
<1>1. /\ at = "next" /\ at' = "final"
      /\ out' = Append(out, [type |-> "final", report |-> report])
      /\ UNCHANGED <<running, pending, outcome, report>>
  BY DEF ReportFinal, WriteLine
<1>2. Front(out') = out
  BY <1>1, WrittenLines, AppendFacts DEF Inv, DrainTyped
<1>3. LoopRunning' = LoopRunning /\ LoopPhase' = LoopPhase /\ LoopOut' = LoopOut
  BY <1>1, <1>2 DEF LoopRunning, LoopPhase, LoopOut
<1> QED
  BY <1>1, <1>3, LoopStutters

LEMMA ReturnFinishesDrain ==
    ASSUME Inv, Return
    PROVE  Abstract!FinishDrain
<1>1. /\ at = "final" /\ at' = "done"
      /\ UNCHANGED <<running, pending, outcome, report, out>>
  BY DEF Return
<1>2. /\ running = {} /\ out # <<>> /\ out \in Seq(Line)
      /\ Last(out) = [type |-> "final", report |-> report]
  BY <1>1 DEF Inv, Lines, DrainTyped
<1>3. /\ LoopPhase = "drain" /\ LoopPhase' = "done"
      /\ LoopRunning = {} /\ LoopRunning' = {}
      /\ LoopOut' = Append(LoopOut, [type |-> "final", report |-> report])
  BY <1>1, <1>2, FrontLast DEF LoopPhase, LoopRunning, LoopOut
<1> QED
  BY <1>1, <1>3 DEF Abstract!FinishDrain, LoopRunning, LoopPhase, LoopOut

LEMMA RefinementStep ==
    ASSUME Inv, [Next]_vars
    PROVE  [Abstract!Next]_(Abstract!vars)
<1>1. CASE Announce
  BY <1>1, AnnounceStartsDrain DEF Abstract!Next, Abstract!LoopStep
<1>2. ASSUME NEW p \in Path, NEW o \in Outcome, PathEnds(p, o)
      PROVE  UNCHANGED Abstract!vars
  BY <1>2, PathEndsStutters
<1>3. CASE CountAndRefill
  <2>1. current.path \in Path /\ current.type \in Abstract!Outcome
    BY <1>3 DEF CountAndRefill, Inv, DrainTyped, Ended, Outcome, Abstract!Outcome
  <2>2. Abstract!PathDrained(current.path, current.type)
    BY <1>3, CountDrainsPath
  <2>3. Abstract!HandlerTask(current.path)
    BY <2>1, <2>2 DEF Abstract!HandlerTask
  <2> QED
    BY <2>1, <2>3 DEF Abstract!Next
<1>4. CASE ReportFinal
  BY <1>4, ReportStutters
<1>5. CASE Return
  BY <1>5, ReturnFinishesDrain DEF Abstract!Next, Abstract!LoopStep
<1>6. CASE \/ WriteSome \/ WriteFails \/ WriteErrs \/ Die \/ Read \/ CopyOut \/ ReadEof
           \/ Leave \/ Over \/ UNCHANGED vars
  <2>1. UNCHANGED <<at, running, pending, current, outcome, report, out>>
    BY <1>6 DEF WriteSome, WriteFails, WriteErrs, DropLine, Die, Read, CopyOut, ReadEof,
           Leave, Over, vars, drain
  <2>2. UNCHANGED <<LoopRunning, LoopPhase, LoopOut>>
    BY <2>1 DEF LoopRunning, LoopPhase, LoopOut
  <2> QED
    BY <2>1, <2>2, LoopStutters
<1> QED
  BY <1>1, <1>2, <1>3, <1>4, <1>5, <1>6 DEF Next, Drain, HandlerEnds, StopCommand

(***************************************************************************)
(* EventLoop may take the end of a handler, its line, its count and the    *)
(* next spawn for one step, although the code waits for the socket between *)
(* them: every step of the drain is a step of EventLoop or none.           *)
(***************************************************************************)
THEOREM DrainRefinesEventLoop == Spec => DrainsLikeEventLoop
<1>1. Inv /\ [Next]_vars => [Abstract!Next]_(Abstract!vars)
  BY RefinementStep
<1> QED
  BY <1>1, InvCorrect, PTL DEF Spec, DrainsLikeEventLoop
=============================================================================
