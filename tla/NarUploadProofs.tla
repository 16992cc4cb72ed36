--------------------------- MODULE NarUploadProofs ---------------------------
(***************************************************************************)
(* Proofs about NarUpload, for NARs, parts, pipes and times of any size.   *)
(***************************************************************************)
EXTENDS NarUpload, Integers, SequenceTheorems, TLAPS

(***************************************************************************)
(* Type correctness.  It needs to be known that the bytes in the part      *)
(* buffer were taken from the pipe, and that no empty part is uploaded.    *)
(***************************************************************************)
Buffer == filled <= taken /\ (pc = "put" => filled # 0)

\* The URLs that the server makes for part numbers that exist.
LEMMA UrlsForType ==
    ASSUME NEW first \in 1 .. MaxPart, NEW n \in Nat, first + n - 1 <= MaxPart,
           NEW t \in Nat
    PROVE  /\ UrlsFor(first, n, t) \in Seq(Url)
           /\ Len(UrlsFor(first, n, t)) = n
           /\ \A i \in 1 .. n : UrlsFor(first, n, t)[i].part = first + i - 1
<1>1. \A i \in 1 .. n : [part |-> first + i - 1, expires |-> t] \in Url
  BY NumbersAssumption DEF Url
<1> QED
  BY <1>1, IsASeq DEF UrlsFor

LEMMA NumRequestedType ==
    ASSUME partNumber \in 1 .. MaxPart
    PROVE  NumRequested \in Nat /\ partNumber + NumRequested - 1 <= MaxPart
BY NumbersAssumption DEF NumRequested

LEMMA TypeInit == Init => TypeOK /\ Buffer
<1> SUFFICES ASSUME Init PROVE TypeOK /\ Buffer
  OBVIOUS
<1>1. urls \in Seq(Url) /\ expiration \in Nat
  <2>1. PICK n \in FirstUrls : urls = UrlsFor(1, n, expiration)
    BY DEF Init
  <2>2. n \in Nat /\ 1 + n - 1 <= MaxPart /\ 1 \in 1 .. MaxPart /\ expiration \in Nat
    BY NumbersAssumption, TimesAssumption DEF Init
  <2> QED
    BY <2>1, <2>2, UrlsForType
<1>2. url \in Url
  BY NumbersAssumption DEF Init, NoUrl, Url
<1>3. /\ etags \in Seq(Etag)
      /\ completed \in [done : BOOLEAN, etags : Seq(Etag)]
  BY EmptySeq DEF Init, Incomplete
<1>4. /\ narSize \in NarSizes /\ narSize \in Nat
      /\ written \in 0 .. narSize /\ taken \in 0 .. written /\ filled \in 0 .. PartSize
      /\ partNumber \in 1 .. MaxPart /\ now \in 0 .. MaxTime
  BY SizesAssumption, NumbersAssumption, TimesAssumption DEF Init
<1>5. TypeOK
  BY <1>1, <1>2, <1>3, <1>4 DEF Init, TypeOK
<1> QED
  BY <1>5 DEF Init, Buffer

LEMMA TypeStep == TypeOK /\ Buffer /\ [Next]_vars => TypeOK' /\ Buffer'
<1> SUFFICES ASSUME TypeOK, Buffer, [Next]_vars PROVE TypeOK' /\ Buffer'
  OBVIOUS
<1> USE SizesAssumption, NumbersAssumption, TimesAssumption DEF TypeOK, Buffer
<1>1. CASE Tick
  BY <1>1 DEF Tick
<1>2. CASE WriteNar
  <2>1. CASE Write
    BY <2>1 DEF Write
  <2>2. CASE Shutdown
    BY <2>2 DEF Shutdown
  <2>3. CASE WriteFails
    BY <2>3 DEF WriteFails
  <2> QED
    BY <1>2, <2>1, <2>2, <2>3 DEF WriteNar
<1>3. CASE TakeUrl
  <2>1. Usable \in Seq(Url)
    BY DEF Usable
  <2>2. Head(Usable) \in Url /\ Tail(Usable) \in Seq(Url)
    BY <1>3, <2>1, HeadTailProperties DEF TakeUrl
  <2> QED
    BY <1>3, <2>2 DEF TakeUrl
<1>4. CASE NoUrlLeft
  BY <1>4 DEF NoUrlLeft
<1>5. CASE RequestUrls
  <2>1. PICK ttl \in Ttls :
           /\ expiration' = now + ttl
           /\ urls' = urls \o UrlsFor(partNumber, NumRequested, now + ttl)
    BY <1>5 DEF RequestUrls, FirstRequested
  <2>2. now + ttl \in Nat
    OBVIOUS
  <2>3. UrlsFor(partNumber, NumRequested, now + ttl) \in Seq(Url)
    BY <2>2, NumRequestedType, UrlsForType
  <2>4. urls' \in Seq(Url)
    BY <2>1, <2>3, ConcatProperties
  <2> QED
    BY <1>5, <2>1, <2>2, <2>4 DEF RequestUrls
<1>6. CASE Fill
  BY <1>6 DEF Fill
<1>7. CASE FillDone
  BY <1>7 DEF FillDone
<1>8. CASE Put
  <2>1. [part |-> url.part, from |-> taken - filled, size |-> filled] \in Etag
    BY <1>8 DEF Put, Etag, Url
  <2>2. etags' \in Seq(Etag)
    BY <1>8, <2>1, AppendProperties DEF Put
  <2>3. partNumber' \in 1 .. MaxPart /\ filled' \in 0 .. PartSize /\ filled' <= taken
    BY <1>8 DEF Put, AtLastPart
  <2>4. pc' \in {"check", "complete", "tooManyParts"}
    BY <1>8 DEF Put
  <2> QED
    BY <1>8, <2>2, <2>3, <2>4 DEF Put
<1>9. CASE Complete
  BY <1>9 DEF Complete
<1>10. CASE RequestFails
  <2>1. completed' = completed \/ completed' = [done |-> TRUE, etags |-> etags]
    BY <1>10 DEF RequestFails
  <2>2. completed' \in [done : BOOLEAN, etags : Seq(Etag)]
    <3>1. [done |-> TRUE, etags |-> etags] \in [done : BOOLEAN, etags : Seq(Etag)]
      OBVIOUS
    <3>2. completed \in [done : BOOLEAN, etags : Seq(Etag)]
      OBVIOUS
    <3> HIDE DEF TypeOK
    <3> QED
      BY <2>1, <3>1, <3>2
  <2> QED
    BY <1>10, <2>2 DEF RequestFails
<1>11. CASE UNCHANGED vars
  BY <1>11 DEF vars
<1> QED
  BY <1>1, <1>2, <1>3, <1>4, <1>5, <1>6, <1>7, <1>8, <1>9, <1>10, <1>11
  DEF Next, UploadNar

LEMMA BufferCorrect == Spec => [](TypeOK /\ Buffer)
BY TypeInit, TypeStep, PTL DEF Spec

(***************************************************************************)
(* The variables of the transfer keep their types; in particular the part  *)
(* number never leaves the range of NonZeroU16.                            *)
(***************************************************************************)
THEOREM TypeCorrect == Spec => []TypeOK
BY BufferCorrect, PTL

-----------------------------------------------------------------------------
(***************************************************************************)
(* URLs and part numbers.  URLs are asked for only when none is left.      *)
(***************************************************************************)
UrlOrder == UrlMatchesPart /\ (pc = "request" => urls = <<>>)

LEMMA UrlInit == Init => UrlOrder
<1> SUFFICES ASSUME Init PROVE UrlOrder
  OBVIOUS
<1>1. PICK n \in FirstUrls : urls = UrlsFor(1, n, expiration)
  BY DEF Init
<1>2. n \in Nat
  BY NumbersAssumption
<1> QED
  BY <1>1, <1>2 DEF Init, UrlOrder, UrlMatchesPart, Holding, UrlsFor

LEMMA UrlStep == TypeOK /\ UrlOrder /\ [Next]_vars => UrlOrder'
<1> SUFFICES ASSUME TypeOK, UrlOrder, [Next]_vars PROVE UrlOrder'
  OBVIOUS
<1> USE DEF UrlOrder
<1>1. CASE Tick \/ Write \/ Shutdown \/ Fill \/ FillDone \/ UNCHANGED vars
  BY <1>1 DEF Tick, Write, Shutdown, Fill, FillDone, vars, UrlMatchesPart, Holding,
              Running
<1>2. CASE WriteFails \/ Complete \/ RequestFails
  BY <1>2 DEF WriteFails, Complete, RequestFails, UrlMatchesPart, Running
<1>3. CASE TakeUrl
  <2>1. /\ urls \in Seq(Url) /\ urls # <<>> /\ url' = Head(urls) /\ urls' = Tail(urls)
        /\ partNumber' = partNumber /\ partNumber \in Nat
        /\ pc = "check" /\ pc' = "fill"
    BY <1>3, NumbersAssumption DEF TakeUrl, Usable, TypeOK
  <2>2. /\ DOMAIN urls = 1 .. Len(urls) /\ Len(urls) \in Nat \ {0}
        /\ DOMAIN Tail(urls) = 1 .. Len(urls) - 1
        /\ Head(urls) = urls[1]
        /\ \A i \in 1 .. Len(urls) - 1 : Tail(urls)[i] = urls[i + 1]
    BY <2>1, HeadTailProperties, LenProperties, EmptySeq
  <2>3. \A i \in 1 .. Len(urls) : urls[i].part = partNumber + i - 1
    BY <2>1, <2>2 DEF UrlMatchesPart, Running, Holding
  <2>4. url'.part = partNumber'
    BY <2>1, <2>2, <2>3
  <2>5. \A i \in 1 .. Len(urls) - 1 : urls'[i].part = partNumber' + i
    BY <2>1, <2>2, <2>3
  <2> QED
    BY <2>1, <2>2, <2>4, <2>5 DEF UrlMatchesPart, Running, Holding
<1>4. CASE NoUrlLeft
  BY <1>4 DEF NoUrlLeft, UrlMatchesPart, Running, Holding
<1>5. CASE RequestUrls
  <2>1. PICK ttl \in Ttls :
           urls' = urls \o UrlsFor(partNumber, NumRequested, now + ttl)
    BY <1>5 DEF RequestUrls, FirstRequested
  <2> DEFINE new == UrlsFor(partNumber, NumRequested, now + ttl)
  <2>2. /\ new \in Seq(Url) /\ DOMAIN new = 1 .. NumRequested
        /\ \A i \in 1 .. NumRequested : new[i].part = partNumber + i - 1
    <3>1. now + ttl \in Nat
      BY TimesAssumption DEF TypeOK
    <3> QED
      BY <3>1, NumRequestedType, UrlsForType, LenProperties DEF TypeOK
  <2>3. pc = "request" /\ pc' = "check" /\ partNumber' = partNumber
    BY <1>5 DEF RequestUrls
  <2>4. urls' = new
    BY <2>1, <2>2, <2>3, ConcatEmptySeq
  <2> QED
    BY <2>2, <2>3, <2>4 DEF UrlMatchesPart, Running, Holding
<1>6. CASE Put
  <2>1. CASE pc' = "check"
    <3>1. /\ partNumber' = partNumber + 1 /\ urls' = urls /\ pc = "put"
          /\ partNumber \in Nat
      BY <1>6, <2>1, NumbersAssumption DEF Put, TypeOK
    <3>2. \A i \in DOMAIN urls : i \in Nat /\ urls[i].part = partNumber + i
      BY <3>1, LenProperties DEF UrlMatchesPart, Running, Holding, TypeOK
    <3> QED
      BY <2>1, <3>1, <3>2 DEF UrlMatchesPart, Running, Holding
  <2>2. CASE pc' # "check"
    BY <1>6, <2>2 DEF Put, UrlMatchesPart, Running, Holding
  <2> QED
    BY <2>1, <2>2
<1> QED
  BY <1>1, <1>2, <1>3, <1>4, <1>5, <1>6 DEF Next, WriteNar, UploadNar

LEMMA UrlOrderCorrect == Spec => []UrlOrder
BY TypeCorrect, UrlInit, UrlStep, PTL DEF Spec

(***************************************************************************)
(* Every part is sent to the URL made for its number.                      *)
(***************************************************************************)
THEOREM UrlsCorrect == Spec => []UrlMatchesPart
BY UrlOrderCorrect, PTL DEF UrlOrder

-----------------------------------------------------------------------------
(***************************************************************************)
(* Parts and bytes.  While parts are uploaded, all parts so far are full,  *)
(* the next one has the next number and starts where they end; the loop    *)
(* ends only at the end of a NAR that was written as a whole.              *)
(***************************************************************************)
Uploading == pc \in {"check", "request", "fill", "put"}

Parts ==
    /\ PartsInOrder(etags)
    /\ shut => written = narSize
    /\ pc \in {"check", "request"} => filled = 0
    /\ Uploading => /\ partNumber = Len(etags) + 1
                    /\ taken = Len(etags) * PartSize + filled
                    /\ EndOf(etags) = Len(etags) * PartSize
                    /\ \A i \in DOMAIN etags : etags[i].size = PartSize
    /\ pc = "put" => filled = PartSize \/ EndOfNar
    /\ pc = "complete" => EndOfNar /\ EndOf(etags) = taken

\* Multiplication by the size of a part.
LEMMA PartSizeTimes ==
    /\ \A n \in Nat : (n + 1) * PartSize = n * PartSize + PartSize
    /\ \A n \in Nat : n * PartSize \in Nat
    /\ 0 * PartSize = 0
BY SizesAssumption

LEMMA PartsInit == Init => Parts
<1> SUFFICES ASSUME Init PROVE Parts
  OBVIOUS
<1>1. etags = <<>> /\ Len(etags) = 0 /\ DOMAIN etags = {}
  BY DEF Init
<1> QED
  BY <1>1, PartSizeTimes DEF Init, Parts, PartsInOrder, EndOf, Uploading

LEMMA PartsStep ==
    TypeOK /\ Buffer /\ UrlOrder /\ Parts /\ [Next]_vars => Parts'
<1> SUFFICES ASSUME TypeOK, Buffer, UrlOrder, Parts, [Next]_vars PROVE Parts'
  OBVIOUS
<1>1. CASE Tick \/ TakeUrl \/ NoUrlLeft \/ RequestUrls \/ UNCHANGED vars
  BY <1>1 DEF Tick, TakeUrl, NoUrlLeft, RequestUrls, vars, Parts, PartsInOrder,
              EndOf, Uploading, EndOfNar
<1>2. CASE Write
  BY <1>2 DEF Write, Parts, PartsInOrder, EndOf, Uploading, EndOfNar, TypeOK
<1>3. CASE Shutdown
  BY <1>3 DEF Shutdown, Parts, PartsInOrder, EndOf, Uploading, EndOfNar
<1>4. CASE WriteFails \/ Complete \/ RequestFails
  BY <1>4 DEF WriteFails, Complete, RequestFails, Parts, PartsInOrder, Uploading
<1>5. CASE Fill
  <2>1. /\ taken' = taken + 1 /\ filled' = filled + 1 /\ pc = "fill" /\ pc' = "fill"
        /\ UNCHANGED <<etags, shut, written, narSize, partNumber>>
    BY <1>5 DEF Fill
  <2>2. taken' = Len(etags) * PartSize + filled'
    BY <2>1, PartSizeTimes, LenProperties, SizesAssumption DEF Parts, Uploading, TypeOK
  <2> QED
    BY <2>1, <2>2 DEF Parts, PartsInOrder, EndOf, Uploading
<1>6. CASE FillDone
  <2>1. CASE filled = 0
    <3>1. EndOfNar /\ pc' = "complete"
      BY <1>6, <2>1, SizesAssumption DEF FillDone
    <3>2. EndOf(etags) = taken
      BY <1>6, <2>1, PartSizeTimes, LenProperties DEF FillDone, Parts, Uploading, TypeOK
    <3> QED
      BY <1>6, <3>1, <3>2
      DEF FillDone, Parts, PartsInOrder, EndOf, Uploading, EndOfNar
  <2>2. CASE filled # 0
    BY <1>6, <2>2
    DEF FillDone, Parts, PartsInOrder, EndOf, Uploading, EndOfNar
  <2> QED
    BY <2>1, <2>2
<1>7. CASE Put
  <2> DEFINE n == Len(etags)
             tag == [part |-> url.part, from |-> taken - filled, size |-> filled]
  <2>1. /\ n \in Nat /\ partNumber = n + 1 /\ url.part = n + 1
        /\ taken = n * PartSize + filled
        /\ n * PartSize \in Nat /\ filled \in Nat
        /\ DOMAIN etags = 1 .. n
        /\ \A i \in 1 .. n : etags[i].size = PartSize
        /\ \A i \in 1 .. n : etags[i].part = i /\ etags[i].from = (i - 1) * PartSize
    <3>1. pc = "put" /\ n \in Nat /\ DOMAIN etags = 1 .. n
      BY <1>7, LenProperties DEF Put, TypeOK
    <3>2. partNumber = n + 1 /\ taken = n * PartSize + filled
      BY <3>1 DEF Parts, Uploading
    <3>3. url.part = partNumber
      BY <3>1 DEF UrlOrder, UrlMatchesPart, Running, Holding
    <3>4. n * PartSize \in Nat /\ filled \in Nat
      BY <3>1, PartSizeTimes, SizesAssumption DEF TypeOK
    <3>5. /\ \A i \in 1 .. n : etags[i].size = PartSize
          /\ \A i \in 1 .. n : etags[i].part = i /\ etags[i].from = (i - 1) * PartSize
      BY <3>1 DEF Parts, PartsInOrder, Uploading
    <3> QED
      BY <3>1, <3>2, <3>3, <3>4, <3>5
  <2>2. tag \in Etag
    BY <1>7, <2>1, SizesAssumption DEF Etag, Url, TypeOK, Buffer, Put
  <2>3. /\ etags' # <<>> /\ Len(etags') = n + 1 /\ DOMAIN etags' = 1 .. n + 1
        /\ \A i \in 1 .. n : etags'[i] = etags[i]
        /\ etags'[n + 1] = tag
    BY <1>7, <2>2, AppendProperties, LenProperties DEF Put, TypeOK
  <2>4. tag.from = n * PartSize /\ tag.part = n + 1 /\ tag.size = filled
    BY <2>1
  <2>5. PartsInOrder(etags')
    <3> SUFFICES ASSUME NEW i \in 1 .. n + 1
                 PROVE  /\ etags'[i].part = i
                        /\ etags'[i].from = (i - 1) * PartSize
                        /\ i < n + 1 => etags'[i].size = PartSize
      BY <2>3 DEF PartsInOrder
    <3>1. CASE i \in 1 .. n
      BY <2>1, <2>3, <3>1
    <3>2. CASE i = n + 1
      <4>1. i - 1 = n
        BY <2>1, <3>2
      <4> QED
        BY <2>1, <2>3, <2>4, <3>2, <4>1
    <3> QED
      BY <2>1, <3>1, <3>2
  <2>6. EndOf(etags') = taken
    BY <2>1, <2>3, <2>4 DEF EndOf
  <2>7. CASE filled < PartSize
    <3>1. /\ pc' = "complete" /\ EndOfNar /\ UNCHANGED <<taken, written, shut, narSize>>
      BY <1>7, <2>7, SizesAssumption DEF Put, Parts, TypeOK
    <3> QED
      BY <2>5, <2>6, <3>1 DEF Parts, Uploading, EndOfNar
  <2>8. CASE filled = PartSize
    <3>1. UNCHANGED <<taken, written, shut, narSize>>
      BY <1>7 DEF Put
    <3>2. CASE AtLastPart
      <4>1. pc' = "tooManyParts"
        BY <1>7, <2>8, <3>2, SizesAssumption DEF Put
      <4> QED
        BY <2>5, <3>1, <4>1 DEF Parts, Uploading
    <3>3. CASE ~AtLastPart
      <4>1. pc' = "check" /\ partNumber' = partNumber + 1 /\ filled' = 0
        BY <1>7, <2>8, <3>3, SizesAssumption DEF Put
      <4>2. taken = (n + 1) * PartSize
        BY <2>1, <2>8, PartSizeTimes
      <4>3. \A i \in 1 .. n + 1 : etags'[i].size = PartSize
        BY <2>1, <2>3, <2>4, <2>8
      <4>4. taken' = Len(etags') * PartSize + filled' /\ partNumber' = Len(etags') + 1
        BY <2>1, <2>3, <3>1, <4>1, <4>2, PartSizeTimes
      <4>5. EndOf(etags') = Len(etags') * PartSize
        BY <2>3, <2>6, <4>2
      <4> QED
        BY <2>3, <2>5, <3>1, <4>1, <4>3, <4>4, <4>5 DEF Parts, Uploading
    <3> QED
      BY <3>2, <3>3
  <2> QED
    BY <1>7, <2>1, <2>7, <2>8, SizesAssumption DEF Put
<1> QED
  BY <1>1, <1>2, <1>3, <1>4, <1>5, <1>6, <1>7 DEF Next, WriteNar, UploadNar

LEMMA PartsCorrect == Spec => []Parts
BY BufferCorrect, UrlOrderCorrect, PartsInit, PartsStep, PTL DEF Spec

LEMMA WholeStep ==
    TypeOK /\ Parts /\ CompletedIsWhole /\ [Next]_vars => CompletedIsWhole'
<1> SUFFICES ASSUME TypeOK, Parts, CompletedIsWhole, [Next]_vars
             PROVE  CompletedIsWhole'
  OBVIOUS
<1>1. narSize' = narSize /\ (shut => shut')
  BY DEF Next, Tick, WriteNar, Write, Shutdown, WriteFails, UploadNar, TakeUrl,
         NoUrlLeft, RequestUrls, Fill, FillDone, Put, Complete, RequestFails, vars
<1>2. CASE completed' = completed
  BY <1>1, <1>2 DEF CompletedIsWhole
<1>3. CASE pc = "complete" /\ completed' = [done |-> TRUE, etags |-> etags]
  <2>1. PartsInOrder(etags) /\ shut /\ EndOf(etags) = narSize
    BY <1>3 DEF Parts, EndOfNar
  <2> QED
    BY <1>1, <1>3, <2>1 DEF CompletedIsWhole
<1> QED
  BY <1>2, <1>3
  DEF Next, Tick, WriteNar, Write, Shutdown, WriteFails, UploadNar, TakeUrl,
      NoUrlLeft, RequestUrls, Fill, FillDone, Put, Complete, RequestFails, vars

(***************************************************************************)
(* A completed upload is the whole NAR, in order, without gap or overlap,  *)
(* whatever fails, expires or is repeated on the way.                      *)
(***************************************************************************)
THEOREM WholeCorrect == Spec => []CompletedIsWhole
<1>1. Init => CompletedIsWhole
  BY DEF Init, Incomplete, CompletedIsWhole
<1> QED
  BY <1>1, TypeCorrect, PartsCorrect, WholeStep, PTL DEF Spec

LEMMA LimitStep ==
    TypeOK /\ Parts /\ TooManyOnlyAtLimit /\ [Next]_vars => TooManyOnlyAtLimit'
<1> SUFFICES ASSUME TypeOK, Parts, TooManyOnlyAtLimit, [Next]_vars,
                    pc' = "tooManyParts"
             PROVE  narSize' >= MaxPart * PartSize
  BY DEF TooManyOnlyAtLimit
<1>1. CASE Put
  <2>1. /\ filled = PartSize /\ partNumber = MaxPart /\ narSize' = narSize
        /\ partNumber = Len(etags) + 1 /\ taken = Len(etags) * PartSize + filled
    BY <1>1 DEF Put, AtLastPart, Parts, Uploading
  <2>2. taken = MaxPart * PartSize /\ taken \in Nat
    BY <2>1, PartSizeTimes, LenProperties DEF TypeOK
  <2>3. taken <= narSize /\ narSize \in Nat
    BY SizesAssumption DEF TypeOK
  <2> QED
    BY <2>1, <2>2, <2>3
<1>2. CASE UNCHANGED <<pc, narSize>>
  BY <1>2 DEF TooManyOnlyAtLimit
<1> QED
  BY <1>1, <1>2
  DEF Next, Tick, WriteNar, Write, Shutdown, WriteFails, UploadNar, TakeUrl,
      NoUrlLeft, RequestUrls, Fill, FillDone, Complete, RequestFails, vars

(***************************************************************************)
(* Only a NAR that fills every part number is refused for its size.        *)
(***************************************************************************)
THEOREM LimitCorrect == Spec => []TooManyOnlyAtLimit
<1>1. Init => TooManyOnlyAtLimit
  BY DEF Init, TooManyOnlyAtLimit
<1> QED
  BY <1>1, TypeCorrect, PartsCorrect, LimitStep, PTL DEF Spec
=============================================================================
