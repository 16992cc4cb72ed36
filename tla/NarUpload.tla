------------------------------ MODULE NarUpload ------------------------------
(***************************************************************************)
(* The transfer of one NAR: `write_nar` (src/nix_store.rs) writes it into a*)
(* bounded pipe while `Sub60Cache::upload_nar` (src/sub60_cache.rs) reads  *)
(* it from there, cuts it into parts and PUTs each part to a presigned URL *)
(* that the server handed out for one part number and for a limited time.  *)
(* The two run under one `try_join` (handle_store_path, src/event_loop.rs):*)
(* the first that fails ends the transfer.                                 *)
(*                                                                         *)
(* Bytes are counted, not looked at.  The server is external: it answers a *)
(* request for URLs with one URL for each part number asked for, and keeps *)
(* what is PUT to a URL as the part the URL was made for.                  *)
(***************************************************************************)
EXTENDS Naturals, Sequences

CONSTANTS
    NarSizes,      \* the sizes a NAR may have
    PipeCapacity,  \* NAR_STREAM_BUFFER_SIZE
    PartSize,      \* part_size, as the server chose it for this upload
    MaxPart,       \* NonZeroU16::MAX, 65535 in the code
    Batch,         \* how many URLs are asked for at a time, 4 in the code
    FirstUrls,     \* how many URLs the server may send with the upload id
    Ttls,          \* for how long the server may make its URLs valid
    Safety,        \* how long before its end a URL is no longer used, 10 s
    MaxTime        \* bound on the clock

ASSUME SizesAssumption ==
    /\ NarSizes \subseteq Nat
    /\ PipeCapacity \in Nat \ {0}
    /\ PartSize \in Nat \ {0}
ASSUME NumbersAssumption ==
    /\ MaxPart \in Nat \ {0}
    /\ Batch \in Nat \ {0}
    /\ FirstUrls \subseteq 0 .. MaxPart
ASSUME TimesAssumption ==
    /\ Ttls \subseteq Nat
    /\ Safety \in Nat
    /\ MaxTime \in Nat

VARIABLES
    narSize,     \* the size of this NAR
    written,     \* num_bytes_written: what write_nar has written into the pipe
    shut,        \* write_nar has shut the pipe down and returned
    taken,       \* what upload_nar has read from the pipe
    filled,      \* how much of part_bytes_buf try_fill has filled
    pc,          \* where upload_nar is, or how the transfer ended
    partNumber,  \* part_number
    urls,        \* state.part_urls
    expiration,  \* state.urls_expiration_ts
    url,         \* part_url
    etags,       \* etags; an etag stands for the part it was issued for
    now,         \* the clock
    completed    \* server: the etags of the completed upload, if it is completed

vars == <<narSize, written, shut, taken, filled, pc, partNumber, urls, expiration,
          url, etags, now, completed>>

Running == pc \in {"check", "request", "fill", "put", "complete"}

Url == [part : 1 .. MaxPart, expires : Nat]
Etag == [part : 1 .. MaxPart, from : Nat, size : 1 .. PartSize]
NoUrl == [part |-> 1, expires |-> 0]
Incomplete == [done |-> FALSE, etags |-> <<>>]

\* Server: one URL for each of n part numbers, starting with `first`.
UrlsFor(first, n, expires) ==
    [i \in 1 .. n |-> [part |-> first + i - 1, expires |-> expires]]

\* initiate_nar_upload has returned; the pipe is empty.
Init == /\ narSize \in NarSizes
        /\ written = 0 /\ shut = FALSE /\ taken = 0 /\ filled = 0
        /\ pc = "check"
        /\ partNumber = 1
        /\ now = 0
        /\ expiration \in Ttls
        /\ \E n \in FirstUrls : urls = UrlsFor(1, n, expiration)
        /\ url = NoUrl
        /\ etags = <<>>
        /\ completed = Incomplete

Tick == /\ Running
        /\ now < MaxTime
        /\ now' = now + 1
        /\ UNCHANGED <<narSize, written, shut, taken, filled, pc, partNumber, urls,
                       expiration, url, etags, completed>>

-----------------------------------------------------------------------------
(***************************************************************************)
(* write_nar.                                                              *)
(***************************************************************************)
Write ==
    /\ Running
    /\ written < narSize
    /\ written - taken < PipeCapacity
    /\ written' = written + 1
    /\ UNCHANGED <<narSize, shut, taken, filled, pc, partNumber, urls, expiration,
                   url, etags, now, completed>>

\* (mutant) write_nar returns and leaves the pipe open.
ShutdownForgotten == FALSE /\ UNCHANGED vars

\* The whole NAR is written: `writer.shutdown()` lets the reader see its end.
Shutdown ==
    /\ Running
    /\ written = narSize /\ ~shut
    /\ shut' = TRUE
    /\ UNCHANGED <<narSize, written, taken, filled, pc, partNumber, urls,
                   expiration, url, etags, now, completed>>

\* write_nar fails: try_join returns its error, drops upload_nar, and the pipe is
\* never shut down.
WriteFails ==
    /\ Running
    /\ ~shut
    /\ pc' = "failed"
    /\ UNCHANGED <<narSize, written, shut, taken, filled, partNumber, urls,
                   expiration, url, etags, now, completed>>

-----------------------------------------------------------------------------
(***************************************************************************)
(* upload_nar.                                                             *)
(***************************************************************************)
\* The URLs that may still be used: none of them close to their expiration.
Usable == IF now + Safety >= expiration THEN <<>> ELSE urls

\* The head of the loop: expired URLs are discarded, the next one is popped.
TakeUrl ==
    /\ pc = "check"
    /\ Usable # <<>>
    /\ url' = Head(Usable)
    /\ urls' = Tail(Usable)
    /\ pc' = "fill"
    /\ UNCHANGED <<narSize, written, shut, taken, filled, partNumber, expiration,
                   etags, now, completed>>

NoUrlLeft ==
    /\ pc = "check"
    /\ Usable = <<>>
    /\ urls' = <<>>
    /\ pc' = "request"
    /\ UNCHANGED <<narSize, written, shut, taken, filled, partNumber, expiration,
                   url, etags, now, completed>>

\* (mutant) The URLs asked for start after the part that is to be uploaded.
FirstRequestedIsNext == partNumber + 1

\* The part number that the request for URLs starts with.
FirstRequested == partNumber

\* successors(...).take(4): the numbers end at the largest part number.
NumRequested == IF MaxPart - partNumber + 1 < Batch THEN MaxPart - partNumber + 1
                ELSE Batch

\* New URLs arrive; the loop starts over, with their expiration.
RequestUrls ==
    /\ pc = "request"
    /\ \E ttl \in Ttls :
          /\ expiration' = now + ttl
          /\ urls' = urls \o UrlsFor(FirstRequested, NumRequested, now + ttl)
    /\ pc' = "check"
    /\ UNCHANGED <<narSize, written, shut, taken, filled, partNumber, url, etags,
                   now, completed>>

\* try_fill reads what there is, up to the size of a part.
Fill ==
    /\ pc = "fill"
    /\ filled < PartSize /\ taken < written
    /\ taken' = taken + 1
    /\ filled' = filled + 1
    /\ UNCHANGED <<narSize, written, shut, pc, partNumber, urls, expiration, url,
                   etags, now, completed>>

\* (mutant) An empty pipe is taken for the end of the NAR.
EndOfNarWhenEmpty == taken = written

\* A read of the pipe returns 0 bytes.
EndOfNar == shut /\ taken = written

\* try_fill returns: with a part to upload, or with nothing when the NAR ended at
\* the end of the previous part.
FillDone ==
    /\ pc = "fill"
    /\ filled = PartSize \/ EndOfNar
    /\ pc' = IF filled = 0 THEN "complete" ELSE "put"
    /\ UNCHANGED <<narSize, written, shut, taken, filled, partNumber, urls,
                   expiration, url, etags, now, completed>>

\* (mutant) The last part number is never used.
AtLastPartEarly == partNumber + 1 >= MaxPart

\* part_number.checked_add(1) is None
AtLastPart == partNumber = MaxPart

\* The part is uploaded.  A short part is the last one.
Put ==
    /\ pc = "put"
    /\ now < url.expires
    /\ etags' = Append(etags, [part |-> url.part, from |-> taken - filled,
                               size |-> filled])
    /\ \/ /\ filled < PartSize
          /\ pc' = "complete"
          /\ UNCHANGED <<partNumber, filled>>
       \/ /\ filled = PartSize
          /\ AtLastPart
          /\ pc' = "tooManyParts"
          /\ UNCHANGED <<partNumber, filled>>
       \/ /\ filled = PartSize
          /\ ~AtLastPart
          /\ pc' = "check"
          /\ partNumber' = partNumber + 1
          /\ filled' = 0
    /\ UNCHANGED <<narSize, written, shut, taken, urls, expiration, url, now,
                   completed>>

\* The server is asked to put the parts together, in the order of their etags.
Complete ==
    /\ pc = "complete"
    /\ completed' = [done |-> TRUE, etags |-> etags]
    /\ pc' = "ok"
    /\ UNCHANGED <<narSize, written, shut, taken, filled, partNumber, urls,
                   expiration, url, etags, now>>

\* A request fails, before the server has acted on it or after (its answer is
\* lost): the error of upload_nar ends the transfer.
RequestFails ==
    /\ pc \in {"request", "put", "complete"}
    /\ pc' = "failed"
    /\ completed' \in {completed} \cup
          (IF pc = "complete" THEN {[done |-> TRUE, etags |-> etags]} ELSE {})
    /\ UNCHANGED <<narSize, written, shut, taken, filled, partNumber, urls,
                   expiration, url, etags, now>>

-----------------------------------------------------------------------------
WriteNar == Write \/ Shutdown \/ WriteFails
UploadNar == \/ TakeUrl \/ NoUrlLeft \/ RequestUrls \/ Fill \/ FillDone
             \/ Put \/ Complete \/ RequestFails

Next == Tick \/ WriteNar \/ UploadNar

\* Both futures are polled as long as they can go on, and every request is
\* answered or fails.
Fairness == WF_vars(Write \/ Shutdown) /\ WF_vars(UploadNar)

Spec == Init /\ [][Next]_vars

FairSpec == Spec /\ Fairness

-----------------------------------------------------------------------------
(***************************************************************************)
(* The variables of upload_nar and of the pipe have their types; the part  *)
(* number fits NonZeroU16.                                                 *)
(***************************************************************************)
TypeOK ==
    /\ narSize \in NarSizes
    /\ written \in 0 .. narSize
    /\ shut \in BOOLEAN
    /\ taken \in 0 .. written
    /\ filled \in 0 .. PartSize
    /\ pc \in {"check", "request", "fill", "put", "complete",
               "ok", "failed", "tooManyParts"}
    /\ partNumber \in 1 .. MaxPart
    /\ urls \in Seq(Url)
    /\ expiration \in Nat
    /\ url \in Url
    /\ etags \in Seq(Etag)
    /\ now \in 0 .. MaxTime
    /\ completed \in [done : BOOLEAN, etags : Seq(Etag)]

(***************************************************************************)
(* A part is always PUT to the URL that was made for its number, although  *)
(* URLs are matched with parts only by their order, are discarded when they*)
(* expire in the middle of an upload, and are then asked for again.        *)
(***************************************************************************)
Holding == pc \in {"fill", "put", "complete"}

UrlMatchesPart ==
    Running =>
        /\ Holding => url.part = partNumber
        /\ \A i \in DOMAIN urls :
              urls[i].part = partNumber + i - (IF Holding THEN 0 ELSE 1)

(***************************************************************************)
(* A completed upload is the whole NAR: its parts, numbered 1, 2, 3, ...,  *)
(* follow each other without gap or overlap, and end where the NAR ends.   *)
(* A write_nar that fails half way never leaves a completed upload, since  *)
(* only a pipe that was shut down looks like the end of the NAR.           *)
(***************************************************************************)
PartsInOrder(s) ==
    \A i \in DOMAIN s : /\ s[i].part = i
                        /\ s[i].from = (i - 1) * PartSize
                        /\ i < Len(s) => s[i].size = PartSize

EndOf(s) == IF s = <<>> THEN 0 ELSE s[Len(s)].from + s[Len(s)].size

CompletedIsWhole ==
    completed.done => /\ PartsInOrder(completed.etags)
                      /\ EndOf(completed.etags) = narSize
                      /\ shut

(***************************************************************************)
(* Only a NAR that fills all part numbers is refused with TooManyNarParts. *)
(***************************************************************************)
TooManyOnlyAtLimit == pc = "tooManyParts" => narSize >= MaxPart * PartSize

(***************************************************************************)
(* The transfer ends: the two futures do not wait for each other for ever, *)
(* and URLs are not asked for again and again, unless the server goes on   *)
(* handing out URLs that are within the safety margin of their expiration  *)
(* when they are looked at.                                                *)
(***************************************************************************)
StillbornUrls == pc = "check" /\ urls # <<>> /\ Usable = <<>>

TransferEnds == <>~Running \/ []<>StillbornUrls

(***************************************************************************)
(* (Refuted.)  src/sub60_cache.rs:423: "Discard the current upload URLs if *)
(* they're past their expiration timestamp, with some safety buffer to     *)
(* account for clock skew and network delay."  No part would be sent off to*)
(* a URL past its expiration.                                              *)
(***************************************************************************)
NoExpiredUrlUsed ==
    [][pc = "fill" /\ pc' = "put" => now < url.expires]_vars
=============================================================================
