-------------------------- MODULE StorePathHandler --------------------------
(***************************************************************************)
(* The handler of one store path: `handle_store_path` and what it calls    *)
(* (src/event_loop.rs).  It asks the cache and the upstream caches whether *)
(* they have the path, and if none has it uploads the NAR and then the     *)
(* NARInfo.  Any request may fail, before or after the server has acted on *)
(* it, and the process may be killed between any two steps.                *)
(*                                                                         *)
(* A daemon handles each path at most once (EventLoop), so that a handler  *)
(* is named by its path.  Other jobs push to the same cache: a path may    *)
(* become available at any time, also after the handler was told that it is*)
(* not.  The server is external: it keeps the NAR of each upload, and per  *)
(* path the NARInfos it was sent.  The transfer of the NAR is one step     *)
(* here; NarUpload shows that a completed upload is the whole NAR, whatever*)
(* fails.                                                                  *)
(***************************************************************************)
EXTENDS StorePaths

CONSTANT Upstream   \* the upstream caches

VARIABLES
    pc,          \* where the handler of each path is, or its result
    cacheSays,   \* the answer of the cache: has_narinfo
    upSays,      \* the answers of the upstream caches
    nar,         \* server: the NAR of each handler's upload
    published,   \* server: the paths whose NARInfo the handler has sent
    cached,      \* server: the paths that the cache has from other jobs
    inUpstream   \* pairs <<u, p>>: upstream cache u has the NARInfo of p

servers == <<cached, inUpstream>>
handlerVars == <<pc, cacheSays, upSays, nar, published, servers>>

HandlersInit ==
    /\ pc = [p \in Path |-> "select"]
    /\ cacheSays = [p \in Path |-> "waiting"]
    /\ upSays = [p \in Path |-> [u \in Upstream |-> "waiting"]]
    /\ nar = [p \in Path |-> "none"]
    /\ published = {}
    /\ cached \in SUBSET Path
    /\ inUpstream \in SUBSET (Upstream \X Path)

Goto(p, l) == pc' = [pc EXCEPT ![p] = l]

-----------------------------------------------------------------------------
(***************************************************************************)
(* should_push_store_path.                                                 *)
(***************************************************************************)
Asking(p) == pc[p] \in {"select", "awaitUpstream", "awaitCache"}

\* The cache has a NARInfo of p.
Available(p) == p \in cached \cup published

\* The HEAD request is answered with 200 or 404, or it fails.
CacheAnswers(p) ==
    /\ Asking(p) /\ cacheSays[p] = "waiting"
    /\ \E answer \in {IF Available(p) THEN "yes" ELSE "no", "error"} :
          cacheSays' = [cacheSays EXCEPT ![p] = answer]
    /\ UNCHANGED <<pc, upSays, nar, published, servers>>

\* A GET request is answered.  Whatever is not 200 counts as absent.
UpstreamAnswers(p, u) ==
    /\ Asking(p) /\ upSays[p][u] = "waiting"
    /\ \E answer \in {IF <<u, p>> \in inUpstream THEN "yes" ELSE "no", "no"} :
          upSays' = [upSays EXCEPT ![p][u] = answer]
    /\ UNCHANGED <<pc, cacheSays, nar, published, servers>>

UpstreamYes(p) == \E u \in Upstream : upSays[p][u] = "yes"

\* upstream_caches_have_narinfo returns true with the first 200, and false only
\* when every request was answered.
UpstreamNo(p) == \A u \in Upstream : upSays[p][u] = "no"

\* The first of the two futures is ready.
SelectCache(p) ==
    /\ pc[p] = "select"
    /\ \/ cacheSays[p] = "yes" /\ Goto(p, "skipped")
       \/ cacheSays[p] \in {"no", "error"} /\ Goto(p, "awaitUpstream")
    /\ UNCHANGED <<cacheSays, upSays, nar, published, servers>>

SelectUpstream(p) ==
    /\ pc[p] = "select"
    /\ \/ UpstreamYes(p) /\ Goto(p, "skipped")
       \/ UpstreamNo(p) /\ Goto(p, "awaitCache")
    /\ UNCHANGED <<cacheSays, upSays, nar, published, servers>>

\* (mutant) The error of the cache is dropped.
AwaitUpstreamIgnoringError(p) ==
    /\ pc[p] = "awaitUpstream"
    /\ \/ UpstreamYes(p) /\ Goto(p, "skipped")
       \/ UpstreamNo(p) /\ Goto(p, "initiate")
    /\ UNCHANGED <<cacheSays, upSays, nar, published, servers>>

\* The cache does not have the path, or failed; the upstream caches decide.
AwaitUpstream(p) ==
    /\ pc[p] = "awaitUpstream"
    /\ \/ UpstreamYes(p) /\ Goto(p, "skipped")
       \/ UpstreamNo(p) /\ cacheSays[p] = "no" /\ Goto(p, "initiate")
       \/ UpstreamNo(p) /\ cacheSays[p] = "error" /\ Goto(p, "failed")
    /\ UNCHANGED <<cacheSays, upSays, nar, published, servers>>

\* No upstream cache has the path; the cache decides.
AwaitCache(p) ==
    /\ pc[p] = "awaitCache"
    /\ \/ cacheSays[p] = "yes" /\ Goto(p, "skipped")
       \/ cacheSays[p] = "no" /\ Goto(p, "initiate")
       \/ cacheSays[p] = "error" /\ Goto(p, "failed")
    /\ UNCHANGED <<cacheSays, upSays, nar, published, servers>>

-----------------------------------------------------------------------------
(***************************************************************************)
(* The upload.                                                             *)
(***************************************************************************)
\* initiate_nar_upload: the server opens an upload, or the request fails.
Initiate(p) ==
    /\ pc[p] = "initiate"
    /\ \/ Goto(p, "transfer") /\ nar' = [nar EXCEPT ![p] = "open"]
       \/ Goto(p, "failed") /\ nar' \in {nar, [nar EXCEPT ![p] = "open"]}
    /\ UNCHANGED <<cacheSays, upSays, published, servers>>

\* try_join(write_nar, upload_nar) succeeds: the upload is complete.
Transferred(p) ==
    /\ pc[p] = "transfer"
    /\ nar' = [nar EXCEPT ![p] = "whole"]
    /\ Goto(p, "infos")
    /\ UNCHANGED <<cacheSays, upSays, published, servers>>

\* (mutant) The error of the transfer is only logged.
TransferFailsOn(p) ==
    /\ pc[p] = "transfer"
    /\ Goto(p, "infos")
    /\ UNCHANGED <<cacheSays, upSays, nar, published, servers>>

\* Either half of the try_join fails, or nothing was written.  The upload may be
\* complete nevertheless: the answer to the last request may be lost.
TransferFails(p) ==
    /\ pc[p] = "transfer"
    /\ nar' \in {nar, [nar EXCEPT ![p] = "whole"]}
    /\ Goto(p, "failed")
    /\ UNCHANGED <<cacheSays, upSays, published, servers>>

\* get_path_infos, references, deriver, signatures, content_address.
QueryInfos(p) ==
    /\ pc[p] = "infos"
    /\ Goto(p, "narinfo") \/ Goto(p, "failed")
    /\ UNCHANGED <<cacheSays, upSays, nar, published, servers>>

\* (mutant) A NARInfo that was not accepted counts as pushed.
UploadNarinfoUnchecked(p) ==
    /\ pc[p] = "narinfo"
    /\ Goto(p, "pushed")
    /\ published' \in {published, published \cup {p}}
    /\ UNCHANGED <<cacheSays, upSays, nar, servers>>

\* upload_narinfo: its success is the success of the handler.
UploadNarinfo(p) ==
    /\ pc[p] = "narinfo"
    /\ \/ Goto(p, "pushed") /\ published' = published \cup {p}
       \/ Goto(p, "failed") /\ published' \in {published, published \cup {p}}
    /\ UNCHANGED <<cacheSays, upSays, nar, servers>>

\* The process ends.  The server may still act on the request that is under way.
Crash(p) ==
    /\ pc[p] \notin Outcome \cup {"crashed"}
    /\ Goto(p, "crashed")
    /\ \/ UNCHANGED <<nar, published>>
       \/ /\ pc[p] = "initiate"
          /\ nar' = [nar EXCEPT ![p] = "open"] /\ published' = published
       \/ /\ pc[p] = "transfer"
          /\ nar' = [nar EXCEPT ![p] = "whole"] /\ published' = published
       \/ /\ pc[p] = "narinfo"
          /\ published' = published \cup {p} /\ nar' = nar
    /\ UNCHANGED <<cacheSays, upSays, servers>>

\* Another job publishes a path in the same cache.
PublishedElsewhere(p) ==
    /\ p \notin cached
    /\ cached' = cached \cup {p}
    /\ UNCHANGED <<pc, cacheSays, upSays, nar, published, inUpstream>>

-----------------------------------------------------------------------------
Handle(p) ==
    \/ CacheAnswers(p)
    \/ \E u \in Upstream : UpstreamAnswers(p, u)
    \/ SelectCache(p) \/ SelectUpstream(p) \/ AwaitUpstream(p) \/ AwaitCache(p)
    \/ Initiate(p) \/ Transferred(p) \/ TransferFails(p)
    \/ QueryInfos(p) \/ UploadNarinfo(p)

HandlersNext == \E p \in Path : Handle(p) \/ Crash(p) \/ PublishedElsewhere(p)

HandlersSpec == HandlersInit /\ [][HandlersNext]_handlerVars

-----------------------------------------------------------------------------
(***************************************************************************)
(* Where handlers may be and what the server may hold.                     *)
(***************************************************************************)
HandlersTypeOK ==
    /\ pc \in [Path -> Outcome \cup
                 {"select", "awaitUpstream", "awaitCache", "initiate", "transfer",
                  "infos", "narinfo", "crashed"}]
    /\ cacheSays \in [Path -> {"waiting", "yes", "no", "error"}]
    /\ upSays \in [Path -> [Upstream -> {"waiting", "yes", "no"}]]
    /\ nar \in [Path -> {"none", "open", "whole"}]
    /\ published \in SUBSET Path
    /\ cached \in SUBSET Path
    /\ inUpstream \in SUBSET (Upstream \X Path)

(***************************************************************************)
(* The server never has a NARInfo whose NAR is not complete, so that nobody*)
(* who asks the cache is told of a path that cannot be fetched: not while  *)
(* an upload is under way, not after one that failed at any step, and not  *)
(* after a crash.                                                          *)
(***************************************************************************)
NarBeforeNarinfo == \A p \in published : nar[p] = "whole"

(***************************************************************************)
(* The decision depends on the answers and not on their order: a handler   *)
(* goes on to upload only if the cache and every upstream cache denied the *)
(* path, and gives it up only because some cache has it, or because the    *)
(* cache failed and no upstream cache has it.                              *)
(***************************************************************************)
PastDecision(p) == pc[p] \in {"initiate", "transfer", "infos", "narinfo", "pushed"}

DecisionFollowsAnswers ==
    \A p \in Path :
        /\ PastDecision(p) => cacheSays[p] = "no" /\ UpstreamNo(p)
        /\ pc[p] = "skipped" => cacheSays[p] = "yes" \/ UpstreamYes(p)
        /\ pc[p] = "failed" => UpstreamNo(p) /\ cacheSays[p] \in {"no", "error"}

(***************************************************************************)
(* A path is reported as pushed or skipped only if a client can fetch it:  *)
(* its NARInfo is in the cache, or in an upstream cache.                   *)
(***************************************************************************)
ReportedIsAvailable ==
    \A p \in Path :
        pc[p] \in {"pushed", "skipped"} =>
            Available(p) \/ \E u \in Upstream : <<u, p>> \in inUpstream
=============================================================================
