------------------------------ MODULE Uploader ------------------------------
(***************************************************************************)
(* The event loop together with the handlers it spawns: EventLoop decides  *)
(* which paths are handled and when, StorePathHandler says what a handler  *)
(* does, and here the outcome that the loop counts is the result of the    *)
(* handler.  A handler is a future that nobody polls before it is spawned, *)
(* a spawned handler runs on a thread of its own, and the loop learns of   *)
(* its end when it polls the handler's join handle.  A handler that panics *)
(* aborts the process, and the handlers that run beside it.                *)
(***************************************************************************)
EXTENDS EventLoop, StorePathHandler

uploaderVars == <<vars, handlerVars>>

UploaderInit == Init /\ HandlersInit

\* A spawned handler takes a step.
RunHandler(p) ==
    /\ Alive /\ p \in running
    /\ Handle(p)
    /\ UNCHANGED vars

\* upstream_caches_have_narinfo panics when it is first polled, before any
\* upstream cache is asked: an upstream URL that cannot be a base.
HandlerPanics(p) ==
    /\ pc[p] = "select" /\ \A u \in Upstream : upSays[p][u] = "waiting"
    /\ Panic(p)
    /\ Crash(p)

\* The process was aborted, and the other handlers end where they are.
Abort(p) ==
    /\ phase = "panicked"
    /\ p \in running
    /\ Crash(p)
    /\ UNCHANGED vars

\* Another job pushes to the same cache.
OtherJob(p) == PublishedElsewhere(p) /\ UNCHANGED vars

\* (mutant) Whatever the handler returned, the path counts as handled well.
CollectOptimistically(p) ==
    /\ pc[p] \in Outcome
    /\ PathHandled(p, "pushed") \/ PathDrained(p, "pushed")
    /\ UNCHANGED handlerVars

\* (mutant) A handler that failed is started again.
CollectOrRetry(p) ==
    \/ /\ pc[p] \in Outcome \ {"failed"}
       /\ PathHandled(p, pc[p]) \/ PathDrained(p, pc[p])
       /\ UNCHANGED handlerVars
    \/ /\ pc[p] = "failed"
       /\ pc' = [pc EXCEPT ![p] = "select"]
       /\ UNCHANGED <<vars, cacheSays, upSays, nar, published, cached, inUpstream>>

\* The join handle of an ended handler is polled, in the loop or in the drain.
Collect(p) ==
    /\ pc[p] \in Outcome
    /\ PathHandled(p, pc[p]) \/ PathDrained(p, pc[p])
    /\ UNCHANGED handlerVars

\* What the loop does on its own account.
Loop == /\ \/ Arrive
           \/ LoopStep
           \/ \E r \in Request : CloseTask(r)
        /\ UNCHANGED handlerVars

UploaderNext ==
    \/ Loop
    \/ \E p \in Path : \/ RunHandler(p) \/ Collect(p)
                       \/ HandlerPanics(p) \/ Abort(p)
                       \/ OtherJob(p)

UploaderSpec == UploaderInit /\ [][UploaderNext]_uploaderVars

\* The fairness of the loop and of the handlers; nothing makes a client push.
FairUploaderSpec ==
    /\ UploaderSpec
    /\ WF_uploaderVars(LoopStep /\ UNCHANGED handlerVars)
    /\ \A r \in Request : WF_uploaderVars(CloseTask(r) /\ UNCHANGED handlerVars)
    /\ \A p \in Path \ Stuck : WF_uploaderVars(RunHandler(p))
    /\ \A p \in Path : WF_uploaderVars(Collect(p))

-----------------------------------------------------------------------------
(***************************************************************************)
(* The loop and the handlers keep their types.                             *)
(***************************************************************************)
UploaderTypeOK == TypeOK /\ HandlersTypeOK

Fetchable(p) == Available(p) \/ \E u \in Upstream : <<u, p>> \in inUpstream

(***************************************************************************)
(* What the job may rely on when `run` returns: the closure of every push  *)
(* that entered the channel ahead of the stop is whole.  Every path of it  *)
(* can be fetched from the cache or from an upstream cache, unless the     *)
(* report names the closure or the path as failed.  NARInfos are published *)
(* in any order, references after referrers too: it is the drain that makes*)
(* the closures whole.                                                     *)
(***************************************************************************)
DrainedClosuresWhole ==
    phase = "done" =>
        \A r \in ahead \ Range(report.closureErrors) :
            \A p \in Range(Closure[r]) \ Range(report.handlingErrors) : Fetchable(p)

(***************************************************************************)
(* The number of paths that the report counts as pushed is the number of   *)
(* NARInfos that this daemon has published, but for those whose upload was *)
(* acted on by the server and answered with an error.                      *)
(***************************************************************************)
PushedIsPublished ==
    phase = "done" =>
        /\ PathsThat("pushed") \subseteq published
        /\ published \subseteq PathsThat("pushed") \cup Range(report.handlingErrors)
        /\ report.pushed <= Cardinality(published)

(***************************************************************************)
(* No more NARs are written at a time than there are slots, although the   *)
(* handlers run on threads of their own and the futures of waiting paths   *)
(* exist already.                                                          *)
(***************************************************************************)
UploadsInProgress == {p \in Path : pc[p] \in {"initiate", "transfer", "infos", "narinfo"}}

BoundedUploads == Cardinality(UploadsInProgress) <= MaxConcurrent

(***************************************************************************)
(* A path that the loop has seen can be fetched in the end, or is reported *)
(* as failed, or a panic has ended the daemon.                             *)
(***************************************************************************)
SeenIsFetchable ==
    \A p \in Path :
        p \in seen ~> \/ Fetchable(p)
                      \/ p \in Range(report.handlingErrors)
                      \/ phase = "panicked"
=============================================================================
