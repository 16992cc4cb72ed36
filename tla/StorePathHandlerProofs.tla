----------------------- MODULE StorePathHandlerProofs -----------------------
(***************************************************************************)
(* Proofs about StorePathHandler, for any paths and upstream caches.       *)
(***************************************************************************)
EXTENDS StorePathHandler, TLAPS

(***************************************************************************)
(* Every step keeps the type invariant.                                    *)
(***************************************************************************)
LEMMA HandlersTypeStep == HandlersTypeOK /\ [HandlersNext]_handlerVars => HandlersTypeOK'
<1> SUFFICES ASSUME HandlersTypeOK, [HandlersNext]_handlerVars PROVE HandlersTypeOK'
    OBVIOUS
<1> USE DEF servers
<1>1. CASE UNCHANGED handlerVars
    BY <1>1 DEF HandlersTypeOK, handlerVars
<1>2. ASSUME NEW p \in Path, Handle(p) \/ Crash(p) \/ PublishedElsewhere(p) PROVE HandlersTypeOK'
    <2>1. CASE CacheAnswers(p)
        BY <2>1 DEF CacheAnswers, HandlersTypeOK
    <2>2. ASSUME NEW u \in Upstream, UpstreamAnswers(p, u) PROVE HandlersTypeOK'
        BY <2>2 DEF UpstreamAnswers, HandlersTypeOK
    <2>3. CASE SelectCache(p)
        BY <2>3 DEF SelectCache, Goto, HandlersTypeOK, Outcome
    <2>4. CASE SelectUpstream(p)
        BY <2>4 DEF SelectUpstream, Goto, HandlersTypeOK, Outcome
    <2>5. CASE AwaitUpstream(p)
        BY <2>5 DEF AwaitUpstream, Goto, HandlersTypeOK, Outcome
    <2>6. CASE AwaitCache(p)
        BY <2>6 DEF AwaitCache, Goto, HandlersTypeOK, Outcome
    <2>7. CASE Initiate(p)
        BY <2>7 DEF Initiate, Goto, HandlersTypeOK, Outcome
    <2>8. CASE Transferred(p)
        BY <2>8 DEF Transferred, Goto, HandlersTypeOK, Outcome
    <2>9. CASE TransferFails(p)
        BY <2>9 DEF TransferFails, Goto, HandlersTypeOK, Outcome
    <2>10. CASE QueryInfos(p)
        BY <2>10 DEF QueryInfos, Goto, HandlersTypeOK, Outcome
    <2>11. CASE UploadNarinfo(p)
        BY <2>11 DEF UploadNarinfo, Goto, HandlersTypeOK, Outcome
    <2>12. CASE Crash(p)
        BY <2>12 DEF Crash, Goto, HandlersTypeOK, Outcome
    <2>13. CASE PublishedElsewhere(p)
        BY <2>13 DEF PublishedElsewhere, HandlersTypeOK
    <2> QED
        BY <1>2, <2>1, <2>2, <2>3, <2>4, <2>5, <2>6, <2>7, <2>8, <2>9, <2>10,
           <2>11, <2>12, <2>13 DEF Handle
<1> QED
    BY <1>1, <1>2 DEF HandlersNext

(***************************************************************************)
(* The program counters, the answers and the server's state keep to their  *)
(* types in every run of handle_store_path.                                *)
(***************************************************************************)
THEOREM HandlersTypeCorrect == HandlersSpec => []HandlersTypeOK
<1>1. HandlersInit => HandlersTypeOK
    BY DEF HandlersInit, HandlersTypeOK, Outcome
<1> QED
    BY <1>1, HandlersTypeStep, PTL DEF HandlersSpec

-----------------------------------------------------------------------------
(***************************************************************************)
(* NarBeforeNarinfo is not inductive: what holds of a handler that is about*)
(* to send the NARInfo must be carried from the transfer on, and a handler *)
(* that has sent it must be past the only step that could reopen its NAR.  *)
(***************************************************************************)
NarInv ==
    /\ \A p \in Path : pc[p] \in {"infos", "narinfo"} => nar[p] = "whole"
    /\ \A p \in published : nar[p] = "whole" /\ pc[p] \in {"pushed", "failed", "crashed"}

LEMMA NarStep == HandlersTypeOK /\ NarInv /\ [HandlersNext]_handlerVars => NarInv'
<1> SUFFICES ASSUME HandlersTypeOK, NarInv, [HandlersNext]_handlerVars PROVE NarInv'
    OBVIOUS
<1> USE DEF servers
<1>1. CASE UNCHANGED handlerVars
    BY <1>1 DEF NarInv, handlerVars
<1>2. ASSUME NEW p \in Path, Handle(p) \/ Crash(p) \/ PublishedElsewhere(p) PROVE NarInv'
    <2>1. CASE CacheAnswers(p)
        BY <2>1 DEF CacheAnswers, NarInv
    <2>2. ASSUME NEW u \in Upstream, UpstreamAnswers(p, u) PROVE NarInv'
        BY <2>2 DEF UpstreamAnswers, NarInv
    <2>3. CASE SelectCache(p)
        BY <2>3 DEF SelectCache, Goto, HandlersTypeOK, NarInv
    <2>4. CASE SelectUpstream(p)
        BY <2>4 DEF SelectUpstream, Goto, HandlersTypeOK, NarInv
    <2>5. CASE AwaitUpstream(p)
        BY <2>5 DEF AwaitUpstream, Goto, HandlersTypeOK, NarInv
    <2>6. CASE AwaitCache(p)
        BY <2>6 DEF AwaitCache, Goto, HandlersTypeOK, NarInv
    <2>7. CASE Initiate(p)
        BY <2>7 DEF Initiate, Goto, HandlersTypeOK, NarInv
    <2>8. CASE Transferred(p)
        BY <2>8 DEF Transferred, Goto, HandlersTypeOK, NarInv
    <2>9. CASE TransferFails(p)
        BY <2>9 DEF TransferFails, Goto, HandlersTypeOK, NarInv
    <2>10. CASE QueryInfos(p)
        BY <2>10 DEF QueryInfos, Goto, HandlersTypeOK, NarInv
    <2>11. CASE UploadNarinfo(p)
        BY <2>11 DEF UploadNarinfo, Goto, HandlersTypeOK, NarInv
    <2>12. CASE Crash(p)
        BY <2>12 DEF Crash, Goto, HandlersTypeOK, NarInv, Outcome
    <2>13. CASE PublishedElsewhere(p)
        BY <2>13 DEF PublishedElsewhere, HandlersTypeOK, NarInv
    <2> QED
        BY <1>2, <2>1, <2>2, <2>3, <2>4, <2>5, <2>6, <2>7, <2>8, <2>9, <2>10,
           <2>11, <2>12, <2>13 DEF Handle
<1> QED
    BY <1>1, <1>2 DEF HandlersNext

(***************************************************************************)
(* The server never has a NARInfo without its NAR, whatever request fails, *)
(* whichever answer is lost and whenever the process is killed.            *)
(***************************************************************************)
THEOREM NarFirst == HandlersSpec => []NarBeforeNarinfo
<1>1. HandlersInit => NarInv
    BY DEF HandlersInit, NarInv
<1>2. NarInv => NarBeforeNarinfo
    BY DEF NarInv, NarBeforeNarinfo
<1> QED
    BY <1>1, <1>2, HandlersTypeCorrect, NarStep, PTL DEF HandlersSpec

-----------------------------------------------------------------------------
(***************************************************************************)
(* The decision: what the two places where one answer is awaited know of   *)
(* the other one.  An answer that was given is never changed.              *)
(***************************************************************************)
DecisionInv ==
    /\ DecisionFollowsAnswers
    /\ \A p \in Path :
          /\ pc[p] = "awaitUpstream" => cacheSays[p] \in {"no", "error"}
          /\ pc[p] = "awaitCache" => UpstreamNo(p)

LEMMA DecisionStep == HandlersTypeOK /\ DecisionInv /\ [HandlersNext]_handlerVars => DecisionInv'
<1> SUFFICES ASSUME HandlersTypeOK, DecisionInv, [HandlersNext]_handlerVars PROVE DecisionInv'
    OBVIOUS
<1> USE DEF servers, DecisionInv, DecisionFollowsAnswers, PastDecision, UpstreamNo, UpstreamYes
<1>1. CASE UNCHANGED handlerVars
    BY <1>1 DEF handlerVars
<1>2. ASSUME NEW p \in Path, Handle(p) \/ Crash(p) \/ PublishedElsewhere(p) PROVE DecisionInv'
    <2>1. CASE CacheAnswers(p)
        BY <2>1 DEF CacheAnswers, Asking, HandlersTypeOK
    <2>2. ASSUME NEW u \in Upstream, UpstreamAnswers(p, u) PROVE DecisionInv'
        BY <2>2 DEF UpstreamAnswers, Asking, HandlersTypeOK
    <2>3. CASE SelectCache(p)
        BY <2>3 DEF SelectCache, Goto, HandlersTypeOK
    <2>4. CASE SelectUpstream(p)
        BY <2>4 DEF SelectUpstream, Goto, HandlersTypeOK
    <2>5. CASE AwaitUpstream(p)
        BY <2>5 DEF AwaitUpstream, Goto, HandlersTypeOK
    <2>6. CASE AwaitCache(p)
        BY <2>6 DEF AwaitCache, Goto, HandlersTypeOK
    <2>7. CASE Initiate(p)
        BY <2>7 DEF Initiate, Goto, HandlersTypeOK
    <2>8. CASE Transferred(p)
        BY <2>8 DEF Transferred, Goto, HandlersTypeOK
    <2>9. CASE TransferFails(p)
        BY <2>9 DEF TransferFails, Goto, HandlersTypeOK
    <2>10. CASE QueryInfos(p)
        BY <2>10 DEF QueryInfos, Goto, HandlersTypeOK
    <2>11. CASE UploadNarinfo(p)
        BY <2>11 DEF UploadNarinfo, Goto, HandlersTypeOK
    <2>12. CASE Crash(p)
        BY <2>12 DEF Crash, Goto, HandlersTypeOK
    <2>13. CASE PublishedElsewhere(p)
        BY <2>13 DEF PublishedElsewhere, HandlersTypeOK
    <2> QED
        BY <1>2, <2>1, <2>2, <2>3, <2>4, <2>5, <2>6, <2>7, <2>8, <2>9, <2>10,
           <2>11, <2>12, <2>13 DEF Handle
<1> QED
    BY <1>1, <1>2 DEF HandlersNext

(***************************************************************************)
(* In whichever order the cache and the upstream caches answer or fail,    *)
(* should_push_store_path decides by the answers alone.                    *)
(***************************************************************************)
THEOREM DecisionCorrect == HandlersSpec => []DecisionFollowsAnswers
<1>1. HandlersInit => DecisionInv
    BY DEF HandlersInit, DecisionInv, DecisionFollowsAnswers, PastDecision
<1>2. DecisionInv => DecisionFollowsAnswers
    BY DEF DecisionInv
<1> QED
    BY <1>1, <1>2, HandlersTypeCorrect, DecisionStep, PTL DEF HandlersSpec

-----------------------------------------------------------------------------
(***************************************************************************)
(* The answers are true when they are given and stay true, because the     *)
(* cache keeps what it has; a pushed path was published by its handler.    *)
(***************************************************************************)
AnswersInv ==
    \A p \in Path :
        /\ cacheSays[p] = "yes" => Available(p)
        /\ \A u \in Upstream : upSays[p][u] = "yes" => <<u, p>> \in inUpstream
        /\ pc[p] = "pushed" => p \in published

LEMMA AnswersStep == HandlersTypeOK /\ AnswersInv /\ [HandlersNext]_handlerVars => AnswersInv'
<1> SUFFICES ASSUME HandlersTypeOK, AnswersInv, [HandlersNext]_handlerVars PROVE AnswersInv'
    OBVIOUS
<1> USE DEF servers, AnswersInv, Available
<1>1. CASE UNCHANGED handlerVars
    BY <1>1 DEF handlerVars
<1>2. ASSUME NEW p \in Path, Handle(p) \/ Crash(p) \/ PublishedElsewhere(p) PROVE AnswersInv'
    <2>1. CASE CacheAnswers(p)
        BY <2>1 DEF CacheAnswers, HandlersTypeOK
    <2>2. ASSUME NEW u \in Upstream, UpstreamAnswers(p, u) PROVE AnswersInv'
        <3>1. PICK answer \in {"yes", "no"} :
                 /\ upSays' = [upSays EXCEPT ![p][u] = answer]
                 /\ answer = "yes" => <<u, p>> \in inUpstream
            BY <2>2 DEF UpstreamAnswers
        <3>2. ASSUME NEW q \in Path, NEW v \in Upstream, upSays'[q][v] = "yes"
              PROVE  <<v, q>> \in inUpstream
            <4>1. CASE q = p /\ v = u
                BY <4>1, <3>1, <3>2 DEF HandlersTypeOK
            <4>2. CASE ~(q = p /\ v = u)
                BY <4>2, <3>1, <3>2 DEF HandlersTypeOK
            <4> QED
                BY <4>1, <4>2
        <3> QED
            BY <2>2, <3>2 DEF UpstreamAnswers
    <2>3. CASE SelectCache(p)
        BY <2>3 DEF SelectCache, Goto, HandlersTypeOK
    <2>4. CASE SelectUpstream(p)
        BY <2>4 DEF SelectUpstream, Goto, HandlersTypeOK
    <2>5. CASE AwaitUpstream(p)
        BY <2>5 DEF AwaitUpstream, Goto, HandlersTypeOK
    <2>6. CASE AwaitCache(p)
        BY <2>6 DEF AwaitCache, Goto, HandlersTypeOK
    <2>7. CASE Initiate(p)
        BY <2>7 DEF Initiate, Goto, HandlersTypeOK
    <2>8. CASE Transferred(p)
        BY <2>8 DEF Transferred, Goto, HandlersTypeOK
    <2>9. CASE TransferFails(p)
        BY <2>9 DEF TransferFails, Goto, HandlersTypeOK
    <2>10. CASE QueryInfos(p)
        BY <2>10 DEF QueryInfos, Goto, HandlersTypeOK
    <2>11. CASE UploadNarinfo(p)
        BY <2>11 DEF UploadNarinfo, Goto, HandlersTypeOK
    <2>12. CASE Crash(p)
        BY <2>12 DEF Crash, Goto, HandlersTypeOK
    <2>13. CASE PublishedElsewhere(p)
        BY <2>13 DEF PublishedElsewhere, HandlersTypeOK
    <2> QED
        BY <1>2, <2>1, <2>2, <2>3, <2>4, <2>5, <2>6, <2>7, <2>8, <2>9, <2>10,
           <2>11, <2>12, <2>13 DEF Handle
<1> QED
    BY <1>1, <1>2 DEF HandlersNext

(***************************************************************************)
(* A path that a handler counts as pushed or skipped can be fetched from   *)
(* the cache or from an upstream cache.                                    *)
(***************************************************************************)
THEOREM ReportedCorrect == HandlersSpec => []ReportedIsAvailable
<1>1. HandlersInit => AnswersInv
    BY DEF HandlersInit, AnswersInv
<1>2. AnswersInv /\ DecisionFollowsAnswers => ReportedIsAvailable
    BY DEF AnswersInv, DecisionFollowsAnswers, ReportedIsAvailable, Available, UpstreamYes
<1> QED
    BY <1>1, <1>2, HandlersTypeCorrect, DecisionCorrect, AnswersStep, PTL DEF HandlersSpec
=============================================================================
