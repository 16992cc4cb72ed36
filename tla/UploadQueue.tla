----------------------------- MODULE UploadQueue -----------------------------
(***************************************************************************)
(* What the daemon promises about store paths, without slots, queues,      *)
(* channels or phases: a path that is accepted is given exactly one        *)
(* outcome, which never changes, and the session ends with a tally only    *)
(* when no accepted path is without one.  EventLoop implements it.         *)
(***************************************************************************)
EXTENDS Naturals, FiniteSets

CONSTANT Path

VARIABLES status,   \* what became of each path
          tally     \* the final tally, or the empty one while paths may come

vars == <<status, tally>>

Outcome == {"pushed", "skipped", "failed"}

PathsThat(s) == {p \in Path : status[p] = s}

Open == [closed |-> FALSE, pushed |-> 0, skipped |-> 0, failed |-> {}]

Init == /\ status = [p \in Path |-> "unseen"]
        /\ tally = Open

Accept(p) == /\ tally = Open
             /\ status[p] = "unseen"
             /\ status' = [status EXCEPT ![p] = "accepted"]
             /\ UNCHANGED tally

Resolve(p, o) == /\ tally = Open
                 /\ status[p] = "accepted"
                 /\ status' = [status EXCEPT ![p] = o]
                 /\ UNCHANGED tally

Close == /\ tally = Open
         /\ PathsThat("accepted") = {}
         /\ tally' = [closed |-> TRUE,
                      pushed |-> Cardinality(PathsThat("pushed")),
                      skipped |-> Cardinality(PathsThat("skipped")),
                      failed |-> PathsThat("failed")]
         /\ UNCHANGED status

Next == \/ \E p \in Path : Accept(p)
        \/ \E p \in Path, o \in Outcome : Resolve(p, o)
        \/ Close

Spec == Init /\ [][Next]_vars
=============================================================================
