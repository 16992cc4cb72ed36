-------------------------------- MODULE Job --------------------------------
(***************************************************************************)
(* A workflow job that uses the action: the main step that downloads and   *)
(* starts the daemon (js/main.js), the daemon's start and its report over  *)
(* the ready pipe (src/run.rs), and the post step that stops it            *)
(* (js/post.js).  A job may use the action several times, for several      *)
(* caches; the uses share the job's environment, where each of them sets   *)
(* SUB60_SETUP_CACHE_STARTED for the condition of all the post steps.      *)
(*                                                                         *)
(* Main steps run one after another, post steps in the reverse order once  *)
(* all main steps have ended; the author of the workflow decides whether a *)
(* step runs after one that failed.  The daemon may die at any time.  What *)
(* it does between its start and its end is the business of Daemon.        *)
(***************************************************************************)
EXTENDS Naturals

CONSTANTS
    Uses,   \* how often the job uses the action
    Stuck   \* the uses whose daemon may never end its drain (a hung upload)

ASSUME UsesAssumption == Uses \in Nat \ {0}

Use == 1 .. Uses

VARIABLES
    main,        \* where the main step of each use is
    daemon,      \* where the daemon of each use is
    listening,   \* the daemons that listen on their socket
    pipe,        \* what was written to each ready pipe
    eof,         \* the ready pipes whose writing end is closed
    saved,       \* how many of its five appends each main step has made
    hooked,      \* env: the uses whose config is in NIX_USER_CONF_FILES
    started,     \* env: SUB60_SETUP_CACHE_STARTED = 'true'
    post,        \* where the post step of each use is
    asked,       \* the daemons whose stop command has sent its message
    lost         \* the daemons that died before they were asked to stop (history)

daemonVars == <<daemon, listening, pipe, eof, lost>>
mainVars == <<main, saved, hooked, started>>
postVars == <<post, asked>>
jobVars == <<daemonVars, mainVars, postVars>>

JobInit == /\ main = [i \in Use |-> "todo"]
           /\ daemon = [i \in Use |-> "none"]
           /\ listening = {}
           /\ pipe = [i \in Use |-> "empty"]
           /\ eof = {}
           /\ saved = [i \in Use |-> 0]
           /\ hooked = {}
           /\ started = FALSE
           /\ post = [i \in Use |-> "todo"]
           /\ asked = {}
           /\ lost = {}

Running(i) == daemon[i] \notin {"none", "gone"}

MainGoto(i, l) == main' = [main EXCEPT ![i] = l]
DaemonGoto(i, l) == daemon' = [daemon EXCEPT ![i] = l]

MainEnded(i) == main[i] \in {"ok", "failed", "skipped"}

-----------------------------------------------------------------------------
(***************************************************************************)
(* The daemon: `run` and `start`.                                          *)
(***************************************************************************)
\* UnixListener::bind: from here on the kernel queues connections.
BindSocket(i) ==
    /\ daemon[i] = "bind"
    /\ \/ DaemonGoto(i, "open") /\ listening' = listening \cup {i}
       \/ DaemonGoto(i, "error") /\ listening' = listening
    /\ UNCHANGED <<pipe, eof, lost, mainVars, postVars>>

\* NixStore::open; an error drops the listener.
OpenNixStore(i) ==
    /\ daemon[i] = "open"
    /\ \/ DaemonGoto(i, "connect") /\ listening' = listening
       \/ DaemonGoto(i, "error") /\ listening' = listening \ {i}
    /\ UNCHANGED <<pipe, eof, lost, mainVars, postVars>>

\* Sub60Cache::connect builds the HTTP client; an error drops the listener.
ConnectToCache(i) ==
    /\ daemon[i] = "connect"
    /\ \/ DaemonGoto(i, "ready") /\ listening' = listening
       \/ DaemonGoto(i, "error") /\ listening' = listening \ {i}
    /\ UNCHANGED <<pipe, eof, lost, mainVars, postVars>>

\* (mutant) The descriptor is not closed after the write.
SignalReadyAndKeep(i) ==
    /\ daemon[i] = "ready"
    /\ pipe' = [pipe EXCEPT ![i] = "ready"]
    /\ DaemonGoto(i, "serving")
    /\ UNCHANGED <<listening, eof, lost, mainVars, postVars>>

\* The byte 0 is written, or the write fails, which is only logged; the pipe is
\* closed and the event loop runs.
SignalReady(i) ==
    /\ daemon[i] = "ready"
    /\ pipe' = [pipe EXCEPT ![i] = "ready"] \/ pipe' = pipe
    /\ eof' = eof \cup {i}
    /\ DaemonGoto(i, "serving")
    /\ UNCHANGED <<listening, lost, mainVars, postVars>>

\* The byte 1 is written, then the message; after this, or once a write has
\* failed, the pipe is closed.
SignalError(i) ==
    /\ daemon[i] = "error"
    /\ \/ /\ pipe[i] = "empty"
          /\ pipe' = [pipe EXCEPT ![i] = "status"]
          /\ UNCHANGED <<eof, daemon>>
       \/ /\ \/ pipe[i] = "status" /\ pipe' = [pipe EXCEPT ![i] = "message"]
             \/ pipe' = pipe
          /\ eof' = eof \cup {i}
          /\ DaemonGoto(i, "exit")
    /\ UNCHANGED <<listening, lost, mainVars, postVars>>

\* The process of i is gone, and with it its ends of pipe and socket.
Gone(i) ==
    /\ DaemonGoto(i, "gone")
    /\ listening' = listening \ {i}
    /\ eof' = eof \cup {i}

\* process::exit(1) after an error of start.
ExitOnError(i) ==
    /\ daemon[i] = "exit"
    /\ Gone(i)
    /\ UNCHANGED <<pipe, lost, mainVars, postVars>>

\* The event loop has taken the stop, has drained and returns.
Drain(i) ==
    /\ daemon[i] = "serving" /\ i \in asked
    /\ Gone(i)
    /\ UNCHANGED <<pipe, lost, mainVars, postVars>>

\* The process is killed or aborts in a panic.
Die(i) ==
    /\ Running(i)
    /\ Gone(i)
    /\ lost' = IF i \in asked THEN lost ELSE lost \cup {i}
    /\ UNCHANGED <<pipe, mainVars, postVars>>

DaemonStep(i) == \/ BindSocket(i) \/ OpenNixStore(i) \/ ConnectToCache(i)
                 \/ SignalReady(i) \/ SignalError(i) \/ ExitOnError(i)

-----------------------------------------------------------------------------
(***************************************************************************)
(* The main step.                                                          *)
(***************************************************************************)
EarlierEnded(i) == \A j \in 1 .. i - 1 : MainEnded(j)

\* The workflow does not run the step, because an earlier one failed.
SkipMain(i) ==
    /\ main[i] = "todo" /\ EarlierEnded(i)
    /\ \E j \in 1 .. i - 1 : main[j] = "failed"
    /\ MainGoto(i, "skipped")
    /\ UNCHANGED <<saved, hooked, started, daemonVars, postVars>>

\* Inputs, platform and download of the binary.
Prepare(i) ==
    /\ main[i] = "todo" /\ EarlierEnded(i)
    /\ MainGoto(i, "start") \/ MainGoto(i, "failing")
    /\ UNCHANGED <<saved, hooked, started, daemonVars, postVars>>

\* The hook and the config are written, the log is opened and the daemon is
\* spawned with a pipe as its descriptor 3; any of this may fail.
Spawn(i) ==
    /\ main[i] = "start"
    /\ \/ MainGoto(i, "waiting") /\ DaemonGoto(i, "bind")
       \/ MainGoto(i, "failing") /\ daemon' = daemon
    /\ UNCHANGED <<saved, hooked, started, listening, pipe, eof, lost, postVars>>

\* (mutant) An empty message is taken for a success.
ReadReadyOrNothing(i) ==
    /\ main[i] = "waiting" /\ i \in eof
    /\ \/ pipe[i] \in {"ready", "empty"} /\ MainGoto(i, "saving")
       \/ pipe[i] \notin {"ready", "empty"} /\ MainGoto(i, "failing")
    /\ UNCHANGED <<saved, hooked, started, daemonVars, postVars>>

\* readReady wins the race: it reads to the end of the pipe, and only the byte 0
\* is a success.
ReadReady(i) ==
    /\ main[i] = "waiting" /\ i \in eof
    /\ \/ pipe[i] = "ready" /\ MainGoto(i, "saving")
       \/ pipe[i] # "ready" /\ MainGoto(i, "failing")
    /\ UNCHANGED <<saved, hooked, started, daemonVars, postVars>>

\* exitedEarly wins the race, whatever is in the pipe.
ExitedEarly(i) ==
    /\ main[i] = "waiting" /\ daemon[i] = "gone"
    /\ MainGoto(i, "failing")
    /\ UNCHANGED <<saved, hooked, started, daemonVars, postVars>>

\* One of the five appends to GITHUB_STATE and GITHUB_ENV, in this order: the
\* three paths, NIX_USER_CONF_FILES, SUB60_SETUP_CACHE_STARTED.
Save(i) ==
    /\ main[i] = "saving" /\ saved[i] < 5
    /\ saved' = [saved EXCEPT ![i] = @ + 1]
    /\ hooked' = IF saved[i] = 3 THEN hooked \cup {i} ELSE hooked
    /\ IF saved[i] = 4 THEN started' = TRUE ELSE started' = started
    /\ UNCHANGED <<main, daemonVars, postVars>>

\* appendFileSync throws.
SaveFails(i) ==
    /\ main[i] = "saving" /\ saved[i] < 5
    /\ MainGoto(i, "failing")
    /\ UNCHANGED <<saved, hooked, started, daemonVars, postVars>>

\* child.unref(): node exits although the daemon runs.
Unref(i) ==
    /\ main[i] = "saving" /\ saved[i] = 5
    /\ MainGoto(i, "ok")
    /\ UNCHANGED <<saved, hooked, started, daemonVars, postVars>>

\* (mutant) The daemon is no longer referenced when an error is thrown.
FailAtOnce(i) ==
    /\ main[i] = "failing"
    /\ MainGoto(i, "failed")
    /\ UNCHANGED <<saved, hooked, started, daemonVars, postVars>>

\* setFailed: node does not exit before its child has, which it still references.
Fail(i) ==
    /\ main[i] = "failing" /\ ~Running(i)
    /\ MainGoto(i, "failed")
    /\ UNCHANGED <<saved, hooked, started, daemonVars, postVars>>

MainStep(i) == \/ Prepare(i) \/ Spawn(i) \/ ReadReady(i) \/ ExitedEarly(i)
               \/ Save(i) \/ Unref(i) \/ Fail(i)

-----------------------------------------------------------------------------
(***************************************************************************)
(* The post step.                                                          *)
(***************************************************************************)
PostDone(i) == post[i] \in {"skipped", "ok", "failed"}

MayPost(i) == /\ post[i] = "todo"
              /\ \A j \in Use : MainEnded(j)
              /\ \A j \in i + 1 .. Uses : PostDone(j)

\* post-if: always() && env.SUB60_SETUP_CACHE_STARTED == 'true'
PostIf(i) == main[i] # "skipped" /\ started

PostGoto(i, l) == post' = [post EXCEPT ![i] = l]

SkipPost(i) ==
    /\ MayPost(i) /\ ~PostIf(i)
    /\ PostGoto(i, "skipped")
    /\ UNCHANGED <<asked, mainVars, daemonVars>>

\* (mutant) The status of the stop command is not looked at.
StopUnchecked(i) ==
    /\ MayPost(i) /\ PostIf(i)
    /\ \/ i \in listening /\ PostGoto(i, "stopping")
       \/ PostGoto(i, "ok")
    /\ UNCHANGED <<asked, mainVars, daemonVars>>

\* The stop command of the saved binary is run and connects to the saved socket.
\* Without saved paths spawnSync throws; if the binary cannot be spawned, or is
\* killed, its status is null; if nobody listens the command exits with 1.
RunStop(i) ==
    /\ MayPost(i) /\ PostIf(i)
    /\ \/ saved[i] >= 2 /\ i \in listening /\ PostGoto(i, "stopping")
       \/ PostGoto(i, "failed")
    /\ UNCHANGED <<asked, mainVars, daemonVars>>

\* The command sends the stop message, or exits with 1 if the write fails, as it
\* does when the daemon is gone.
SendStop(i) ==
    /\ post[i] = "stopping" /\ i \notin asked
    /\ \/ Running(i) /\ asked' = asked \cup {i} /\ post' = post
       \/ PostGoto(i, "failed") /\ asked' = asked
    /\ UNCHANGED <<mainVars, daemonVars>>

\* The daemon closes the connection: the command exits with 0.
StopReturns(i) ==
    /\ post[i] = "stopping" /\ i \in asked /\ daemon[i] = "gone"
    /\ PostGoto(i, "ok")
    /\ UNCHANGED <<asked, mainVars, daemonVars>>

\* The copy of the daemon's lines to stdout fails; the command exits with 0, too.
CopyFails(i) ==
    /\ post[i] = "stopping" /\ i \in asked
    /\ PostGoto(i, "ok")
    /\ UNCHANGED <<asked, mainVars, daemonVars>>

\* The stop command is killed: its status is null.
StopKilled(i) ==
    /\ post[i] = "stopping"
    /\ PostGoto(i, "failed")
    /\ UNCHANGED <<asked, mainVars, daemonVars>>

PostStep(i) == SkipPost(i) \/ RunStop(i) \/ SendStop(i) \/ StopReturns(i)

-----------------------------------------------------------------------------
JobOver == \A i \in Use : PostDone(i)

AfterJob == JobOver /\ UNCHANGED jobVars

JobNext == \/ \E i \in Use : \/ DaemonStep(i) \/ Drain(i) \/ Die(i)
                             \/ MainStep(i) \/ SkipMain(i) \/ SaveFails(i)
                             \/ PostStep(i) \/ CopyFails(i) \/ StopKilled(i)
           \/ AfterJob

JobSpec == JobInit /\ [][JobNext]_jobVars

\* Steps and the daemon's start come to an end, and its drain does unless it is
\* stuck; no process has to die, and no step has to fail.
Fairness == \A i \in Use : /\ WF_jobVars(DaemonStep(i))
                           /\ i \notin Stuck => WF_jobVars(Drain(i))
                           /\ WF_jobVars(MainStep(i))
                           /\ WF_jobVars(PostStep(i))

FairJobSpec == JobSpec /\ Fairness

-----------------------------------------------------------------------------
(***************************************************************************)
(* The states of steps and daemons.                                        *)
(***************************************************************************)
JobTypeOK ==
    /\ main \in [Use -> {"todo", "start", "waiting", "saving", "failing",
                         "ok", "failed", "skipped"}]
    /\ daemon \in [Use -> {"none", "bind", "open", "connect", "ready", "error",
                           "exit", "serving", "gone"}]
    /\ listening \in SUBSET Use
    /\ pipe \in [Use -> {"empty", "ready", "status", "message"}]
    /\ eof \in SUBSET Use
    /\ saved \in [Use -> 0 .. 5]
    /\ hooked \in SUBSET Use
    /\ started \in BOOLEAN
    /\ post \in [Use -> {"todo", "stopping", "skipped", "ok", "failed"}]
    /\ asked \in SUBSET Use
    /\ lost \in SUBSET Use

(***************************************************************************)
(* Builds call the hook only of a daemon that has bound its socket, opened *)
(* the store and connected to the cache, and that listens unless it has    *)
(* died or was drained since: a daemon whose start failed at any step, or  *)
(* that died during it, never gets its hook into the job's environment.    *)
(***************************************************************************)
HookMeansReady ==
    \A i \in hooked : /\ pipe[i] = "ready"
                      /\ i \in listening \/ daemon[i] = "gone"

(***************************************************************************)
(* No daemon is forgotten: one that runs when the job is over has either   *)
(* been asked to stop and is draining, its stop command cut off, or its    *)
(* own post step has failed, for all to see.  No start that fails at any   *)
(* step, no failed append and no skipped post step leaves one behind.      *)
(***************************************************************************)
NoDaemonForgotten ==
    JobOver => \A i \in Use : Running(i) => i \in asked \/ post[i] = "failed"

JobSucceeded == /\ JobOver
                /\ \A i \in Use : main[i] = "ok" /\ post[i] \in {"ok", "skipped"}

(***************************************************************************)
(* A job that succeeds has stopped every one of its daemons: a daemon that *)
(* never became ready, or that died unasked while the job ran, makes the   *)
(* job fail, although nobody watches the daemon after its start.           *)
(***************************************************************************)
SuccessMeansStopped ==
    JobSucceeded => \A i \in Use : pipe[i] = "ready" /\ i \notin lost

(***************************************************************************)
(* The job ends, or it waits for ever for a daemon that serves: a main     *)
(* step that fails after its daemon has started, at the write of the ready *)
(* byte or at an append, and whose node still references the child; or a   *)
(* stop command whose daemon is stuck in its drain.                        *)
(***************************************************************************)
Hangs(i) == /\ daemon[i] = "serving"
            /\ main[i] = "failing" \/ (post[i] = "stopping" /\ i \in asked /\ i \in Stuck)

JobEnds == <>JobOver \/ \E i \in Use : <>[]Hangs(i)
=============================================================================
