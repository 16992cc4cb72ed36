# A TLA+ verification of cache-action

The repository is a GitHub Action that uploads what a job builds to a Nix binary
cache. A daemon runs for the length of the job. A Nix post-build hook calls
`push` for every build, and the action's post step calls `stop`, which waits
until the daemon has uploaded everything. The interesting behaviour is
concurrent: connections, closures and uploads are tasks of a multi-threaded
runtime, the stop races all of them, and every upload is a series of requests
that may fail.

This directory models that behaviour in TLA+, checks it with TLC and proves the
main invariants with TLAPS.

## The system

| Component | State | Operations | Talks to |
|---|---|---|---|
| Event loop (`src/event_loop.rs`, `run`) | channel of events, closures in flight, seen hashes, spawned handlers, pending queue, report, stop writer | receive push / stop / error, closure done / failed, visit path, handler done, break, drain, final report | connection tasks (channel), closure and handler tasks (futures), stop client (writer) |
| Connections (`handle_io`) and socket (`run.rs`) | backlog, one reader and writer for each connection | accept, forward message, end | `push` and `stop` processes, event loop |
| `push` and `stop` processes (`push.rs`, `stop.rs`) | what is still to be written, exit status | connect, send, close, copy output | socket |
| Wire protocol (`protocol.rs`) | sender buffer and `num_written`, receiver buffer of 1024 bytes, `is_done` | start_send, drain, close, poll_next | stream socket |
| Store path handler (`handle_store_path`) | none that outlives it | ask cache and upstreams, initiate, transfer, query, upload NARInfo | cache server, upstream caches, Nix store |
| NAR transfer (`nix_store.rs`, `sub60_cache.rs`, `async_read_ext.rs`) | pipe, part buffer, part number, URLs and their expiration, etags | write, shut down, take URL, request URLs, fill, put, complete | cache server |
| NAR writer (`nix_store.rs`, `HashAndCountWriter`) | the activations of `write_nar` with their `child_path`, hash and count | visit, enter, close, write | pipe of the NAR transfer |
| Progress reporter (`real_stop_progress_reporter.rs`) | whether a first line was written | one method for each line | stop client |
| Runtime (`tokio.rs`) | tasks | spawn, join; a panic aborts the process | everything |
| Start and readiness (`run.rs`, `js/main.js`) | socket file, ready pipe, child process | bind, open, connect, signal, wait | job |
| Job lifecycle (`js/main.js`, `js/post.js`) | environment and state files of the job | download, configure, start, save, stop | daemon, runner |
| Release download (`js/main.js`) | page, tag | list tags, find asset, download | GitHub |
| Nix store binding, cache selection, command line | | | |

What makes each of them correct:

* Event loop: each path is handled exactly once, at most 32 at a time. Nothing
  taken from the channel is lost. The report is right, and a stop ends the loop.
* Daemon: messages keep their order, a client that connected returns, and the
  stop client returns only when the work is done.
* Wire protocol: messages survive any cut of the byte stream, as long as no text
  contains the separator.
* Handler: a NARInfo never precedes its NAR, the decision does not depend on the
  order of answers, and a path reported as available is available.
* NAR transfer: what is completed is the whole NAR, each part goes to its own
  URL, and the two halves do not block each other.
* NAR writer: what is written is the NAR of the tree, and the hash and size in the
  NARInfo are those of what was written.
* Loop with handlers: when the drain is over, the closures that were pushed can be
  fetched, but for what the report names.
* Drain: it ends unless the stop client stays and does not read, and a client that
  exits with 0 has seen the report unless the daemon died or a write or its copy failed.
* Job: builds meet only hooks of daemons that became ready, and a daemon that outlives
  the job was asked to stop or has made its post step fail.
* Release download: a commit that has a released tag gets the binary of such a tag.

The hazards, with the line where each bites and the properties that would catch
it, are listed in `PROJECT.json`.

## Modules

| Module | Models |
|---|---|
| `StorePaths` | The paths and the results of a handler, which the next modules share |
| `UploadQueue` | What the event loop promises: each accepted path gets one outcome, and the session ends with their tally |
| `EventLoop` | `event_loop::run`, one action for each `select!` arm, loop iteration and drain step |
| `Daemon` | `EventLoop` composed with `handle_io`, the socket and the client processes |
| `Protocol` | `Sender`, `Receiver` and the socket between them, byte by byte |
| `StorePathHandler` | `handle_store_path` for each path, at a cache that other jobs push to as well |
| `NarUpload` | `write_nar`, the pipe and `upload_nar` under `try_join` |
| `Uploader` | `EventLoop` composed with `StorePathHandler`: the loop and the handlers it spawns |
| `NarWriter` | the recursive `write_nar` over a file tree, and `HashAndCountWriter` |
| `StopStream` | the drain await by await, the reporter's writes, the socket and the copy loop of `stop` |
| `Job` | `run` and `start`, the main step and the post step, for several uses of the action in a job |
| `Release` | how the main step finds and downloads the binary |
| `MC*` | Instances for TLC |
| `EventLoopProofs`, `ProtocolProofs`, `StorePathHandlerProofs`, `NarUploadProofs`, `NarWriterProofs`, `StopStreamProofs` | Theorems about the module of that name and their proofs |
| `CompositionProofs` | Theorems about the compositions `Daemon` and `Uploader` |
| `ActionProofs` | Theorems about the JavaScript side, `Release` and `Job` |

Definitions marked `(mutant)` are plausible bugs. No specification uses them. They
are there so that each property can be shown to fail when the code is wrong.

### EventLoop

The variables are the local variables of `run`, with a few histories
(`requested`, `ahead`, `expanded`, `outcome`, `talking`). `store_closures` and
`handle_store_paths` are sets, since `FuturesUnordered` yields in any order.
`pending` is a sequence, because it is a FIFO. The `for` loop over a closure has no
await, so the loop does nothing else until `batch` is empty, but connection tasks
may send between its iterations. The test of the break condition comes first in
each iteration: `Selecting` is false when the break is due. What a handler does is
abstracted to one of three outcomes, a panic (`Panics`) or no end at all (`Stuck`),
and connection tasks to `Arrive`.

The release profile has `panic = "abort"` (`Cargo.toml:57`): the process is gone at the
moment of the panic, wherever the loop is (`Panic`). That `TokioJoinHandle::poll` resumes
a panic in the loop (`tokio.rs:61`) is reached in other profiles only and not modelled.

### Daemon

A connection belongs to one client process. The kernel accepts a connection and
its bytes before the daemon does (`backlog`, `wire`), which is why a push process
can exit with 0 without the daemon having seen its paths. `WriterDropped` follows
the write half of a stop connection from the task through the channel to the loop:
the stop client reads the end of its stream only when the last of them dropped it.
`Daemon` extends `EventLoop` and uses its actions, so that what holds of the loop holds
of the daemon (lemma `DaemonRunsEventLoop`).

### Protocol

A text is a sequence of bytes without the sentinel. It may contain the separator, since
`StoreDir::from_str` refuses only NUL (`protocol.rs:248`): a path in a store directory with
a newline in its name is framed as two messages. `Splits` and `Intact` name this case,
and the properties speak of what comes before it. A write moves any number of bytes that the socket takes, and a read any number that
is there and fits. `unhandled` is the part of the receiver's buffer that is in use.
`copy_within` moves it to the front before each read, so only its length matters.
A read of 0 bytes means the end of the stream or a full buffer, and the receiver
treats both alike.

### StorePathHandler and NarUpload

The servers are external and modelled by what the requests of the code rely on. A
failing request may or may not have had its effect. Other jobs may publish a path in
the same cache at any time (`PublishedElsewhere`), also between the question and the
upload; of them only what they publish is modelled. The process may be killed between
any two steps, with a request under way that the server still acts on (`Crash`). The
transfer is one step in `StorePathHandler`; `NarUpload` models it
in detail and shows that a completed upload is whole. Time in `NarUpload` is a
bounded counter that may advance between any two steps.

### Uploader

`Uploader` extends `EventLoop` and `StorePathHandler`, which has one handler for each
path. A handler takes steps only while its path is in `running`, and the loop takes its
result as the outcome (`Collect`). A handler that panics aborts the process: in the same
step the loop is gone, and the other handlers end where they are (`HandlerPanics`,
`Abort`). Every step is a step of one part or of both (lemmas `UploaderRunsEventLoop`
and `UploaderRunsHandlers`); the properties are about what the two do together.

### NarWriter

The activations of `write_nar` are a stack. Each has the `child_path` that the code
pushes to and pops from, and a node is looked up by that path, so a missing pop
visits a wrong node. A call of the NAR writer fills `buf`, and the walk goes on when
the pipe has taken all of it, piece by piece. `ReadDirEntries` is every order that the
code's sort allows, so that a missing sort would show. The reference is the NAR format,
given by its equations (`FormatAssumption`): `NarOf[t][p]` is the NAR of the node at `p`,
and `EntriesOf[t][p][S]` what is to be written for the entries `S` of a directory, the
least name first, to its end. `MCNarWriter` defines the two by recursion over the trees
of the instance, and TLC checks that they satisfy the equations.

### StopStream

`EventLoop` takes the end of a handler during the drain, its line, its count and the
next spawn for one step. In the code the loop waits for the socket in between.
`DrainsLikeEventLoop` maps the state in the middle of such a step to the one before
it and shows that `EventLoop` may take it for one step. The refinement is of the steps:
the loop that led to the drain is not repeated. The drain starts with any running and
pending paths that `SlotsBeforeQueue` allows, with any outcomes of other paths already in
the report, and with lists of failed closures out of `ClosureErrors`.

Pieces are numbered by line and part, so that it can be said what is missing from a
stream: a write may fail because nobody reads (`WriteFails`) or although the stop
command still does (`WriteErrs`), its line is then `torn`, and the next line follows all
the same. The daemon may die at any moment (`Die`), and the kernel then closes the socket
as it does after a return (`Closed`). The stop command may be killed, or fail to print and
exit with 0 (`Leave`).

### Job and Release

`Job` has one action for each step of the daemon's start and of the main step that
may fail on its own, and one for each of the five appends to the job's state and
environment, since a failure between two of them leaves a job that is half set up.
The daemon may die at any time, and the write to its ready pipe may fail. Node does not
exit while it holds a reference to its child, which is why a failed start cannot leave a
daemon behind (`Fail`), and why a failure after the daemon has begun to serve hangs the
step (`Hangs`). The post step fails if its stop command cannot be spawned or is killed,
finds nobody listening, or cannot write its message (`RunStop`, `StopKilled`,
`SendStop`); it succeeds without waiting for the daemon if the copy to standard output
fails (`CopyFails`, `stop.rs:42-51`). What the daemon does
while it serves is `Daemon`'s business. `Release` models what `Prepare` of `Job`
takes for one step: the ref is a tag or a commit by its form only, and the list of
tags may change between two pages. `IsCommitSha` does not look at the case of digits
(`main.js:75`), the comparison with the commits of tags does (`IsOfRef`, `main.js:125`).

## Runs

| Run | Bounds | Shows |
|---|---|---|
| `event_loop` | 4 paths, 2 slots, 2 requests with overlapping closures, 2 connections, one handler that may panic and one that may never end | safety of the loop, the refinement of `UploadQueue`, paths are handled and a stop ends the daemon |
| `daemon` | 1 push process with 4 requests, the third of which does not parse, and 2 stop processes, one of which may be killed; a panic | order, the wait for the report, every connected process exits; deadlock is checked |
| `daemon_lost` | 1 push, 1 stop process | **refuted**: acknowledged pushes are drained |
| `protocol` | up to 4 messages out of 6, one of which contains a separator; buffer and socket of 3 bytes | framing, the receiver ends |
| `nar_upload` | NARs of 1 to 7 bytes, parts of 2, 3 part numbers, batches of 2, URLs that outlive the safety margin or do not | URLs, parts, completeness, limit, the transfer ends |
| `nar_upload_expired` | as above | **refuted**: no expired URL is used |
| `uploader` | 2 paths, 2 slots, one push, one upstream cache, a panic, other jobs | NAR before NARInfo, the decision, closures are whole after the drain, the report is true, seen paths can be fetched in the end |
| `job` | 3 uses of the action, one of which may be stuck in its drain | readiness, no daemon forgotten, the job ends; deadlock is checked |
| `nar_writer` | every tree of depth 2 over 2 names, files that are executable and of 2 bytes or not executable and empty, at most one unsupported node | the NAR, its hash and its size; deadlock is checked |
| `stop_stream` | 2 paths, 1 slot, lines of 2 pieces, a socket of 3 pieces | lines in order and whole but for failed writes, the drain ends and is `EventLoop`'s; deadlock is checked |
| `release` | 4 tags on pages of 2, a hexadecimal tag that abbreviates another tag's commit, two ambiguous commits, one of them with an unreleased tag, and one in upper case | the tag is found if it is there, and a commit of released tags is downloaded; deadlock is checked |
| `release_tag` | as above | **refuted**: with a token, a released tag of a private repository is downloaded |

The bounds are chosen so that every boundary is crossed. There are more paths than
slots, so the queue fills and refills happen in the loop and in the drain. A path
repeats across closures. One text just fits the receiver's buffer and another is a
byte too long. NARs end within a part, at the end of a part and at the last part
number. URLs expire before, between and after the requests. The socket of the stop
client is full in the middle of a line. The list of tags ends within a page and at
the end of one, and grows past another page during the search. `CHECK_DEADLOCK` is off
where the system may rest: nobody has to ask for a stop, a client may stay silent,
and a finished handler does nothing.

Some bounds are tight. In `daemon` the push process is not killed; `protocol` has senders
that break off in the middle of a message, and the theorems about `Daemon` any that die. The push processes of an instance have finitely many requests, so
`StopEndsDaemon` does not speak of pushes that arrive for ever: these may postpone the end
for as long as they come. `uploader` has one upstream cache, and both of its paths have a
slot; the theorems hold for any number. In `release` only tags that were not there at the
start are added, each once, and at most one is removed.

### Findings

* A push that was acknowledged before the stop is lost when its connection has not
  been accepted or read by the time the loop breaks (`event_loop.rs:126`). The same
  specification satisfies `PushesAheadOfStopAnswered` (theorem `PushesAheadCorrect`):
  what reached the channel ahead of the stop is safe.
* The expiration of a URL is checked before the part is read (`sub60_cache.rs:426`)
  and the URL is used afterwards (`:463`). In between the code awaits the part, for as
  long as `write_nar` takes; in the trace time simply passes there.
* The token that `action.yaml:22` offers for private repositories is not sent for the asset
  of a tag (`main.js:161-165` and `:426`): a released tag of a private repository is not
  downloaded. For a commit it is sent with every request (`CommitIsDownloaded`).

More places read differently in the code and in a comment or doc. The models
follow the code, and passing properties state what holds instead:

* `protocol.rs:25` says that the stop byte signals the daemon "to stop pending
  uploads"; the code completes them all (`DrainIsComplete`).
* `action.yaml:3` says that the action drains the uploader. A panic of a handler aborts
  the daemon (`Cargo.toml:57`), and the `stop` command that waits for it reads the end of
  the stream and exits with 0 (`stop.rs:42`): the post step succeeds with uploads left.
  `StopWaitsForReport`, `OkMeansReported` and `SeenIsFetchable` name it as their exception.
  So does a copy to standard output that fails: `stop` exits with 0 while the daemon drains.
* `action.yaml:28` asks for a release tag, but one of hexadecimal digits only is taken
  for a commit (`main.js:419`), and a tag whose commit begins with these digits is
  downloaded in its place, or none: `CommitIsDownloaded` speaks of the tags whose commit
  the ref abbreviates.
* `main.js:75` takes hexadecimal digits in upper case for a commit, but commits are
  compared in lower case (`:125`): such a ref is told that it has no tag
  (`NoTagMeansNone` excepts it).
* `protocol.rs:62` says that a store directory is a path without NUL. One with a newline
  cannot be sent: its message is framed as two (`ReceivedIsSent` holds up to it).

Also worth knowing, though nothing in the repository promises otherwise: a main step that
fails after its daemon has begun to serve, because the ready byte could not be written
(`run.rs:81`) or an append to the job's files fails, waits for the daemon until the job
times out, and so does a `stop` command whose daemon is stuck in an upload (`JobEnds`
names both); a stop client that stops reading without exiting holds the drain
(`DrainEnds` assumes that it reads or exits); a tag removed during the search may hide
another one (`NoTagMeansNone`); a server whose URLs live no longer than the safety margin
of 10 s is asked for new ones for ever (`TransferEnds`).

## Fairness

* The tasks of the loop, of the connections, closures and handlers are scheduled
  again and again (a multi-threaded tokio runtime; `select!` is unbiased): weak
  fairness of each.
* Every request is answered or fails, but for the handlers of `Stuck` paths. The code
  sets no timeouts, so that this is an assumption about the network and the servers;
  `StopEndsDaemon` and `SeenIsHandled` say what holds without it.
* The stop command reads and prints as long as it runs, and a write to a client that is
  gone fails (`stop_stream`); no other write has to fail.
* In a job the steps and the daemon's start go on, and its drain does unless the use is
  in `Stuck`; nothing has to fail.
* Nothing makes a client start, send or stop, and nobody is forced to fail or to be
  killed. A process that has connected goes on.

## Proofs

Each theorem holds for every value of the constants that satisfies the named
assumptions: any finite set of paths, any closures, any limit above 0, any part
size, batch size and so on.

* `EventLoopProofs`. `TypeCorrect` comes first. `PlacementCorrect` has three parts that
  are inductive only together. Of these, `SlotsBeforeQueue` is what makes the drain complete: the drain ends when no
  handler is spawned, and only because a waiting path implies full slots is the
  queue empty then. `ReportCorrect` rests on the fact that a running path has no
  outcome yet, so that a counter and the cardinality of its set grow together.
  `RequestsCorrect` follows a request from the channel to its closure.
  `PushesAheadCorrect` needs the order of the channel: a push ahead of any stop
  stands before all stops in it, or was taken. `ProgressCorrect` counts the lines
  during the drain: announced = written + still to handle.
  `ImplementsUploadQueue` maps every step to a step of `UploadQueue` or to a
  stutter.
* `CompositionProofs`, daemon. The lemma `DaemonRunsEventLoop` makes the theorems about the
  loop available. `StopWaitsCorrect` needs an invariant
  that follows the write half: once the connection's task has returned, the stop is
  in the channel or was taken by the loop, and as long as no other stop process has
  connected nobody writes a stop that could replace it. `InOrderCorrect` carries that
  what is on the wire of a push process and what it has still to send are, one after the
  other, the end of its requests, and that exactly the requests before that end have been
  decoded; that what is in the channel is in that order, too, and that the loop has taken
  what is before it. The invariant excepts the processes that were killed.
* `ProtocolProofs`. The bytes between the two ends, in the receiver's buffer, the socket
  and the sender's buffer, are the encodings of the messages sent and not yet returned.
  Concatenating encodings would need recursion, so `Framing` says instead that there
  are offsets at which these messages end, and each step says what becomes of the
  offsets: a send appends one, a write or a read moves bytes and keeps them, and a
  message that the receiver returns takes the first away. As long as no
  text contains a separator, the first separator found is the end of the first message;
  once one has been sent, the invariant says nothing of what follows.
  `DroppedCorrect` adds that the receiver ends early only with a full buffer without a
  separator, which then is longer than any encoding that fits.
* `NarUploadProofs`. `UrlsCorrect` strengthens `UrlMatchesPart` by the fact
  that new URLs are requested only when none is left, so that appending them keeps
  the order. `WholeCorrect`
  carries that the etags cover exactly the bytes taken so far except those in the
  buffer, and that a short part is only taken at the end of the NAR.
* `CompositionProofs`, uploader. Two lemmas make the theorems about the loop and the
  handlers available. `DrainedCorrect` combines
  `DrainCorrect` and `PushesAheadCorrect` with the fact that the outcome of a path is
  the result of its handler; `UploadsBounded` needs that a handler past its question
  is running, or the daemon has aborted. It is the one listed theorem without a run: an
  instance with more paths than slots and handlers side by side has millions of states.
* `ActionProofs`, job. The invariant says, for each use, what the main step knows of its
  daemon (it listens from the bind to its end, and only a daemon that serves or is
  gone has reported readiness) and what the post step knows of both (a use that
  succeeded has set the post steps' condition, so its post step is not skipped). For
  `NoDaemonForgottenCorrect` a daemon that runs when its main step has ended belongs to a
  main step that succeeded, and a post step is `ok` only after its stop message was sent.
* `ActionProofs`, release. While no tag is removed, each tag of the ref that was there
  at the start stands on the page that is asked for next or on a later one (`Ahead`):
  additions only move tags towards later pages, and a page is left behind only when none
  of its tags is of the ref. `CommitCorrect` adds
  that the tag that was found is one of the ref and stays in the list; that the search never asks for a page past the first empty one needs that
  the list has no tag twice.
* `StopStreamProofs`. `Inv` says where each path is (the one that is being reported is
  neither running nor pending, and its slot is the only empty one while paths wait),
  which lines were handed to the reporter, that announced = counted + still to handle +
  the one being reported on top of what was handled before. `Stream` says that printed,
  read, in the socket and unwritten, one after the other, are in order and lack nothing
  but the rest of torn lines, as long as the stop command runs; `OkCorrect` follows when
  the last three are empty and the daemon has returned. `DrainRefinesEventLoop` maps every await to a step of `EventLoop`
  or to none.
* `NarWriterProofs`. The invariant is about trees of any depth and needs no induction:
  what is sent, what is in `buf` and what the walk has still to give to the writer make
  up the NAR. The last is described activation by activation: `Rest` lists what each
  activation on the stack writes after its current child, and an equation of the format
  is unfolded whenever the walk visits a node or enters a child. `Open` keeps that each
  `child_path` is a child of the directory of its activation, so that a pop returns to
  it, and `Pending` that every node that a NAR cannot hold is still ahead of the walk
  (for `FailsCorrect`). A failed walk keeps only that the sent part is a beginning.
* `StorePathHandlerProofs`. `NarFirst` needs that a published handler is past the
  step that opens its NAR. `DecisionCorrect` records what is known of the other
  answer at the two places that await one. `ReportedCorrect` uses that the cache
  only grows.

The type invariants, `ReportAddsUp`, `RequestsAccounted`, `PushesAheadOfStopAnswered` and
`BoundedUploads` are proved and not listed with a run: the first four are steps towards
`DrainIsComplete`, `PromiseKept` and `DrainedClosuresWhole`, which the runs check.

All safety invariants and refinements that the runs check are proved. Only
model-checked: the liveness properties (`StopEndsDaemon`, `SeenIsHandled`,
`ClientsReturn`, `ReceiverEnds`, `TransferEnds`, `SeenIsFetchable`, `JobEnds`, `DrainEnds`,
`SearchEnds`), since reasoning about fairness and `ENABLED` is out of the prover's reach;
and that the recursive `MCNarOf` satisfies the equations of the format, which TLC
evaluates for the trees of the instance and which would need an induction over trees in
general.

Assumptions on constants are those of the code: finite sets of paths and tags, limits and
sizes above 0, a file system whose paths lie in directories, texts that tell paths apart, are not
empty and do not contain NUL, the stop byte, which the code refuses. TLC evaluates each of them on the instances.

## Not modelled

* Wording and formatting of messages, `HumanReadableByteSize`, the contents of the hook
  script and of the configuration files, the escaping of workflow commands: no state,
  and no property that depends on them.
* The Nix store library and the conversions of its path infos, the bytes that
  `nix_compat` makes of a node, SHA-256, the HTTP, URL and gzip libraries: external.
* `AnyCache` and `NoopCache` only forward or do nothing. `context.rs` declares traits.
* The command line.
* Errors of `accept`, which the code logs and retries without yielding (`run.rs:140`).
* Which of several `post-build-hook` settings Nix obeys when the action is used twice.
* A store path that changes while it is written: outside of the code's control.

## Plan

Done: all components that keep state, with runs; proofs of every safety invariant and
refinement that a run checks.

1. `Protocol` under an abstract message channel that `Daemon` uses, and the refinement
   proved from `ReceivedCorrect`.
2. `NarUpload` and `NarWriter` composed: the bytes that the uploader reads are those of
   the NAR whose hash the NARInfo carries.
