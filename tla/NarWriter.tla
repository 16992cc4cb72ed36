----------------------------- MODULE NarWriter -----------------------------
(***************************************************************************)
(* How the NAR of a store path is made: the recursive `write_nar` walks the*)
(* file tree of the path (src/nix_store.rs) and writes what it finds        *)
(* through HashAndCountWriter (src/event_loop.rs) into the pipe that        *)
(* NarUpload drains.  The pipe takes as much of a write as it has room for; *)
(* the hash and the count that end up in the NARInfo are kept on the way.   *)
(*                                                                         *)
(* A NAR is a sequence of tokens; which bytes the NAR writer of nix_compat  *)
(* makes of them is external.  A file system maps paths, sequences of names,*)
(* to nodes; names are numbers, for their order.  Store paths do not change,*)
(* but they may be deleted, and any system call may fail.                   *)
(***************************************************************************)
EXTENDS Naturals, SequencesExt, FiniteSets

CONSTANTS
    Name,         \* file names
    FileSystems,  \* the trees that a store path may have
    NarOf,        \* NarOf[t][p]: the NAR of the node at p of the tree t
    EntriesOf     \* EntriesOf[t][p][S]: the NAR of the entries S of p, to the end of p

Type == {"directory", "symlink", "file", "other"}
Node == [type : Type, executable : BOOLEAN, len : Nat]

ASSUME TreesAssumption ==
    /\ Name \subseteq Nat
    /\ \A t \in FileSystems :
          /\ IsFiniteSet(DOMAIN t) /\ <<>> \in DOMAIN t
          /\ \A p \in DOMAIN t :
                /\ p \in Seq(Name) /\ t[p] \in Node
                /\ \A k \in 0 .. Len(p) - 1 :
                      /\ SubSeq(p, 1, k) \in DOMAIN t
                      /\ t[SubSeq(p, 1, k)].type = "directory"

Children(t, path) == {n \in Name : Append(path, n) \in DOMAIN t}

(***************************************************************************)
(* The tokens, and the NAR format: the entries of a directory come in the  *)
(* order of their names, between its beginning and its end.  There is no   *)
(* NAR of a node that is neither directory nor symlink nor file.           *)
(***************************************************************************)
Magic == [token |-> "nar"]
DirectoryToken == [token |-> "directory"]
EntryToken(name) == [token |-> "entry", name |-> name]
CloseToken == [token |-> "close"]
SymlinkToken == [token |-> "symlink"]
FileTokens(executable, len) ==
    <<[token |-> "file", executable |-> executable, len |-> len]>>
        \o [i \in 1 .. len |-> [token |-> "byte", at |-> i]]

Token == [token : {"nar", "directory", "close", "symlink"}]
            \cup [token : {"entry"}, name : Name]
            \cup [token : {"file"}, executable : BOOLEAN, len : Nat]
            \cup [token : {"byte"}, at : Nat]

ASSUME FormatAssumption ==
    \A t \in FileSystems : \A p \in DOMAIN t :
        /\ NarOf[t][p] \in Seq(Token)
        /\ t[p].type = "directory" =>
              NarOf[t][p] = <<DirectoryToken>> \o EntriesOf[t][p][Children(t, p)]
        /\ t[p].type = "symlink" => NarOf[t][p] = <<SymlinkToken>>
        /\ t[p].type = "file" => NarOf[t][p] = FileTokens(t[p].executable, t[p].len)
        /\ \A S \in SUBSET Children(t, p) :
              /\ EntriesOf[t][p][S] \in Seq(Token)
              /\ S = {} => EntriesOf[t][p][S] = <<CloseToken>>
              /\ \A n \in S : (\A m \in S : n <= m) =>
                    EntriesOf[t][p][S] =
                        <<EntryToken(n)>> \o (NarOf[t][Append(p, n)]
                                                 \o EntriesOf[t][p][S \ {n}])

VARIABLES
    fs,        \* the tree of this store path
    calls,     \* the activations of write_nar that are in their loop, outermost first
    pc,        \* what the innermost activation does next, or how it all ended
    buf,       \* what the NAR writer has still to write of what it was told to
    sent,      \* what the pipe has taken
    sha256,    \* what was hashed
    numBytesWritten,
    fault      \* a system call or a write has failed (history)

walk == <<calls, pc, buf>>
counts == <<sent, sha256, numBytesWritten>>
vars == <<fs, walk, counts, fault>>

Init == /\ fs \in FileSystems
        /\ calls = <<>>
        /\ pc = "visit"
        /\ buf = <<Magic>>
        /\ sent = <<>> /\ sha256 = <<>> /\ numBytesWritten = 0
        /\ fault = FALSE

-----------------------------------------------------------------------------
(***************************************************************************)
(* HashAndCountWriter.                                                     *)
(***************************************************************************)
\* (mutant) All of the buffer is hashed, not what the pipe has taken of it.
PollWriteHashesAll ==
    /\ buf # <<>> /\ pc # "failed"
    /\ \E n \in 1 .. Len(buf) :
          /\ sent' = sent \o SubSeq(buf, 1, n)
          /\ sha256' = sha256 \o buf
          /\ numBytesWritten' = numBytesWritten + n
          /\ buf' = SubSeq(buf, n + 1, Len(buf))
    /\ UNCHANGED <<fs, calls, pc, fault>>

\* The pipe takes some of what it is offered; the caller offers the rest again.
PollWrite ==
    /\ buf # <<>> /\ pc # "failed"
    /\ \E n \in 1 .. Len(buf) :
          /\ sent' = sent \o SubSeq(buf, 1, n)
          /\ sha256' = sha256 \o SubSeq(buf, 1, n)
          /\ numBytesWritten' = numBytesWritten + n
          /\ buf' = SubSeq(buf, n + 1, Len(buf))
    /\ UNCHANGED <<fs, calls, pc, fault>>

-----------------------------------------------------------------------------
(***************************************************************************)
(* write_nar.  A call of the NAR writer returns once all of it is written. *)
(***************************************************************************)
\* node_path of the innermost activation: the child_path of its caller.
NodePath == IF calls = <<>> THEN <<>> ELSE Last(calls).childPath

\* (mutant) The entries stay in the order the directory has them in.
ReadDirEntriesUnsorted(path) == SetToSeqs(Children(fs, path))

\* read_dir_entries: the entries, which a directory has in any order, sorted.
ReadDirEntries(path) ==
    {entries \in SetToSeqs(Children(fs, path)) :
        \A i, j \in DOMAIN entries : i < j => entries[i] < entries[j]}

VisitDirectory ==
    /\ pc = "visit" /\ buf = <<>>
    /\ NodePath \in DOMAIN fs /\ fs[NodePath].type = "directory"
    /\ \E entries \in ReadDirEntries(NodePath) :
          calls' = Append(calls, [childPath |-> NodePath, left |-> entries])
    /\ buf' = <<DirectoryToken>>
    /\ pc' = "loop"
    /\ UNCHANGED <<fs, counts, fault>>

VisitLeaf ==
    /\ pc = "visit" /\ buf = <<>>
    /\ NodePath \in DOMAIN fs
    /\ LET node == fs[NodePath]
       IN \/ node.type = "symlink" /\ buf' = <<SymlinkToken>>
          \/ node.type = "file" /\ buf' = FileTokens(node.executable, node.len)
    /\ pc' = "return"
    /\ UNCHANGED <<fs, calls, counts, fault>>

\* (mutant) A node that a NAR cannot hold is left out.
VisitUnsupportedSkipped ==
    /\ pc = "visit" /\ buf = <<>>
    /\ NodePath \in DOMAIN fs => fs[NodePath].type = "other"
    /\ pc' = "return"
    /\ UNCHANGED <<fs, calls, buf, counts, fault>>

\* There is nothing at the path, or nothing that a NAR can hold.
VisitUnsupported ==
    /\ pc = "visit" /\ buf = <<>>
    /\ NodePath \in DOMAIN fs => fs[NodePath].type = "other"
    /\ pc' = "failed"
    /\ UNCHANGED <<fs, calls, buf, counts, fault>>

\* The loop goes on with the next child.
EnterChild ==
    /\ pc = "loop" /\ buf = <<>>
    /\ LET call == Last(calls)
       IN /\ call.left # <<>>
          /\ buf' = <<EntryToken(Head(call.left))>>
          /\ calls' = Append(Front(calls),
                             [childPath |-> Append(call.childPath, Head(call.left)),
                              left |-> Tail(call.left)])
    /\ pc' = "visit"
    /\ UNCHANGED <<fs, counts, fault>>

\* The loop is over.
CloseDirectory ==
    /\ pc = "loop" /\ buf = <<>>
    /\ Last(calls).left = <<>>
    /\ buf' = <<CloseToken>>
    /\ calls' = Front(calls)
    /\ pc' = "return"
    /\ UNCHANGED <<fs, counts, fault>>

\* The activation for a child returns: child_path.pop().
ReturnToLoop ==
    /\ pc = "return" /\ buf = <<>>
    /\ calls # <<>>
    /\ calls' = Append(Front(calls),
                       [Last(calls) EXCEPT !.childPath = Front(@)])
    /\ pc' = "loop"
    /\ UNCHANGED <<fs, buf, counts, fault>>

\* The outermost activation returns: writer.shutdown().
Shutdown ==
    /\ pc = "return" /\ buf = <<>>
    /\ calls = <<>>
    /\ pc' = "ok"
    /\ UNCHANGED <<fs, calls, buf, counts, fault>>

Ended == pc \in {"ok", "failed"}

\* A system call fails, a file does not have its length any more, or nobody
\* reads the pipe: every activation returns the error.
Fail ==
    /\ ~Ended
    /\ pc' = "failed"
    /\ fault' = TRUE
    /\ UNCHANGED <<fs, calls, buf, counts>>

Over == Ended /\ UNCHANGED vars

WriteNar == \/ VisitDirectory \/ VisitLeaf \/ VisitUnsupported
            \/ EnterChild \/ CloseDirectory \/ ReturnToLoop \/ Shutdown

Next == PollWrite \/ WriteNar \/ Fail \/ Over

Spec == Init /\ [][Next]_vars

-----------------------------------------------------------------------------
(***************************************************************************)
(* The state of the walk and of the writer: child_path is one name longer  *)
(* than the path of its directory or as long.                              *)
(***************************************************************************)
TypeOK ==
    /\ fs \in FileSystems
    /\ calls \in Seq([childPath : Seq(Name), left : Seq(Name)])
    /\ \A i \in DOMAIN calls : Len(calls[i].childPath) \in {i - 1, i}
    /\ pc \in {"visit", "loop", "return", "ok", "failed"}
    /\ numBytesWritten \in Nat
    /\ fault \in BOOLEAN

(***************************************************************************)
(* The hash and the size of the NARInfo are those of what went into the    *)
(* pipe, however often the pipe took a part of a write, and also when the  *)
(* write that follows fails.                                               *)
(***************************************************************************)
HashedIsSent == sha256 = sent /\ numBytesWritten = Len(sent)

(***************************************************************************)
(* What is written is at any time a beginning of the NAR of the tree, and  *)
(* the pipe is shut down only after all of it: whatever the order that the *)
(* file system lists a directory in, however deep the walk is, and wherever*)
(* it fails.                                                               *)
(***************************************************************************)
WritesTheNar ==
    LET nar == <<Magic>> \o NarOf[fs][<<>>]
    IN  /\ IsPrefix(sent, nar)
        /\ pc = "ok" => sent = nar

HasOther == \E p \in DOMAIN fs : fs[p].type = "other"

(***************************************************************************)
(* A walk without a fault fails only at a node that a NAR cannot hold: the *)
(* paths it visits are those of the tree.  With such a node it never shuts *)
(* the pipe down.                                                          *)
(***************************************************************************)
FailsForAReason == /\ pc = "failed" => fault \/ HasOther
                   /\ pc = "ok" => ~HasOther
=============================================================================
