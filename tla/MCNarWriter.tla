---------------------------- MODULE MCNarWriter ----------------------------
(***************************************************************************)
(* NarWriter on every tree of depth two over two names, where a file is    *)
(* executable and has two bytes or is empty and not executable, and at most*)
(* one node is neither file, symlink nor directory.                        *)
(***************************************************************************)
EXTENDS NarWriter

MCName == {1, 2}

MCPaths == {<<>>, <<1>>, <<2>>, <<1, 1>>, <<1, 2>>, <<2, 1>>, <<2, 2>>}

MCNode == {[type |-> "directory", executable |-> FALSE, len |-> 0],
           [type |-> "symlink", executable |-> FALSE, len |-> 0],
           [type |-> "file", executable |-> TRUE, len |-> 2],
           [type |-> "file", executable |-> FALSE, len |-> 0],
           [type |-> "other", executable |-> FALSE, len |-> 0]}

IsTree(t) == \A p \in DOMAIN t \ {<<>>} :
                Front(p) \in DOMAIN t /\ t[Front(p)].type = "directory"

MCFileSystems ==
    {t \in UNION {[ps \cup {<<>>} -> MCNode] : ps \in SUBSET MCPaths} :
        /\ IsTree(t)
        /\ Cardinality({p \in DOMAIN t : t[p].type = "other"}) <= 1}

\* The NAR of the entries S of the directory p of t, and of a node, by recursion.
MCEntriesOf ==
    [t \in MCFileSystems |->
        LET entries[p \in DOMAIN t, S \in SUBSET MCName] ==
                IF S = {} THEN <<CloseToken>>
                ELSE LET n == CHOOSE n \in S : \A m \in S : n <= m
                         child == Append(p, n)
                         node == t[child]
                         nar == CASE node.type = "directory" ->
                                         <<DirectoryToken>> \o entries[child, Children(t, child)]
                                  [] node.type = "symlink" -> <<SymlinkToken>>
                                  [] node.type = "file" -> FileTokens(node.executable, node.len)
                                  [] node.type = "other" -> <<>>
                     IN  <<EntryToken(n)>> \o nar \o entries[p, S \ {n}]
        IN  [p \in DOMAIN t |-> [S \in SUBSET Children(t, p) |-> entries[p, S]]]]

MCNarOf ==
    [t \in MCFileSystems |-> [p \in DOMAIN t |->
        CASE t[p].type = "directory" ->
                 <<DirectoryToken>> \o MCEntriesOf[t][p][Children(t, p)]
          [] t[p].type = "symlink" -> <<SymlinkToken>>
          [] t[p].type = "file" -> FileTokens(t[p].executable, t[p].len)
          [] t[p].type = "other" -> <<>>]]
=============================================================================
