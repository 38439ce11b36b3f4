------------------------------ MODULE MCNodeSweep ------------------------------
(* Small inputs for NodeSweep: three physical blocks mapped at logical     *)
(* 1..3.  A block is intact, or has a tampered body, bytenr or fsid (all   *)
(* three are covered by the checksum), or is free space.  Roots and backup *)
(* roots share subtrees, point at each other, or dangle.                   *)
EXTENDS NodeSweep, TLC

System == [logical_start |-> 1, length |-> 3, stripes |-> <<0>>]

Node(level, bytenr, fsid, intact, ptrs) ==
  [level |-> level, bytenr |-> bytenr, fsid |-> fsid, intact |-> intact,
   ptrs |-> ptrs, chunks |-> <<>>]

Free == Node(0, 0, "blank", FALSE, <<>>)

Pointers == {<<2, 3>>, <<3, 0, 3>>, <<1, 2>>, <<4>>}

(* The nodes that may be found at logical l. *)
NodesFor(l) ==
  {Free}
    \cup {Node(0, l, "fs", ok, <<>>) : ok \in BOOLEAN}
    \cup {Node(1, l, "fs", ok, p) : ok \in BOOLEAN, p \in Pointers}
    \cup {Node(1, l + 1, "fs", FALSE, <<3>>), Node(0, l, "blank", FALSE, <<>>)}

Backup(tree, fs) == [tree_root |-> tree, tree_root_gen |-> 1, fs_root |-> fs, fs_root_gen |-> 1]

Image(a, b, c, backups, csum) ==
  [len |-> 3,
   nodes |-> 0 :> a @@ 1 :> b @@ 2 :> c @@ 3 :> Free,
   sb |-> [chunk_root |-> 3, root |-> 1, nodesize |-> 1, csum_type |-> csum, fsid |-> "fs",
           sys_chunks |-> <<System>>, backups |-> backups]]

MCInputs ==
  {[image |-> Image(a, b, c, r, "crc32c"), map |-> m] :
      a \in NodesFor(1), b \in NodesFor(2),
      c \in {Free, Node(0, 3, "fs", FALSE, <<>>), Node(1, 3, "fs", TRUE, <<1>>)},
      r \in {<<>>, <<Backup(1, 2)>>, <<Backup(0, 2), Backup(5, 1)>>},
      m \in {<<System>>, <<>>}}
=============================================================================
