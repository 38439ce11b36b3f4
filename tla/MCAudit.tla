-------------------------------- MODULE MCAudit --------------------------------
(* Small images for Audit: four blocks, the chunk-tree root at logical 1,  *)
(* and the root tree, the current and a former FS_TREE at three addresses  *)
(* in a row that only the chunk tree maps.  The current FS_TREE may have   *)
(* an interior root above the other one's leaf.                            *)
EXTENDS Audit, TLC

Span(start, len, stripes) == [logical_start |-> start, length |-> len, stripes |-> stripes]

Node(level, bytenr, owner, intact, ptrs, chunks, items) ==
  [level |-> level, bytenr |-> bytenr, owner |-> owner, fsid |-> "fs", intact |-> intact,
   ptrs |-> ptrs, chunks |-> chunks, items |-> items]

RootItem(at) == [objectid |-> FsTreeObjectid, key_type |-> "ROOT_ITEM", offset |-> 0, bytenr |-> at]
OrphanItem(ino) == [objectid |-> OrphanObjectid, key_type |-> "ORPHAN_ITEM", offset |-> ino]
InodeItem(ino) == [objectid |-> ino, key_type |-> "INODE_ITEM", offset |-> 0]

(* base is the first of the three addresses. *)
ChunkNodes(base) ==
  {Node(0, 1, 3, ok, <<>>, <<Span(1, 1, <<0>>), Span(base, 3, <<1>>)>>, <<>>) : ok \in BOOLEAN}
    \cup {Node(0, 1, 3, TRUE, <<>>, <<>>, <<>>), Node(1, 1, 3, TRUE, <<1, base>>, <<>>, <<>>)}

RootNodes(base) ==
  {Node(0, base, 1, ok, <<>>, <<>>, <<RootItem(base + 1)>>) : ok \in BOOLEAN}
    \cup {Node(1, base, 1, TRUE, <<base + 1, base + 2>>, <<>>, <<>>)}

FsNodes(l) ==
  {Node(0, l, owner, TRUE, <<>>, <<>>, items) :
     owner \in {FsTreeObjectid, 7}, items \in {<<InodeItem(1)>>, <<OrphanItem(8), OrphanItem(9), OrphanItem(8)>>}}
    \cup {Node(0, l, FsTreeObjectid, FALSE, <<>>, <<>>, <<OrphanItem(8)>>)}

CurrentFsNodes(base) ==
  FsNodes(base + 1) \cup {Node(1, base + 1, FsTreeObjectid, TRUE, <<base + 2>>, <<>>, <<>>)}

Backup(tree, gen, fs, fsgen) ==
  [tree_root |-> tree, tree_root_gen |-> gen, fs_root |-> fs, fs_root_gen |-> fsgen]

BackupSets(base) ==
  {<<>>, <<Backup(base, 2, base + 1, 2), Backup(base, 1, base + 2, 1)>>,
   <<Backup(0, 3, 0, 0), Backup(base, 1, base + 2, 3)>>,
   <<Backup(base, 1, base + 1, 1)>>}

Image(base, a, b, c, d, backups, csum, ok, parses) ==
  [len |-> 4,
   nodes |-> 0 :> a @@ 1 :> b @@ 2 :> c @@ 3 :> d @@ 4 :> Node(0, 0, 0, FALSE, <<>>, <<>>, <<>>),
   sb_parses |-> parses,
   sb |-> [chunk_root |-> 1, root |-> base, generation |-> 2, nodesize |-> 1, csum_type |-> csum,
           intact |-> ok, fsid |-> "fs", sys_chunks |-> <<Span(1, 1, <<0>>)>>, backups |-> backups]]

ImagesAt(base) ==
  {Image(base, a, b, c, d, r, "crc32c", TRUE, TRUE) :
      a \in ChunkNodes(base), b \in RootNodes(base), c \in CurrentFsNodes(base), d \in FsNodes(base + 2),
      r \in BackupSets(base)}
    \cup {Image(base, a, b, CHOOSE n \in FsNodes(base + 1) : TRUE, d, r, csum, ok, parses) :
            a \in ChunkNodes(base), b \in RootNodes(base), d \in FsNodes(base + 2),
            r \in BackupSets(base), csum \in {"crc32c", "other"}, ok \in BOOLEAN, parses \in BOOLEAN}

MCImages == ImagesAt(2) \cup ImagesAt(5)
=============================================================================
