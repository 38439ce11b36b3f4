-------------------------------- MODULE Recover --------------------------------
(***************************************************************************)
(* recover_deleted: deleted files found by comparing the FS_TREE roots in  *)
(* the backup slots with the current one.  The image is taken while the    *)
(* filesystem of CowHistory is at any point of its life, a transaction     *)
(* half written included; from then on only the recovery runs.  One action *)
(* is one branch of recover_deleted or one turn of its loops over the      *)
(* backup slots and the files each one gives.                              *)
(***************************************************************************)
EXTENDS CowHistory

CONSTANT Lengths   \* how many blocks of the device an image may hold

VARIABLES
  len,     \* length of the image
  phase,   \* "writing", then "start", "diff" and "merge" in turn, "done"
  slot,    \* the backup slot whose turn it is
  todo,    \* items of its leaf that recover_deleted_from_leaves returned files for
  out      \* the files recovered

vars == <<writerVars, len, phase, slot, todo, out>>

Init ==
  /\ WriterInit
  /\ len = NumBlocks + NumData + 1
  /\ phase = "writing"
  /\ slot = 1 /\ todo = {}
  /\ out = <<>>

(* The filesystem lives on ... *)
Live ==
  /\ phase = "writing"
  /\ Write
  /\ UNCHANGED <<len, phase, slot, todo, out>>

(* ... until an image is taken, of the device or of its first blocks. *)
Capture ==
  /\ phase = "writing"
  /\ len' \in Lengths
  /\ phase' = "start"
  /\ UNCHANGED <<writerVars, slot, todo, out>>

-----------------------------------------------------------------------------
(* The image, and the map: ChunkMap::walk succeeded.                       *)

map == <<[logical_start |-> 1, length |-> NumBlocks + NumData, stripes |-> <<1>>]>>

image ==
  [len |-> len,
   nodes |-> disk,
   sb |-> [root |-> root, nodesize |-> 1, sys_chunks |-> map]]

cur_root == fs_tree_root(image, map)

InodeItems(leaf) == {i \in DOMAIN leaf_items(leaf) : leaf_items(leaf)[i].key_type = "INODE_ITEM"}

inode_set(leaf) == {leaf_items(leaf)[i].objectid : i \in InodeItems(leaf)}

(* dir_names and get_name: the first entry that names the inode, or a      *)
(* made-up name.                                                           *)
NameOf(leaf, ino) ==
  LET items == leaf_items(leaf)
      Hits == {i \in DOMAIN items : items[i].key_type \in {"DIR_ITEM", "DIR_INDEX"} /\ items[i].child = ino}
  IN IF Hits = {} THEN "inode_N" ELSE items[Min(Hits)].name

ExtentsOf(leaf, ino) ==
  {i \in DOMAIN leaf_items(leaf) :
     leaf_items(leaf)[i].objectid = ino /\ leaf_items(leaf)[i].key_type = "EXTENT_DATA"}

(* Mutant: every inode of the old tree is taken for deleted. *)
DeletedInodesAll(old, current) ==
  {i \in InodeItems(old) :
     LET ino == leaf_items(old)[i].objectid
     IN ino >= FirstIno /\ ExtentsOf(old, ino) # {}}

(* The inodes of old that current lacks and that have something to carve,  *)
(* by their items.                                                         *)
DeletedInodes(old, current) ==
  {i \in InodeItems(old) :
     LET ino == leaf_items(old)[i].objectid
     IN ino >= FirstIno /\ ino \notin inode_set(current) /\ ExtentsOf(old, ino) # {}}

(* What read_file_from_leaf (module ReadFile) makes of the one extent of a *)
(* file, inline or in a data block; an error becomes an empty content.     *)
Carved(leaf, ino) ==
  LET extent == leaf_items(leaf)[Min(ExtentsOf(leaf, ino))]
      phys == MapLookup(map, extent.disk_bytenr)
  IN IF extent.disk_bytenr = 0 THEN extent.content
     ELSE IF phys = None \/ ~InImage(image, phys) THEN 0 ELSE data[phys]

(* recover_deleted_from_leaves: a file for each of the items FromLeaves. *)
FromLeaves(old, current) == IF old.owner # FsTreeObjectid THEN {} ELSE DeletedInodes(old, current)

RecoveredFile(old, i) ==
  LET it == leaf_items(old)[i]
  IN [inode |-> it.objectid, generation |-> old.generation, path |-> NameOf(old, it.objectid),
      size |-> it.size, content |-> Carved(old, it.objectid)]

-----------------------------------------------------------------------------
(* The FS_TREE cannot be found: nothing is recovered. *)
NoCurrent ==
  /\ phase = "start"
  /\ cur_root = None \/ ~Readable(image, map, cur_root)
  /\ phase' = "done"
  /\ UNCHANGED <<writerVars, len, slot, todo, out>>

FindCurrent ==
  /\ phase = "start"
  /\ cur_root # None
  /\ Readable(image, map, cur_root)
  /\ phase' = "diff"
  /\ UNCHANGED <<writerVars, len, slot, todo, out>>

(* Neither an empty slot, nor the current root, nor one that cannot be read. *)
Diffable(s) ==
  LET at == backups[s].fs_root
  IN at # 0 /\ at # cur_root /\ Readable(image, map, at)

Old(s) == NodeAt(image, map, backups[s].fs_root)

(* Mutant: the first slot that is not compared ends the loop. *)
SkipSlotStops ==
  /\ phase = "diff" /\ slot <= NumBackups
  /\ ~Diffable(slot)
  /\ phase' = "done"
  /\ UNCHANGED <<writerVars, len, slot, todo, out>>

SkipSlot ==
  /\ phase = "diff" /\ slot <= NumBackups
  /\ ~Diffable(slot)
  /\ slot' = slot + 1
  /\ UNCHANGED <<writerVars, len, phase, todo, out>>

(* One slot is compared ... *)
DiffSlot ==
  /\ phase = "diff" /\ slot <= NumBackups
  /\ Diffable(slot)
  /\ todo' = FromLeaves(Old(slot), NodeAt(image, map, cur_root))
  /\ phase' = "merge"
  /\ UNCHANGED <<writerVars, len, slot, out>>

(* Mutant: the files of every slot are kept. *)
MergeFileAlways ==
  /\ phase = "merge" /\ todo # {}
  /\ todo' = todo \ {Min(todo)}
  /\ out' = Append(out, RecoveredFile(Old(slot), Min(todo)))
  /\ UNCHANGED <<writerVars, len, phase, slot>>

(* ... and of its files, in the order of the items, those are kept whose   *)
(* inode no earlier one has.                                               *)
MergeFile ==
  /\ phase = "merge" /\ todo # {}
  /\ todo' = todo \ {Min(todo)}
  /\ LET rec == RecoveredFile(Old(slot), Min(todo))
     IN out' = IF \E i \in DOMAIN out : out[i].inode = rec.inode THEN out ELSE Append(out, rec)
  /\ UNCHANGED <<writerVars, len, phase, slot>>

(* Mutant: a slot is left out. *)
NextSlotTwice ==
  /\ phase = "merge" /\ todo = {}
  /\ slot' = slot + 2
  /\ phase' = "diff"
  /\ UNCHANGED <<writerVars, len, todo, out>>

NextSlot ==
  /\ phase = "merge" /\ todo = {}
  /\ slot' = slot + 1
  /\ phase' = "diff"
  /\ UNCHANGED <<writerVars, len, todo, out>>

Return ==
  /\ phase = "diff"
  /\ slot > NumBackups
  /\ phase' = "done"
  /\ UNCHANGED <<writerVars, len, slot, todo, out>>

Next == Live \/ Capture \/ NoCurrent \/ FindCurrent \/ SkipSlot \/ DiffSlot \/ MergeFile \/ NextSlot \/ Return

Spec == Init /\ [][Next]_vars

-----------------------------------------------------------------------------
(* The trees the slots recorded, whether or not they are still there.      *)

Filled == {s \in 1 .. NumBackups : backups[s].fs_root # 0}

(* The slot's block still holds the root that was committed there: neither *)
(* a later transaction nor a lost one has reused it.                       *)
Retained(s) ==
  LET b == backups[s]
      files == history[b.fs_root_gen]
  IN /\ disk[b.fs_root].owner = FsTreeObjectid
     /\ disk[b.fs_root].generation = b.fs_root_gen
     /\ disk[b.fs_root].items = IF Splits(files) THEN <<>> ELSE FsItems(files)

(* The file's content is inline, or its block is in the image and was not  *)
(* written since.                                                          *)
DataStands(file) ==
  file.at = 0 \/ (InImage(image, file.at) /\ data[file.at] = file.content)

SingleLeaf == ~Splits(Current)

(* The shapes of the recovery's variables and of the writer's. *)
TypeOK ==
  /\ phase \in {"writing", "start", "diff", "merge", "done"}
  /\ slot \in 1 .. NumBackups + 1
  /\ generation \in 1 .. MaxGen /\ Len(history) = generation
  /\ root \in Blocks
  /\ \A i \in DOMAIN out : out[i].inode \in Inodes /\ out[i].generation \in 1 .. MaxGen

(* While the old roots survive and the current tree is one leaf, whatever  *)
(* recover_deleted returns is a file that is gone now and that, in the     *)
(* generation it is attributed to, existed under that name, with that size *)
(* and, unless its data block was written again or cut off, with that      *)
(* content.  The empty content of a failed carve can be told from an       *)
(* empty file by the size.                                                 *)
RecoverySound ==
  SingleLeaf /\ (\A s \in Filled : Retained(s)) =>
    \A i \in DOMAIN out :
      LET r == out[i]
          then == history[r.generation]
      IN /\ r.inode \notin DOMAIN Current
         /\ r.generation < generation
         /\ r.inode \in DOMAIN then
         /\ r.path = then[r.inode].name /\ r.size = SizeOf(then[r.inode])
         /\ DataStands(then[r.inode]) => r.content = then[r.inode].content
         /\ r.content = 0 => ~InImage(image, then[r.inode].at) /\ r.size # 0

(* Nothing that recover_deleted can recover is left out: every file with   *)
(* content in a one-leaf tree that still stands behind some readable slot, *)
(* and absent from the current one, is returned, whatever the other slots  *)
(* hold.                                                                   *)
RecoveryComplete ==
  phase = "done" /\ cur_root # None /\ Readable(image, map, cur_root) =>
    \A s \in {t \in Filled : Retained(t) /\ Readable(image, map, backups[t].fs_root)} :
      LET files == history[backups[s].fs_root_gen]
      IN ~Splits(files) =>
           \A i \in DOMAIN files \ DOMAIN Current :
             files[i].content # 0 => \E k \in DOMAIN out : out[k].inode = i

(* A deleted file that several generations still hold is returned once:    *)
(* the check by inode in recover_deleted works across slots.               *)
RecoveredOnce == \A i, j \in DOMAIN out : out[i].inode = out[j].inode => i = j

-----------------------------------------------------------------------------
(* What the documentation of the recovery says, and the code does not do.  *)

(* "present in a previous FS_TREE ... but absent from the current FS_TREE, *)
(* so it was deleted": no file of the current tree is returned.            *)
OnlyDeletedFiles ==
  (\A s \in Filled : Retained(s)) =>
    \A i \in DOMAIN out : out[i].inode \notin DOMAIN Current

(* "this returns nothing rather than fabricating a result": whatever is    *)
(* returned was once in a committed tree.                                  *)
NothingFabricated ==
  SingleLeaf =>
    \A i \in DOMAIN out : \E g \in 1 .. generation : out[i].inode \in DOMAIN history[g]
=============================================================================
