------------------------------ MODULE CowHistory ------------------------------
(***************************************************************************)
(* The kernel that wrote the image, as far as recovery depends on it.  It  *)
(* is not part of the repository: this is what the recovery code takes for *)
(* granted about copy on write.  A transaction writes the changed FS_TREE  *)
(* and root tree into free blocks, never over the committed trees, and     *)
(* then commits by writing the superblock, which also records the new      *)
(* roots in one of the backup slots, the oldest first.  A crash before the *)
(* superblock loses the transaction and leaves its blocks on disk.         *)
(*                                                                         *)
(* Logical and physical addresses coincide (one chunk in the               *)
(* sys_chunk_array), and a tree of more than LeafCap files has an interior *)
(* root over two leaves.  A new file's content goes to a data block that   *)
(* the committed tree does not use, before the trees are written; a        *)
(* rewritten file is small and inline.                                     *)
(***************************************************************************)
EXTENDS FsTree, SequencesExt

CONSTANTS
  NumBlocks,    \* tree blocks on the device
  NumData,      \* data blocks, behind them
  NumBackups,   \* backup slots (4 in the format)
  MaxGen,       \* bound: the last generation committed
  MaxIno,       \* bound: the last inode created
  MaxCrashes,   \* bound: transactions lost
  LeafCap       \* files that fit in one leaf

ASSUME HistoryAssumption ==
  /\ NumBlocks \in Nat /\ NumBlocks >= 2   \* mkfs writes two
  /\ NumData \in Nat /\ NumBlocks + NumData < MaxU64
  /\ NumBackups \in Nat \ {0} /\ MaxGen \in Nat \ {0}
  /\ MaxIno \in Nat /\ MaxCrashes \in Nat /\ LeafCap \in Nat

VARIABLES
  disk,      \* block -> node
  data,      \* data block -> content
  generation, root, backups,   \* the superblock
  pending,   \* the written, uncommitted transaction, or NoTransaction
  history,   \* history[g]: the files of the FS_TREE committed as generation g
  next_ino,
  crashes    \* transactions lost so far

writerVars == <<disk, data, generation, root, backups, pending, history, next_ino, crashes>>

Blocks == 1 .. NumBlocks
DataBlocks == NumBlocks + 1 .. NumBlocks + NumData
FirstIno == 257
Inodes == FirstIno .. MaxIno

NoTransaction == [blocks |-> <<>>]

(* A file has a name, a content and the data block it is in, 0 if it is    *)
(* inline; content 0 is an empty file, without extents.                    *)
Names == {"a", "b", "c"}

NoFiles == [i \in {} |-> 0]

(* One entry, and f laid over g. *)
Put(x, v) == [y \in {x} |-> v]
Over(f, g) == [x \in DOMAIN f \cup DOMAIN g |-> IF x \in DOMAIN f THEN f[x] ELSE g[x]]

-----------------------------------------------------------------------------
(* The trees on disk.                                                      *)

Node(level, at, owner, gen, ptrs, items) ==
  [level |-> level, bytenr |-> at, owner |-> owner, generation |-> gen, intact |-> TRUE,
   ptrs |-> ptrs, chunks |-> <<>>, items |-> items]

Blank(at) == Node(0, 0, 0, 0, <<>>, <<>>)

(* The items of an FS_TREE leaf: the root directory with its entries, then *)
(* the inodes, then the extents of the files.  Items of one kind are in    *)
(* the order of their keys, which is all that the readers depend on.  In a *)
(* split tree the directory's items are all in the first leaf.             *)
InodeAt(i) == MaxIno + i
ExtentAt(i) == 2 * MaxIno + i

SizeOf(file) == IF file.content = 0 THEN 0 ELSE 1

DirItem == [objectid |-> 256, key_type |-> "INODE_ITEM", offset |-> 0]
EntryItem(i, file) ==
  [objectid |-> 256, key_type |-> "DIR_INDEX", offset |-> i, child |-> i, name |-> file.name]
InodeItem(i, file) ==
  [objectid |-> i, key_type |-> "INODE_ITEM", offset |-> 0, size |-> SizeOf(file)]
ExtentItem(i, file) ==
  [objectid |-> i, key_type |-> "EXTENT_DATA", offset |-> 0, disk_bytenr |-> file.at,
   content |-> IF file.at = 0 THEN file.content ELSE 0]

DirItems(files) ==
  [k \in {256} \cup DOMAIN files |-> IF k = 256 THEN DirItem ELSE EntryItem(k, files[k])]

FileItems(files, members) ==
  LET InodesAt == {InodeAt(i) : i \in members}
      ExtentsAt == {ExtentAt(i) : i \in {j \in members : files[j].content # 0}}
  IN [k \in InodesAt \cup ExtentsAt |->
        IF k \in InodesAt THEN InodeItem(k - MaxIno, files[k - MaxIno])
        ELSE ExtentItem(k - 2 * MaxIno, files[k - 2 * MaxIno])]

FsItems(files) == Over(DirItems(files), FileItems(files, DOMAIN files))

RootItems(fs_root) ==
  <<[objectid |-> FsTreeObjectid, key_type |-> "ROOT_ITEM", offset |-> 0, bytenr |-> fs_root]>>

Splits(files) == Cardinality(DOMAIN files) > LeafCap

(* The nodes of an FS_TREE in the blocks at, its root in the second; the   *)
(* first is the root tree's.                                               *)
FsNodes(files, at, gen) ==
  LET low == {i \in DOMAIN files : i - FirstIno < LeafCap}
      Leaf(b, items) == Put(b, Node(0, b, FsTreeObjectid, gen, <<>>, items))
  IN IF Splits(files)
     THEN Over(Put(at[2], Node(1, at[2], FsTreeObjectid, gen, <<at[3], at[4]>>, <<>>)),
               Over(Leaf(at[3], Over(DirItems(files), FileItems(files, low))),
                    Leaf(at[4], FileItems(files, DOMAIN files \ low))))
     ELSE Leaf(at[2], FsItems(files))

RootNode(at, fs_root, gen) == Put(at, Node(0, at, 1, gen, <<>>, RootItems(fs_root)))

FsRootOf(d, r) == d[r].items[1].bytenr

(* The blocks of the committed trees. *)
InUse ==
  LET fs == FsRootOf(disk, root) IN {root, fs} \cup Range(disk[fs].ptrs)

(* n free blocks, first fit from a starting point of the allocator's: each *)
(* is behind the one before, and no free block between them is left out.   *)
Allocations(n) ==
  LET free == Blocks \ InUse
      Behind(c, b) == IF b >= c THEN b - c ELSE b + NumBlocks - c
      FirstFit(at, c) ==
        /\ \A i, j \in 1 .. n : i < j => Behind(c, at[i]) < Behind(c, at[j])
        /\ \A b \in free, i \in 1 .. n : Behind(c, b) < Behind(c, at[i]) => b \in Range(at)
  IN {at \in [1 .. n -> free] : \E c \in free : FirstFit(at, c)}

Current == history[generation]

-----------------------------------------------------------------------------
(* mkfs: an empty FS_TREE in block 1, the root tree in block 2. *)
WriterInit ==
  /\ disk = Over(RootNode(2, 1, 1), Over(FsNodes(NoFiles, <<2, 1>>, 1), [b \in Blocks |-> Blank(b)]))
  /\ data = [b \in DataBlocks |-> 0]
  /\ generation = 1
  /\ root = 2
  /\ backups = [s \in 1 .. NumBackups |->
                  [tree_root |-> 0, tree_root_gen |-> 0, fs_root |-> 0, fs_root_gen |-> 0]]
  /\ pending = NoTransaction
  /\ history = <<NoFiles>>
  /\ next_ino = FirstIno
  /\ crashes = 0

(* The files one operation later. *)
FreeName == CHOOSE n \in Names : \A i \in DOMAIN Current : Current[i].name # n

(* A content no other transaction wrote, and the data block for it. *)
NewContent == generation + 1 + MaxGen * crashes
FreeData == DataBlocks \ {Current[i].at : i \in DOMAIN Current}

Created ==
  {Over(Current, Put(next_ino, [name |-> FreeName, content |-> 0, at |-> 0]))}
    \cup {Over(Current, Put(next_ino, [name |-> FreeName, content |-> NewContent, at |-> b])) :
            b \in {d \in FreeData : d = Min(FreeData)}}
Deleted == {[j \in DOMAIN Current \ {i} |-> Current[j]] : i \in DOMAIN Current}
Rewritten ==
  {[Current EXCEPT ![i] = [name |-> @.name, content |-> NewContent, at |-> 0]] : i \in DOMAIN Current}
Renamed ==
  {[Current EXCEPT ![i] = [name |-> FreeName, content |-> @.content, at |-> @.at]] : i \in DOMAIN Current}

(* A transaction's tree blocks reach the disk. *)
WriteTrees(files) ==
  /\ pending = NoTransaction
  /\ generation < MaxGen
  /\ \E at \in Allocations(IF Splits(files) THEN 4 ELSE 2) :
       /\ disk' = Over(RootNode(at[1], at[2], generation + 1),
                       Over(FsNodes(files, at, generation + 1), disk))
       /\ pending' = [blocks |-> at, files |-> files]
  /\ data' = [b \in DataBlocks |->
                IF \E i \in DOMAIN files : files[i] = [name |-> FreeName, content |-> NewContent, at |-> b]
                THEN NewContent ELSE data[b]]
  /\ UNCHANGED <<generation, root, backups, history, crashes>>

Create ==
  /\ next_ino <= MaxIno
  /\ \E f \in Created : WriteTrees(f)
  /\ next_ino' = next_ino + 1

Change ==
  /\ \E f \in Deleted \cup Rewritten \cup Renamed : WriteTrees(f)
  /\ UNCHANGED next_ino

(* A transaction that leaves the FS_TREE alone: only the root tree moves. *)
Touch ==
  /\ pending = NoTransaction
  /\ generation < MaxGen
  /\ \E at \in Allocations(1) :
       /\ disk' = Over(RootNode(at[1], FsRootOf(disk, root), generation + 1), disk)
       /\ pending' = [blocks |-> at, files |-> Current]
  /\ UNCHANGED <<data, generation, root, backups, history, next_ino, crashes>>

(* The superblock is written: the commit. *)
Commit ==
  /\ pending # NoTransaction
  /\ LET r == pending.blocks[1]
         fs == FsRootOf(disk, r)
     IN /\ root' = r
        /\ backups' = [backups EXCEPT ![(generation % NumBackups) + 1] =
                         [tree_root |-> r, tree_root_gen |-> generation + 1,
                          fs_root |-> fs, fs_root_gen |-> disk[fs].generation]]
  /\ generation' = generation + 1
  /\ history' = Append(history, pending.files)
  /\ pending' = NoTransaction
  /\ UNCHANGED <<disk, data, next_ino, crashes>>

(* Power is lost before the superblock: the inode counter is read back     *)
(* from the committed tree.                                                *)
Crash ==
  /\ pending # NoTransaction
  /\ crashes < MaxCrashes
  /\ crashes' = crashes + 1
  /\ pending' = NoTransaction
  /\ next_ino' = IF DOMAIN Current = {} THEN FirstIno ELSE Max(DOMAIN Current) + 1
  /\ UNCHANGED <<disk, data, generation, root, backups, history>>

Write == Create \/ Change \/ Touch \/ Commit \/ Crash
=============================================================================
