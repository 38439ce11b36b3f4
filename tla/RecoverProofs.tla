----------------------------- MODULE RecoverProofs -----------------------------
(***************************************************************************)
(* recover_deleted on every filesystem that copy on write may have left:   *)
(* each deleted file once, as it was, and all that still stand.            *)
(***************************************************************************)
EXTENDS Recover, ImageLemmas, FiniteSetTheorems

-----------------------------------------------------------------------------
(* What a leaf of the FS_TREE holds.                                       *)

(* An item of files, at the place k. *)
ItemFor(files, members, k, it) ==
  \/ k = 256 /\ it = DirItem
  \/ k \in DOMAIN files /\ it = EntryItem(k, files[k])
  \/ \E i \in members : k = InodeAt(i) /\ it = InodeItem(i, files[i])
  \/ \E i \in members : k = ExtentAt(i) /\ files[i].content # 0 /\ it = ExtentItem(i, files[i])

(* The directory's items. *)
LEMMA DirLemma ==
  ASSUME NEW files, DOMAIN files \subseteq Inodes, NEW M
  PROVE  /\ DOMAIN DirItems(files) = {256} \cup DOMAIN files
         /\ \A k \in DOMAIN DirItems(files) : ItemFor(files, M, k, DirItems(files)[k])
         /\ \A i \in DOMAIN files : DirItems(files)[i] = EntryItem(i, files[i])
  <1>1. \A i \in DOMAIN files : i # 256
    BY DEF Inodes, FirstIno
  <1> QED
    BY <1>1 DEF DirItems, ItemFor

(* The files' items: inodes and extents do not get in each other's way. *)
LEMMA FileLemma ==
  ASSUME NEW files, DOMAIN files \subseteq Inodes, NEW M, M \subseteq DOMAIN files
  PROVE  LET items == FileItems(files, M)
         IN /\ \A k \in DOMAIN items : ItemFor(files, M, k, items[k]) /\ k \in Nat /\ k > MaxIno
            /\ \A i \in M : InodeAt(i) \in DOMAIN items /\ items[InodeAt(i)] = InodeItem(i, files[i])
            /\ \A i \in M : files[i].content # 0 =>
                 ExtentAt(i) \in DOMAIN items /\ items[ExtentAt(i)] = ExtentItem(i, files[i])
  <1> DEFINE items == FileItems(files, M)
             IA == {InodeAt(i) : i \in M}
             EA == {ExtentAt(i) : i \in {j \in M : files[j].content # 0}}
  <1>1. /\ DOMAIN items = IA \cup EA
        /\ \A k \in IA : items[k] = InodeItem(k - MaxIno, files[k - MaxIno])
        /\ \A k \in EA \ IA : items[k] = ExtentItem(k - 2 * MaxIno, files[k - 2 * MaxIno])
    BY DEF FileItems
  <1> HIDE DEF items
  <1>2. \A i \in M : i \in Nat /\ 257 <= i /\ i <= MaxIno
    BY DEF Inodes, FirstIno
  <1>3. \A i \in M : /\ InodeAt(i) \in Nat /\ InodeAt(i) > MaxIno /\ InodeAt(i) - MaxIno = i
                     /\ ExtentAt(i) \in Nat /\ ExtentAt(i) > MaxIno /\ ExtentAt(i) - 2 * MaxIno = i
                     /\ InodeAt(i) <= 2 * MaxIno /\ ExtentAt(i) > 2 * MaxIno
    BY <1>2, HistoryAssumption DEF InodeAt, ExtentAt
  <1>4. \A i \in M : ExtentAt(i) \notin IA
    BY <1>3, HistoryAssumption
  <1>5. \A i \in M : InodeAt(i) \in DOMAIN items /\ items[InodeAt(i)] = InodeItem(i, files[i])
    BY <1>1, <1>3
  <1>6. \A i \in M : files[i].content # 0 =>
          ExtentAt(i) \in DOMAIN items /\ items[ExtentAt(i)] = ExtentItem(i, files[i])
    BY <1>1, <1>3, <1>4
  <1>7. \A k \in DOMAIN items : ItemFor(files, M, k, items[k]) /\ k \in Nat /\ k > MaxIno
    BY <1>1, <1>3, <1>5, <1>6 DEF ItemFor
  <1> QED
    BY <1>5, <1>6, <1>7 DEF items

(* The upper function where it is defined, else the lower one. *)
LEMMA Overlay ==
  ASSUME NEW f, NEW g
  PROVE  /\ DOMAIN Over(f, g) = DOMAIN f \cup DOMAIN g
         /\ \A x \in DOMAIN f : Over(f, g)[x] = f[x]
         /\ \A x \in DOMAIN g \ DOMAIN f : Over(f, g)[x] = g[x]
  BY DEF Over

(* A whole leaf, or the first of two. *)
LEMMA LeafLemma ==
  ASSUME NEW files, DOMAIN files \subseteq Inodes, NEW M, M \subseteq DOMAIN files
  PROVE  LET items == Over(DirItems(files), FileItems(files, M))
         IN /\ 256 \in DOMAIN items
            /\ \A k \in DOMAIN items : k \in Nat /\ ItemFor(files, M, k, items[k])
            /\ \A i \in DOMAIN files : i \in DOMAIN items /\ items[i] = EntryItem(i, files[i])
            /\ \A i \in M : InodeAt(i) \in DOMAIN items /\ items[InodeAt(i)] = InodeItem(i, files[i])
            /\ \A i \in M : files[i].content # 0 =>
                 ExtentAt(i) \in DOMAIN items /\ items[ExtentAt(i)] = ExtentItem(i, files[i])
  <1> DEFINE d == DirItems(files)
             f == FileItems(files, M)
  <1>1. /\ DOMAIN d = {256} \cup DOMAIN files
        /\ \A k \in DOMAIN d : ItemFor(files, M, k, d[k])
        /\ \A i \in DOMAIN files : d[i] = EntryItem(i, files[i])
    BY DirLemma
  <1>2. /\ \A k \in DOMAIN f : ItemFor(files, M, k, f[k]) /\ k \in Nat /\ k > MaxIno
        /\ \A i \in M : InodeAt(i) \in DOMAIN f /\ f[InodeAt(i)] = InodeItem(i, files[i])
        /\ \A i \in M : files[i].content # 0 =>
             ExtentAt(i) \in DOMAIN f /\ f[ExtentAt(i)] = ExtentItem(i, files[i])
    BY FileLemma
  <1>3. \A k \in DOMAIN d : k \in Nat
    BY <1>1 DEF Inodes, FirstIno
  <1>4. \A i \in M : InodeAt(i) \notin DOMAIN d /\ ExtentAt(i) \notin DOMAIN d
    <2> TAKE i \in M
    <2>1. i \in Nat /\ 257 <= i /\ i <= MaxIno
      BY DEF Inodes, FirstIno
    <2>2. InodeAt(i) > MaxIno /\ ExtentAt(i) > MaxIno /\ 256 < MaxIno
      BY <2>1, HistoryAssumption DEF InodeAt, ExtentAt
    <2>3. \A k \in DOMAIN d : k <= MaxIno
      BY <1>1, <2>2, HistoryAssumption DEF Inodes, FirstIno
    <2> QED
      BY <2>1, <2>2, <2>3, HistoryAssumption DEF InodeAt, ExtentAt
  <1> HIDE DEF d, f
  <1>5. /\ DOMAIN Over(d, f) = DOMAIN d \cup DOMAIN f
        /\ \A x \in DOMAIN d : Over(d, f)[x] = d[x]
        /\ \A x \in DOMAIN f \ DOMAIN d : Over(d, f)[x] = f[x]
    BY Overlay
  <1>6. PICK items : items = Over(d, f)
    OBVIOUS
  <1>7. /\ 256 \in DOMAIN items
        /\ \A k \in DOMAIN items : k \in Nat /\ ItemFor(files, M, k, items[k])
    BY <1>1, <1>2, <1>3, <1>5, <1>6
  <1>8. \A i \in DOMAIN files : i \in DOMAIN items /\ items[i] = EntryItem(i, files[i])
    BY <1>1, <1>5, <1>6
  <1>9. /\ \A i \in M : InodeAt(i) \in DOMAIN items /\ items[InodeAt(i)] = InodeItem(i, files[i])
        /\ \A i \in M : files[i].content # 0 =>
             ExtentAt(i) \in DOMAIN items /\ items[ExtentAt(i)] = ExtentItem(i, files[i])
    BY <1>2, <1>4, <1>5, <1>6
  <1> QED
    BY <1>6, <1>7, <1>8, <1>9 DEF d, f

-----------------------------------------------------------------------------
(* What copy on write keeps.                                               *)

(* Files whose data was written. *)
Stored(files, d) ==
  /\ DOMAIN files \subseteq Inodes
  /\ \A i \in DOMAIN files : files[i].at # 0 => files[i].at \in DataBlocks /\ d[files[i].at] # 0

(* A block: an FS_TREE node of some generation, or none; only a leaf has   *)
(* items.                                                                  *)
NodeOk(n) ==
  /\ n.owner = FsTreeObjectid => n.generation \in 1 .. MaxGen
  /\ n.level # 0 => n.items = <<>>
  /\ \A k \in DOMAIN n.items :
       k \in Nat /\ (n.items[k].key_type = "INODE_ITEM" => n.items[k].objectid \in {256} \cup Inodes)

(* In block r of the disk d is a root tree, and the FS_TREE root it names  *)
(* holds these files.                                                      *)
Tree(d, r, files, g) ==
  /\ r \in Blocks
  /\ \E fs \in Blocks :
       /\ d[r].level = 0 /\ d[r].items = RootItems(fs)
       /\ d[fs].generation \in 1 .. g
       /\ d[fs].items = IF Splits(files) THEN <<>> ELSE FsItems(files)

(* The superblock's tree is on disk, and so is the one to be committed.    *)
(* The trees of the backup slots need not be.                              *)
CowPart ==
  /\ generation \in 1 .. MaxGen
  /\ history \in Seq(Range(history)) /\ Len(history) = generation
  /\ \A g \in 1 .. generation : Stored(history[g], data)
  /\ DOMAIN disk = Blocks /\ \A b \in Blocks : NodeOk(disk[b])
  /\ DOMAIN backups = 1 .. NumBackups
  /\ \A s \in 1 .. NumBackups : backups[s].fs_root # 0 =>
       backups[s].fs_root \in Blocks /\ backups[s].fs_root_gen \in 1 .. generation
  /\ Tree(disk, root, Current, generation)
  /\ pending # NoTransaction =>
       /\ generation < MaxGen
       /\ Stored(pending.files, data)
       /\ Tree(disk, pending.blocks[1], pending.files, generation + 1)
  /\ crashes \in Nat

WriterInv == CowPart /\ next_ino \in Nat /\ next_ino >= FirstIno

(* The items of an FS_TREE leaf make a sound node. *)
LEMMA LeafNodeOk ==
  ASSUME NEW files, DOMAIN files \subseteq Inodes, NEW M, M \subseteq DOMAIN files, NEW items,
         \A k \in DOMAIN items : k \in Nat /\ ItemFor(files, M, k, items[k]),
         NEW b, NEW gen \in 1 .. MaxGen
  PROVE  NodeOk(Node(0, b, FsTreeObjectid, gen, <<>>, items))
  <1>1. ASSUME NEW k \in DOMAIN items, items[k].key_type = "INODE_ITEM"
        PROVE  items[k].objectid \in {256} \cup Inodes
    <2>1. EntryItem(k, files[k]).key_type # "INODE_ITEM" /\ DirItem.objectid = 256
      BY DEF EntryItem, DirItem
    <2>2. \A i \in M : /\ InodeItem(i, files[i]).objectid = i
                       /\ ExtentItem(i, files[i]).key_type # "INODE_ITEM"
      BY DEF InodeItem, ExtentItem
    <2> QED
      BY <1>1, <2>1, <2>2 DEF ItemFor
  <1>2. PICK n : n = Node(0, b, FsTreeObjectid, gen, <<>>, items)
    OBVIOUS
  <1>3. n.level = 0 /\ n.generation = gen /\ n.items = items
    BY <1>2 DEF Node
  <1> QED
    BY <1>1, <1>2, <1>3 DEF NodeOk

(* One entry. *)
LEMMA PutLemma ==
  ASSUME NEW x, NEW v
  PROVE  DOMAIN Put(x, v) = {x} /\ Put(x, v)[x] = v
  BY DEF Put

(* The FS_TREE that a transaction writes. *)
LEMMA FsNodesLemma ==
  ASSUME NEW files, DOMAIN files \subseteq Inodes, NEW at, NEW gen \in 1 .. MaxGen, NEW B,
         at[2] \in B, Splits(files) => at[3] \in B /\ at[4] \in B
  PROVE  LET N == FsNodes(files, at, gen)
         IN /\ at[2] \in DOMAIN N /\ DOMAIN N \subseteq B
            /\ \A b \in DOMAIN N : NodeOk(N[b])
            /\ N[at[2]].items = IF Splits(files) THEN <<>> ELSE FsItems(files)
            /\ N[at[2]].generation = gen
  <1> DEFINE N == FsNodes(files, at, gen)
             low == {i \in DOMAIN files : i - FirstIno < LeafCap}
             Leaf(b, items) == Node(0, b, FsTreeObjectid, gen, <<>>, items)
  <1>1. \A b : NodeOk(Leaf(b, FsItems(files))) /\ NodeOk(Leaf(b, Over(DirItems(files), FileItems(files, low))))
    <2>1. \A M \in SUBSET DOMAIN files : \A k \in DOMAIN Over(DirItems(files), FileItems(files, M)) :
            k \in Nat /\ ItemFor(files, M, k, Over(DirItems(files), FileItems(files, M))[k])
      BY LeafLemma
    <2>2. \A M \in SUBSET DOMAIN files : \A b : NodeOk(Leaf(b, Over(DirItems(files), FileItems(files, M))))
      BY <2>1, LeafNodeOk
    <2>3. low \in SUBSET DOMAIN files /\ DOMAIN files \in SUBSET DOMAIN files
      OBVIOUS
    <2> QED
      BY <2>2, <2>3 DEF FsItems
  <1>2. \A b : NodeOk(Leaf(b, FileItems(files, DOMAIN files \ low)))
    <2>1. DOMAIN files \ low \subseteq DOMAIN files
      OBVIOUS
    <2>2. \A k \in DOMAIN FileItems(files, DOMAIN files \ low) :
            k \in Nat /\ ItemFor(files, DOMAIN files \ low, k, FileItems(files, DOMAIN files \ low)[k])
      BY <2>1, FileLemma
    <2> QED
      BY <2>1, <2>2, LeafNodeOk
  <1>3. CASE ~Splits(files)
    <2>1. N = Put(at[2], Leaf(at[2], FsItems(files)))
      BY <1>3 DEF FsNodes
    <2>2. DOMAIN N = {at[2]} /\ N[at[2]] = Leaf(at[2], FsItems(files))
      <3> HIDE DEF N, Leaf
      <3> QED
        BY <2>1, PutLemma
    <2>3. Leaf(at[2], FsItems(files)).items = FsItems(files) /\ Leaf(at[2], FsItems(files)).generation = gen
      BY DEF Node
    <2> HIDE DEF N, Leaf
    <2> QED
      BY <1>1, <1>3, <2>2, <2>3 DEF N
  <1>4. CASE Splits(files)
    <2>1. PICK n : n = Node(1, at[2], FsTreeObjectid, gen, <<at[3], at[4]>>, <<>>)
      OBVIOUS
    <2>2. n.items = <<>> /\ n.generation = gen /\ NodeOk(n)
      BY <2>1 DEF Node, NodeOk
    <2>3. PICK l : l = Leaf(at[3], Over(DirItems(files), FileItems(files, low)))
      OBVIOUS
    <2>4. PICK h : h = Leaf(at[4], FileItems(files, DOMAIN files \ low))
      OBVIOUS
    <2>5. N = Over(Put(at[2], n), Over(Put(at[3], l), Put(at[4], h)))
      BY <1>4, <2>1, <2>3, <2>4 DEF FsNodes
    <2>6. NodeOk(l) /\ NodeOk(h)
      BY <1>1, <1>2, <2>3, <2>4
    <2> HIDE DEF N
    <2>7. PICK p : p = Put(at[4], h)
      OBVIOUS
    <2>8. DOMAIN p = {at[4]} /\ p[at[4]] = h
      BY <2>7, PutLemma
    <2>9. PICK m : m = Over(Put(at[3], l), p)
      OBVIOUS
    <2>10. DOMAIN m = {at[3]} \cup DOMAIN p /\ m[at[3]] = l /\ \A y \in DOMAIN p \ {at[3]} : m[y] = p[y]
      BY <2>9 DEF Over, Put
    <2>11. DOMAIN m = {at[3], at[4]} /\ \A b \in DOMAIN m : NodeOk(m[b])
      BY <2>6, <2>8, <2>10
    <2>12. N = Over(Put(at[2], n), m)
      BY <2>5, <2>7, <2>9
    <2>13. DOMAIN N = {at[2]} \cup DOMAIN m /\ N[at[2]] = n /\ \A y \in DOMAIN m \ {at[2]} : N[y] = m[y]
      BY <2>12 DEF Over, Put
    <2>14. DOMAIN N = {at[2], at[3], at[4]} /\ \A b \in DOMAIN N : NodeOk(N[b])
      BY <2>2, <2>11, <2>13
    <2> QED
      BY <1>4, <2>2, <2>13, <2>14 DEF N
  <1> QED
    BY <1>3, <1>4

(* The blocks that the allocator gives are free and differ. *)
LEMMA AllocationLemma ==
  ASSUME NEW n \in Nat, NEW at \in Allocations(n)
  PROVE  /\ \A i \in 1 .. n : at[i] \in Blocks \ InUse
         /\ \A i, j \in 1 .. n : i < j => at[i] # at[j]
  <1>1. at \in [1 .. n -> Blocks \ InUse]
    BY DEF Allocations
  <1>2. PICK c \in Blocks \ InUse : \A i, j \in 1 .. n : i < j =>
          (IF at[i] >= c THEN at[i] - c ELSE at[i] + NumBlocks - c)
            < (IF at[j] >= c THEN at[j] - c ELSE at[j] + NumBlocks - c)
    BY DEF Allocations
  <1>3. c \in Int /\ NumBlocks \in Int /\ \A i \in 1 .. n : at[i] \in Int
    BY <1>1, HistoryAssumption DEF Blocks
  <1> QED
    BY <1>1, <1>2, <1>3

(* A sequence is one over its own elements. *)
LEMMA OwnRange ==
  ASSUME NEW A, NEW t \in Seq(A)
  PROVE  t \in Seq(Range(t))
  <1>1. t = [i \in 1 .. Len(t) |-> t[i]] /\ Len(t) \in Nat
    OBVIOUS
  <1>2. \A i \in 1 .. Len(t) : t[i] \in Range(t)
    BY DEF Range
  <1>3. t \in [1 .. Len(t) -> Range(t)]
    BY <1>1, <1>2
  <1> QED
    BY <1>1, <1>3, SeqDef

(* What the root tree of a tree names. *)
LEMMA TreeRoot ==
  ASSUME NEW d, NEW r, NEW files, NEW g, Tree(d, r, files, g)
  PROVE  /\ r \in Blocks /\ FsRootOf(d, r) \in Blocks
         /\ d[r].level = 0 /\ d[r].items = RootItems(FsRootOf(d, r))
         /\ d[FsRootOf(d, r)].generation \in 1 .. g
         /\ d[FsRootOf(d, r)].items = IF Splits(files) THEN <<>> ELSE FsItems(files)
  <1>1. PICK fs \in Blocks :
          /\ d[r].level = 0 /\ d[r].items = RootItems(fs)
          /\ d[fs].generation \in 1 .. g
          /\ d[fs].items = IF Splits(files) THEN <<>> ELSE FsItems(files)
    BY DEF Tree
  <1>2. FsRootOf(d, r) = fs
    BY <1>1 DEF FsRootOf, RootItems
  <1> QED
    BY <1>1, <1>2 DEF Tree

(* A tree is there as long as its two roots are not written. *)
LEMMA TreeKept ==
  ASSUME NEW d, NEW e, NEW r, NEW files, NEW g \in Nat, NEW h \in Nat, g <= h, Tree(d, r, files, g),
         e[r] = d[r], e[FsRootOf(d, r)] = d[FsRootOf(d, r)]
  PROVE  Tree(e, r, files, h)
  <1>1. \A x \in 1 .. g : x \in 1 .. h
    OBVIOUS
  <1>2. PICK fs : fs = FsRootOf(d, r)
    OBVIOUS
  <1>3. /\ r \in Blocks /\ fs \in Blocks /\ d[r].level = 0 /\ d[r].items = RootItems(fs)
        /\ d[fs].generation \in 1 .. h
        /\ d[fs].items = IF Splits(files) THEN <<>> ELSE FsItems(files)
    BY <1>1, <1>2, TreeRoot
  <1>4. e[r] = d[r] /\ e[fs] = d[fs]
    BY <1>2
  <1> QED
    BY <1>3, <1>4 DEF Tree

(* What an operation on the files makes of them: a file has the place of a *)
(* file of the current tree, is inline, or is the one that is written.     *)
Derived(files) ==
  /\ DOMAIN files \subseteq Inodes
  /\ \A i \in DOMAIN files :
       \/ files[i].at = 0
       \/ \E j \in DOMAIN Current : files[i].at = Current[j].at
       \/ files[i].at \in DataBlocks
          /\ files[i] = [name |-> FreeName, content |-> NewContent, at |-> files[i].at]

(* The contents a transaction writes are not the zeros of a fresh disk. *)
LEMMA NewContentLemma ==
  ASSUME generation \in Nat, crashes \in Nat
  PROVE  NewContent # 0
  <1>1. MaxGen * crashes \in Nat
    BY HistoryAssumption
  <1> QED
    BY <1>1 DEF NewContent

(* What stands on disk when a transaction was written. *)
LEMMA WriteTreesKeeps ==
  ASSUME CowPart, NEW files, Derived(files), WriteTrees(files)
  PROVE  CowPart'
  <1> DEFINE n == IF Splits(files) THEN 4 ELSE 2
             gen == generation + 1
  <1>1. PICK at \in Allocations(n) :
          /\ disk' = Over(RootNode(at[1], at[2], gen), Over(FsNodes(files, at, gen), disk))
          /\ pending' = [blocks |-> at, files |-> files]
    BY DEF WriteTrees
  <1>2. /\ generation \in Nat /\ generation >= 1 /\ generation < MaxGen /\ crashes \in Nat
        /\ UNCHANGED <<generation, root, backups, history, crashes>>
        /\ data' = [b \in DataBlocks |->
             IF \E i \in DOMAIN files : files[i] = [name |-> FreeName, content |-> NewContent, at |-> b]
             THEN NewContent ELSE data[b]]
    BY HistoryAssumption DEF WriteTrees, CowPart
  <1>3. gen \in 1 .. MaxGen
    BY <1>2, HistoryAssumption
  <1>4. /\ n \in Nat /\ 1 \in 1 .. n /\ 2 \in 1 .. n
        /\ Splits(files) => 3 \in 1 .. n /\ 4 \in 1 .. n
    OBVIOUS
  <1>5. /\ at[1] \in Blocks \ InUse /\ at[2] \in Blocks \ InUse /\ at[1] # at[2]
        /\ Splits(files) => at[3] \in Blocks \ InUse /\ at[4] \in Blocks \ InUse
    BY <1>4, AllocationLemma
  <1> HIDE DEF n
  <1>6. PICK N : N = FsNodes(files, at, gen)
    OBVIOUS
  <1>7. /\ at[2] \in DOMAIN N /\ DOMAIN N \subseteq Blocks \ InUse
        /\ \A b \in DOMAIN N : NodeOk(N[b])
        /\ N[at[2]].items = IF Splits(files) THEN <<>> ELSE FsItems(files)
        /\ N[at[2]].generation = gen
    <2>1. PICK B : B = Blocks \ InUse
      OBVIOUS
    <2>2. at[2] \in B /\ (Splits(files) => at[3] \in B /\ at[4] \in B) /\ DOMAIN files \subseteq Inodes
      BY <1>5, <2>1 DEF Derived
    <2> HIDE DEF gen
    <2> QED
      BY <1>3, <1>6, <2>1, <2>2, FsNodesLemma
  <1>8. PICK r : r = Node(0, at[1], 1, gen, <<>>, RootItems(at[2]))
    OBVIOUS
  <1>9. r.level = 0 /\ r.items = RootItems(at[2]) /\ NodeOk(r)
    BY <1>8 DEF Node, NodeOk, RootItems, FsTreeObjectid
  <1>10. /\ DOMAIN disk' = {at[1]} \cup DOMAIN N \cup DOMAIN disk
         /\ disk'[at[1]] = r
         /\ \A b \in DOMAIN N \ {at[1]} : disk'[b] = N[b]
         /\ \A b \in DOMAIN disk \ ({at[1]} \cup DOMAIN N) : disk'[b] = disk[b]
    BY <1>1, <1>6, <1>8 DEF RootNode, Over, Put
  <1>11. DOMAIN disk = Blocks /\ \A b \in Blocks : NodeOk(disk[b])
    BY DEF CowPart
  <1>12. DOMAIN disk' = Blocks /\ \A b \in Blocks : NodeOk(disk'[b])
    BY <1>5, <1>7, <1>9, <1>10, <1>11
  <1>13. Tree(disk', root, Current, generation)
    <2>1. Tree(disk, root, Current, generation)
      BY DEF CowPart
    <2>2. root \in Blocks /\ FsRootOf(disk, root) \in Blocks
      BY <2>1, TreeRoot
    <2>3. root \in InUse /\ FsRootOf(disk, root) \in InUse
      BY DEF InUse
    <2>4. disk'[root] = disk[root] /\ disk'[FsRootOf(disk, root)] = disk[FsRootOf(disk, root)]
      BY <1>5, <1>7, <1>10, <1>11, <2>2, <2>3
    <2> QED
      BY <1>2, <2>1, <2>4, TreeKept
  <1>14. Tree(disk', at[1], files, gen)
    <2>1. disk'[at[2]] = N[at[2]]
      BY <1>5, <1>7, <1>10
    <2>2. gen \in 1 .. gen
      BY <1>2
    <2> QED
      BY <1>5, <1>7, <1>9, <1>10, <2>1, <2>2 DEF Tree
  <1>15. \A b \in DataBlocks : (data[b] # 0 => data'[b] # 0)
    BY <1>2, NewContentLemma
  <1>16. Stored(files, data')
    <2>1. Stored(Current, data)
      BY <1>2 DEF CowPart, Current
    <2> SUFFICES ASSUME NEW i \in DOMAIN files, files[i].at # 0
                 PROVE  files[i].at \in DataBlocks /\ data'[files[i].at] # 0
      BY DEF Stored, Derived
    <2>2. CASE \E j \in DOMAIN Current : files[i].at = Current[j].at
      BY <1>15, <2>1, <2>2 DEF Stored
    <2>3. CASE /\ files[i].at \in DataBlocks
               /\ files[i] = [name |-> FreeName, content |-> NewContent, at |-> files[i].at]
      <3>1. data'[files[i].at] = NewContent
        BY <1>2, <2>3
      <3> QED
        BY <1>2, <2>3, <3>1, NewContentLemma
    <2> QED
      BY <2>2, <2>3 DEF Derived
  <1>17. \A g \in 1 .. generation : Stored(history[g], data')
    BY <1>15 DEF CowPart, Stored
  <1>18. Current' = Current /\ pending'.blocks[1] = at[1] /\ pending'.files = files
    BY <1>1, <1>2 DEF Current
  <1> QED
    BY <1>2, <1>12, <1>13, <1>14, <1>16, <1>17, <1>18 DEF CowPart

(* A transaction of the root tree alone. *)
LEMMA TouchKeeps ==
  ASSUME CowPart, Touch
  PROVE  CowPart'
  <1> DEFINE gen == generation + 1
             fs == FsRootOf(disk, root)
  <1>1. PICK at \in Allocations(1) :
          /\ disk' = Over(RootNode(at[1], fs, gen), disk)
          /\ pending' = [blocks |-> at, files |-> Current]
    BY DEF Touch
  <1>2. /\ generation \in Nat /\ generation >= 1 /\ generation < MaxGen
        /\ UNCHANGED <<data, generation, root, backups, history, crashes>>
    BY HistoryAssumption DEF Touch, CowPart
  <1>3. at[1] \in Blocks \ InUse
    BY AllocationLemma
  <1>4. PICK r : r = Node(0, at[1], 1, gen, <<>>, RootItems(fs))
    OBVIOUS
  <1>5. r.level = 0 /\ r.items = RootItems(fs) /\ NodeOk(r)
    BY <1>4 DEF Node, NodeOk, RootItems, FsTreeObjectid
  <1>6. /\ DOMAIN disk' = {at[1]} \cup DOMAIN disk /\ disk'[at[1]] = r
        /\ \A b \in DOMAIN disk \ {at[1]} : disk'[b] = disk[b]
    BY <1>1, <1>4 DEF RootNode, Over, Put
  <1>7. DOMAIN disk = Blocks /\ \A b \in Blocks : NodeOk(disk[b])
    BY DEF CowPart
  <1>8. DOMAIN disk' = Blocks /\ \A b \in Blocks : NodeOk(disk'[b])
    BY <1>3, <1>5, <1>6, <1>7
  <1>9. Tree(disk, root, Current, generation)
    BY DEF CowPart
  <1>10. /\ root \in Blocks /\ fs \in Blocks /\ root \in InUse /\ fs \in InUse
         /\ disk[fs].generation \in 1 .. generation
         /\ disk[fs].items = IF Splits(Current) THEN <<>> ELSE FsItems(Current)
    BY <1>9, TreeRoot DEF InUse
  <1>11. disk'[root] = disk[root] /\ disk'[fs] = disk[fs]
    BY <1>3, <1>6, <1>7, <1>10
  <1>12. Tree(disk', root, Current, generation)
    BY <1>2, <1>9, <1>11, TreeKept
  <1>13. Tree(disk', at[1], Current, gen)
    <2>1. disk[fs].generation \in 1 .. gen
      BY <1>2, <1>10
    <2> HIDE DEF fs, gen
    <2> QED
      BY <1>3, <1>5, <1>6, <1>10, <1>11, <2>1 DEF Tree
  <1>14. Stored(Current, data)
    BY <1>2 DEF CowPart, Current
  <1>15. Current' = Current /\ pending'.blocks[1] = at[1] /\ pending'.files = Current
    BY <1>1, <1>2 DEF Current
  <1> QED
    BY <1>2, <1>8, <1>12, <1>13, <1>14, <1>15 DEF CowPart

(* The commit: the pending tree becomes the superblock's, and its FS_TREE  *)
(* root goes into a slot.                                                  *)
LEMMA CommitKeeps ==
  ASSUME CowPart, Commit
  PROVE  CowPart'
  <1> DEFINE gen == generation + 1
             r == pending.blocks[1]
             fs == FsRootOf(disk, r)
             s == (generation % NumBackups) + 1
  <1>1. /\ root' = r /\ generation' = gen /\ history' = Append(history, pending.files)
        /\ backups' = [backups EXCEPT ![s] = [tree_root |-> r, tree_root_gen |-> gen,
                                              fs_root |-> fs, fs_root_gen |-> disk[fs].generation]]
        /\ pending' = NoTransaction /\ pending # NoTransaction /\ UNCHANGED <<disk, data, crashes>>
    BY DEF Commit
  <1>2. generation \in Nat /\ generation >= 1 /\ gen \in 1 .. MaxGen
    BY <1>1, HistoryAssumption DEF CowPart
  <1>3. Tree(disk, r, pending.files, gen) /\ Stored(pending.files, data)
    BY <1>1 DEF CowPart
  <1>4. fs \in Blocks /\ disk[fs].generation \in 1 .. gen
    BY <1>3, TreeRoot
  <1>5. /\ history' \in Seq(Range(history')) /\ Len(history') = gen /\ history'[gen] = pending.files
        /\ \A g \in 1 .. generation : history'[g] = history[g]
    <2>1. history \in Seq(Range(history)) /\ Len(history) = generation
      BY DEF CowPart
    <2>2. PICK f : f = pending.files
      OBVIOUS
    <2>3. PICK R : R = Range(history) \cup {f}
      OBVIOUS
    <2>4. /\ Append(history, f) \in Seq(R) /\ Len(Append(history, f)) = gen
          /\ Append(history, f)[gen] = f /\ \A g \in 1 .. generation : Append(history, f)[g] = history[g]
      <3>1. history \in Seq(R) /\ f \in R
        BY <2>1, <2>3
      <3> QED
        BY <2>1, <3>1
    <2>5. \A t \in Seq(R) : t \in Seq(Range(t))
      BY OwnRange
    <2> QED
      BY <1>1, <2>2, <2>4, <2>5
  <1>6. \A g \in 1 .. gen : Stored(history'[g], data)
    <2>1. 1 .. gen = (1 .. generation) \cup {gen}
      BY <1>2
    <2> QED
      BY <1>3, <1>5, <2>1 DEF CowPart
  <1>7. /\ DOMAIN backups' = 1 .. NumBackups
        /\ \A x \in 1 .. NumBackups : backups'[x].fs_root # 0 =>
             backups'[x].fs_root \in Blocks /\ backups'[x].fs_root_gen \in 1 .. gen
    <2>1. DOMAIN backups = 1 .. NumBackups /\ DOMAIN backups' = DOMAIN backups
      BY <1>1 DEF CowPart
    <2>2. \A x \in 1 .. NumBackups : backups[x].fs_root # 0 =>
            backups[x].fs_root \in Blocks /\ backups[x].fs_root_gen \in 1 .. gen
      BY <1>2 DEF CowPart
    <2>3. PICK b : b = [tree_root |-> r, tree_root_gen |-> gen, fs_root |-> fs, fs_root_gen |-> disk[fs].generation]
      OBVIOUS
    <2>4. b.fs_root \in Blocks /\ b.fs_root_gen \in 1 .. gen
      BY <1>4, <2>3
    <2>5. \A x \in 1 .. NumBackups : backups'[x] = b \/ backups'[x] = backups[x]
      BY <1>1, <2>1, <2>3
    <2> QED
      BY <2>1, <2>2, <2>4, <2>5
  <1>8. Current' = pending.files
    BY <1>1, <1>5 DEF Current
  <1> QED
    BY <1>1, <1>2, <1>3, <1>5, <1>6, <1>7, <1>8 DEF CowPart

(* Some inode has the highest number. *)
LEMMA MaxInode ==
  ASSUME NEW S \in SUBSET Inodes, S # {}
  PROVE  Max(S) \in S
  <1> DEFINE T == {k \in Nat : \E x \in S : k = MaxIno - x}
  <1>1. \A x \in S : x \in Nat /\ x <= MaxIno /\ MaxIno - x \in T
    BY HistoryAssumption DEF Inodes, FirstIno
  <1>2. T \in SUBSET Nat /\ T # {}
    BY <1>1
  <1> HIDE DEF T
  <1>3. Min(T) \in T /\ \A k \in T : Min(T) <= k
    BY <1>2, MinLemma
  <1>4. PICK x \in S : Min(T) = MaxIno - x
    BY <1>3 DEF T
  <1>5. \A y \in S : x >= y
    BY <1>1, <1>3, <1>4, HistoryAssumption
  <1> QED
    BY <1>5 DEF Max

(* Every operation on the files derives them. *)
LEMMA CreatedLemma ==
  ASSUME WriterInv, next_ino <= MaxIno, NEW f \in Created
  PROVE  Derived(f)
  <1>1. PICK file : /\ f = Over(Current, Put(next_ino, file))
                    /\ \/ file.at = 0
                       \/ file.at \in DataBlocks
                          /\ file = [name |-> FreeName, content |-> NewContent, at |-> file.at]
    <2>1. CASE f = Over(Current, Put(next_ino, [name |-> FreeName, content |-> 0, at |-> 0]))
      <3>1. PICK file : file = [name |-> FreeName, content |-> 0, at |-> 0]
        OBVIOUS
      <3> QED
        BY <2>1, <3>1
    <2>2. CASE \E b \in {d \in FreeData : d = Min(FreeData)} :
                 f = Over(Current, Put(next_ino, [name |-> FreeName, content |-> NewContent, at |-> b]))
      <3>1. PICK b \in FreeData :
              f = Over(Current, Put(next_ino, [name |-> FreeName, content |-> NewContent, at |-> b]))
        BY <2>2
      <3>2. PICK file : file = [name |-> FreeName, content |-> NewContent, at |-> b]
        OBVIOUS
      <3>3. file.at = b /\ b \in DataBlocks
        BY <3>1, <3>2 DEF FreeData
      <3> QED
        BY <3>1, <3>2, <3>3
    <2> QED
      BY <2>1, <2>2 DEF Created
  <1>2. /\ DOMAIN f = DOMAIN Current \cup {next_ino}
        /\ \A i \in DOMAIN f : f[i] = file \/ (i \in DOMAIN Current /\ f[i] = Current[i])
    BY <1>1 DEF Over, Put
  <1>3. DOMAIN Current \subseteq Inodes /\ next_ino \in Inodes
    BY HistoryAssumption DEF WriterInv, CowPart, Stored, Current, Inodes, FirstIno
  <1> QED
    BY <1>1, <1>2, <1>3 DEF Derived

(* Deleting, rewriting and renaming. *)
LEMMA ChangedLemma ==
  ASSUME WriterInv, NEW f \in Deleted \cup Rewritten \cup Renamed
  PROVE  Derived(f)
  <1>1. DOMAIN Current \subseteq Inodes
    BY HistoryAssumption DEF WriterInv, CowPart, Stored, Current
  <1>2. CASE f \in Deleted
    <2>1. DOMAIN f \subseteq DOMAIN Current /\ \A i \in DOMAIN f : f[i] = Current[i]
      BY <1>2 DEF Deleted
    <2> QED
      BY <1>1, <2>1 DEF Derived
  <1>3. CASE f \in Rewritten
    <2>1. DOMAIN f = DOMAIN Current /\ \A i \in DOMAIN f : f[i].at = 0 \/ f[i] = Current[i]
      BY <1>3 DEF Rewritten
    <2> QED
      BY <1>1, <2>1 DEF Derived
  <1>4. CASE f \in Renamed
    <2>1. DOMAIN f = DOMAIN Current /\ \A i \in DOMAIN f : f[i].at = Current[i].at
      BY <1>4 DEF Renamed
    <2> QED
      BY <1>1, <2>1 DEF Derived
  <1> QED
    BY <1>2, <1>3, <1>4

(* Every step of the kernel. *)
LEMMA WriterKeeps ==
  ASSUME WriterInv, Write
  PROVE  WriterInv'
  <1>1. CASE Create
    <2>1. PICK f \in Created : WriteTrees(f)
      BY <1>1 DEF Create
    <2>2. next_ino <= MaxIno /\ next_ino' = next_ino + 1
      BY <1>1 DEF Create
    <2>3. CowPart'
      BY <2>1, <2>2, CreatedLemma, WriteTreesKeeps DEF WriterInv
    <2> QED
      BY <2>2, <2>3 DEF WriterInv, FirstIno
  <1>2. CASE Change
    <2>1. PICK f \in Deleted \cup Rewritten \cup Renamed : WriteTrees(f)
      BY <1>2 DEF Change
    <2>2. CowPart' /\ next_ino' = next_ino
      BY <1>2, <2>1, ChangedLemma, WriteTreesKeeps DEF WriterInv, Change
    <2> QED
      BY <2>2 DEF WriterInv
  <1>3. CASE Touch
    BY <1>3, TouchKeeps DEF WriterInv, Touch
  <1>4. CASE Commit
    BY <1>4, CommitKeeps DEF WriterInv, Commit
  <1>5. CASE Crash
    <2>1. /\ UNCHANGED <<disk, data, generation, root, backups, history>> /\ pending' = NoTransaction
          /\ crashes' = crashes + 1
          /\ next_ino' = IF DOMAIN Current = {} THEN FirstIno ELSE Max(DOMAIN Current) + 1
      BY <1>5 DEF Crash
    <2>2. Current' = Current
      BY <2>1 DEF Current
    <2>3. CowPart'
      BY <2>1, <2>2 DEF WriterInv, CowPart
    <2>4. DOMAIN Current \in SUBSET Inodes
      BY DEF WriterInv, CowPart, Stored, Current
    <2>5. next_ino' \in Nat /\ next_ino' >= FirstIno
      <3>1. CASE DOMAIN Current = {}
        BY <2>1, <3>1 DEF FirstIno
      <3>2. CASE DOMAIN Current # {}
        <4>1. PICK m \in Inodes : m = Max(DOMAIN Current)
          BY <2>4, <3>2, MaxInode
        <4> QED
          BY <2>1, <3>2, <4>1 DEF Inodes, FirstIno
      <3> QED
        BY <3>1, <3>2
    <2> QED
      BY <2>3, <2>5 DEF WriterInv
  <1> QED
    BY <1>1, <1>2, <1>3, <1>4, <1>5 DEF Write

(* mkfs. *)
LEMMA WriterStarts == WriterInit => WriterInv
  <1> SUFFICES ASSUME WriterInit PROVE WriterInv
    OBVIOUS
  <1>1. DOMAIN NoFiles = {} /\ ~Splits(NoFiles)
    BY FS_EmptySet, HistoryAssumption DEF NoFiles, Splits
  <1>2. 1 \in Blocks /\ 2 \in Blocks /\ 1 \in 1 .. MaxGen
    BY HistoryAssumption DEF Blocks
  <1>3. PICK at : at = <<2, 1>>
    OBVIOUS
  <1>4. PICK N : N = FsNodes(NoFiles, at, 1)
    OBVIOUS
  <1>5. /\ 1 \in DOMAIN N /\ DOMAIN N \subseteq {1} /\ NodeOk(N[1])
        /\ N[1].items = FsItems(NoFiles) /\ N[1].generation = 1
    <2>1. at[2] = 1 /\ DOMAIN NoFiles \subseteq Inodes
      BY <1>1, <1>3
    <2>2. PICK B : B = {1}
      OBVIOUS
    <2>3. PICK gen \in 1 .. MaxGen : gen = 1
      BY <1>2
    <2>4. PICK files : files = NoFiles
      OBVIOUS
    <2>5. /\ at[2] \in DOMAIN N /\ DOMAIN N \subseteq B /\ \A b \in DOMAIN N : NodeOk(N[b])
          /\ N[at[2]].items = IF Splits(files) THEN <<>> ELSE FsItems(files)
          /\ N[at[2]].generation = gen
      <3>1. N = FsNodes(files, at, gen) /\ DOMAIN files \subseteq Inodes /\ at[2] \in B /\ ~Splits(files)
        BY <1>1, <1>4, <2>1, <2>2, <2>3, <2>4
      <3> QED
        BY <3>1, FsNodesLemma
    <2> QED
      BY <1>1, <2>1, <2>2, <2>3, <2>4, <2>5
  <1>6. PICK r : r = Node(0, 2, 1, 1, <<>>, RootItems(1))
    OBVIOUS
  <1>7. r.level = 0 /\ r.items = RootItems(1) /\ NodeOk(r)
    BY <1>6 DEF Node, NodeOk, RootItems, FsTreeObjectid
  <1>8. \A b : NodeOk(Blank(b))
    BY DEF Blank, Node, NodeOk, FsTreeObjectid
  <1>9. /\ DOMAIN disk = Blocks /\ disk[2] = r /\ disk[1] = N[1]
        /\ \A b \in Blocks \ {1, 2} : disk[b] = Blank(b)
    BY <1>2, <1>3, <1>4, <1>5, <1>6 DEF WriterInit, RootNode, Over, Put
  <1>10. \A b \in Blocks : NodeOk(disk[b])
    BY <1>5, <1>7, <1>8, <1>9
  <1>11. Tree(disk, root, NoFiles, 1)
    <2>1. root = 2
      BY DEF WriterInit
    <2>2. /\ disk[root].level = 0 /\ disk[root].items = RootItems(1) /\ disk[1].generation \in 1 .. 1
          /\ disk[1].items = IF Splits(NoFiles) THEN <<>> ELSE FsItems(NoFiles)
      BY <1>1, <1>5, <1>7, <1>9, <2>1
    <2> QED
      BY <1>2, <2>1, <2>2 DEF Tree
  <1>12. Stored(NoFiles, data)
    BY <1>1 DEF Stored
  <1>13. /\ history \in Seq(Range(history)) /\ Len(history) = 1 /\ generation = 1 /\ Current = NoFiles
         /\ \A g \in 1 .. generation : Stored(history[g], data)
    <2>1. history = <<NoFiles>> /\ generation = 1
      BY DEF WriterInit
    <2>2. history \in Seq({NoFiles}) /\ Len(history) = 1 /\ history[1] = NoFiles
      BY <2>1
    <2>3. history \in Seq(Range(history))
      BY <2>2, OwnRange
    <2>4. \A g \in 1 .. 1 : Stored(history[g], data)
      BY <1>12, <2>2
    <2> QED
      BY <2>1, <2>2, <2>3, <2>4 DEF Current
  <1> QED
    BY <1>2, <1>9, <1>10, <1>11, <1>13 DEF WriterInit, WriterInv, CowPart, FirstIno

-----------------------------------------------------------------------------
(* What recover_deleted reads.                                             *)

(* The one chunk maps every address of the device to itself. *)
LEMMA Identity ==
  ASSUME NEW l \in 1 .. NumBlocks + NumData
  PROVE  MapLookup(map, l) = l
  <1> DEFINE c == [logical_start |-> 1, length |-> NumBlocks + NumData, stripes |-> <<1>>]
  <1>1. DOMAIN map = {1} /\ map[1] = c
    BY DEF map
  <1>2. c.logical_start = 1 /\ c.length = NumBlocks + NumData /\ c.stripes = <<1>>
    OBVIOUS
  <1> HIDE DEF c
  <1>3. NumBlocks + NumData \in Nat /\ 1 + (NumBlocks + NumData) <= MaxU64
    BY HistoryAssumption, WidthAssumption
  <1>4. ~Overflows(c) /\ Covers(c, l)
    BY <1>2, <1>3, WidthAssumption DEF Overflows, Covers
  <1>5. FirstStripe(c, l) = l
    <2>1. <<1>> # <<>> /\ <<1>>[1] = 1 /\ 1 + (l - 1) = l /\ l <= MaxU64
      BY <1>3, WidthAssumption
    <2> QED
      BY <1>2, <2>1 DEF FirstStripe, CheckedAdd
  <1>6. {i \in DOMAIN map : Overflows(map[i]) \/ Covers(map[i], l)} = {1}
    BY <1>1, <1>4
  <1>7. Min({1}) = 1
    BY MinLemma
  <1> QED
    BY <1>1, <1>4, <1>5, <1>6, <1>7 DEF MapLookup

(* A tree block is read where it is. *)
LEMMA BlockRead ==
  ASSUME NEW b \in Blocks
  PROVE  NodeAt(image, map, b) = disk[b]
  <1>1. MapLookup(map, b) = b /\ b # None
    BY Identity, HistoryAssumption DEF Blocks, None
  <1> QED
    BY <1>1 DEF NodeAt, Translate, image

(* The readers of a leaf find in it the files that were written. *)
LEMMA LeafFacts ==
  ASSUME NEW n, NodeOk(n), NEW files, DOMAIN files \subseteq Inodes, n.items = FsItems(files)
  PROVE  /\ leaf_items(n) = FsItems(files)
         /\ inode_set(n) = {256} \cup DOMAIN files
         /\ \A ino \in DOMAIN files : InodeAt(ino) \in InodeItems(n) /\ FsItems(files)[InodeAt(ino)] = InodeItem(ino, files[ino])
         /\ \A i \in InodeItems(n) :
              \/ FsItems(files)[i].objectid = 256
              \/ \E ino \in DOMAIN files : i = InodeAt(ino) /\ FsItems(files)[i] = InodeItem(ino, files[ino])
         /\ \A ino \in DOMAIN files : NameOf(n, ino) = files[ino].name
         /\ \A ino \in DOMAIN files :
              ExtentsOf(n, ino) = IF files[ino].content = 0 THEN {} ELSE {ExtentAt(ino)}
         /\ \A ino \in DOMAIN files : files[ino].content # 0 =>
              FsItems(files)[ExtentAt(ino)] = ExtentItem(ino, files[ino])
  <1> DEFINE D == DOMAIN files
  <1>1. PICK items : items = FsItems(files)
    OBVIOUS
  <1>2. /\ 256 \in DOMAIN items
        /\ \A k \in DOMAIN items : k \in Nat /\ ItemFor(files, D, k, items[k])
        /\ \A i \in D : i \in DOMAIN items /\ items[i] = EntryItem(i, files[i])
        /\ \A i \in D : InodeAt(i) \in DOMAIN items /\ items[InodeAt(i)] = InodeItem(i, files[i])
        /\ \A i \in D : files[i].content # 0 =>
             ExtentAt(i) \in DOMAIN items /\ items[ExtentAt(i)] = ExtentItem(i, files[i])
    BY <1>1, LeafLemma DEF FsItems
  <1>3. leaf_items(n) = items
    <2>1. items # <<>>
      BY <1>2
    <2> QED
      BY <1>1, <2>1 DEF NodeOk, leaf_items, is_leaf
  <1>4. \A i \in D : i \in Nat /\ i # 256
    BY DEF Inodes, FirstIno
  <1>5. /\ DirItem.key_type = "INODE_ITEM" /\ DirItem.objectid = 256
        /\ \A i \in D : /\ EntryItem(i, files[i]).key_type = "DIR_INDEX" /\ EntryItem(i, files[i]).objectid = 256
                        /\ EntryItem(i, files[i]).child = i /\ EntryItem(i, files[i]).name = files[i].name
        /\ \A i \in D : InodeItem(i, files[i]).key_type = "INODE_ITEM" /\ InodeItem(i, files[i]).objectid = i
        /\ \A i \in D : ExtentItem(i, files[i]).key_type = "EXTENT_DATA" /\ ExtentItem(i, files[i]).objectid = i
    BY DEF DirItem, EntryItem, InodeItem, ExtentItem
  <1>6. \A k \in DOMAIN items :
          \/ k = 256 /\ items[k] = DirItem
          \/ k \in D /\ items[k] = EntryItem(k, files[k])
          \/ \E i \in D : k = InodeAt(i) /\ items[k] = InodeItem(i, files[i])
          \/ \E i \in D : k = ExtentAt(i) /\ files[i].content # 0 /\ items[k] = ExtentItem(i, files[i])
    BY <1>2 DEF ItemFor
  <1>7. items[256] = DirItem
    <2>1. 256 \in DOMAIN DirItems(files) /\ DirItems(files)[256] = DirItem
      BY DEF DirItems
    <2>2. PICK d : d = DirItems(files)
      OBVIOUS
    <2>3. PICK f : f = FileItems(files, DOMAIN files)
      OBVIOUS
    <2>4. items = Over(d, f)
      BY <1>1, <2>2, <2>3 DEF FsItems
    <2> QED
      BY <2>1, <2>2, <2>4 DEF Over
  <1> HIDE DEF D
  <1>8. \A k \in DOMAIN items : items[k].key_type = "INODE_ITEM" =>
          (k = 256 /\ items[k] = DirItem) \/ \E i \in D : k = InodeAt(i) /\ items[k] = InodeItem(i, files[i])
    BY <1>5, <1>6
  <1>9. InodeItems(n) = {k \in DOMAIN items : items[k].key_type = "INODE_ITEM"}
    BY <1>3 DEF InodeItems
  <1>10. \A ino \in D : InodeAt(ino) \in InodeItems(n) /\ items[InodeAt(ino)] = InodeItem(ino, files[ino])
    BY <1>2, <1>5, <1>9
  <1>11. \A i \in InodeItems(n) :
           \/ items[i].objectid = 256
           \/ \E ino \in D : i = InodeAt(ino) /\ items[i] = InodeItem(ino, files[ino])
    BY <1>5, <1>8, <1>9
  <1>12. inode_set(n) = {256} \cup D
    <2>1. inode_set(n) = {items[i].objectid : i \in InodeItems(n)}
      BY <1>3 DEF inode_set
    <2>2. 256 \in InodeItems(n) /\ items[256].objectid = 256
      BY <1>2, <1>5, <1>7, <1>9
    <2>3. \A i \in InodeItems(n) : items[i].objectid \in {256} \cup D
      BY <1>5, <1>11
    <2>4. \A ino \in D : InodeAt(ino) \in InodeItems(n) /\ items[InodeAt(ino)].objectid = ino
      BY <1>5, <1>10
    <2> QED
      BY <2>1, <2>2, <2>3, <2>4
  <1>13. ASSUME NEW ino \in D PROVE NameOf(n, ino) = files[ino].name
    <2> DEFINE Hits == {i \in DOMAIN items : items[i].key_type \in {"DIR_ITEM", "DIR_INDEX"} /\ items[i].child = ino}
    <2>1. Hits = {ino}
      BY <1>2, <1>5, <1>6
    <2>2. Min({ino}) = ino
      BY <1>4, MinLemma
    <2>3. NameOf(n, ino) = IF Hits = {} THEN "inode_N" ELSE items[Min(Hits)].name
      BY <1>3 DEF NameOf
    <2>4. items[ino].name = files[ino].name
      BY <1>2, <1>5 DEF D
    <2> HIDE DEF Hits
    <2> QED
      BY <2>1, <2>2, <2>3, <2>4
  <1>14. ASSUME NEW ino \in D
         PROVE  ExtentsOf(n, ino) = IF files[ino].content = 0 THEN {} ELSE {ExtentAt(ino)}
    <2>1. \A k \in DOMAIN items : items[k].key_type = "EXTENT_DATA" =>
            \E i \in D : k = ExtentAt(i) /\ files[i].content # 0 /\ items[k] = ExtentItem(i, files[i])
      BY <1>5, <1>6
    <2>2. ExtentsOf(n, ino) = {k \in DOMAIN items : items[k].objectid = ino /\ items[k].key_type = "EXTENT_DATA"}
      BY <1>3 DEF ExtentsOf
    <2>3. \A k \in ExtentsOf(n, ino) : k = ExtentAt(ino) /\ files[ino].content # 0
      BY <1>5, <2>1, <2>2
    <2>4. files[ino].content # 0 => ExtentAt(ino) \in ExtentsOf(n, ino)
      BY <1>2, <1>5, <2>2
    <2> QED
      BY <2>3, <2>4
  <1> QED
    BY <1>1, <1>2, <1>3, <1>10, <1>11, <1>12, <1>13, <1>14 DEF D

(* What recover_deleted_from_leaves makes of a file that was written. *)
LEMMA FileRecovered ==
  ASSUME NEW n, NodeOk(n), NEW files, Stored(files, data), n.items = FsItems(files),
         NEW ino \in DOMAIN files, files[ino].content # 0
  PROVE  LET r == RecoveredFile(n, InodeAt(ino))
         IN /\ r.inode = ino /\ r.generation = n.generation
            /\ r.path = files[ino].name /\ r.size = SizeOf(files[ino])
            /\ r.content = IF files[ino].at = 0 THEN files[ino].content
                           ELSE IF ~InImage(image, files[ino].at) THEN 0 ELSE data[files[ino].at]
  <1> DEFINE at == files[ino].at
             r == RecoveredFile(n, InodeAt(ino))
  <1>1. DOMAIN files \subseteq Inodes
    BY DEF Stored
  <1>2. /\ leaf_items(n) = FsItems(files)
        /\ FsItems(files)[InodeAt(ino)] = InodeItem(ino, files[ino])
        /\ NameOf(n, ino) = files[ino].name
        /\ ExtentsOf(n, ino) = {ExtentAt(ino)}
        /\ FsItems(files)[ExtentAt(ino)] = ExtentItem(ino, files[ino])
    BY <1>1, LeafFacts
  <1>3. InodeItem(ino, files[ino]).objectid = ino /\ InodeItem(ino, files[ino]).size = SizeOf(files[ino])
    BY DEF InodeItem
  <1>4. /\ ExtentItem(ino, files[ino]).disk_bytenr = at
        /\ at = 0 => ExtentItem(ino, files[ino]).content = files[ino].content
    BY DEF ExtentItem
  <1>5. Min({ExtentAt(ino)}) = ExtentAt(ino)
    <2>1. ExtentAt(ino) \in Nat
      BY <1>1, HistoryAssumption DEF Inodes, FirstIno, ExtentAt
    <2> QED
      BY <2>1, MinLemma
  <1>6. /\ r.inode = ino /\ r.generation = n.generation
        /\ r.path = files[ino].name /\ r.size = SizeOf(files[ino])
        /\ r.content = Carved(n, ino)
    BY <1>2, <1>3 DEF RecoveredFile
  <1>7. at # 0 => MapLookup(map, at) = at /\ at # None
    <2> HAVE at # 0
    <2>1. at \in DataBlocks
      BY DEF Stored
    <2>2. at \in 1 .. NumBlocks + NumData /\ at # None
      BY <2>1, HistoryAssumption DEF DataBlocks, None
    <2> HIDE DEF at
    <2> QED
      BY <2>2, Identity
  <1>8. Carved(n, ino) = IF at = 0 THEN files[ino].content
                         ELSE IF ~InImage(image, at) THEN 0 ELSE data[at]
    <2> HIDE DEF at
    <2> QED
      BY <1>2, <1>4, <1>5, <1>7 DEF Carved
  <1> QED
    BY <1>6, <1>8

-----------------------------------------------------------------------------
(* The loop over the slots.                                                *)

Slots == {s \in 1 .. NumBackups : cur_root # None /\ Diffable(s)}
Gives(s) == FromLeaves(Old(s), NodeAt(image, map, cur_root))
InodeOf(s, i) == leaf_items(Old(s))[i].objectid
Returned(ino) == \E k \in DOMAIN out : out[k].inode = ino

(* Where the loop is. *)
PhasePart ==
  /\ phase \in {"writing", "start", "diff", "merge", "done"}
  /\ slot \in 1 .. NumBackups + 1
  /\ phase \in {"writing", "start"} => slot = 1 /\ out = <<>>
  /\ phase = "diff" => cur_root # None
  /\ phase = "merge" => slot \in Slots /\ todo \subseteq Gives(slot)
  /\ phase = "done" => slot > NumBackups \/ cur_root = None \/ ~Readable(image, map, cur_root)

(* Every file returned comes from a slot that was compared. *)
DrawnPart ==
  /\ out \in Seq(Range(out))
  /\ RecoveredOnce
  /\ \A k \in DOMAIN out : \E s \in Slots : \E i \in Gives(s) : out[k] = RecoveredFile(Old(s), i)

(* Whatever the slots behind gave was returned, from one slot or another. *)
MergedPart ==
  /\ \A s \in Slots : s < slot => \A i \in Gives(s) : Returned(InodeOf(s, i))
  /\ phase = "merge" => \A i \in Gives(slot) \ todo : Returned(InodeOf(slot, i))

RecoverInv == WriterInv /\ PhasePart /\ DrawnPart /\ MergedPart

(* fs_tree_root finds the FS_TREE of the last commit, or nothing. *)
LEMMA CurrentRoot ==
  ASSUME WriterInv
  PROVE  \/ cur_root = None
         \/ /\ cur_root \in Blocks
            /\ disk[cur_root].items = IF Splits(Current) THEN <<>> ELSE FsItems(Current)
  <1>1. Tree(disk, root, Current, generation)
    BY DEF WriterInv, CowPart
  <1>2. PICK fs : fs = FsRootOf(disk, root)
    OBVIOUS
  <1>3. /\ root \in Blocks /\ fs \in Blocks /\ disk[root].level = 0 /\ disk[root].items = RootItems(fs)
        /\ disk[fs].items = IF Splits(Current) THEN <<>> ELSE FsItems(Current)
    BY <1>1, <1>2, TreeRoot
  <1>4. image.sb.root = root /\ NodeAt(image, map, root) = disk[root]
    BY <1>3, BlockRead DEF image
  <1>5. leaf_items(NodeAt(image, map, image.sb.root)) = RootItems(fs)
    BY <1>3, <1>4 DEF leaf_items, is_leaf
  <1>6. FsRootItems(image, map) = {1} /\ RootItems(fs)[1].bytenr = fs
    BY <1>5 DEF FsRootItems, RootItems
  <1>7. Min({1}) = 1
    BY MinLemma
  <1>8. cur_root = None \/ cur_root = fs
    BY <1>5, <1>6, <1>7 DEF cur_root, fs_tree_root
  <1> QED
    BY <1>3, <1>8

(* What a slot that is compared gives: numbered files of some generation. *)
LEMMA SlotFacts ==
  ASSUME WriterInv, NEW s \in Slots
  PROVE  /\ s \in Filled /\ cur_root # None /\ backups[s].fs_root \in Blocks /\ backups[s].fs_root # cur_root
         /\ Readable(image, map, backups[s].fs_root)
         /\ Old(s) = disk[backups[s].fs_root] /\ NodeOk(Old(s))
         /\ Gives(s) \in SUBSET Nat
         /\ \A i \in Gives(s) : /\ i \in InodeItems(Old(s)) /\ InodeOf(s, i) \in Inodes
                                /\ InodeOf(s, i) \notin inode_set(NodeAt(image, map, cur_root))
                                /\ ExtentsOf(Old(s), InodeOf(s, i)) # {}
                                /\ RecoveredFile(Old(s), i).inode = InodeOf(s, i)
                                /\ RecoveredFile(Old(s), i).generation = Old(s).generation
                                /\ Old(s).generation \in 1 .. MaxGen
  <1>1. /\ s \in 1 .. NumBackups /\ cur_root # None /\ backups[s].fs_root # 0 /\ backups[s].fs_root # cur_root
        /\ Readable(image, map, backups[s].fs_root)
    BY DEF Slots, Diffable
  <1>2. backups[s].fs_root \in Blocks /\ s \in Filled
    BY <1>1 DEF WriterInv, CowPart, Filled
  <1>3. Old(s) = disk[backups[s].fs_root]
    BY <1>2, BlockRead DEF Old
  <1>4. PICK n : n = Old(s)
    OBVIOUS
  <1>5. NodeOk(n)
    BY <1>2, <1>3, <1>4 DEF WriterInv, CowPart
  <1>6. \A i \in DOMAIN leaf_items(n) :
          i \in Nat /\ (leaf_items(n)[i].key_type = "INODE_ITEM" => leaf_items(n)[i].objectid \in {256} \cup Inodes)
    BY <1>5 DEF NodeOk, leaf_items, is_leaf
  <1>7. PICK c : c = NodeAt(image, map, cur_root)
    OBVIOUS
  <1>8. \A i \in Gives(s) : /\ n.owner = FsTreeObjectid /\ i \in InodeItems(n)
                            /\ leaf_items(n)[i].objectid >= FirstIno
                            /\ leaf_items(n)[i].objectid \notin inode_set(c)
                            /\ ExtentsOf(n, leaf_items(n)[i].objectid) # {}
    BY <1>4, <1>7 DEF Gives, FromLeaves, DeletedInodes
  <1>9. \A i \in InodeItems(n) : i \in Nat /\ leaf_items(n)[i].objectid \in {256} \cup Inodes
    BY <1>6 DEF InodeItems
  <1>10. \A i \in Gives(s) : i \in Nat /\ leaf_items(n)[i].objectid \in Inodes
    <2> TAKE i \in Gives(s)
    <2>1. i \in Nat /\ leaf_items(n)[i].objectid \in {256} \cup Inodes /\ leaf_items(n)[i].objectid >= FirstIno
      BY <1>8, <1>9
    <2> QED
      BY <2>1 DEF FirstIno
  <1>11. \A i : /\ RecoveredFile(n, i).inode = leaf_items(n)[i].objectid
               /\ RecoveredFile(n, i).generation = n.generation
    BY DEF RecoveredFile
  <1>12. Gives(s) # {} => n.generation \in 1 .. MaxGen
    BY <1>5, <1>8 DEF NodeOk
  <1> QED
    BY <1>1, <1>2, <1>3, <1>4, <1>5, <1>7, <1>8, <1>10, <1>11, <1>12 DEF InodeOf

(* Once the image is taken, everything that is read stands still. *)
LEMMA FrozenImage ==
  ASSUME UNCHANGED <<writerVars, len>>
  PROVE  /\ image' = image /\ cur_root' = cur_root
         /\ \A l : Readable(image, map, l)' = Readable(image, map, l)
         /\ Slots' = Slots
         /\ \A s : Old(s)' = Old(s)
         /\ \A s : Gives(s)' = Gives(s)
         /\ \A s, i : InodeOf(s, i)' = InodeOf(s, i)
         /\ \A s, i : RecoveredFile(Old(s), i)' = RecoveredFile(Old(s), i)
  <1>1. image' = image /\ backups' = backups /\ data' = data
    BY DEF image, writerVars
  <1>2. cur_root' = cur_root
    BY <1>1 DEF cur_root
  <1>3. \A l : Readable(image, map, l)' = Readable(image, map, l)
    BY <1>1
  <1>4. \A s : Diffable(s)' = Diffable(s)
    BY <1>1, <1>2, <1>3 DEF Diffable
  <1>5. Slots' = Slots
    BY <1>2, <1>4 DEF Slots
  <1>6. \A s : Old(s)' = Old(s)
    BY <1>1 DEF Old
  <1>7. \A s : Gives(s)' = Gives(s)
    BY <1>1, <1>2, <1>6 DEF Gives
  <1>8. \A s, i : InodeOf(s, i)' = InodeOf(s, i)
    BY <1>6 DEF InodeOf
  <1>9. \A n, i : Carved(n, i)' = Carved(n, i)
    BY <1>1 DEF Carved
  <1>10. \A s, i : RecoveredFile(Old(s), i)' = RecoveredFile(Old(s), i)
    BY <1>6, <1>9 DEF RecoveredFile
  <1> QED
    BY <1>1, <1>2, <1>3, <1>5, <1>6, <1>7, <1>8, <1>10

(* The kernel's part of the invariant is about its own variables. *)
LEMMA WriterStays ==
  ASSUME WriterInv, UNCHANGED writerVars
  PROVE  WriterInv'
  <1>1. Current' = Current
    BY DEF Current, writerVars
  <1> QED
    BY <1>1 DEF WriterInv, CowPart, writerVars

(* A step that returns no file and leaves the files returned alone. *)
LEMMA QuietStep ==
  ASSUME RecoverInv, UNCHANGED <<writerVars, len, out>>
  PROVE  WriterInv' /\ DrawnPart' /\ \A ino : Returned(ino)' = Returned(ino)
  <1>1. UNCHANGED <<writerVars, len>>
    OBVIOUS
  <1>2. WriterInv'
    BY WriterStays DEF RecoverInv
  <1>3. \A ino : Returned(ino)' = Returned(ino)
    BY DEF Returned
  <1>4. DrawnPart'
    BY <1>1, FrozenImage DEF RecoverInv, DrawnPart, RecoveredOnce
  <1> QED
    BY <1>2, <1>3, <1>4

(* One file of a slot. *)
LEMMA MergeKeeps ==
  ASSUME RecoverInv, MergeFile
  PROVE  RecoverInv'
  <1>1. PICK m : m = Min(todo)
    OBVIOUS
  <1>2. PICK rec : rec = RecoveredFile(Old(slot), m)
    OBVIOUS
  <1>3. /\ phase = "merge" /\ todo # {} /\ todo' = todo \ {m}
        /\ out' = IF \E i \in DOMAIN out : out[i].inode = rec.inode THEN out ELSE Append(out, rec)
        /\ UNCHANGED <<writerVars, len>> /\ phase' = phase /\ slot' = slot
    BY <1>1, <1>2 DEF MergeFile
  <1>4. slot \in Slots /\ slot \in 1 .. NumBackups + 1 /\ todo \subseteq Gives(slot)
    BY <1>3 DEF RecoverInv, PhasePart
  <1>5. Gives(slot) \in SUBSET Nat /\ \A i \in Gives(slot) : RecoveredFile(Old(slot), i).inode = InodeOf(slot, i)
    BY <1>4, SlotFacts DEF RecoverInv
  <1>6. m \in todo
    BY <1>1, <1>3, <1>4, <1>5, MinLemma
  <1>7. rec.inode = InodeOf(slot, m) /\ m \in Gives(slot)
    BY <1>2, <1>4, <1>5, <1>6
  <1>8. out \in Seq(Range(out)) /\ Len(out) \in Nat /\ DOMAIN out = 1 .. Len(out)
    BY DEF RecoverInv, DrawnPart
  <1>9. /\ out' \in Seq(Range(out'))
        /\ DOMAIN out \subseteq DOMAIN out' /\ \A k \in DOMAIN out : out'[k] = out[k]
        /\ \A k \in DOMAIN out' \ DOMAIN out : out'[k] = rec
        /\ \A j, k \in DOMAIN out' \ DOMAIN out : j = k
        /\ (\E k \in DOMAIN out : out[k].inode = rec.inode) \/ \E k \in DOMAIN out' \ DOMAIN out : TRUE
        /\ (\E k \in DOMAIN out : out[k].inode = rec.inode) => out' = out
    <2>1. CASE \E k \in DOMAIN out : out[k].inode = rec.inode
      BY <1>3, <1>8, <2>1
    <2>2. CASE ~\E k \in DOMAIN out : out[k].inode = rec.inode
      <3>1. out' = Append(out, rec)
        BY <1>3, <2>2
      <3>2. PICK A : A = Range(out) \cup {rec}
        OBVIOUS
      <3>3. out \in Seq(A) /\ rec \in A
        <4>1. out \in [1 .. Len(out) -> A]
          BY <1>8, <3>2 DEF Range
        <4> QED
          BY <1>8, <3>2, <4>1, SeqDef
      <3>4. /\ out' \in Seq(A) /\ Len(out') = Len(out) + 1 /\ DOMAIN out' = 1 .. Len(out) + 1
            /\ \A k \in 1 .. Len(out) : out'[k] = out[k]
            /\ out'[Len(out) + 1] = rec
        BY <3>1, <3>3
      <3>5. out' \in Seq(Range(out'))
        BY <3>4, OwnRange
      <3>6. DOMAIN out' \ DOMAIN out = {Len(out) + 1} /\ DOMAIN out \subseteq DOMAIN out'
        BY <1>8, <3>4
      <3> QED
        BY <1>8, <2>2, <3>4, <3>5, <3>6
    <2> QED
      BY <2>1, <2>2
  <1>10. RecoveredOnce'
    <2> SUFFICES ASSUME NEW i \in DOMAIN out', NEW j \in DOMAIN out', out'[i].inode = out'[j].inode
                 PROVE  i = j
      BY DEF RecoveredOnce
    <2>1. CASE i \in DOMAIN out /\ j \in DOMAIN out
      BY <1>9, <2>1 DEF RecoverInv, DrawnPart, RecoveredOnce
    <2>2. CASE i \notin DOMAIN out \/ j \notin DOMAIN out
      BY <1>9, <2>2
    <2> QED
      BY <2>1, <2>2
  <1>11. /\ Slots' = Slots /\ \A s : Gives(s)' = Gives(s)
         /\ \A s, i : InodeOf(s, i)' = InodeOf(s, i)
    BY <1>3, FrozenImage
  <1>12. \A s, i : RecoveredFile(Old(s), i)' = RecoveredFile(Old(s), i)
    BY <1>3, FrozenImage
  <1>13. Returned(InodeOf(slot, m))'
    BY <1>3, <1>7, <1>9, <1>11 DEF Returned
  <1>14. DrawnPart'
    <2>1. \A k \in DOMAIN out : \E s \in Slots : \E i \in Gives(s) : out[k] = RecoveredFile(Old(s), i)
      BY DEF RecoverInv, DrawnPart
    <2>2. \A k \in DOMAIN out' : \E s \in Slots : \E i \in Gives(s) : out'[k] = RecoveredFile(Old(s), i)
      BY <1>2, <1>4, <1>7, <1>9, <2>1
    <2>3. \A k \in DOMAIN out' : \E s \in Slots' : \E i \in Gives(s)' : out'[k] = RecoveredFile(Old(s), i)'
      BY <1>11, <1>12, <2>2
    <2> QED
      BY <1>9, <1>10, <2>3 DEF DrawnPart
  <1>15. PhasePart'
    BY <1>3, <1>4, <1>11 DEF RecoverInv, PhasePart
  <1>16. MergedPart'
    <2>1. \A s \in Slots : s < slot => \A i \in Gives(s) : Returned(InodeOf(s, i))
      BY DEF RecoverInv, MergedPart
    <2>2. \A i \in Gives(slot) \ todo : Returned(InodeOf(slot, i))
      BY <1>3 DEF RecoverInv, MergedPart
    <2>3. \A s, i : Returned(InodeOf(s, i)) => Returned(InodeOf(s, i))'
      BY <1>9, <1>11 DEF Returned
    <2>4. Returned(InodeOf(slot, m))'
      BY <1>13
    <2>5. \A s \in Slots' : s < slot' => \A i \in Gives(s)' : Returned(InodeOf(s, i))'
      BY <1>3, <1>11, <2>1, <2>3
    <2>6. \A i \in Gives(slot)' \ todo' : Returned(InodeOf(slot, i))'
      BY <1>3, <1>11, <2>2, <2>3, <2>4
    <2> QED
      BY <2>5, <2>6 DEF MergedPart
  <1>17. WriterInv'
    BY <1>3, WriterStays DEF RecoverInv
  <1> QED
    BY <1>14, <1>15, <1>16, <1>17 DEF RecoverInv

(* Every step. *)
LEMMA RecoverKeeps ==
  ASSUME RecoverInv, [Next]_vars
  PROVE  RecoverInv'
  <1>1. CASE Live
    <2>1. phase = "writing" /\ Write /\ UNCHANGED <<len, phase, slot, todo, out>>
      BY <1>1 DEF Live
    <2>2. WriterInv'
      BY <2>1, WriterKeeps DEF RecoverInv
    <2>3. slot = 1 /\ out = <<>>
      BY <2>1 DEF RecoverInv, PhasePart
    <2>4. PhasePart'
      BY <2>1, <2>3 DEF RecoverInv, PhasePart
    <2>5. DrawnPart'
      BY <2>1, <2>3 DEF RecoverInv, DrawnPart, RecoveredOnce
    <2>6. MergedPart'
      BY <2>1, <2>3 DEF MergedPart, Slots
    <2> QED
      BY <2>2, <2>4, <2>5, <2>6 DEF RecoverInv
  <1>2. CASE Capture
    <2>1. phase = "writing" /\ phase' = "start" /\ UNCHANGED <<writerVars, slot, todo, out>>
      BY <1>2 DEF Capture
    <2>2. WriterInv'
      BY <2>1, WriterStays DEF RecoverInv
    <2>3. slot = 1 /\ out = <<>>
      BY <2>1 DEF RecoverInv, PhasePart
    <2>4. PhasePart'
      BY <2>1, <2>3 DEF RecoverInv, PhasePart
    <2>5. DrawnPart'
      BY <2>1, <2>3 DEF RecoverInv, DrawnPart, RecoveredOnce
    <2>6. MergedPart'
      BY <2>1, <2>3 DEF MergedPart, Slots
    <2> QED
      BY <2>2, <2>4, <2>5, <2>6 DEF RecoverInv
  <1>3. ASSUME UNCHANGED <<writerVars, len, out>>, phase' # "merge", slot' \in 1 .. NumBackups + 1,
               phase' \in {"diff", "done"}, phase' = "diff" => cur_root # None,
               phase' = "done" => slot' > NumBackups \/ cur_root = None \/ ~Readable(image, map, cur_root),
               \A s \in Slots : s < slot' => \A i \in Gives(s) : Returned(InodeOf(s, i))
        PROVE  RecoverInv'
    <2>1. WriterInv' /\ DrawnPart' /\ \A ino : Returned(ino)' = Returned(ino)
      BY <1>3, QuietStep
    <2>2. /\ image' = image /\ cur_root' = cur_root
          /\ \A l : Readable(image, map, l)' = Readable(image, map, l)
          /\ Slots' = Slots /\ \A s : Gives(s)' = Gives(s)
          /\ \A s, i : InodeOf(s, i)' = InodeOf(s, i)
      BY <1>3, FrozenImage
    <2>3. PhasePart'
      BY <1>3, <2>2 DEF PhasePart
    <2>4. \A s, i : Returned(InodeOf(s, i))' = Returned(InodeOf(s, i))
      BY <1>3, <2>2 DEF Returned
    <2>5. MergedPart'
      BY <1>3, <2>2, <2>4 DEF MergedPart
    <2> QED
      BY <2>1, <2>3, <2>5 DEF RecoverInv
  <1>4. /\ slot \in 1 .. NumBackups + 1 /\ NumBackups \in Nat
        /\ \A s \in Slots : s \in 1 .. NumBackups
        /\ \A s \in Slots : s < slot => \A i \in Gives(s) : Returned(InodeOf(s, i))
    BY HistoryAssumption DEF RecoverInv, PhasePart, MergedPart, Slots
  <1>5. CASE NoCurrent
    BY <1>3, <1>4, <1>5 DEF NoCurrent
  <1>6. CASE FindCurrent
    BY <1>3, <1>4, <1>6 DEF FindCurrent
  <1>7. CASE SkipSlot
    <2>1. /\ phase = "diff" /\ slot <= NumBackups /\ slot \notin Slots /\ slot' = slot + 1
          /\ phase' = phase /\ UNCHANGED <<writerVars, len, out>> /\ cur_root # None
      BY <1>7 DEF SkipSlot, Slots, RecoverInv, PhasePart
    <2>2. \A s \in Slots : s < slot' => s < slot
      BY <1>4, <2>1
    <2> QED
      BY <1>3, <1>4, <2>1, <2>2
  <1>8. CASE DiffSlot
    <2>1. /\ slot <= NumBackups /\ slot \in Slots /\ todo' = Gives(slot) /\ phase' = "merge"
          /\ slot' = slot /\ UNCHANGED <<writerVars, len, out>>
      BY <1>4, <1>8 DEF DiffSlot, Slots, Gives, RecoverInv, PhasePart
    <2>2. WriterInv' /\ DrawnPart' /\ \A ino : Returned(ino)' = Returned(ino)
      BY <2>1, QuietStep
    <2>3. /\ Slots' = Slots /\ \A s : Gives(s)' = Gives(s)
          /\ \A s, i : InodeOf(s, i)' = InodeOf(s, i)
      BY <2>1, FrozenImage
    <2>4. PhasePart'
      BY <1>4, <2>1, <2>3 DEF PhasePart
    <2>5. \A s, i : Returned(InodeOf(s, i))' = Returned(InodeOf(s, i))
      BY <2>1, <2>3 DEF Returned
    <2>6. MergedPart'
      BY <1>4, <2>1, <2>3, <2>5 DEF MergedPart
    <2> QED
      BY <2>2, <2>4, <2>6 DEF RecoverInv
  <1>9. CASE MergeFile
    BY <1>9, MergeKeeps
  <1>10. CASE NextSlot
    <2>1. /\ phase = "merge" /\ todo = {} /\ slot' = slot + 1 /\ phase' = "diff"
          /\ UNCHANGED <<writerVars, len, out>>
      BY <1>10 DEF NextSlot
    <2>2. /\ slot \in 1 .. NumBackups /\ cur_root # None
          /\ \A i \in Gives(slot) : Returned(InodeOf(slot, i))
      BY <1>4, <2>1 DEF RecoverInv, PhasePart, MergedPart, Slots
    <2>3. \A s \in Slots : s < slot' => s < slot \/ s = slot
      BY <1>4, <2>1
    <2> QED
      BY <1>3, <1>4, <2>1, <2>2, <2>3
  <1>11. CASE Return
    BY <1>3, <1>4, <1>11 DEF Return
  <1>12. CASE UNCHANGED vars
    <2>1. UNCHANGED <<writerVars, len, out>> /\ phase' = phase /\ slot' = slot /\ todo' = todo
      BY <1>12 DEF vars
    <2>2. WriterInv' /\ DrawnPart'
      BY <2>1, QuietStep
    <2>3. /\ image' = image /\ cur_root' = cur_root
          /\ \A l : Readable(image, map, l)' = Readable(image, map, l)
          /\ Slots' = Slots /\ \A s : Gives(s)' = Gives(s)
          /\ \A s, i : InodeOf(s, i)' = InodeOf(s, i)
      BY <2>1, FrozenImage
    <2>4. PhasePart'
      BY <2>1, <2>3 DEF RecoverInv, PhasePart
    <2>5. \A s, i : Returned(InodeOf(s, i))' = Returned(InodeOf(s, i))
      BY <2>1, <2>3 DEF Returned
    <2>6. MergedPart'
      BY <2>1, <2>3, <2>5 DEF RecoverInv, MergedPart
    <2> QED
      BY <2>2, <2>4, <2>6 DEF RecoverInv
  <1> QED
    BY <1>1, <1>2, <1>5, <1>6, <1>7, <1>8, <1>9, <1>10, <1>11, <1>12 DEF Next

(* Nothing has been returned when the filesystem is made. *)
LEMMA RecoverStarts == Init => RecoverInv
  <1> SUFFICES ASSUME Init PROVE RecoverInv
    OBVIOUS
  <1>1. phase = "writing" /\ slot = 1 /\ out = <<>> /\ WriterInv
    BY WriterStarts DEF Init
  <1>2. PhasePart
    BY <1>1, HistoryAssumption DEF PhasePart
  <1>3. DrawnPart
    BY <1>1 DEF DrawnPart, RecoveredOnce
  <1>4. MergedPart
    BY <1>1 DEF MergedPart, Slots
  <1> QED
    BY <1>1, <1>2, <1>3, <1>4 DEF RecoverInv

(* A committed tree holds numbered files whose data was written. *)
LEMMA Committed ==
  ASSUME WriterInv
  PROVE  /\ generation \in Nat /\ \A g \in 1 .. generation : Stored(history[g], data)
         /\ Stored(Current, data) /\ \A b \in Blocks : NodeOk(disk[b])
  BY DEF WriterInv, CowPart, Current

(* The current leaf lists the current files, unless the tree has more than *)
(* one leaf: then it lists none.                                           *)
LEMMA CurrentInodes ==
  ASSUME WriterInv, cur_root # None
  PROVE  inode_set(NodeAt(image, map, cur_root)) = IF Splits(Current) THEN {} ELSE {256} \cup DOMAIN Current
  <1>1. cur_root \in Blocks /\ disk[cur_root].items = IF Splits(Current) THEN <<>> ELSE FsItems(Current)
    BY CurrentRoot
  <1>2. PICK c : c = disk[cur_root]
    OBVIOUS
  <1>3. NodeAt(image, map, cur_root) = c /\ NodeOk(c)
    BY <1>1, <1>2, BlockRead, Committed
  <1>4. CASE Splits(Current)
    <2>1. leaf_items(c) = <<>>
      BY <1>1, <1>2, <1>4 DEF leaf_items
    <2>2. inode_set(c) = {}
      BY <2>1 DEF inode_set, InodeItems
    <2> QED
      BY <1>3, <1>4, <2>2
  <1>5. CASE ~Splits(Current)
    <2>1. DOMAIN Current \subseteq Inodes
      BY Committed DEF Stored
    <2>2. inode_set(c) = {256} \cup DOMAIN Current
      BY <1>1, <1>2, <1>3, <1>5, <2>1, LeafFacts
    <2> QED
      BY <1>3, <1>5, <2>2
  <1> QED
    BY <1>4, <1>5

(* What a slot that still holds its tree gives is a file of that tree. *)
LEMMA GivesTheFile ==
  ASSUME WriterInv, NEW s \in Slots, Retained(s), NEW i \in Gives(s)
  PROVE  \E g \in 1 .. generation : \E ino \in DOMAIN history[g] :
           LET r == RecoveredFile(Old(s), i)
               file == history[g][ino]
           IN /\ file.content # 0
              /\ ino \notin inode_set(NodeAt(image, map, cur_root))
              /\ r.inode = ino /\ r.generation = g /\ r.path = file.name /\ r.size = SizeOf(file)
              /\ r.content = IF file.at = 0 THEN file.content
                             ELSE IF ~InImage(image, file.at) THEN 0 ELSE data[file.at]
  <1>1. PICK n : n = Old(s)
    OBVIOUS
  <1>2. PICK g : g = backups[s].fs_root_gen
    OBVIOUS
  <1>3. PICK files : files = history[g]
    OBVIOUS
  <1>4. /\ s \in Filled /\ n = disk[backups[s].fs_root] /\ NodeOk(n)
        /\ i \in InodeItems(n) /\ leaf_items(n)[i].objectid \in Inodes
        /\ leaf_items(n)[i].objectid \notin inode_set(NodeAt(image, map, cur_root))
        /\ ExtentsOf(n, leaf_items(n)[i].objectid) # {}
    BY <1>1, SlotFacts DEF InodeOf
  <1>5. g \in 1 .. generation
    BY <1>2, <1>4 DEF WriterInv, CowPart, Filled
  <1>6. Stored(files, data) /\ DOMAIN files \subseteq Inodes
    BY <1>3, <1>5, Committed DEF Stored
  <1>7. n.generation = g /\ n.items = IF Splits(files) THEN <<>> ELSE FsItems(files)
    BY <1>2, <1>3, <1>4 DEF Retained
  <1>8. ~Splits(files)
    <2> SUFFICES ASSUME Splits(files) PROVE FALSE
      OBVIOUS
    <2>1. leaf_items(n) = <<>>
      BY <1>7 DEF leaf_items
    <2> QED
      BY <1>4, <2>1 DEF InodeItems
  <1>9. /\ leaf_items(n) = FsItems(files)
        /\ \A k \in InodeItems(n) :
              \/ FsItems(files)[k].objectid = 256
              \/ \E ino \in DOMAIN files : k = InodeAt(ino) /\ FsItems(files)[k] = InodeItem(ino, files[ino])
        /\ \A ino \in DOMAIN files :
              ExtentsOf(n, ino) = IF files[ino].content = 0 THEN {} ELSE {ExtentAt(ino)}
    <2>1. n.items = FsItems(files)
      BY <1>7, <1>8
    <2>2. NodeOk(n) /\ DOMAIN files \subseteq Inodes
      BY <1>4, <1>6
    <2> QED
      BY <2>1, <2>2, LeafFacts
  <1>10. leaf_items(n)[i].objectid # 256
    BY <1>4 DEF Inodes, FirstIno
  <1>11. PICK ino \in DOMAIN files : i = InodeAt(ino) /\ leaf_items(n)[i] = InodeItem(ino, files[ino])
    BY <1>4, <1>9, <1>10
  <1>12. leaf_items(n)[i].objectid = ino
    BY <1>11 DEF InodeItem
  <1>13. files[ino].content # 0
    BY <1>4, <1>9, <1>12
  <1>14. PICK r : r = RecoveredFile(n, i)
    OBVIOUS
  <1>15. /\ r.inode = ino /\ r.generation = g
         /\ r.path = files[ino].name /\ r.size = SizeOf(files[ino])
         /\ r.content = IF files[ino].at = 0 THEN files[ino].content
                        ELSE IF ~InImage(image, files[ino].at) THEN 0 ELSE data[files[ino].at]
    BY <1>4, <1>6, <1>7, <1>8, <1>11, <1>13, <1>14, FileRecovered
  <1> QED
    BY <1>1, <1>3, <1>4, <1>5, <1>12, <1>13, <1>14, <1>15

(* What is returned was there and is gone. *)
LEMMA SoundFollows ==
  ASSUME RecoverInv
  PROVE  RecoverySound
  <1> SUFFICES ASSUME SingleLeaf, \A s \in Filled : Retained(s), NEW k \in DOMAIN out
               PROVE  LET r == out[k]
                          then == history[r.generation]
                      IN /\ r.inode \notin DOMAIN Current
                         /\ r.generation < generation
                         /\ r.inode \in DOMAIN then
                         /\ r.path = then[r.inode].name /\ r.size = SizeOf(then[r.inode])
                         /\ DataStands(then[r.inode]) => r.content = then[r.inode].content
                         /\ r.content = 0 => ~InImage(image, then[r.inode].at) /\ r.size # 0
    BY DEF RecoverySound
  <1>1. WriterInv
    BY DEF RecoverInv
  <1>2. PICK s \in Slots : \E i \in Gives(s) : out[k] = RecoveredFile(Old(s), i)
    BY DEF RecoverInv, DrawnPart
  <1>3. PICK i \in Gives(s) : out[k] = RecoveredFile(Old(s), i)
    BY <1>2
  <1>4. Retained(s) /\ cur_root # None
    BY <1>1, SlotFacts
  <1>5. PICK g \in 1 .. generation : \E ino \in DOMAIN history[g] :
          LET r == RecoveredFile(Old(s), i)
              file == history[g][ino]
          IN /\ file.content # 0
             /\ ino \notin inode_set(NodeAt(image, map, cur_root))
             /\ r.inode = ino /\ r.generation = g /\ r.path = file.name /\ r.size = SizeOf(file)
             /\ r.content = IF file.at = 0 THEN file.content
                            ELSE IF ~InImage(image, file.at) THEN 0 ELSE data[file.at]
    BY <1>1, <1>4, GivesTheFile
  <1>6. PICK r : r = out[k]
    OBVIOUS
  <1>7. PICK files : files = history[g]
    OBVIOUS
  <1>8. PICK ino \in DOMAIN files :
          /\ files[ino].content # 0
          /\ ino \notin inode_set(NodeAt(image, map, cur_root))
          /\ r.inode = ino /\ r.generation = g /\ r.path = files[ino].name /\ r.size = SizeOf(files[ino])
          /\ r.content = IF files[ino].at = 0 THEN files[ino].content
                         ELSE IF ~InImage(image, files[ino].at) THEN 0 ELSE data[files[ino].at]
    BY <1>3, <1>5, <1>6, <1>7
  <1>9. ino \notin DOMAIN Current
    BY <1>1, <1>4, <1>8, CurrentInodes DEF SingleLeaf
  <1>10. g < generation
    <2>1. g # generation
      BY <1>7, <1>9 DEF Current
    <2>2. generation \in Nat
      BY <1>1, Committed
    <2> QED
      BY <1>5, <2>1, <2>2
  <1>11. files[ino].at # 0 => data[files[ino].at] # 0
    BY <1>1, <1>7, Committed DEF Stored
  <1>12. DataStands(files[ino]) => r.content = files[ino].content
    BY <1>8 DEF DataStands
  <1>13. r.content = 0 => ~InImage(image, files[ino].at) /\ r.size # 0
    BY <1>8, <1>11 DEF SizeOf
  <1> QED
    BY <1>6, <1>7, <1>8, <1>9, <1>10, <1>12, <1>13

(* What stands and is gone is returned. *)
LEMMA CompleteFollows ==
  ASSUME RecoverInv
  PROVE  RecoveryComplete
  <1> SUFFICES ASSUME phase = "done", cur_root # None, Readable(image, map, cur_root),
                      NEW s \in Filled, Retained(s), Readable(image, map, backups[s].fs_root),
                      ~Splits(history[backups[s].fs_root_gen]),
                      NEW ino \in DOMAIN history[backups[s].fs_root_gen] \ DOMAIN Current,
                      history[backups[s].fs_root_gen][ino].content # 0
               PROVE  \E k \in DOMAIN out : out[k].inode = ino
    BY DEF RecoveryComplete
  <1>1. WriterInv /\ slot > NumBackups
    BY DEF RecoverInv, PhasePart
  <1>2. PICK files : files = history[backups[s].fs_root_gen]
    OBVIOUS
  <1>3. PICK n : n = disk[backups[s].fs_root]
    OBVIOUS
  <1>4. /\ s \in 1 .. NumBackups /\ backups[s].fs_root # 0 /\ backups[s].fs_root \in Blocks
        /\ backups[s].fs_root_gen \in 1 .. generation
    BY <1>1 DEF WriterInv, CowPart, Filled
  <1>5. NodeOk(n) /\ DOMAIN files \subseteq Inodes
    BY <1>1, <1>2, <1>3, <1>4, Committed DEF Stored
  <1>6. n.owner = FsTreeObjectid /\ n.items = FsItems(files)
    BY <1>2, <1>3 DEF Retained
  <1>7. /\ leaf_items(n) = FsItems(files)
        /\ inode_set(n) = {256} \cup DOMAIN files
        /\ InodeAt(ino) \in InodeItems(n) /\ FsItems(files)[InodeAt(ino)] = InodeItem(ino, files[ino])
        /\ ExtentsOf(n, ino) = {ExtentAt(ino)}
    BY <1>2, <1>5, <1>6, LeafFacts
  <1>8. ino \in Inodes /\ ino # 256 /\ ino >= FirstIno /\ ino \notin DOMAIN Current
    BY <1>2, <1>5 DEF Inodes, FirstIno
  <1>9. ino \notin inode_set(NodeAt(image, map, cur_root))
    BY <1>1, <1>8, CurrentInodes
  <1>10. Old(s) = n
    BY <1>3, <1>4, BlockRead DEF Old
  <1>11. backups[s].fs_root # cur_root
    <2> SUFFICES ASSUME backups[s].fs_root = cur_root PROVE FALSE
      OBVIOUS
    <2>1. NodeAt(image, map, cur_root) = n
      BY <1>10 DEF Old
    <2> QED
      BY <1>2, <1>7, <1>9, <2>1
  <1>12. s \in Slots
    BY <1>4, <1>11 DEF Slots, Diffable
  <1>13. leaf_items(n)[InodeAt(ino)].objectid = ino
    BY <1>7 DEF InodeItem
  <1>14. InodeAt(ino) \in Gives(s)
    <2>1. PICK c : c = NodeAt(image, map, cur_root)
      OBVIOUS
    <2>2. Gives(s) = DeletedInodes(n, c)
      BY <1>6, <1>10, <2>1 DEF Gives, FromLeaves
    <2> QED
      BY <1>7, <1>8, <1>9, <1>13, <2>1, <2>2 DEF DeletedInodes
  <1>15. s < slot
    BY <1>1, <1>4, HistoryAssumption DEF RecoverInv, PhasePart
  <1>16. Returned(InodeOf(s, InodeAt(ino)))
    BY <1>12, <1>14, <1>15 DEF RecoverInv, MergedPart
  <1> QED
    BY <1>10, <1>13, <1>16 DEF Returned, InodeOf

(* The shapes. *)
LEMMA TypesFollow ==
  ASSUME RecoverInv
  PROVE  TypeOK
  <1>1. WriterInv
    BY DEF RecoverInv
  <1>2. root \in Blocks
    BY <1>1, TreeRoot DEF WriterInv, CowPart
  <1>3. \A k \in DOMAIN out : out[k].inode \in Inodes /\ out[k].generation \in 1 .. MaxGen
    <2> TAKE k \in DOMAIN out
    <2>1. PICK s \in Slots : \E i \in Gives(s) : out[k] = RecoveredFile(Old(s), i)
      BY DEF RecoverInv, DrawnPart
    <2>2. PICK i \in Gives(s) : out[k] = RecoveredFile(Old(s), i)
      BY <2>1
    <2> QED
      BY <1>1, <2>2, SlotFacts
  <1> QED
    BY <1>1, <1>2, <1>3 DEF TypeOK, RecoverInv, PhasePart, WriterInv, CowPart

-----------------------------------------------------------------------------

(* recover_deleted, on an image of any length, taken at any moment of any  *)
(* life of the filesystem, a transaction half written or lost included.    *)
THEOREM RecoverInvariant == Spec => []RecoverInv
  <1>1. RecoverInv /\ [Next]_vars => RecoverInv'
    BY RecoverKeeps
  <1> QED
    BY <1>1, RecoverStarts, PTL DEF Spec

(* Inode numbers, generations and the slot counter keep their ranges, the  *)
(* superblock names a tree block.                                          *)
THEOREM RecoverTypes == Spec => []TypeOK
  <1>1. RecoverInv => TypeOK
    BY TypesFollow
  <1> QED
    BY <1>1, RecoverInvariant, PTL

(* Whatever is returned existed as it is returned and is gone, as long as  *)
(* the slots' roots were not written over and the current tree is one      *)
(* leaf.                                                                   *)
THEOREM RecoveryIsSound == Spec => []RecoverySound
  <1>1. RecoverInv => RecoverySound
    BY SoundFollows
  <1> QED
    BY <1>1, RecoverInvariant, PTL

(* Every deleted file with content in a one-leaf tree that stands behind   *)
(* a readable slot is returned.                                            *)
THEOREM RecoveryIsComplete == Spec => []RecoveryComplete
  <1>1. RecoverInv => RecoveryComplete
    BY CompleteFollows
  <1> QED
    BY <1>1, RecoverInvariant, PTL

(* No inode is returned twice, however many slots hold it. *)
THEOREM EachFileOnce == Spec => []RecoveredOnce
  <1>1. RecoverInv => RecoveredOnce
    BY DEF RecoverInv, DrawnPart
  <1> QED
    BY <1>1, RecoverInvariant, PTL
=============================================================================
