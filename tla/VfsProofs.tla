------------------------------- MODULE VfsProofs -------------------------------
(***************************************************************************)
(* BtrfsFs::open and the client's walk, for every source: whatever the     *)
(* source delivers per read and wherever it ends, the adapter shows the    *)
(* FS_TREE leaf that is there or, behind the end, an empty one; and the    *)
(* walk by lookup goes where read_by_path goes.                            *)
(***************************************************************************)
EXTENDS Vfs, ImageLemmas, FiniteSetTheorems

C == Recorded(source.image, source.chunk_at)

(* fill: what was written is at its place, the rest is still zero.  The    *)
(* offset in the source and the one in the buffer go together, and only    *)
(* the end of the source leaves the buffer incomplete.                     *)
FillPart ==
  /\ source \in Sources
  /\ image.len = source.image.len /\ image.sb = source.image.sb
  /\ image.nodes = [p \in 0 .. source.image.len |->
                      IF p < filled THEN source.image.nodes[p] ELSE ZeroNode]
  /\ off = filled /\ filled \in 0 .. source.have
  /\ phase \notin {"fill", "err"} => filled = source.image.len \/ source.have <= filled

(* The walk reads chunk-tree blocks only, so that its map holds recorded   *)
(* chunks only.                                                            *)
WalkPart ==
  /\ map \in Seq(Chunk) /\ wstack \in Seq(Addr)
  /\ Range(map) \subseteq C
  /\ Range(wstack) \subseteq Named(source.image, source.chunk_at)

Inside(c, l) == SysChunkLookup(c, l) # None /\ InImage(source.image, SysChunkLookup(c, l))

(* The root that was found leads to the FS_TREE, and the leaf is its leaf. *)
LeafPart ==
  /\ root.bytenr \in Addr /\ root.root_dirid \in Addr
  /\ phase = "root" => \A c \in C : Inside(c, root.bytenr) => SysChunkLookup(c, root.bytenr) = source.fs_at
  /\ HasRecords(leaf)
  /\ phase = "open" =>
       \/ leaf = leaf_items(source.image.nodes[source.fs_at])
       \/ leaf = <<>> /\ source.have < source.image.len

OpenInv == FillPart /\ WalkPart /\ LeafPart

-----------------------------------------------------------------------------
(* The sources.                                                            *)

(* The block an unfinished fill leaves is a node without items. *)
LEMMA ZeroNodeType == IsNode(ZeroNode) /\ HasRecords(ZeroNode.items) /\ leaf_items(ZeroNode) = <<>>
  <1>1. IsNode(ZeroNode)
    BY WidthAssumption DEF IsNode, ZeroNode, Addr
  <1>2. ZeroNode.items = <<>> /\ DOMAIN <<>> = {}
    BY DEF ZeroNode
  <1>3. HasRecords(ZeroNode.items)
    BY <1>2, FS_EmptySet DEF HasRecords
  <1> QED
    BY <1>1, <1>2, <1>3 DEF leaf_items, is_leaf, ZeroNode

(* What the source claims has the shapes of an image. *)
LEMMA SourceType ==
  ASSUME source \in Sources
  PROVE  /\ IsImage(source.image) /\ source.image.len \in Nat /\ source.image.len <= MaxU64
         /\ DOMAIN source.image.nodes = 0 .. source.image.len
         /\ \A p \in 0 .. source.image.len : HasRecords(source.image.nodes[p].items)
         /\ source.have \in 0 .. source.image.len
         /\ source.chunk_at \subseteq 0 .. source.image.len
         /\ Described(source)
         /\ source.image.sb.sys_chunks \in Seq(Chunk) /\ source.image.sb.nodesize \in Nat
         /\ source.image.sb.chunk_root \in Addr /\ source.image.sb.root \in Addr
  <1>1. IsSource(source)
    BY SourcesAssumption
  <1>2. IsImage(source.image)
    BY <1>1 DEF IsSource
  <1>3. DOMAIN source.image.nodes = 0 .. source.image.len
    BY <1>2 DEF IsImage
  <1>4. source.image.len \in Nat /\ source.image.len <= MaxU64
    BY <1>1, WidthAssumption DEF IsSource, Addr
  <1> QED
    BY <1>1, <1>2, <1>3, <1>4 DEF IsSource, IsImage, IsSuperblock

(* So has the buffer, at every point of fill: a block is the source's or   *)
(* zero.                                                                   *)
LEMMA BufferType ==
  ASSUME FillPart
  PROVE  /\ IsImage(image)
         /\ \A p \in 0 .. image.len : HasRecords(image.nodes[p].items)
         /\ \A p \in 0 .. image.len :
              image.nodes[p] = IF p < filled THEN source.image.nodes[p] ELSE ZeroNode
  <1>1. source \in Sources
    BY DEF FillPart
  <1>2. \A p \in 0 .. image.len :
          image.nodes[p] = IF p < filled THEN source.image.nodes[p] ELSE ZeroNode
    BY DEF FillPart
  <1>3. \A p \in 0 .. image.len : IsNode(image.nodes[p]) /\ HasRecords(image.nodes[p].items)
    BY <1>1, <1>2, SourceType, ZeroNodeType DEF FillPart, IsImage
  <1>4. image.nodes = [p \in 0 .. image.len |-> image.nodes[p]]
    BY DEF FillPart
  <1>5. IsImage(image)
    BY <1>1, <1>3, <1>4, SourceType DEF FillPart, IsImage
  <1> QED
    BY <1>2, <1>3, <1>5

(* A block that read_node can return is the source's or zero, and the      *)
(* zero ones are behind the end of the source once fill is over.           *)
LEMMA BufferNode ==
  ASSUME FillPart, NEW p \in Nat, InImage(image, p), Parses(image)
  PROVE  /\ p \in 0 .. source.image.len
         /\ image.nodes[p] \in {source.image.nodes[p], ZeroNode}
         /\ image.nodes[p] # source.image.nodes[p] /\ phase \notin {"fill", "err"} =>
              source.have < source.image.len
  <1>1. /\ source.image.len \in Nat /\ source.have \in 0 .. source.image.len
        /\ image.sb.nodesize \in Nat /\ image.len = source.image.len /\ filled \in 0 .. source.have
    BY SourceType DEF FillPart
  <1>2. p < source.image.len
    BY <1>1, HeaderAssumption DEF InImage, Parses
  <1>3. image.nodes[p] = IF p < filled THEN source.image.nodes[p] ELSE ZeroNode
    BY <1>1, <1>2 DEF FillPart
  <1>4. ASSUME ~(p < filled), phase \notin {"fill", "err"} PROVE source.have < source.image.len
    BY <1>1, <1>2, <1>4 DEF FillPart
  <1> QED
    BY <1>1, <1>2, <1>3, <1>4

-----------------------------------------------------------------------------
(* Translations: every one of them comes from a recorded chunk.            *)

(* The lookups and accessors of the composed walk are those of the module. *)
LEMMA SameWalk ==
  /\ \A m, l : W!MapLookup(m, l) = MapLookup(m, l)
  /\ W!None = None
  /\ \A n : W!key_ptrs(n) = key_ptrs(n)
  /\ \A n : W!chunk_items(n) = chunk_items(n)
  /\ \A img, p : W!InImage(img, p) = InImage(img, p)
  /\ \A img : W!Parses(img) = Parses(img)
  <1>1. \A m, l : W!MapLookup(m, l) = MapLookup(m, l)
    BY DEF W!MapLookup, MapLookup, W!Covers, Covers, W!Overflows, Overflows,
      W!FirstStripe, FirstStripe, W!CheckedAdd, CheckedAdd, W!None, None, W!Min, Min
  <1>2. \A n : W!key_ptrs(n) = key_ptrs(n) /\ W!chunk_items(n) = chunk_items(n)
    BY DEF W!key_ptrs, key_ptrs, W!chunk_items, chunk_items, W!is_leaf, is_leaf
  <1> QED
    BY <1>1, <1>2 DEF W!None, None, W!InImage, InImage, W!Parses, Parses

(* So does the one of ChunkMap::walk. *)
LEMMA WalkPlace ==
  ASSUME FillPart, WalkPart, NEW l \in Addr, W!WalkLookup(map, l) # None
  PROVE  \E c \in C : W!WalkLookup(map, l) = SysChunkLookup(c, l) /\ SysChunkLookup(c, l) \in Nat
  <1> DEFINE sys == source.image.sb.sys_chunks
  <1>1. sys \in Seq(Chunk) /\ image.sb = source.image.sb
    BY SourceType DEF FillPart
  <1>2. ASSUME NEW m \in Seq(Chunk), Range(m) \subseteq C, MapLookup(m, l) # None
        PROVE  \E c \in C : MapLookup(m, l) = SysChunkLookup(c, l) /\ SysChunkLookup(c, l) \in Nat
    <2>1. PICK i \in DOMAIN m : MapLookup(m, l) = SysChunkLookup(m[i], l)
      BY <1>2, MapLookupFirst
    <2>2. m[i] \in C /\ m[i] \in Chunk
      BY <1>2 DEF Range
    <2>3. SysChunkLookup(m[i], l) \in Nat
      BY <1>2, <2>1, <2>2, SysChunkType, WidthAssumption DEF Addr
    <2> QED
      BY <2>1, <2>2, <2>3
  <1>3. Range(sys) \subseteq C
    BY DEF C, Recorded
  <1>4. CASE MapLookup(map, l) # None
    BY <1>2, <1>4, SameWalk DEF WalkPart, W!WalkLookup
  <1>5. CASE MapLookup(map, l) = None
    <2>1. W!WalkLookup(map, l) = MapLookup(sys, l)
      BY <1>1, <1>5, SameWalk DEF W!WalkLookup, W!sb
    <2> QED
      BY <1>1, <1>2, <1>3, <2>1
  <1> QED
    BY <1>4, <1>5

(* So does the one of read_node. *)
LEMMA ReadPlace ==
  ASSUME FillPart, WalkPart, NEW l \in Addr, Translate(image, map, l) # None
  PROVE  \E c \in C : Translate(image, map, l) = SysChunkLookup(c, l) /\ SysChunkLookup(c, l) \in Nat
  <1> DEFINE sys == source.image.sb.sys_chunks
             Hits == {i \in DOMAIN sys : SysChunkLookup(sys[i], l) # None}
  <1>1. sys \in Seq(Chunk) /\ image.sb.sys_chunks = sys /\ map \in Seq(Chunk)
    BY SourceType DEF FillPart, WalkPart
  <1>2. CASE MapLookup(map, l) # None
    <2>1. PICK i \in DOMAIN map : MapLookup(map, l) = SysChunkLookup(map[i], l)
      BY <1>1, <1>2, MapLookupFirst
    <2>2. map[i] \in C /\ map[i] \in Chunk
      BY <1>1 DEF WalkPart, Range
    <2>3. SysChunkLookup(map[i], l) \in Nat
      BY <1>2, <2>1, <2>2, SysChunkType, WidthAssumption DEF Addr
    <2> QED
      BY <1>2, <2>1, <2>2, <2>3 DEF Translate
  <1>3. CASE MapLookup(map, l) = None
    <2>1. Translate(image, map, l) = SysLookup(sys, l) /\ SysLookup(sys, l) # None
      BY <1>1, <1>3 DEF Translate
    <2>2. Hits # {} /\ SysLookup(sys, l) = SysChunkLookup(sys[Min(Hits)], l)
      BY <2>1 DEF SysLookup
    <2>3. Min(Hits) \in Hits
      <3>1. Hits \subseteq Nat
        BY <1>1
      <3> QED
        BY <2>2, <3>1, MinLemma
    <2>4. sys[Min(Hits)] \in C /\ sys[Min(Hits)] \in Chunk
      <3>1. Min(Hits) \in DOMAIN sys
        BY <2>3
      <3>2. sys[Min(Hits)] \in Range(sys)
        BY <3>1 DEF Range
      <3>3. sys[Min(Hits)] \in C
        BY <3>2 DEF C, Recorded
      <3> HIDE DEF Hits, sys
      <3> QED
        BY <1>1, <3>1, <3>3
    <2>5. SysChunkLookup(sys[Min(Hits)], l) \in Nat
      BY <2>1, <2>2, <2>4, SysChunkType, WidthAssumption DEF Addr
    <2> QED
      BY <2>1, <2>2, <2>4, <2>5
  <1> QED
    BY <1>2, <1>3

-----------------------------------------------------------------------------
(* The walk.                                                               *)

(* What an iteration of the walk does, in terms of the adapter's state: a  *)
(* pop, and the chunks or the pointers of one block of the chunk tree.     *)
LEMMA WalkEffect ==
  ASSUME FillPart, WalkPart, W!Next
  PROVE  /\ image' = image
         /\ \/ map' = map /\ wstack' = wstack
            \/ \E n : /\ \/ n \in {source.image.nodes[p] : p \in source.chunk_at}
                         \/ n = ZeroNode
                      /\ wstack # <<>>
                      /\ map' \in {map, map \o chunk_items(n)}
                      /\ wstack' \in {W!Pop, W!Pop \o key_ptrs(n)}
  <1>1. CASE W!BudgetBreak \/ W!Return
    BY <1>1 DEF W!BudgetBreak, W!Return
  <1>2. CASE W!Unmapped \/ W!OutOfImage \/ W!Unparsable
    <2>1. image' = image /\ map' = map /\ wstack' = W!Pop /\ wstack # <<>>
      BY <1>2 DEF W!Unmapped, W!OutOfImage, W!Unparsable, W!Visit
    <2> QED
      BY <2>1
  <1>3. CASE W!AddLeaf \/ W!Descend
    <2> DEFINE p == W!Phys
               n == image.nodes[p]
    <2>1. /\ image' = image /\ wstack # <<>> /\ p # None /\ InImage(image, p) /\ Parses(image)
          /\ map' \in {map, map \o chunk_items(n)}
          /\ wstack' \in {W!Pop, W!Pop \o key_ptrs(n)}
      BY <1>3, SameWalk DEF W!AddLeaf, W!Descend, W!VisitNode, W!Visit
    <2>2. W!Top \in Range(wstack) /\ W!Top \in Addr
      BY <2>1, PopLemma DEF WalkPart, W!Top
    <2>3. PICK c \in C : p = SysChunkLookup(c, W!Top) /\ p \in Nat
      BY <2>1, <2>2, WalkPlace DEF W!Phys
    <2>4. InImage(source.image, p)
      BY <2>1 DEF FillPart, InImage
    <2>5. p \in source.chunk_at
      <3>1. Described(source) /\ W!Top \in Named(source.image, source.chunk_at)
        BY <2>2, SourceType DEF FillPart, WalkPart
      <3> HIDE DEF p
      <3> QED
        BY <2>1, <2>3, <2>4, <3>1 DEF Described, C
    <2>6. n \in {source.image.nodes[p], ZeroNode}
      <3> HIDE DEF p
      <3> QED
        BY <2>1, <2>3, BufferNode
    <2> QED
      BY <2>1, <2>5, <2>6
  <1> QED
    BY <1>1, <1>2, <1>3 DEF W!Next

(* The walk stays in the chunk tree. *)
LEMMA WalkKeeps ==
  ASSUME FillPart, WalkPart, W!Next, UNCHANGED source
  PROVE  WalkPart'
  <1> DEFINE B == source.chunk_at
             T == Named(source.image, B)
  <1>1. C' = C /\ T' = T
    BY DEF C, Recorded, Named
  <1>2. CASE map' = map /\ wstack' = wstack
    BY <1>1, <1>2 DEF WalkPart
  <1>3. CASE ~(map' = map /\ wstack' = wstack)
    <2>1. PICK n : /\ \/ n \in {source.image.nodes[p] : p \in B}
                      \/ n = ZeroNode
                   /\ wstack # <<>>
                   /\ map' \in {map, map \o chunk_items(n)}
                   /\ wstack' \in {W!Pop, W!Pop \o key_ptrs(n)}
      BY <1>3, WalkEffect
    <2>2. /\ IsNode(n)
          /\ Range(chunk_items(n)) \subseteq C
          /\ Range(key_ptrs(n)) \subseteq T
      <3>1. CASE n = ZeroNode
        <4>1. key_ptrs(n) = <<>> /\ chunk_items(n) = <<>> /\ Range(<<>>) = {}
          BY <3>1 DEF ZeroNode, key_ptrs, chunk_items, is_leaf, Range
        <4> QED
          BY <3>1, <4>1, ZeroNodeType
      <3>2. CASE n # ZeroNode
        <4>1. PICK p \in B : n = source.image.nodes[p]
          BY <2>1, <3>2
        <4>2. IsNode(n)
          BY <4>1, SourceType DEF FillPart, IsImage
        <4> QED
          BY <4>1, <4>2 DEF C, Recorded, Named
      <3> QED
        BY <3>1, <3>2
    <2>3. chunk_items(n) \in Seq(Chunk) /\ key_ptrs(n) \in Seq(Addr)
      BY <2>2 DEF IsNode, chunk_items, key_ptrs
    <2>4. W!Pop \in Seq(Addr) /\ Range(W!Pop) \subseteq Range(wstack)
      BY <2>1, PopLemma DEF WalkPart, W!Pop
    <2>5. map' \in Seq(Chunk) /\ Range(map') \subseteq C
      <3> DEFINE s == chunk_items(n)
      <3>1. map \o s \in Seq(Chunk) /\ Range(map \o s) = Range(map) \cup Range(s)
        BY <2>3, ExtendLemma DEF WalkPart
      <3> QED
        BY <2>1, <2>2, <3>1 DEF WalkPart
    <2>6. wstack' \in Seq(Addr) /\ Range(wstack') \subseteq T
      <3> DEFINE s == W!Pop
                 t == key_ptrs(n)
      <3>1. s \o t \in Seq(Addr) /\ Range(s \o t) = Range(s) \cup Range(t)
        BY <2>3, <2>4, ExtendLemma
      <3> HIDE DEF s, t
      <3>2. wstack' \in {s, s \o t} /\ Range(s) \subseteq T /\ Range(t) \subseteq T
        BY <2>1, <2>2, <2>4 DEF WalkPart, s, t
      <3> QED
        BY <2>4, <3>1, <3>2 DEF s
    <2> QED
      BY <1>1, <2>5, <2>6 DEF WalkPart
  <1> QED
    BY <1>2, <1>3

-----------------------------------------------------------------------------
(* The FS_TREE root and its leaf.                                          *)

(* A leaf's items are those of the block, an interior node has none. *)
LEMMA LeafRecords ==
  ASSUME NEW n, HasRecords(n.items)
  PROVE  HasRecords(leaf_items(n))
  <1>1. HasRecords(<<>>)
    BY FS_EmptySet DEF HasRecords
  <1> QED
    BY <1>1 DEF leaf_items

(* What read_node returns: a block of the source where some recorded chunk *)
(* puts it, or a zero block behind the end of the source.                  *)
LEMMA NodeRead ==
  ASSUME FillPart, WalkPart, NEW l \in Addr, Readable(image, map, l)
  PROVE  /\ HasRecords(leaf_items(NodeAt(image, map, l)))
         /\ \E c \in C :
              /\ Inside(c, l)
              /\ \/ NodeAt(image, map, l) = source.image.nodes[SysChunkLookup(c, l)]
                 \/ /\ NodeAt(image, map, l) = ZeroNode
                    /\ phase \notin {"fill", "err"} => source.have < source.image.len
  <1> DEFINE p == Translate(image, map, l)
  <1>1. p # None /\ InImage(image, p) /\ Parses(image)
    BY DEF Readable
  <1>2. PICK c \in C : p = SysChunkLookup(c, l) /\ p \in Nat
    BY <1>1, ReadPlace
  <1>3. NodeAt(image, map, l) = image.nodes[p]
    BY DEF NodeAt
  <1> HIDE DEF p
  <1>4. Inside(c, l)
    BY <1>1, <1>2 DEF Inside, FillPart, InImage
  <1>5. /\ p \in 0 .. source.image.len
        /\ image.nodes[p] \in {source.image.nodes[p], ZeroNode}
        /\ image.nodes[p] # source.image.nodes[p] /\ phase \notin {"fill", "err"} =>
             source.have < source.image.len
    BY <1>1, <1>2, BufferNode
  <1>6. HasRecords(image.nodes[p].items)
    BY <1>5, BufferType DEF FillPart
  <1>7. HasRecords(leaf_items(image.nodes[p]))
    BY <1>6, LeafRecords
  <1> QED
    BY <1>2, <1>3, <1>4, <1>5, <1>7

(* fs_tree_root returns the first ROOT_ITEM of a true root tree: the block *)
(* it names is the FS_TREE's.                                              *)
LEMMA RootFound ==
  ASSUME FillPart, WalkPart, fs_tree_root(image, map) # None
  PROVE  LET it == leaf_items(NodeAt(image, map, image.sb.root))[Min(FsRootItems(image, map))]
         IN /\ it.bytenr \in Addr /\ it.root_dirid \in Addr
            /\ fs_tree_root(image, map) = it.bytenr
            /\ \A c \in C : Inside(c, it.bytenr) => SysChunkLookup(c, it.bytenr) = source.fs_at
  <1> DEFINE n == NodeAt(image, map, image.sb.root)
             items == leaf_items(n)
             F == FsRootItems(image, map)
             it == items[Min(F)]
  <1>1. /\ Readable(image, map, image.sb.root) /\ F # {}
        /\ fs_tree_root(image, map) = it.bytenr
    BY DEF fs_tree_root
  <1>2. image.sb.root = source.image.sb.root /\ source.image.sb.root \in Addr
    BY SourceType DEF FillPart
  <1>3. F = {i \in DOMAIN items : items[i].objectid = FsTreeObjectid /\ items[i].key_type = "ROOT_ITEM"}
    BY DEF FsRootItems
  <1>4. HasRecords(items)
    BY <1>1, <1>2, NodeRead
  <1>5. PICK c \in C : /\ Inside(c, source.image.sb.root)
                       /\ n \in {source.image.nodes[SysChunkLookup(c, source.image.sb.root)], ZeroNode}
    BY <1>1, <1>2, NodeRead
  <1>6. n # ZeroNode
    <2> SUFFICES ASSUME n = ZeroNode PROVE FALSE
      OBVIOUS
    <2>1. items = <<>> /\ DOMAIN <<>> = {}
      BY ZeroNodeType
    <2> QED
      BY <1>1, <1>3, <2>1
  <1>7. Min(F) \in F
    <2>1. F \subseteq Nat
      BY <1>3, <1>4 DEF HasRecords
    <2> QED
      BY <1>1, <2>1, MinLemma
  <1> HIDE DEF F
  <1>8. Min(F) \in DOMAIN items /\ it.objectid = FsTreeObjectid /\ it.key_type = "ROOT_ITEM"
    BY <1>3, <1>7
  <1>9. it.bytenr \in Addr /\ it.root_dirid \in Addr
    <2> HIDE DEF items
    <2> QED
      BY <1>4, <1>8 DEF HasRecords
  <1>10. ASSUME NEW d \in C, Inside(d, it.bytenr) PROVE SysChunkLookup(d, it.bytenr) = source.fs_at
    <2>1. items = leaf_items(source.image.nodes[SysChunkLookup(c, source.image.sb.root)])
      BY <1>5, <1>6
    <2>2. Described(source)
      BY SourceType DEF FillPart
    <2> HIDE DEF items
    <2> QED
      BY <1>5, <1>8, <1>10, <2>1, <2>2 DEF Described, Inside, C
  <1> QED
    BY <1>1, <1>9, <1>10 DEF F

(* The leaf that open keeps. *)
LEMMA LeafRead ==
  ASSUME FillPart, WalkPart, LeafPart, phase = "root", Readable(image, map, root.bytenr)
  PROVE  LET items == leaf_items(NodeAt(image, map, root.bytenr))
         IN /\ HasRecords(items)
            /\ \/ items = leaf_items(source.image.nodes[source.fs_at])
               \/ items = <<>> /\ source.have < source.image.len
  <1>1. root.bytenr \in Addr
    BY DEF LeafPart
  <1>2. PICK c \in C :
           /\ Inside(c, root.bytenr)
           /\ \/ NodeAt(image, map, root.bytenr) = source.image.nodes[SysChunkLookup(c, root.bytenr)]
              \/ /\ NodeAt(image, map, root.bytenr) = ZeroNode
                 /\ phase \notin {"fill", "err"} => source.have < source.image.len
    BY <1>1, NodeRead
  <1>3. SysChunkLookup(c, root.bytenr) = source.fs_at
    BY <1>2 DEF LeafPart
  <1> QED
    BY <1>1, <1>2, <1>3, NodeRead, ZeroNodeType

-----------------------------------------------------------------------------
(* open.                                                                   *)

(* The zeroed buffer. *)
LEMMA OpenInit == Init => OpenInv
  <1> SUFFICES ASSUME Init PROVE OpenInv
    OBVIOUS
  <1>1. source \in Sources
    BY DEF Init
  <1>2. FillPart
    <2>1. DOMAIN source.image.nodes = 0 .. source.image.len /\ source.image.len \in Nat
          /\ source.have \in 0 .. source.image.len
      BY <1>1, SourceType
    <2>2. image.nodes = [p \in 0 .. source.image.len |-> ZeroNode]
          /\ image.len = source.image.len /\ image.sb = source.image.sb
      BY <2>1, <1>1, SourceType DEF Init, IsImage
    <2>3. filled = 0 /\ off = 0 /\ \A p \in 0 .. source.image.len : ~(p < filled)
      BY <2>1 DEF Init
    <2>4. filled \in 0 .. source.have
      BY <2>1, <2>3
    <2> QED
      BY <1>1, <2>2, <2>3, <2>4 DEF Init, FillPart
  <1>3. WalkPart
    BY DEF Init, WalkPart, Range
  <1>4. LeafPart
    <2>1. HasRecords(<<>>)
      BY FS_EmptySet DEF HasRecords
    <2> QED
      BY <2>1, WidthAssumption DEF Init, LeafPart, Addr
  <1> QED
    BY <1>2, <1>3, <1>4 DEF OpenInv

(* A read of fill: what the source delivered is put behind what is there,  *)
(* however much it is, and the next read goes on from there.               *)
LEMMA FillReadKeeps ==
  ASSUME OpenInv, FillRead
  PROVE  OpenInv'
  <1> DEFINE len == source.image.len
             have == source.have
  <1>1. source \in Sources /\ FillPart
    BY DEF OpenInv, FillPart
  <1>2. len \in Nat /\ len <= MaxU64 /\ have \in 0 .. len /\ DOMAIN source.image.nodes = 0 .. len
    BY <1>1, SourceType
  <1>3. /\ off = filled /\ filled \in Nat /\ filled <= have /\ filled < have
        /\ phase = "fill" /\ image.len = len
    BY <1>1, <1>2 DEF FillPart, FillRead
  <1>4. PICK n \in 1 .. Min({image.len - filled, have - off}) :
          Deliver(n, off) /\ off' = SaturatingAdd(off, n)
    BY DEF FillRead
  <1>5. n \in Nat /\ filled + n <= have
    <2>1. len - filled \in Nat /\ have - filled \in Nat
      BY <1>2, <1>3
    <2>2. Min({len - filled, have - filled}) \in {len - filled, have - filled}
          /\ Min({len - filled, have - filled}) <= have - filled
      BY <2>1, MinLemma
    <2> QED
      BY <1>2, <1>3, <1>4, <2>1, <2>2
  <1>6. UNCHANGED <<source, map, wstack, root, leaf, phase>>
    BY DEF FillRead, walkVars, fsVars
  <1>7. filled' = filled + n /\ off' = filled + n
    BY <1>2, <1>3, <1>4, <1>5, WidthAssumption DEF Deliver, SaturatingAdd
  <1>8. image' = [image EXCEPT !.nodes =
                    [p \in DOMAIN @ |-> IF filled <= p /\ p < filled + n
                                        THEN source.image.nodes[filled + p - filled] ELSE @[p]]]
    BY <1>3, <1>4 DEF Deliver
  <1>9. image.nodes = [p \in 0 .. len |-> IF p < filled THEN source.image.nodes[p] ELSE ZeroNode]
    BY <1>1 DEF FillPart
  <1>10. image'.len = image.len /\ image'.sb = image.sb
         /\ image'.nodes = [p \in 0 .. len |-> IF filled <= p /\ p < filled + n
                                               THEN source.image.nodes[filled + p - filled]
                                               ELSE image.nodes[p]]
    BY <1>1, <1>8, <1>9, BufferType DEF IsImage
  <1>11. image'.nodes = [p \in 0 .. len |-> IF p < filled + n THEN source.image.nodes[p] ELSE ZeroNode]
    <2>1. ASSUME NEW p \in 0 .. len
          PROVE  image'.nodes[p] = IF p < filled + n THEN source.image.nodes[p] ELSE ZeroNode
      <3>1. p \in Nat /\ filled + p - filled = p /\ filled + n \in Nat
        BY <1>2, <1>3, <1>5
      <3>2. image'.nodes[p] = IF filled <= p /\ p < filled + n THEN source.image.nodes[p]
                              ELSE IF p < filled THEN source.image.nodes[p] ELSE ZeroNode
        BY <1>9, <1>10, <3>1
      <3>3. p < filled => p < filled + n
        BY <1>3, <1>5, <3>1
      <3> QED
        BY <1>3, <3>1, <3>2, <3>3
    <2> QED
      BY <1>10, <2>1
  <1>12. FillPart'
    <2>1. filled + n \in 0 .. have
      BY <1>2, <1>3, <1>5
    <2> QED
      BY <1>1, <1>3, <1>6, <1>7, <1>10, <1>11, <2>1 DEF FillPart
  <1>13. WalkPart' /\ LeafPart'
    BY <1>6 DEF OpenInv, WalkPart, LeafPart, C, Inside
  <1> QED
    BY <1>12, <1>13 DEF OpenInv

(* The end of fill, the error exits and the steps of open behind it. *)
LEMMA OpenStepKeeps ==
  ASSUME OpenInv, OpenStep
  PROVE  OpenInv'
  <1>1. CASE FillRead
    BY <1>1, FillReadKeeps
  <1>2. CASE FillEnd
    <2>1. UNCHANGED <<source, image, off, filled, map, wstack, root, leaf>> /\ phase' = "super"
          /\ (filled = image.len \/ off >= source.have)
      BY <1>2 DEF FillEnd, BufferFull, fillVars, walkVars, fsVars
    <2>2. FillPart'
      <3>1. filled = image.len \/ source.have <= filled
        BY <2>1, SourceType DEF OpenInv, FillPart
      <3> QED
        BY <2>1, <3>1 DEF OpenInv, FillPart
    <2> QED
      BY <2>1, <2>2 DEF OpenInv, WalkPart, LeafPart, C
  <1>3. CASE FillError \/ NoSuperblock \/ WalkFails \/ NoRootItem \/ NoLeaf
    <2>1. OpenFails
      BY <1>3 DEF FillError, NoSuperblock, WalkFails, NoRootItem, NoLeaf
    <2>2. UNCHANGED <<source, image, off, filled, map, wstack, root, leaf>> /\ phase' = "err"
      BY <2>1 DEF OpenFails, fillVars, walkVars, fsVars
    <2> QED
      BY <2>2 DEF OpenInv, FillPart, WalkPart, LeafPart, C
  <1>4. CASE ParseSuper
    <2>1. UNCHANGED <<source, image, off, filled, map, root, leaf>> /\ phase' = "walk"
          /\ phase = "super" /\ wstack' = <<image.sb.chunk_root>>
      BY <1>4 DEF ParseSuper, fillVars, fsVars
    <2>2. image.sb.chunk_root \in Addr /\ image.sb.chunk_root \in Named(source.image, source.chunk_at)
      BY SourceType DEF OpenInv, FillPart, Named
    <2>3. wstack' \in Seq(Addr) /\ Range(wstack') = {image.sb.chunk_root}
      BY <2>1, <2>2 DEF Range
    <2>4. FillPart' /\ LeafPart'
      BY <2>1 DEF OpenInv, FillPart, LeafPart
    <2>5. WalkPart'
      BY <2>1, <2>2, <2>3 DEF OpenInv, WalkPart, C
    <2> QED
      BY <2>4, <2>5 DEF OpenInv
  <1>5. CASE Walk
    <2>1. W!Next /\ UNCHANGED <<source, off, filled, root, leaf, phase>> /\ phase = "walk"
      BY <1>5 DEF Walk, fsVars
    <2>2. image' = image /\ WalkPart'
      BY <2>1, WalkEffect, WalkKeeps DEF OpenInv
    <2> QED
      BY <2>1, <2>2 DEF OpenInv, FillPart, LeafPart
  <1>6. CASE FindRoot
    <2>1. UNCHANGED <<source, image, off, filled, map, wstack, leaf>> /\ phase' = "root"
          /\ phase = "walk" /\ fs_tree_root(image, map) # None
          /\ root' = leaf_items(NodeAt(image, map, image.sb.root))[Min(FsRootItems(image, map))]
      BY <1>6 DEF FindRoot, fillVars, walkVars
    <2>2. /\ root'.bytenr \in Addr /\ root'.root_dirid \in Addr
          /\ \A c \in C : Inside(c, root'.bytenr) => SysChunkLookup(c, root'.bytenr) = source.fs_at
      BY <2>1, RootFound DEF OpenInv
    <2>3. LeafPart'
      BY <2>1, <2>2 DEF OpenInv, LeafPart, C, Inside
    <2> QED
      BY <2>1, <2>3 DEF OpenInv, FillPart, WalkPart, C
  <1>7. CASE ReadLeaf
    <2>1. UNCHANGED <<source, image, off, filled, map, wstack, root>> /\ phase' = "open"
          /\ phase = "root" /\ Readable(image, map, root.bytenr)
          /\ leaf' = leaf_items(NodeAt(image, map, root.bytenr))
      BY <1>7 DEF ReadLeaf, fillVars, walkVars
    <2>2. LeafPart'
      BY <2>1, LeafRead DEF OpenInv, LeafPart
    <2> QED
      BY <2>1, <2>2 DEF OpenInv, FillPart, WalkPart, C
  <1> QED
    BY <1>1, <1>2, <1>3, <1>4, <1>5, <1>6, <1>7 DEF OpenStep

(* The client changes nothing of the adapter. *)
LEMMA OpenKeeps == OpenInv /\ [Next]_vars => OpenInv'
  <1> SUFFICES ASSUME OpenInv, [Next]_vars PROVE OpenInv'
    OBVIOUS
  <1>1. CASE OpenStep
    BY <1>1, OpenStepKeeps
  <1>2. CASE Lookup \/ PickStream \/ ReadPiece \/ UNCHANGED vars
    <2>1. UNCHANGED <<source, image, off, filled, map, wstack, root, leaf, phase>>
      BY <1>2 DEF Lookup, PickStream, ReadPiece, vars, fillVars, walkVars, fsVars
    <2> QED
      BY <2>1 DEF OpenInv, FillPart, WalkPart, LeafPart, C, Inside
  <1> QED
    BY <1>1, <1>2 DEF Next

(* The invariant of open holds throughout. *)
THEOREM OpenInvariant == Spec => []OpenInv
  BY OpenInit, OpenKeeps, PTL DEF Spec

(* Whatever the source delivers per read and wherever it ends, fill puts   *)
(* every block in its place, and open keeps the FS_TREE leaf that was      *)
(* written or, behind the end of the source, an empty one.                 *)
THEOREM OpenShowsTheTruth == Spec => []OpenedViewIsTrue
  <1>1. OpenInv => OpenedViewIsTrue
    <2> SUFFICES ASSUME OpenInv PROVE OpenedViewIsTrue
      OBVIOUS
    <2>1. \A p \in 0 .. image.len :
            image.nodes[p] = IF p < filled THEN source.image.nodes[p] ELSE ZeroNode
      BY BufferType DEF OpenInv
    <2>2. 0 .. image.len - 1 \subseteq 0 .. image.len
      BY SourceType DEF OpenInv, FillPart
    <2> QED
      BY <2>1, <2>2 DEF OpenInv, LeafPart, OpenedViewIsTrue
  <1> QED
    BY <1>1, OpenInvariant, PTL

-----------------------------------------------------------------------------
(* The client.                                                             *)

(* The trail is what the lookups of the path's names returned, from root() *)
(* on; nothing is asked below a name that was not found.                   *)
Walked ==
  /\ Len(trail) = Len(path) + 1
  /\ trail[1] = root.root_dirid
  /\ \A n \in 1 .. Len(path) :
       trail[n] # None /\ trail[n + 1] = ChildNamed(leaf, trail[n], path[n])

ClientPart ==
  /\ phase \in {"fill", "super", "walk", "root", "open", "err"}
  /\ rstatus \in {"idle", "reading", "eof", "err"}
  /\ phase # "open" => path = <<>> /\ rstatus = "idle"
  /\ trail \in Seq(Addr \cup {None}) /\ path \in Seq(Names) /\ got \in Seq(Nat)
  /\ reading.k > 1 => reading.id \in [type : {"xattr"}, idx : 0 .. MaxU16]
  /\ phase = "open" => Walked

(* lookup answers an inode number or None. *)
LEMMA ChildType ==
  ASSUME HasRecords(leaf), NEW dir, NEW name
  PROVE  ChildNamed(leaf, dir, name) \in Addr \cup {None}
  <1> DEFINE entries == list_dir(leaf, dir)
             Hits == {i \in DOMAIN entries : entries[i].name = name}
  <1>1. CASE Hits = {}
    BY <1>1 DEF ChildNamed
  <1>2. CASE Hits # {}
    <2>1. DOMAIN entries \subseteq {i \in DOMAIN leaf : NamesChild(leaf[i], dir)}
          /\ \A i \in DOMAIN entries : entries[i] = parse_dir_item(leaf[i])
      BY DEF list_dir
    <2>2. ChildNamed(leaf, dir, name) = entries[Min(Hits)].child
      BY <1>2 DEF ChildNamed
    <2> HIDE DEF entries
    <2>3. Min(Hits) \in Hits
      <3>1. Hits \subseteq Nat
        BY <2>1 DEF HasRecords
      <3> QED
        BY <1>2, <3>1, MinLemma
    <2>4. PICK i \in DOMAIN leaf : i = Min(Hits) /\ i \in DOMAIN entries /\ NamesChild(leaf[i], dir)
      BY <2>1, <2>3
    <2>5. entries[i].child = leaf[i].recs[1].child
      BY <2>1, <2>4 DEF parse_dir_item
    <2>6. leaf[i].recs[1].child \in Addr
      BY <2>4 DEF HasRecords, NamesChild
    <2> QED
      BY <2>2, <2>4, <2>5, <2>6
  <1> QED
    BY <1>1, <1>2

(* list_xattrs: finitely many attributes, each of them bytes. *)
LEMMA XattrsType ==
  ASSUME HasRecords(leaf), NEW ino
  PROVE  /\ IsFiniteSet(DOMAIN list_xattrs(leaf, ino))
         /\ \A p \in DOMAIN list_xattrs(leaf, ino) : list_xattrs(leaf, ino)[p].value \in Seq(Nat)
  <1> DEFINE I == ItemsOf(leaf, ino, "XATTR_ITEM")
             Cells == {{i} \X DOMAIN leaf[i].recs : i \in I}
  <1>1. /\ DOMAIN list_xattrs(leaf, ino) = UNION Cells
        /\ \A p \in UNION Cells : list_xattrs(leaf, ino)[p].value = leaf[p[1]].recs[p[2]].value
    BY DEF list_xattrs, Places
  <1>2. /\ IsFiniteSet(DOMAIN leaf) /\ I \subseteq DOMAIN leaf
        /\ \A i \in I : /\ IsFiniteSet(DOMAIN leaf[i].recs)
                       /\ \A k \in DOMAIN leaf[i].recs : leaf[i].recs[k].value \in Seq(Nat)
    BY DEF HasRecords, ItemsOf
  <1> HIDE DEF I
  <1>3. IsFiniteSet(I)
    BY <1>2, FS_Subset
  <1>4. \A i \in I : IsFiniteSet({i} \X DOMAIN leaf[i].recs)
    <2> TAKE i \in I
    <2>1. IsFiniteSet({i})
      BY FS_Singleton
    <2> QED
      BY <1>2, <2>1, FS_Product
  <1>5. IsFiniteSet(Cells)
    <2> DEFINE f == [i \in I |-> {i} \X DOMAIN leaf[i].recs]
    <2>1. f \in Surjection(I, Cells)
      BY DEF Surjection
    <2> HIDE DEF f, Cells
    <2> QED
      BY <1>3, <2>1, FS_Surjection
  <1>6. IsFiniteSet(UNION Cells)
    <2>1. \A S \in Cells : IsFiniteSet(S)
      BY <1>4
    <2> HIDE DEF Cells
    <2> QED
      BY <1>5, <2>1, FS_UNION
  <1>7. \A p \in UNION Cells : leaf[p[1]].recs[p[2]].value \in Seq(Nat)
    BY <1>2
  <1> QED
    BY <1>1, <1>6, <1>7

(* A place in the list is a number. *)
LEMMA IndexType ==
  ASSUME NEW list, IsFiniteSet(DOMAIN list), NEW p
  PROVE  IndexOf(list, p) \in Nat
  <1>1. IsFiniteSet({q \in DOMAIN list : Before(q, p)})
    BY FS_Subset
  <1> QED
    BY <1>1, FS_CardinalityType DEF IndexOf

(* The stream a client picks: the index of an attribute fits 16 bits. *)
LEMMA StreamType ==
  ASSUME HasRecords(leaf), NEW ino, NEW r \in data_streams(ino), r.k > 1
  PROVE  r.id \in [type : {"xattr"}, idx : 0 .. MaxU16]
  <1> DEFINE attrs == list_xattrs(leaf, ino)
  <1>1. ContentStream(ino).k = 1
    BY DEF ContentStream
  <1>2. PICK p \in DOMAIN attrs : r = XattrStream(attrs, p)
    BY <1>1 DEF data_streams
  <1>3. IndexOf(attrs, p) \in Nat
    BY XattrsType, IndexType
  <1> HIDE DEF attrs
  <1>4. r.id = [type |-> "xattr", idx |-> Min({IndexOf(attrs, p), MaxU16})]
    BY <1>2 DEF XattrStream, XattrId
  <1>5. Min({IndexOf(attrs, p), MaxU16}) \in 0 .. MaxU16
    <2>1. /\ Min({IndexOf(attrs, p), MaxU16}) \in {IndexOf(attrs, p), MaxU16}
          /\ Min({IndexOf(attrs, p), MaxU16}) <= MaxU16
      BY <1>3, MaxU16Assumption, MinLemma
    <2> QED
      BY <1>3, <2>1, MaxU16Assumption
  <1> QED
    BY <1>4, <1>5

(* A window of bytes is bytes. *)
LEMMA PieceType ==
  ASSUME NEW data \in Seq(Nat), NEW o \in Nat, NEW n \in Nat
  PROVE  Piece(data, o, n) \in Seq(Nat)
  <1> DEFINE e == Min({Len(data), o + n})
  <1>1. e \in Nat /\ e <= Len(data)
    <2>1. Len(data) \in Nat /\ o + n \in Nat
      OBVIOUS
    <2>2. e \in {Len(data), o + n} /\ e <= Len(data)
      BY <2>1, MinLemma
    <2> QED
      BY <2>1, <2>2
  <1> HIDE DEF e
  <1>2. \A i \in o + 1 .. e : data[i] \in Nat
    BY <1>1
  <1>3. SubSeq(data, o + 1, e) \in Seq(Nat)
    BY <1>1, <1>2, SubSeqProperties
  <1> QED
    BY <1>3 DEF Piece, e

(* read_file finds the leaf again: bytes or an error. *)
LEMMA FileType ==
  ASSUME OpenInv, NEW ino
  PROVE  read_file(ino) \in Seq(Nat) \cup {Failed}
  <1> DEFINE l == fs_tree_root(image, map)
             items == leaf_items(NodeAt(image, map, l))
             H == ItemsOf(items, ino, "INODE_ITEM")
  <1>1. CASE ~FsTreeFound \/ H = {}
    BY <1>1 DEF read_file, ReadFromLeaf, HasInode, FsTreeLeaf
  <1>2. CASE FsTreeFound /\ H # {}
    <2>1. l \in Addr /\ Readable(image, map, l)
      BY <1>2, RootFound DEF OpenInv, FsTreeFound
    <2>2. HasRecords(items)
      BY <2>1, NodeRead DEF OpenInv
    <2>3. read_file(ino) = items[Min(H)].content
      BY <1>2 DEF read_file, ReadFromLeaf, HasInode, FsTreeLeaf, read_inode
    <2> HIDE DEF items
    <2>4. Min(H) \in H
      <3>1. H \subseteq Nat
        BY <2>2 DEF HasRecords, ItemsOf
      <3> QED
        BY <1>2, <3>1, MinLemma
    <2>5. PICK i \in DOMAIN items : i = Min(H) /\ items[i].key_type = "INODE_ITEM"
      BY <2>4 DEF ItemsOf
    <2>6. items[i].content \in Seq(Nat)
      BY <2>2, <2>5 DEF HasRecords
    <2> QED
      BY <2>3, <2>5, <2>6
  <1> QED
    BY <1>1, <1>2

(* read_at gives bytes or an error. *)
LEMMA ReadAtType ==
  ASSUME OpenInv, NEW ino, NEW stream, NEW o \in Nat, NEW n \in Nat
  PROVE  read_at(ino, stream, o, n) \in Seq(Nat) \cup {Failed}
  <1> DEFINE attrs == list_xattrs(leaf, ino)
             Hits == Indexed(attrs, stream.idx)
             p == CHOOSE q \in Hits : TRUE
  <1>1. CASE stream.type = "xattr" /\ Hits # {}
    <2>1. read_at(ino, stream, o, n) = Piece(attrs[p].value, o, n)
      BY <1>1 DEF read_at
    <2>2. p \in Hits
      BY <1>1
    <2>3. p \in DOMAIN attrs
      BY <2>2 DEF Indexed
    <2>4. attrs[p].value \in Seq(Nat)
      <3>1. HasRecords(leaf)
        BY DEF OpenInv, LeafPart
      <3> HIDE DEF p
      <3> QED
        BY <2>3, <3>1, XattrsType
    <2> HIDE DEF attrs, p
    <2> QED
      BY <2>1, <2>4, PieceType
  <1>2. CASE ~(stream.type = "xattr" /\ Hits # {})
    <2>1. read_at(ino, stream, o, n) \in {Failed, Piece(read_file(ino), o, n)}
          /\ (read_at(ino, stream, o, n) # Failed => read_file(ino) # Failed)
      BY <1>2 DEF read_at
    <2> QED
      BY <2>1, FileType, PieceType
  <1> QED
    BY <1>1, <1>2

(* Before anything was looked up. *)
LEMMA ClientInit == Init => ClientPart
  BY DEF Init, ClientPart

(* open leaves the client alone until it returns, and returns the          *)
(* client at the directory that the ROOT_ITEM names.                       *)
LEMMA OpenStepClient ==
  ASSUME OpenInv, ClientPart, OpenStep
  PROVE  ClientPart'
  <1>1. CASE ReadLeaf
    <2>1. /\ phase = "root" /\ phase' = "open" /\ trail' = <<root.root_dirid>>
          /\ UNCHANGED <<root, path, reading, got, rstatus>>
      BY <1>1 DEF ReadLeaf
    <2>2. path' = <<>> /\ Len(<<>>) = 0 /\ root.root_dirid \in Addr
      BY <2>1 DEF ClientPart, OpenInv, LeafPart
    <2>3. trail' \in Seq(Addr \cup {None}) /\ Len(trail') = 1 /\ trail'[1] = root'.root_dirid
      BY <2>1, <2>2
    <2>4. Walked'
      BY <2>2, <2>3 DEF Walked
    <2> QED
      BY <2>1, <2>3, <2>4 DEF ClientPart
  <1>2. CASE ~ReadLeaf
    <2>1. UNCHANGED <<path, trail, reading, got, rstatus>> /\ phase # "open"
      BY <1>2 DEF OpenStep, FillRead, FillEnd, FillError, NoSuperblock, ParseSuper, Walk, WalkFails,
                  NoRootItem, FindRoot, NoLeaf, OpenFails, clientVars
    <2>2. phase' \in {"fill", "super", "walk", "root", "err"}
      BY <1>2 DEF OpenStep, FillRead, FillEnd, FillError, NoSuperblock, ParseSuper, Walk, WalkFails,
                  NoRootItem, FindRoot, NoLeaf, OpenFails
    <2> QED
      BY <2>1, <2>2 DEF ClientPart
  <1> QED
    BY <1>1, <1>2

(* A lookup goes one name further, below a node that was found. *)
LEMMA LookupKeeps ==
  ASSUME OpenInv, ClientPart, Lookup
  PROVE  ClientPart'
  <1>1. /\ phase = "open" /\ rstatus = "idle" /\ Here # None
        /\ UNCHANGED <<root, leaf, phase, reading, got, rstatus>>
    BY DEF Lookup, fsVars
  <1>2. PICK name \in Names : path' = Append(path, name) /\ trail' = Append(trail, lookup(Here, name))
    BY DEF Lookup
  <1>3. path \in Seq(Names) /\ trail \in Seq(Addr \cup {None}) /\ Walked
    BY <1>1 DEF ClientPart
  <1>4. Len(path) \in Nat /\ Len(trail) = Len(path) + 1
    BY <1>3 DEF Walked
  <1>5. PICK child \in Addr \cup {None} : child = lookup(Here, name)
    BY ChildType DEF lookup, OpenInv, LeafPart
  <1>6. Here = trail[Len(path) + 1] /\ child = ChildNamed(leaf, Here, name)
    BY <1>4, <1>5 DEF Here, Last, lookup
  <1>7. /\ path' \in Seq(Names) /\ Len(path') = Len(path) + 1 /\ path'[Len(path) + 1] = name
        /\ \A i \in 1 .. Len(path) : path'[i] = path[i]
    BY <1>2, <1>3
  <1>8. /\ trail' \in Seq(Addr \cup {None}) /\ Len(trail') = Len(path) + 2 /\ trail'[Len(path) + 2] = child
        /\ \A i \in 1 .. Len(path) + 1 : trail'[i] = trail[i]
    BY <1>2, <1>3, <1>4, <1>5
  <1>9. \A n \in 1 .. Len(path') : trail'[n] # None /\ trail'[n + 1] = ChildNamed(leaf, trail'[n], path'[n])
    <2> TAKE n \in 1 .. Len(path')
    <2>1. CASE n \in 1 .. Len(path)
      <3>1. n \in 1 .. Len(path) + 1 /\ n + 1 \in 1 .. Len(path) + 1
        BY <1>4, <2>1
      <3> QED
        BY <1>3, <1>7, <1>8, <2>1, <3>1 DEF Walked
    <2>2. CASE n = Len(path) + 1
      <3>1. n \in 1 .. Len(path) + 1 /\ n + 1 = Len(path) + 2
        BY <1>4, <2>2
      <3> QED
        BY <1>1, <1>6, <1>7, <1>8, <2>2, <3>1
    <2> QED
      BY <1>4, <1>7, <2>1, <2>2
  <1>10. Walked'
    <2>1. 1 \in 1 .. Len(path) + 1 /\ Len(path) + 2 = Len(path') + 1
      BY <1>4, <1>7
    <2> QED
      BY <1>1, <1>3, <1>8, <1>9, <2>1 DEF Walked
  <1> QED
    BY <1>1, <1>7, <1>8, <1>10 DEF ClientPart

(* Every step keeps the client's part. *)
LEMMA ClientKeeps == OpenInv /\ ClientPart /\ [Next]_vars => ClientPart'
  <1> SUFFICES ASSUME OpenInv, ClientPart, [Next]_vars PROVE ClientPart'
    OBVIOUS
  <1>1. CASE OpenStep
    BY <1>1, OpenStepClient
  <1>2. CASE Lookup
    BY <1>2, LookupKeeps
  <1>3. CASE PickStream
    <2>1. /\ phase = "open" /\ reading' \in data_streams(Here) /\ rstatus' = "reading"
          /\ UNCHANGED <<root, leaf, phase, path, trail, got>>
      BY <1>3 DEF PickStream, fsVars
    <2>2. reading'.k > 1 => reading'.id \in [type : {"xattr"}, idx : 0 .. MaxU16]
      BY <2>1, StreamType DEF OpenInv, LeafPart
    <2> QED
      BY <2>1, <2>2 DEF ClientPart, Walked
  <1>4. CASE ReadPiece
    <2>1. rstatus = "reading" /\ UNCHANGED <<root, leaf, phase, path, trail, reading>>
      BY <1>4 DEF ReadPiece, fsVars
    <2>2. PICK n \in BufLens :
            LET bytes == read_at(Here, reading.id, Len(got), n)
            IN /\ got' = IF bytes = Failed THEN got ELSE got \o bytes
               /\ rstatus' = CASE bytes = Failed -> "err" [] bytes = <<>> -> "eof" [] OTHER -> "reading"
      BY <1>4 DEF ReadPiece
    <2>3. got \in Seq(Nat) /\ Len(got) \in Nat /\ n \in Nat
      BY ClientAssumption DEF ClientPart
    <2>4. PICK bytes \in Seq(Nat) \cup {Failed} : bytes = read_at(Here, reading.id, Len(got), n)
      BY <2>3, ReadAtType
    <2>5. got' = IF bytes = Failed THEN got ELSE got \o bytes
      BY <2>2, <2>4
    <2>6. rstatus' \in {"err", "eof", "reading"}
      BY <2>2, <2>4
    <2>7. got' \in Seq(Nat)
      BY <2>3, <2>4, <2>5
    <2> QED
      BY <2>1, <2>6, <2>7 DEF ClientPart, Walked
  <1>5. CASE UNCHANGED vars
    BY <1>5 DEF ClientPart, Walked, vars, fsVars, clientVars
  <1> QED
    BY <1>1, <1>2, <1>3, <1>4, <1>5 DEF Next

(* The client's part holds throughout. *)
THEOREM ClientInvariant == Spec => []ClientPart
  BY OpenInit, OpenKeeps, ClientInit, ClientKeeps, PTL DEF Spec

(* Every variable keeps its shape, whatever the source delivers; the index *)
(* of an attribute always fits 16 bits.                                    *)
THEOREM VfsTypes == Spec => []TypeOK
  <1>1. OpenInv /\ ClientPart => TypeOK
    <2> SUFFICES ASSUME OpenInv, ClientPart PROVE TypeOK
      OBVIOUS
    <2>1. source \in Sources /\ source.image.len \in Nat /\ source.image.len <= MaxU64
          /\ source.have \in 0 .. source.image.len
      BY SourceType DEF OpenInv, FillPart
    <2>2. filled \in 0 .. source.have /\ off = filled
      BY DEF OpenInv, FillPart
    <2>3. filled \in 0 .. source.image.len /\ off \in Addr
      BY <2>1, <2>2, WidthAssumption DEF Addr
    <2>4. image.len = source.image.len /\ DOMAIN image.nodes = 0 .. source.image.len
      BY DEF OpenInv, FillPart
    <2> QED
      BY <2>1, <2>3, <2>4 DEF OpenInv, WalkPart, LeafPart, ClientPart, TypeOK
  <1> QED
    BY <1>1, OpenInvariant, ClientInvariant, PTL

(* The steps of read_by_path have one solution: at every depth it is where *)
(* the client's walk is, if all nodes so far exist and those above are     *)
(* directories, and None otherwise.                                        *)
LEMMA PathSolved ==
  ASSUME path \in Seq(Names), trail \in Seq(Addr \cup {None}), Walked, root.root_dirid = RootDir
  PROVE  LET Known(i) == trail[i] # None /\ HasInode(leaf, trail[i])
         IN read_by_path(leaf, path) =
              IF /\ \A i \in 1 .. Len(path) + 1 : Known(i)
                 /\ \A i \in 1 .. Len(path) : is_dir(read_inode(leaf, trail[i]))
              THEN trail[Len(path) + 1] ELSE None
  <1> DEFINE D == 0 .. Len(path)
             Existing(id) == IF id # None /\ HasInode(leaf, id) THEN id ELSE None
             Body(g, n) == IF n = 0 THEN Existing(RootDir)
                           ELSE IF g[n - 1] = None \/ ~is_dir(read_inode(leaf, g[n - 1])) THEN None
                           ELSE Existing(ChildNamed(leaf, g[n - 1], path[n]))
             Solves(g) == g = [n \in D |-> Body(g, n)]
             at == CHOOSE g : Solves(g)
             Known(i) == trail[i] # None /\ HasInode(leaf, trail[i])
             Dir(i) == is_dir(read_inode(leaf, trail[i]))
             Good(n) == (\A i \in 1 .. n + 1 : Known(i)) /\ (\A i \in 1 .. n : Dir(i))
             h == [n \in D |-> IF Good(n) THEN trail[n + 1] ELSE None]
  <1>1. read_by_path(leaf, path) = at[Len(path)]
    BY DEF read_by_path
  <1>2. Len(path) \in Nat /\ Len(path) \in D
    OBVIOUS
  <1>3. ASSUME NEW n \in D, n # 0
        PROVE  /\ n \in 1 .. Len(path) /\ n - 1 \in D /\ n - 1 < n
               /\ (Good(n) <=> Good(n - 1) /\ Dir(n) /\ Known(n + 1))
               /\ (Good(n - 1) => trail[n] # None)
               /\ trail[n + 1] = ChildNamed(leaf, trail[n], path[n])
    <2>1. n \in Nat /\ n \in 1 .. Len(path) /\ n - 1 \in D /\ n - 1 < n /\ n - 1 + 1 = n
      BY <1>2, <1>3
    <2> HIDE DEF Known, Dir
    <2>2. 1 .. n + 1 = (1 .. n) \cup {n + 1} /\ 1 .. n = (1 .. n - 1) \cup {n} /\ n \in 1 .. n
      BY <2>1
    <2>3. Good(n) <=> Good(n - 1) /\ Dir(n) /\ Known(n + 1)
      BY <2>1, <2>2
    <2>4. Good(n - 1) => Known(n)
      BY <2>1, <2>2
    <2>5. trail[n + 1] = ChildNamed(leaf, trail[n], path[n])
      BY <2>1 DEF Walked
    <2> QED
      BY <2>1, <2>3, <2>4, <2>5 DEF Known
  <1>4. ASSUME NEW n \in D PROVE h[n] = Body(h, n)
    <2>1. CASE n = 0
      <3>1. Good(0) <=> Known(1)
        OBVIOUS
      <3>2. trail[1] = RootDir
        BY DEF Walked
      <3> QED
        BY <2>1, <3>1, <3>2
    <2>2. CASE n # 0
      <3>1. h[n - 1] = IF Good(n - 1) THEN trail[n] ELSE None
        BY <1>3, <2>2
      <3>2. h[n] = IF Good(n) THEN trail[n + 1] ELSE None
        OBVIOUS
      <3>3. Body(h, n) = IF h[n - 1] = None \/ ~is_dir(read_inode(leaf, h[n - 1])) THEN None
                         ELSE Existing(ChildNamed(leaf, h[n - 1], path[n]))
        BY <2>2
      <3>4. CASE Good(n - 1) /\ Dir(n)
        <4>1. h[n - 1] = trail[n] /\ trail[n] # None /\ (Good(n) <=> Known(n + 1))
              /\ trail[n + 1] = ChildNamed(leaf, trail[n], path[n])
          BY <1>3, <2>2, <3>1, <3>4
        <4> HIDE DEF h, Good, Body
        <4> QED
          BY <3>2, <3>3, <3>4, <4>1
      <3>5. CASE ~(Good(n - 1) /\ Dir(n))
        <4>1. ~Good(n) /\ (h[n - 1] = None \/ (h[n - 1] = trail[n] /\ ~Dir(n)))
          BY <1>3, <2>2, <3>1, <3>5
        <4> HIDE DEF h, Good, Body
        <4> QED
          BY <3>2, <3>3, <4>1
      <3> QED
        BY <3>4, <3>5
    <2> QED
      BY <2>1, <2>2
  <1>5. Solves(h)
    <2>1. h = [n \in D |-> h[n]]
      OBVIOUS
    <2> HIDE DEF h, Body
    <2> QED
      BY <1>4, <2>1
  <1>6. Solves(at)
    <2> HIDE DEF h, Solves
    <2> QED
      BY <1>5
  <1>7. \A n \in D : at[n] = h[n]
    <2> HIDE DEF h, at
    <2> DEFINE Bad == {n \in D : at[n] # h[n]}
    <2> SUFFICES ASSUME Bad # {} PROVE FALSE
      OBVIOUS
    <2>1. PICK n \in Bad : \A k \in Bad : n <= k
      <3>1. Bad \in SUBSET Nat
        BY <1>2
      <3> HIDE DEF Bad
      <3> QED
        BY <3>1, MinLemma
    <2>2. at[n] = Body(at, n) /\ h[n] = Body(h, n)
      BY <1>4, <1>6
    <2>3. CASE n = 0
      BY <2>2, <2>3
    <2>4. CASE n # 0
      <3>1. n - 1 \in D /\ n - 1 < n
        BY <1>3, <2>4
      <3>2. at[n - 1] = h[n - 1]
        BY <2>1, <3>1
      <3> QED
        BY <2>2, <2>4, <3>2
    <2> QED
      BY <2>3, <2>4
  <1> QED
    BY <1>1, <1>2, <1>7

(* A walk by lookup from root() and read_by_path come to the same node, on *)
(* every leaf and for every path, as long as the ROOT_ITEM names the usual *)
(* root directory and, for the way back, the walk goes through directories *)
(* with inodes only.                                                       *)
THEOREM WalksAgree == Spec => []PathWalkAgrees
  <1>1. ClientPart => PathWalkAgrees
    <2> SUFFICES ASSUME ClientPart, phase = "open", root.root_dirid = RootDir
                 PROVE  LET there == read_by_path(leaf, path)
                            Known(i) == trail[i] # None /\ HasInode(leaf, trail[i])
                        IN /\ there # None => Here = there
                           /\ /\ \A i \in DOMAIN trail : Known(i)
                              /\ \A i \in 1 .. Len(trail) - 1 : is_dir(read_inode(leaf, trail[i]))
                              => there = Here
      BY DEF PathWalkAgrees
    <2>1. path \in Seq(Names) /\ trail \in Seq(Addr \cup {None}) /\ Walked
      BY DEF ClientPart
    <2>2. Len(path) \in Nat /\ Len(trail) = Len(path) + 1 /\ DOMAIN trail = 1 .. Len(path) + 1
          /\ Len(trail) - 1 = Len(path)
      BY <2>1 DEF Walked
    <2>3. Here = trail[Len(path) + 1]
      BY <2>2 DEF Here, Last
    <2> QED
      BY <2>1, <2>2, <2>3, PathSolved
  <1> QED
    BY <1>1, ClientInvariant, PTL

-----------------------------------------------------------------------------
(* What was written and what is read.                                      *)

(* A list without repetitions has as many elements as places. *)
LEMMA InjectiveCount ==
  ASSUME NEW S, NEW T, NEW f \in [S -> T], IsFiniteSet(S) \/ IsFiniteSet(T),
         \A x, y \in S : f[x] = f[y] => x = y,
         \A t \in T : \E x \in S : f[x] = t
  PROVE  IsFiniteSet(S) /\ IsFiniteSet(T) /\ Cardinality(S) = Cardinality(T)
  <1>1. f \in Surjection(S, T)
    BY DEF Surjection
  <1>2. f \in Injection(S, T)
    BY DEF Injection, IsInjective
  <1>3. CASE IsFiniteSet(S)
    BY <1>1, <1>2, <1>3, FS_Surjection
  <1>4. CASE IsFiniteSet(T)
    BY <1>1, <1>2, <1>4, FS_Injection
  <1> QED
    BY <1>3, <1>4

(* open has found the leaf where read_file will find it again. *)
FoundPart ==
  /\ phase \in {"root", "open"} => fs_tree_root(image, map) # None /\ fs_tree_root(image, map) = root.bytenr
  /\ phase = "open" => /\ Readable(image, map, root.bytenr)
                       /\ leaf = leaf_items(NodeAt(image, map, root.bytenr))

(* The leaf is found once, and the buffer does not change afterwards. *)
LEMMA FoundKeeps ==
  OpenInv /\ FoundPart /\ [Next]_vars => FoundPart'
  <1> SUFFICES ASSUME OpenInv, FoundPart, [Next]_vars PROVE FoundPart'
    OBVIOUS
  <1>1. CASE FindRoot
    <2>1. UNCHANGED <<image, map>> /\ phase' = "root" /\ fs_tree_root(image, map) # None
          /\ root' = leaf_items(NodeAt(image, map, image.sb.root))[Min(FsRootItems(image, map))]
      BY <1>1 DEF FindRoot, fillVars, walkVars
    <2>2. fs_tree_root(image, map) = root'.bytenr
      BY <2>1, RootFound DEF OpenInv
    <2>3. fs_tree_root(image, map)' = fs_tree_root(image, map)
      BY <2>1
    <2> QED
      BY <2>1, <2>2, <2>3 DEF FoundPart
  <1>2. CASE ReadLeaf
    <2>1. UNCHANGED <<image, map, root>> /\ phase' = "open"
          /\ phase = "root" /\ Readable(image, map, root.bytenr)
          /\ leaf' = leaf_items(NodeAt(image, map, root.bytenr))
      BY <1>2 DEF ReadLeaf, fillVars, walkVars
    <2> QED
      BY <2>1 DEF FoundPart
  <1>3. CASE Lookup \/ PickStream \/ ReadPiece \/ UNCHANGED vars
    <2>1. UNCHANGED <<image, map, root, leaf, phase>>
      BY <1>3 DEF Lookup, PickStream, ReadPiece, vars, fillVars, walkVars, fsVars
    <2> QED
      BY <2>1 DEF FoundPart
  <1>4. CASE OpenStep /\ ~FindRoot /\ ~ReadLeaf
    <2>1. phase' \notin {"root", "open"}
      BY <1>4 DEF OpenStep, FillRead, FillEnd, FillError, NoSuperblock, ParseSuper, Walk, WalkFails,
                  NoRootItem, NoLeaf, OpenFails
    <2> QED
      BY <2>1 DEF FoundPart
  <1> QED
    BY <1>1, <1>2, <1>3, <1>4 DEF Next

(* The invariants of open, of the client and of the leaf, together. *)
LEMMA FoundInvariant == Spec => []FoundPart
  <1>1. Init => FoundPart
    BY DEF Init, FoundPart
  <1> QED
    BY <1>1, OpenInvariant, FoundKeeps, PTL DEF Spec

(* An undamaged leaf holds the filesystem that was written. *)
LEMMA LeafHeld ==
  ASSUME OpenInv, FoundPart, Undamaged
  PROVE  HasRecords(leaf) /\ Holds(leaf, fs)
  <1>1. phase = "open" /\ leaf = source.image.nodes[source.fs_at].items /\ ~source.damaged
    BY DEF Undamaged
  <1>2. /\ source \in Sources /\ fs_tree_root(image, map) # None
        /\ fs_tree_root(image, map) = root.bytenr /\ Readable(image, map, root.bytenr)
        /\ FillPart /\ WalkPart /\ root.bytenr \in Addr
    BY <1>1 DEF OpenInv, FillPart, FoundPart, LeafPart
  <1>3. \A c \in C : Inside(c, root.bytenr) => SysChunkLookup(c, root.bytenr) = source.fs_at
    BY <1>2, RootFound
  <1>4. PICK c \in C : Inside(c, root.bytenr)
    BY <1>2, NodeRead
  <1>5. InImage(image, source.fs_at) /\ Parses(image)
    BY <1>2, <1>3, <1>4 DEF Inside, InImage, Readable, FillPart
  <1>6. source.fs_at \in 0 .. source.image.len
    <2>1. Translate(image, map, root.bytenr) # None
      BY <1>2 DEF Readable
    <2>2. PICK d \in C : /\ Translate(image, map, root.bytenr) = SysChunkLookup(d, root.bytenr)
                         /\ SysChunkLookup(d, root.bytenr) \in Nat
      BY <1>2, <2>1, ReadPlace
    <2>3. Inside(d, root.bytenr)
      BY <1>2, <2>1, <2>2 DEF Inside, Readable, InImage, FillPart
    <2>4. source.fs_at \in Nat
      BY <1>3, <2>2, <2>3
    <2> QED
      BY <1>2, <1>5, <2>4, BufferNode
  <1>7. Holds(leaf, fs)
    BY <1>1, <1>2, <1>6, SourcesAssumption DEF IsSource, fs
  <1> QED
    BY <1>7 DEF OpenInv, LeafPart

(* read_inode returns the inode that was written. *)
LEMMA InodeRead ==
  ASSUME HasRecords(leaf), Holds(leaf, fs), NEW i \in DOMAIN fs.mode
  PROVE  /\ HasInode(leaf, i)
         /\ read_inode(leaf, i).mode = fs.mode[i] /\ read_inode(leaf, i).content = fs.content[i]
         /\ read_inode(leaf, i).content \in Seq(Nat)
         /\ read_inode(leaf, i).size = Len(fs.content[i])
         /\ read_inode(leaf, i).nlink = Cardinality(RefsTo(fs, i))
  <1> DEFINE H == ItemsOf(leaf, i, "INODE_ITEM")
  <1>1. InodeHeld(leaf, fs, i)
    BY DEF Holds
  <1>2. H # {} /\ HasInode(leaf, i)
    BY <1>1 DEF InodeHeld, HasInode
  <1>3. H \subseteq Nat
    BY DEF ItemsOf, HasRecords
  <1>4. PICK k \in H : k = Min(H)
    <2> HIDE DEF H
    <2> QED
      BY <1>2, <1>3, MinLemma
  <1>5. read_inode(leaf, i) = leaf[k]
    BY <1>4 DEF read_inode
  <1>6. leaf[k].content \in Seq(Nat)
    BY <1>4 DEF HasRecords, ItemsOf
  <1> QED
    BY <1>1, <1>2, <1>4, <1>5, <1>6 DEF InodeHeld

(* list_dir: every naming item's entry is in the list, and no name and     *)
(* child twice.                                                            *)
LEMMA ListingLemma ==
  ASSUME HasRecords(leaf), NEW dir
  PROVE  LET entries == list_dir(leaf, dir)
             Naming == {k \in DOMAIN leaf : NamesChild(leaf[k], dir)}
         IN /\ DOMAIN entries \subseteq Naming /\ IsFiniteSet(DOMAIN entries)
            /\ \A k \in DOMAIN entries : entries[k] = parse_dir_item(leaf[k])
            /\ \A k \in Naming : \E j \in DOMAIN entries :
                 /\ entries[j].name = parse_dir_item(leaf[k]).name
                 /\ entries[j].child = parse_dir_item(leaf[k]).child
            /\ \A j, k \in DOMAIN entries :
                 entries[j].name = entries[k].name /\ entries[j].child = entries[k].child => j = k
  <1> DEFINE entries == list_dir(leaf, dir)
             Naming == {k \in DOMAIN leaf : NamesChild(leaf[k], dir)}
             Same(i, j) == /\ parse_dir_item(leaf[i]).name = parse_dir_item(leaf[j]).name
                           /\ parse_dir_item(leaf[i]).child = parse_dir_item(leaf[j]).child
             Kept == {k \in Naming : ~\E j \in Naming : j < k /\ Same(j, k)}
  <1>1. entries = [k \in Kept |-> parse_dir_item(leaf[k])]
    BY DEF list_dir
  <1>2. DOMAIN entries = Kept /\ \A k \in Kept : entries[k] = parse_dir_item(leaf[k])
    BY <1>1
  <1>3. Naming \subseteq Nat /\ Kept \subseteq Naming /\ Kept \subseteq DOMAIN leaf
    BY DEF HasRecords
  <1>4. IsFiniteSet(Kept)
    <2>1. IsFiniteSet(DOMAIN leaf)
      BY DEF HasRecords
    <2> HIDE DEF Kept
    <2> QED
      BY <1>3, <2>1, FS_Subset
  <1>5. ASSUME NEW k \in Naming PROVE \E j \in Kept : Same(j, k)
    <2> DEFINE Alike == {j \in Naming : Same(j, k)}
    <2>1. k \in Alike /\ Alike \subseteq Nat
      BY <1>3
    <2>2. PICK j \in Alike : \A x \in Alike : j <= x
      <3> HIDE DEF Alike
      <3> QED
        BY <2>1, MinLemma
    <2>3. j \in Naming /\ Same(j, k)
      BY <2>2
    <2>4. ASSUME NEW x \in Naming, x < j, Same(x, j) PROVE FALSE
      <3>1. x \in Alike
        BY <2>3, <2>4
      <3>2. j <= x /\ x \in Nat /\ j \in Nat
        BY <1>3, <2>2, <2>3, <3>1
      <3> QED
        BY <2>4, <3>2
    <2> QED
      BY <2>3, <2>4
  <1>6. ASSUME NEW j \in Kept, NEW k \in Kept, Same(j, k) PROVE j = k
    <2>1. j \in Nat /\ k \in Nat /\ j \in Naming /\ k \in Naming
      BY <1>3
    <2>2. ~(j < k) /\ ~(k < j)
      BY <1>6, <2>1
    <2> QED
      BY <2>1, <2>2
  <1> HIDE DEF entries, Kept
  <1>7. \A k \in Naming : \E j \in DOMAIN entries :
          /\ entries[j].name = parse_dir_item(leaf[k]).name
          /\ entries[j].child = parse_dir_item(leaf[k]).child
    BY <1>2, <1>5
  <1>8. \A j, k \in DOMAIN entries :
          entries[j].name = entries[k].name /\ entries[j].child = entries[k].child => j = k
    BY <1>2, <1>6
  <1> QED
    BY <1>2, <1>3, <1>4, <1>7, <1>8 DEF entries

(* read_dir shows the links of a directory, each once and with the kind of *)
(* its inode.                                                              *)
LEMMA DirShown ==
  ASSUME HasRecords(leaf), Holds(leaf, fs), NEW i \in DOMAIN fs.mode
  PROVE  LET listing == ToSet(read_dir(i))
         IN /\ {<<e.name, e.id>> : e \in listing} =
                 {<<Lossy[l.name], l.child>> : l \in {x \in fs.links : x.dir = i}}
            /\ Cardinality(DOMAIN read_dir(i)) = Cardinality({<<e.name, e.id>> : e \in listing})
            /\ \A e \in listing : meta(e.id).kind \in {e.kind, "device"}
  <1> DEFINE entries == list_dir(leaf, i)
             Naming == {k \in DOMAIN leaf : NamesChild(leaf[k], i)}
             Links == {x \in fs.links : x.dir = i}
             D == DOMAIN entries
             shown == read_dir(i)
             listing == ToSet(shown)
             Pairs == {<<e.name, e.id>> : e \in listing}
  <1>1. /\ D \subseteq Naming /\ IsFiniteSet(D)
        /\ \A k \in D : entries[k] = parse_dir_item(leaf[k])
        /\ \A k \in Naming : \E j \in D :
             /\ entries[j].name = parse_dir_item(leaf[k]).name
             /\ entries[j].child = parse_dir_item(leaf[k]).child
        /\ \A j, k \in D :
             entries[j].name = entries[k].name /\ entries[j].child = entries[k].child => j = k
    BY ListingLemma
  <1>2. /\ DOMAIN shown = D
        /\ \A k \in D : /\ shown[k].name = entries[k].name
                       /\ shown[k].id = entries[k].child
                       /\ shown[k].kind = dirent_kind(entries[k].item_type)
    BY DEF read_dir
  <1>3. \A k \in Naming : /\ parse_dir_item(leaf[k]).name = Lossy[leaf[k].recs[1].name]
                         /\ parse_dir_item(leaf[k]).child = leaf[k].recs[1].child
                         /\ parse_dir_item(leaf[k]).item_type = leaf[k].recs[1].type
    BY DEF parse_dir_item
  <1>4. /\ \A k \in Naming : \E l \in Links : /\ leaf[k].recs[1].name = l.name
                                             /\ leaf[k].recs[1].child = l.child
                                             /\ leaf[k].recs[1].type = fs.mode[l.child]
        /\ \A l \in Links : \E k \in Naming : /\ leaf[k].recs[1].name = l.name
                                             /\ leaf[k].recs[1].child = l.child
    <2>1. LinksHeld(leaf, fs, i)
      BY DEF Holds
    <2>2. /\ ItemsOf(leaf, i, "DIR_INDEX") \cup ItemsOf(leaf, i, "DIR_ITEM") \subseteq DOMAIN leaf
          /\ \A k \in DOMAIN leaf :
               k \in Naming <=> /\ k \in ItemsOf(leaf, i, "DIR_INDEX") \cup ItemsOf(leaf, i, "DIR_ITEM")
                               /\ leaf[k].recs # <<>>
      BY DEF ItemsOf, NamesChild
    <2> QED
      BY <2>1, <2>2 DEF LinksHeld
  <1>5. \A l \in Links : l.child \in DOMAIN fs.mode
    BY DEF Holds
  <1> HIDE DEF entries, Naming, Links, D, shown
  <1>6. Pairs = {<<shown[k].name, shown[k].id>> : k \in D}
    BY <1>2 DEF ToSet
  <1>7. ASSUME NEW k \in D
        PROVE  \E l \in Links : /\ shown[k].name = Lossy[l.name] /\ shown[k].id = l.child
                               /\ shown[k].kind = dirent_kind(fs.mode[l.child])
    <2>1. k \in Naming
      BY <1>1
    <2>2. PICK l \in Links : /\ leaf[k].recs[1].name = l.name /\ leaf[k].recs[1].child = l.child
                             /\ leaf[k].recs[1].type = fs.mode[l.child]
      BY <1>4, <2>1
    <2>3. /\ shown[k].name = parse_dir_item(leaf[k]).name
          /\ shown[k].id = parse_dir_item(leaf[k]).child
          /\ shown[k].kind = dirent_kind(parse_dir_item(leaf[k]).item_type)
      BY <1>1, <1>2
    <2> QED
      BY <1>3, <2>1, <2>2, <2>3
  <1>8. ASSUME NEW l \in Links
        PROVE  \E k \in D : shown[k].name = Lossy[l.name] /\ shown[k].id = l.child
    <2>1. PICK j \in Naming : leaf[j].recs[1].name = l.name /\ leaf[j].recs[1].child = l.child
      BY <1>4
    <2>2. PICK k \in D : /\ entries[k].name = parse_dir_item(leaf[j]).name
                         /\ entries[k].child = parse_dir_item(leaf[j]).child
      BY <1>1
    <2> QED
      BY <1>2, <1>3, <2>1, <2>2
  <1>9. Pairs = {<<Lossy[l.name], l.child>> : l \in Links}
    <2> HIDE DEF Pairs
    <2>1. ASSUME NEW x \in Pairs PROVE x \in {<<Lossy[l.name], l.child>> : l \in Links}
      <3>1. PICK k \in D : x = <<shown[k].name, shown[k].id>>
        BY <1>6
      <3>2. PICK l \in Links : shown[k].name = Lossy[l.name] /\ shown[k].id = l.child
        BY <1>7
      <3> QED
        BY <3>1, <3>2
    <2>2. ASSUME NEW x \in {<<Lossy[l.name], l.child>> : l \in Links} PROVE x \in Pairs
      <3>1. PICK l \in Links : x = <<Lossy[l.name], l.child>>
        OBVIOUS
      <3>2. PICK k \in D : shown[k].name = Lossy[l.name] /\ shown[k].id = l.child
        BY <1>8
      <3> QED
        BY <1>6, <3>1, <3>2
    <2> QED
      BY <2>1, <2>2
  <1>10. Cardinality(D) = Cardinality(Pairs)
    <2> DEFINE f == [k \in D |-> <<shown[k].name, shown[k].id>>]
    <2>1. f \in [D -> Pairs] /\ \A t \in Pairs : \E k \in D : f[k] = t
      BY <1>6
    <2>2. \A j, k \in D : f[j] = f[k] => j = k
      <3> SUFFICES ASSUME NEW j \in D, NEW k \in D, f[j] = f[k] PROVE j = k
        OBVIOUS
      <3>1. shown[j].name = shown[k].name /\ shown[j].id = shown[k].id
        OBVIOUS
      <3> QED
        BY <1>1, <1>2, <3>1
    <2> HIDE DEF f, Pairs
    <2> QED
      BY <1>1, <2>1, <2>2, InjectiveCount
  <1>11. ASSUME NEW e \in listing PROVE meta(e.id).kind \in {e.kind, "device"}
    <2>1. PICK k \in D : e = shown[k]
      BY <1>2 DEF ToSet
    <2>2. PICK l \in Links : e.id = l.child /\ e.kind = dirent_kind(fs.mode[l.child])
      BY <1>7, <2>1
    <2>3. PICK c \in DOMAIN fs.mode : c = l.child
      BY <1>5
    <2>4. read_inode(leaf, c).mode = fs.mode[c]
      BY InodeRead
    <2>5. meta(c).kind = inode_kind(read_inode(leaf, c))
      BY DEF meta
    <2>6. PICK m : m = fs.mode[c]
      OBVIOUS
    <2>7. /\ m \in {"reg", "dir", "lnk"} => meta(c).kind = m /\ dirent_kind(m) = m
          /\ m \in {"chr", "blk"} => meta(c).kind = "device"
          /\ m \notin {"reg", "dir", "lnk", "chr", "blk"} => meta(c).kind = "other" /\ dirent_kind(m) = "other"
      BY <2>4, <2>5, <2>6 DEF inode_kind, dirent_kind
    <2> QED
      BY <2>2, <2>3, <2>6, <2>7
  <1> QED
    BY <1>2, <1>9, <1>10, <1>11 DEF shown, Links

(* hardlinks names every reference to an inode, and meta counts them. *)
LEMMA RefsNamed ==
  ASSUME HasRecords(leaf), Holds(leaf, fs), NEW i \in DOMAIN fs.mode
  PROVE  /\ ToSet(hardlinks(i)) =
              {[parent |-> l.dir, name |-> Lossy[l.name]] : l \in RefsTo(fs, i)}
         /\ Cardinality(DOMAIN hardlinks(i)) = meta(i).nlink
  <1> DEFINE At == Places(leaf, i, "INODE_REF")
             Links == RefsTo(fs, i)
             named == hardlinks(i)
  <1>1. /\ {RefAt(leaf, i, p) : p \in At} = Links
        /\ \A p, q \in At : RefAt(leaf, i, p) = RefAt(leaf, i, q) => p = q
    <2>1. RefsHeld(leaf, fs, i)
      BY DEF Holds
    <2> QED
      BY <2>1 DEF RefsHeld
  <1>2. /\ DOMAIN named = At
        /\ \A p \in At : named[p] = [parent |-> leaf[p[1]].offset, name |-> Lossy[leaf[p[1]].recs[p[2]].name]]
    BY DEF hardlinks, list_inode_refs
  <1>3. \A p \in At : LET l == RefAt(leaf, i, p)
                      IN named[p] = [parent |-> l.dir, name |-> Lossy[l.name]]
    BY <1>2 DEF RefAt
  <1>4. IsFiniteSet(Links) /\ meta(i).nlink = Cardinality(Links)
    <2>1. IsFiniteSet(fs.links)
      BY DEF Holds
    <2>2. IsFiniteSet(Links)
      <3>1. PICK L : L = {x \in fs.links : x.child = i}
        OBVIOUS
      <3>2. IsFiniteSet(L)
        BY <2>1, <3>1, FS_Subset
      <3>3. Links = L \/ \E r : Links = L \cup {r}
        BY <3>1 DEF RefsTo
      <3> HIDE DEF Links
      <3> QED
        BY <3>2, <3>3, FS_AddElement
    <2>3. read_inode(leaf, i).nlink = Cardinality(Links)
      BY InodeRead
    <2> QED
      BY <2>2, <2>3 DEF meta
  <1> HIDE DEF At, Links, named
  <1>5. ToSet(named) = {[parent |-> l.dir, name |-> Lossy[l.name]] : l \in Links}
    <2>1. ToSet(named) = {named[p] : p \in At}
      BY <1>2 DEF ToSet
    <2>2. ASSUME NEW x \in ToSet(named) PROVE x \in {[parent |-> l.dir, name |-> Lossy[l.name]] : l \in Links}
      <3>1. PICK p \in At : x = named[p]
        BY <2>1
      <3>2. PICK l \in Links : l = RefAt(leaf, i, p)
        BY <1>1
      <3> QED
        BY <1>3, <3>1, <3>2
    <2>3. ASSUME NEW l \in Links PROVE [parent |-> l.dir, name |-> Lossy[l.name]] \in ToSet(named)
      <3>1. PICK p \in At : l = RefAt(leaf, i, p)
        BY <1>1
      <3> QED
        BY <1>3, <2>1, <3>1
    <2> QED
      BY <2>2, <2>3
  <1>6. Cardinality(At) = Cardinality(Links)
    <2> DEFINE f == [p \in At |-> RefAt(leaf, i, p)]
    <2>1. /\ f \in [At -> Links] /\ \A t \in Links : \E p \in At : f[p] = t
          /\ \A p, q \in At : f[p] = f[q] => p = q
      BY <1>1
    <2> HIDE DEF f
    <2> QED
      BY <1>4, <2>1, InjectiveCount
  <1> QED
    BY <1>2, <1>4, <1>5, <1>6 DEF Links, named

(* For every filesystem the kernel wrote into the leaf, read_dir and       *)
(* hardlinks show each link from both of its ends, exactly once, the root  *)
(* directory's ".." from one end only, and meta agrees with them on its    *)
(* kind and on the number of links.                                        *)
THEOREM LinksAgree == Spec => []LinksBothWays
  <1>1. OpenInv /\ FoundPart => LinksBothWays
    <2> SUFFICES ASSUME OpenInv, FoundPart, Undamaged
                 PROVE  LinksBothWays
      BY DEF LinksBothWays
    <2>1. HasRecords(leaf) /\ Holds(leaf, fs)
      BY LeafHeld
    <2> QED
      BY <2>1, DirShown, RefsNamed DEF LinksBothWays
  <1> QED
    BY <1>1, OpenInvariant, FoundInvariant, PTL

-----------------------------------------------------------------------------
(* The streams.                                                            *)

(* What was read so far is the start of the stream, and at the end all of  *)
(* it.                                                                     *)
ReadSoFar(w) ==
  /\ Len(got) <= Len(w) /\ \A i \in 1 .. Len(got) : got[i] = w[i]
  /\ rstatus = "eof" => Len(got) = Len(w)

StreamPart ==
  LET attrs == list_xattrs(leaf, Here)
  IN /\ rstatus = "idle" => got = <<>>
     /\ rstatus # "idle" =>
          /\ reading \in data_streams(Here)
          /\ reading.k = 1 /\ read_file(Here) # Failed => rstatus # "err" /\ ReadSoFar(read_file(Here))
          /\ reading.k > 1 /\ reading.k - 2 <= MaxU16 =>
               /\ rstatus # "err"
               /\ \E p \in DOMAIN attrs : reading = XattrStream(attrs, p) /\ ReadSoFar(attrs[p].value)

(* The places of an inode's attributes are pairs of numbers. *)
LEMMA PlacesType ==
  ASSUME HasRecords(leaf), NEW ino, NEW p \in DOMAIN list_xattrs(leaf, ino)
  PROVE  /\ p \in Places(leaf, ino, "XATTR_ITEM")
         /\ p = <<p[1], p[2]>> /\ p[1] \in Nat /\ p[2] \in Nat
  <1>1. p \in Places(leaf, ino, "XATTR_ITEM")
    BY DEF list_xattrs
  <1>2. PICK i \in ItemsOf(leaf, ino, "XATTR_ITEM") : p \in {i} \X DOMAIN leaf[i].recs
    BY <1>1 DEF Places
  <1>3. i \in Nat /\ DOMAIN leaf[i].recs \subseteq Nat
    BY DEF ItemsOf, HasRecords
  <1> QED
    BY <1>1, <1>2, <1>3

(* Two attributes have different places in the list. *)
LEMMA IndexInjective ==
  ASSUME HasRecords(leaf), NEW ino,
         NEW p \in DOMAIN list_xattrs(leaf, ino), NEW q \in DOMAIN list_xattrs(leaf, ino),
         IndexOf(list_xattrs(leaf, ino), p) = IndexOf(list_xattrs(leaf, ino), q)
  PROVE  p = q
  <1> PICK L : L = list_xattrs(leaf, ino)
    OBVIOUS
  <1>1. IsFiniteSet(DOMAIN L) /\ p \in DOMAIN L /\ q \in DOMAIN L
    BY XattrsType
  <1>2. \A x \in DOMAIN L : x = <<x[1], x[2]>> /\ x[1] \in Nat /\ x[2] \in Nat
    BY PlacesType
  <1>3. ASSUME NEW x \in DOMAIN L, NEW y \in DOMAIN L, Before(x, y)
        PROVE  IndexOf(L, x) # IndexOf(L, y)
    <2> DEFINE Sx == {z \in DOMAIN L : Before(z, x)}
               Sy == {z \in DOMAIN L : Before(z, y)}
    <2>1. ASSUME NEW z \in DOMAIN L, Before(z, x) PROVE Before(z, y)
      BY <1>2, <1>3, <2>1 DEF Before
    <2>2. ~Before(x, x)
      BY <1>2 DEF Before
    <2>3. Sx \subseteq Sy /\ x \in Sy /\ x \notin Sx
      BY <1>3, <2>1, <2>2
    <2>4. IsFiniteSet(Sy)
      BY <1>1, FS_Subset
    <2>5. IndexOf(L, x) = Cardinality(Sx) /\ IndexOf(L, y) = Cardinality(Sy)
      BY DEF IndexOf
    <2> HIDE DEF Sx, Sy
    <2> QED
      BY <2>3, <2>4, <2>5, FS_Subset
  <1>4. p = q \/ Before(p, q) \/ Before(q, p)
    <2>1. /\ p = <<p[1], p[2]>> /\ p[1] \in Nat /\ p[2] \in Nat
          /\ q = <<q[1], q[2]>> /\ q[1] \in Nat /\ q[2] \in Nat
      BY <1>1, <1>2
    <2>2. p[1] = q[1] /\ p[2] = q[2] => p = q
      BY <2>1
    <2> QED
      BY <2>1, <2>2 DEF Before
  <1> QED
    BY <1>1, <1>3, <1>4

(* The stream of an attribute: a place, an index, a name and a size; two   *)
(* attributes have different ones.                                         *)
LEMMA StreamsDiffer ==
  ASSUME HasRecords(leaf), NEW ino
  PROVE  LET attrs == list_xattrs(leaf, ino)
         IN /\ \A p \in DOMAIN attrs :
                 /\ XattrStream(attrs, p).k = IndexOf(attrs, p) + 2
                 /\ IndexOf(attrs, p) \in Nat
                 /\ XattrStream(attrs, p).name = attrs[p].name
                 /\ XattrStream(attrs, p).size = Len(attrs[p].value)
                 /\ XattrStream(attrs, p).id.type = "xattr"
                 /\ IndexOf(attrs, p) <= MaxU16 => XattrStream(attrs, p).id.idx = IndexOf(attrs, p)
            /\ \A p, q \in DOMAIN attrs : XattrStream(attrs, p) = XattrStream(attrs, q) => p = q
            /\ ContentStream(ino).k = 1
            /\ ContentStream(ino) \notin {XattrStream(attrs, p) : p \in DOMAIN attrs}
  <1> PICK attrs : attrs = list_xattrs(leaf, ino)
    OBVIOUS
  <1>1. \A p \in DOMAIN attrs : IndexOf(attrs, p) \in Nat
    BY XattrsType, IndexType
  <1>2. ASSUME NEW p \in DOMAIN attrs
        PROVE  /\ XattrStream(attrs, p).k = IndexOf(attrs, p) + 2
               /\ XattrStream(attrs, p).name = attrs[p].name
               /\ XattrStream(attrs, p).size = Len(attrs[p].value)
               /\ XattrStream(attrs, p).id.type = "xattr"
               /\ IndexOf(attrs, p) <= MaxU16 => XattrStream(attrs, p).id.idx = IndexOf(attrs, p)
    <2>1. PICK n \in Nat : n = IndexOf(attrs, p)
      BY <1>1
    <2>2. n <= MaxU16 => Min({n, MaxU16}) = n
      <3>1. Min({n, MaxU16}) \in {n, MaxU16} /\ Min({n, MaxU16}) <= n
        BY MaxU16Assumption, MinLemma
      <3> QED
        BY <3>1, MaxU16Assumption
    <2> QED
      BY <2>1, <2>2 DEF XattrStream, XattrId
  <1>3. ContentStream(ino).k = 1
    BY DEF ContentStream
  <1>4. \A p, q \in DOMAIN attrs : XattrStream(attrs, p) = XattrStream(attrs, q) => p = q
    <2> SUFFICES ASSUME NEW p \in DOMAIN attrs, NEW q \in DOMAIN attrs,
                        XattrStream(attrs, p) = XattrStream(attrs, q)
                 PROVE  p = q
      OBVIOUS
    <2>1. IndexOf(attrs, p) + 2 = IndexOf(attrs, q) + 2
      BY <1>2
    <2>2. IndexOf(attrs, p) = IndexOf(attrs, q)
      BY <1>1, <2>1
    <2> QED
      BY <2>2, IndexInjective
  <1>5. \A p \in DOMAIN attrs : XattrStream(attrs, p).k # 1
    <2>1. \A n \in Nat : n + 2 # 1
      OBVIOUS
    <2> QED
      BY <1>1, <1>2, <2>1
  <1>6. ContentStream(ino) \notin {XattrStream(attrs, p) : p \in DOMAIN attrs}
    BY <1>3, <1>5
  <1> QED
    BY <1>1, <1>2, <1>3, <1>4, <1>6

(* A read of n bytes returns the next ones; none only at the end. *)
LEMMA PieceLemma ==
  ASSUME NEW w \in Seq(Nat), NEW o \in Nat, NEW n \in Nat \ {0}, o <= Len(w)
  PROVE  LET b == Piece(w, o, n)
         IN /\ b \in Seq(Nat) /\ b # Failed
            /\ o + Len(b) <= Len(w)
            /\ \A i \in 1 .. Len(b) : b[i] = w[o + i]
            /\ b = <<>> => o = Len(w)
            /\ n >= Len(w) - o => o + Len(b) = Len(w)
  <1> PICK b : b = Piece(w, o, n)
    OBVIOUS
  <1>1. PICK e : e = Min({Len(w), o + n})
    OBVIOUS
  <1>2. /\ e \in {Len(w), o + n} /\ e <= Len(w) /\ e <= o + n
    <2>1. Len(w) \in Nat /\ o + n \in Nat
      OBVIOUS
    <2> QED
      BY <1>1, <2>1, MinLemma
  <1>3. e \in Nat /\ e >= o /\ (o < Len(w) => e > o) /\ (n >= Len(w) - o => e = Len(w))
    BY <1>2
  <1>4. b = SubSeq(w, o + 1, e)
    BY <1>1 DEF Piece
  <1>5. /\ b \in Seq(Nat)
        /\ Len(b) = IF o + 1 <= e THEN e - (o + 1) + 1 ELSE 0
        /\ \A i \in 1 .. e - (o + 1) + 1 : b[i] = w[(o + 1) + i - 1]
    <2>1. \A i \in o + 1 .. e : w[i] \in Nat
      BY <1>2, <1>3
    <2>2. PICK m \in Int : m = o + 1
      OBVIOUS
    <2>3. /\ SubSeq(w, m, e) \in Seq(Nat)
          /\ Len(SubSeq(w, m, e)) = IF m <= e THEN e - m + 1 ELSE 0
          /\ \A i \in 1 .. e - m + 1 : SubSeq(w, m, e)[i] = w[m + i - 1]
      BY <1>3, <2>1, <2>2, SubSeqProperties
    <2> QED
      BY <1>4, <2>2, <2>3
  <1>6. Len(b) = e - o
    BY <1>3, <1>5
  <1>7. \A i \in 1 .. Len(b) : b[i] = w[o + i]
    <2> SUFFICES ASSUME NEW i \in 1 .. Len(b) PROVE b[i] = w[o + i]
      OBVIOUS
    <2>1. i \in 1 .. e - (o + 1) + 1 /\ (o + 1) + i - 1 = o + i
      BY <1>3, <1>6
    <2> QED
      BY <1>5, <2>1
  <1>8. b # Failed
    <2> SUFFICES ASSUME b = Failed PROVE FALSE
      OBVIOUS
    <2>1. Failed[1] = -1 /\ Len(Failed) = 1
      BY DEF Failed, None
    <2>2. \A s \in Seq(Nat) : Len(s) = 1 => s[1] \in Nat
      <3> SUFFICES ASSUME NEW s \in Seq(Nat), Len(s) = 1 PROVE s[1] \in Nat
        OBVIOUS
      <3>1. 1 \in 1 .. Len(s)
        OBVIOUS
      <3> QED
        BY <3>1, ElementOfSeq
    <2>3. Failed \in Seq(Nat)
      BY <1>5
    <2> QED
      BY <2>1, <2>2, <2>3
  <1>9. b = <<>> => o = Len(w)
    <2>1. b = <<>> => Len(b) = 0
      OBVIOUS
    <2> QED
      BY <1>3, <1>6, <2>1
  <1>10. o + Len(b) = e
    BY <1>3, <1>6
  <1> QED
    BY <1>2, <1>3, <1>5, <1>7, <1>8, <1>9, <1>10

(* One read continues the stream where the last one ended. *)
LEMMA PieceContinues ==
  ASSUME NEW w \in Seq(Nat), NEW n \in Nat \ {0}, got \in Seq(Nat), rstatus = "reading", ReadSoFar(w),
         NEW bytes, bytes = Piece(w, Len(got), n),
         got' = IF bytes = Failed THEN got ELSE got \o bytes,
         rstatus' = CASE bytes = Failed -> "err" [] bytes = <<>> -> "eof" [] OTHER -> "reading"
  PROVE  rstatus' # "err" /\ ReadSoFar(w)'
  <1>1. PICK o : o = Len(got)
    OBVIOUS
  <1>2. /\ o \in Nat /\ o <= Len(w) /\ Len(w) \in Nat
        /\ \A i \in 1 .. o : got[i] = w[i]
    BY <1>1 DEF ReadSoFar
  <1>3. /\ bytes \in Seq(Nat) /\ bytes # Failed
        /\ o + Len(bytes) <= Len(w)
        /\ \A i \in 1 .. Len(bytes) : bytes[i] = w[o + i]
        /\ bytes = <<>> => o = Len(w)
    BY <1>1, <1>2, PieceLemma
  <1>4. got' = got \o bytes /\ rstatus' \in {"eof", "reading"} /\ (rstatus' = "eof" => bytes = <<>>)
    BY <1>3
  <1>5. /\ Len(got') = o + Len(bytes)
        /\ \A i \in 1 .. o + Len(bytes) : got'[i] = IF i <= o THEN got[i] ELSE bytes[i - o]
    BY <1>1, <1>3, <1>4
  <1>6. ASSUME NEW i \in 1 .. o + Len(bytes) PROVE got'[i] = w[i]
    <2>1. CASE i <= o
      BY <1>2, <1>5, <2>1
    <2>2. CASE ~(i <= o)
      <3>1. i - o \in 1 .. Len(bytes) /\ o + (i - o) = i
        BY <1>2, <1>3, <2>2
      <3>2. bytes[i - o] = w[i]
        BY <1>3, <3>1
      <3> QED
        BY <1>5, <2>2, <3>2
    <2> QED
      BY <2>1, <2>2
  <1>7. rstatus' = "eof" => Len(got') = Len(w)
    <2>1. bytes = <<>> => Len(bytes) = 0
      OBVIOUS
    <2> QED
      BY <1>2, <1>3, <1>4, <1>5, <2>1
  <1> QED
    BY <1>3, <1>4, <1>5, <1>6, <1>7 DEF ReadSoFar

(* The client's reads go through the stream it picked. *)
LEMMA StreamKeeps ==
  OpenInv /\ FoundPart /\ ClientPart /\ StreamPart /\ [Next]_vars => StreamPart'
  <1> SUFFICES ASSUME OpenInv, FoundPart, ClientPart, StreamPart, [Next]_vars PROVE StreamPart'
    OBVIOUS
  <1>1. CASE OpenStep
    <2>1. UNCHANGED <<got, rstatus>> /\ phase # "open"
      BY <1>1 DEF OpenStep, FillRead, FillEnd, FillError, NoSuperblock, ParseSuper, Walk, WalkFails,
                  NoRootItem, FindRoot, NoLeaf, ReadLeaf, OpenFails, clientVars
    <2> QED
      BY <2>1 DEF ClientPart, StreamPart
  <1>2. CASE Lookup
    <2>1. UNCHANGED <<got, rstatus>> /\ rstatus = "idle"
      BY <1>2 DEF Lookup
    <2> QED
      BY <2>1 DEF StreamPart
  <1>3. CASE PickStream \/ ReadPiece \/ UNCHANGED vars
    <2>1. UNCHANGED <<image, map, leaf, trail>>
      BY <1>3 DEF PickStream, ReadPiece, vars, fillVars, walkVars, fsVars, clientVars
    <2>2. /\ Here' = Here
          /\ list_xattrs(leaf, Here)' = list_xattrs(leaf, Here)
          /\ read_file(Here)' = read_file(Here)
          /\ data_streams(Here)' = data_streams(Here)
      BY <2>1 DEF Here, read_file, FsTreeFound, FsTreeLeaf, data_streams, ContentStream
    <2> PICK here : here = Here
      OBVIOUS
    <2> PICK attrs : attrs = list_xattrs(leaf, here)
      OBVIOUS
    <2> PICK data : data = read_file(here)
      OBVIOUS
    <2>3. data \in Seq(Nat) \cup {Failed}
      BY FileType
    <2>4. /\ HasRecords(leaf)
          /\ \A p \in DOMAIN attrs : attrs[p].value \in Seq(Nat)
      BY XattrsType DEF OpenInv, LeafPart
    <2>5. got \in Seq(Nat) /\ Len(got) \in Nat
      BY DEF ClientPart
    <2>6. SUFFICES
            /\ rstatus' = "idle" => got' = <<>>
            /\ rstatus' # "idle" =>
                 /\ reading' \in data_streams(here)
                 /\ reading'.k = 1 /\ data # Failed => rstatus' # "err" /\ ReadSoFar(data)'
                 /\ reading'.k > 1 /\ reading'.k - 2 <= MaxU16 =>
                      /\ rstatus' # "err"
                      /\ \E p \in DOMAIN attrs : reading' = XattrStream(attrs, p) /\ ReadSoFar(attrs[p].value)'
      BY <2>2 DEF StreamPart, ReadSoFar
    <2>7. CASE PickStream
      <3>1. /\ rstatus = "idle" /\ rstatus' = "reading" /\ reading' \in data_streams(here) /\ got' = got
        BY <2>7 DEF PickStream
      <3>2. got' = <<>> /\ Len(<<>>) = 0
        BY <3>1 DEF StreamPart
      <3>3. \A w \in Seq(Nat) : ReadSoFar(w)'
        BY <3>1, <3>2 DEF ReadSoFar
      <3>4. ASSUME reading'.k > 1 PROVE \E p \in DOMAIN attrs : reading' = XattrStream(attrs, p)
        BY <2>4, <3>1, <3>4, StreamsDiffer DEF data_streams
      <3> QED
        BY <2>3, <2>4, <3>1, <3>3, <3>4
    <2>8. CASE ReadPiece
      <3>1. rstatus = "reading" /\ reading' = reading
        BY <2>8 DEF ReadPiece
      <3>2. PICK n \in BufLens :
              LET bytes == read_at(here, reading.id, Len(got), n)
              IN /\ got' = IF bytes = Failed THEN got ELSE got \o bytes
                 /\ rstatus' = CASE bytes = Failed -> "err" [] bytes = <<>> -> "eof" [] OTHER -> "reading"
        BY <2>8 DEF ReadPiece
      <3> PICK bytes : bytes = read_at(here, reading.id, Len(got), n)
        OBVIOUS
      <3>3. /\ got' = IF bytes = Failed THEN got ELSE got \o bytes
            /\ rstatus' = CASE bytes = Failed -> "err" [] bytes = <<>> -> "eof" [] OTHER -> "reading"
        BY <3>2
      <3>4. n \in Nat \ {0}
        BY ClientAssumption
      <3>5. /\ reading \in data_streams(here)
            /\ reading.k = 1 /\ data # Failed => ReadSoFar(data)
            /\ reading.k > 1 /\ reading.k - 2 <= MaxU16 =>
                 \E p \in DOMAIN attrs : reading = XattrStream(attrs, p) /\ ReadSoFar(attrs[p].value)
        BY <3>1 DEF StreamPart
      <3>6. ASSUME reading.k = 1, data # Failed PROVE rstatus' # "err" /\ ReadSoFar(data)'
        <4>1. reading = ContentStream(here)
          <5>1. \A p \in DOMAIN attrs : XattrStream(attrs, p).k # 1
            <6>1. \A m \in Nat : m + 2 # 1
              OBVIOUS
            <6> QED
              BY <2>4, <6>1, StreamsDiffer
          <5> QED
            BY <3>5, <3>6, <5>1 DEF data_streams
        <4>2. reading.id = DefaultId /\ DefaultId.type # "xattr"
          BY <4>1 DEF ContentStream, DefaultId
        <4>3. bytes = Piece(data, Len(got), n)
          BY <3>6, <4>2 DEF read_at
        <4>4. data \in Seq(Nat)
          BY <2>3, <3>6
        <4> QED
          BY <2>5, <3>1, <3>3, <3>4, <3>5, <3>6, <4>3, <4>4, PieceContinues
      <3>7. ASSUME reading.k > 1, reading.k - 2 <= MaxU16
            PROVE  /\ rstatus' # "err"
                   /\ \E p \in DOMAIN attrs : reading = XattrStream(attrs, p) /\ ReadSoFar(attrs[p].value)'
        <4>1. PICK p \in DOMAIN attrs : reading = XattrStream(attrs, p) /\ ReadSoFar(attrs[p].value)
          BY <3>5, <3>7
        <4>2. PICK m \in Nat : m = IndexOf(attrs, p)
          BY <2>4, StreamsDiffer
        <4>3. reading.k = m + 2 /\ reading.id.type = "xattr" /\ (m <= MaxU16 => reading.id.idx = m)
          BY <2>4, <4>1, <4>2, StreamsDiffer
        <4>4. m <= MaxU16
          BY <3>7, <4>2, <4>3, MaxU16Assumption
        <4>5. Indexed(attrs, reading.id.idx) = {p}
          <5>1. \A q \in DOMAIN attrs : IndexOf(attrs, q) = m => q = p
            BY <2>4, <4>2, IndexInjective
          <5> QED
            BY <4>2, <4>3, <4>4, <5>1 DEF Indexed
        <4>6. bytes = Piece(attrs[p].value, Len(got), n)
          <5>1. (CHOOSE q \in {p} : TRUE) = p
            OBVIOUS
          <5> QED
            BY <4>3, <4>5, <5>1 DEF read_at
        <4>7. attrs[p].value \in Seq(Nat)
          BY <2>4
        <4> QED
          BY <2>5, <3>1, <3>3, <3>4, <4>1, <4>6, <4>7, PieceContinues
      <3>8. rstatus' # "idle"
        BY <3>3
      <3> QED
        BY <3>1, <3>5, <3>6, <3>7, <3>8
    <2>9. CASE UNCHANGED vars
      <3>1. UNCHANGED <<got, rstatus, reading>>
        BY <2>9 DEF vars, clientVars
      <3>2. \A w : ReadSoFar(w)' = ReadSoFar(w)
        BY <3>1 DEF ReadSoFar
      <3> QED
        BY <3>1, <3>2 DEF StreamPart
    <2> QED
      BY <1>3, <2>7, <2>8, <2>9
  <1> QED
    BY <1>1, <1>2, <1>3 DEF Next

(* Every read of the client is a read of the stream it picked. *)
LEMMA StreamInvariant == Spec => []StreamPart
  <1>1. Init => StreamPart
    BY DEF Init, StreamPart
  <1> QED
    BY <1>1, OpenInvariant, FoundInvariant, ClientInvariant, StreamKeeps, PTL DEF Spec

(* One stream for the content and one for each attribute that was written. *)
LEMMA StreamsListed ==
  ASSUME HasRecords(leaf), Holds(leaf, fs), NEW i \in DOMAIN fs.mode
  PROVE  /\ Cardinality(data_streams(i)) = 1 + Len(fs.attrs[i])
         /\ \A p \in DOMAIN list_xattrs(leaf, i) : \E a \in ToSet(fs.attrs[i]) :
              list_xattrs(leaf, i)[p].name = Lossy[a.name] /\ list_xattrs(leaf, i)[p].value = a.value
  <1> DEFINE At == Places(leaf, i, "XATTR_ITEM")
             A == fs.attrs[i]
             X == {XattrStream(list_xattrs(leaf, i), p) : p \in At}
  <1>1. /\ {AttrAt(leaf, p) : p \in At} = ToSet(A)
        /\ \A p, q \in At : AttrAt(leaf, p) = AttrAt(leaf, q) => p = q
        /\ \A j, k \in DOMAIN A : A[j] = A[k] => j = k
    <2>1. AttrsHeld(leaf, fs, i)
      BY DEF Holds
    <2> QED
      BY <2>1 DEF AttrsHeld
  <1>2. A \in Seq([name : DOMAIN Lossy, value : Seq(Nat)])
    BY DEF Holds
  <1>3. DOMAIN A = 1 .. Len(A) /\ Len(A) \in Nat
    BY <1>2
  <1>4. /\ DOMAIN list_xattrs(leaf, i) = At
        /\ \A p \in At : /\ list_xattrs(leaf, i)[p].name = Lossy[AttrAt(leaf, p).name]
                          /\ list_xattrs(leaf, i)[p].value = AttrAt(leaf, p).value
    BY DEF list_xattrs, AttrAt
  <1> HIDE DEF At, A
  <1>5. Cardinality(ToSet(A)) = Len(A) /\ IsFiniteSet(ToSet(A))
    <2> DEFINE f == [k \in 1 .. Len(A) |-> A[k]]
    <2>1. /\ f \in [1 .. Len(A) -> ToSet(A)] /\ \A t \in ToSet(A) : \E k \in 1 .. Len(A) : f[k] = t
          /\ \A j, k \in 1 .. Len(A) : f[j] = f[k] => j = k
      BY <1>1, <1>3 DEF ToSet
    <2>2. IsFiniteSet(1 .. Len(A)) /\ Cardinality(1 .. Len(A)) = Len(A)
      <3>1. IsFiniteSet(1 .. Len(A)) /\ Cardinality(1 .. Len(A)) = IF 1 > Len(A) THEN 0 ELSE Len(A) - 1 + 1
        BY <1>3, FS_Interval
      <3>2. (IF 1 > Len(A) THEN 0 ELSE Len(A) - 1 + 1) = Len(A)
        BY <1>3
      <3> QED
        BY <3>1, <3>2
    <2> HIDE DEF f
    <2>3. PICK S, T : S = 1 .. Len(A) /\ T = ToSet(A)
      OBVIOUS
    <2>4. IsFiniteSet(T) /\ Cardinality(S) = Cardinality(T)
      <3>1. /\ f \in [S -> T] /\ (\A t \in T : \E k \in S : f[k] = t)
            /\ \A j, k \in S : f[j] = f[k] => j = k
        BY <2>1, <2>3
      <3>2. IsFiniteSet(S)
        BY <2>2, <2>3
      <3> QED
        BY <3>1, <3>2, InjectiveCount
    <2> QED
      BY <2>2, <2>3, <2>4
  <1>6. Cardinality(At) = Len(A) /\ IsFiniteSet(At)
    <2> DEFINE f == [p \in At |-> AttrAt(leaf, p)]
    <2>1. /\ f \in [At -> ToSet(A)] /\ \A t \in ToSet(A) : \E p \in At : f[p] = t
          /\ \A p, q \in At : f[p] = f[q] => p = q
      BY <1>1
    <2> HIDE DEF f
    <2> QED
      BY <1>5, <2>1, InjectiveCount
  <1>7. Cardinality(X) = Len(A) /\ IsFiniteSet(X)
    <2> DEFINE f == [p \in At |-> XattrStream(list_xattrs(leaf, i), p)]
    <2>1. f \in [At -> X] /\ \A t \in X : \E p \in At : f[p] = t
      OBVIOUS
    <2>2. \A p, q \in At : f[p] = f[q] => p = q
      BY <1>4, StreamsDiffer
    <2> HIDE DEF f, X
    <2>3. IsFiniteSet(X) /\ Cardinality(At) = Cardinality(X)
      BY <1>6, <2>1, <2>2, InjectiveCount
    <2> QED
      BY <1>6, <2>3
  <1>8. ContentStream(i) \notin X
    BY <1>4, StreamsDiffer
  <1>9. data_streams(i) = X \cup {ContentStream(i)}
    BY <1>4 DEF data_streams
  <1> HIDE DEF X
  <1>10. Cardinality(data_streams(i)) = Len(A) + 1
    BY <1>7, <1>8, <1>9, FS_AddElement
  <1>11. Len(A) + 1 = 1 + Len(A)
    BY <1>3
  <1>12. ASSUME NEW p \in At
         PROVE  \E a \in ToSet(A) : /\ list_xattrs(leaf, i)[p].name = Lossy[a.name]
                                   /\ list_xattrs(leaf, i)[p].value = a.value
    <2>1. AttrAt(leaf, p) \in ToSet(A)
      BY <1>1
    <2> QED
      BY <1>4, <2>1
  <1> QED
    BY <1>4, <1>10, <1>11, <1>12 DEF A

(* What was read so far is a prefix; a complete read is the stream. *)
LEMMA ReadIsPrefix ==
  ASSUME NEW w \in Seq(Nat), got \in Seq(Nat), ReadSoFar(w)
  PROVE  IsPrefix(got, w) /\ (rstatus = "eof" => got = w)
  <1>1. PICK n : n = Len(got)
    OBVIOUS
  <1>2. n \in Nat /\ n <= Len(w) /\ Len(w) \in Nat /\ \A i \in 1 .. n : got[i] = w[i]
    BY <1>1 DEF ReadSoFar
  <1>3. SubSeq(got, 1, n) = SubSeq(w, 1, n)
    BY <1>1, <1>2
  <1>4. rstatus = "eof" => got = w
    <2> SUFFICES ASSUME rstatus = "eof" PROVE got = w
      OBVIOUS
    <2>1. n = Len(w)
      BY <1>1 DEF ReadSoFar
    <2> QED
      BY <1>1, <1>2, <2>1, SeqEqual
  <1> QED
    BY <1>1, <1>2, <1>3, <1>4 DEF IsPrefix

(* A file that is read at once is read whole. *)
LEMMA WholePiece ==
  ASSUME NEW w \in Seq(Nat)
  PROVE  Piece(w, 0, Len(w)) = w
  <1>1. Len(w) \in Nat /\ 0 + Len(w) = Len(w)
    OBVIOUS
  <1>2. Min({Len(w), Len(w)}) = Len(w)
    <2>1. PICK S : S = {Len(w), Len(w)}
      OBVIOUS
    <2>2. S \subseteq Nat /\ S # {} /\ \A x \in S : x = Len(w)
      BY <1>1, <2>1
    <2>3. Min(S) = Len(w)
      BY <2>2, MinLemma
    <2> QED
      BY <2>1, <2>3
  <1>3. SubSeq(w, 1, Len(w)) = w
    OBVIOUS
  <1> QED
    BY <1>1, <1>2, <1>3 DEF Piece

(* For every filesystem the kernel wrote, every way down to a node and     *)
(* every size of the client's buffers, each stream that data_streams lists *)
(* reads back to what was written under its name, to the listed size; and  *)
(* the content is what read_by_path_content and read_link return.          *)
THEOREM StreamsComeBack == Spec => []StreamsReadBack
  <1>1. OpenInv /\ FoundPart /\ ClientPart /\ StreamPart /\ PathWalkAgrees => StreamsReadBack
    <2> SUFFICES ASSUME OpenInv, FoundPart, ClientPart, StreamPart, PathWalkAgrees,
                        Undamaged, rstatus # "idle", reading.k - 2 <= MaxU16, Here \in DOMAIN fs.mode
                 PROVE  StreamsReadBack
      BY DEF StreamsReadBack
    <2>1. HasRecords(leaf) /\ Holds(leaf, fs) /\ phase = "open" /\ got \in Seq(Nat)
      BY LeafHeld DEF Undamaged, ClientPart
    <2> PICK i \in DOMAIN fs.mode : i = Here
      OBVIOUS
    <2>2. /\ HasInode(leaf, i)
          /\ read_inode(leaf, i).content = fs.content[i] /\ fs.content[i] \in Seq(Nat)
          /\ read_inode(leaf, i).size = Len(fs.content[i])
      BY <2>1, InodeRead
    <2> PICK w \in Seq(Nat) : w = fs.content[i]
      BY <2>2
    <2>3. w # Failed
      <3> SUFFICES ASSUME w = Failed PROVE FALSE
        OBVIOUS
      <3>1. Failed[1] = -1 /\ Len(Failed) = 1 /\ 1 \in 1 .. 1
        BY DEF Failed, None
      <3>2. Failed[1] \in Nat
        BY <3>1, ElementOfSeq
      <3> QED
        BY <3>1, <3>2
    <2>4. FsTreeFound /\ FsTreeLeaf = leaf
      BY <2>1 DEF FoundPart, FsTreeFound, FsTreeLeaf
    <2>5. read_file(i) = w /\ ReadFromLeaf(FsTreeLeaf, i) = w
      BY <2>2, <2>4 DEF read_file, ReadFromLeaf
    <2>6. /\ Cardinality(data_streams(i)) = 1 + Len(fs.attrs[i])
          /\ \A p \in DOMAIN list_xattrs(leaf, i) : \E a \in ToSet(fs.attrs[i]) :
               list_xattrs(leaf, i)[p].name = Lossy[a.name] /\ list_xattrs(leaf, i)[p].value = a.value
      BY <2>1, StreamsListed
    <2>7. reading \in data_streams(i)
      BY DEF StreamPart
    <2> DEFINE Written == IF reading.k = 1 THEN {fs.content[i]}
                          ELSE {a.value : a \in {x \in ToSet(fs.attrs[i]) : Lossy[x.name] = reading.name}}
    <2>8. CASE reading.k = 1
      <3>1. rstatus # "err" /\ ReadSoFar(w)
        BY <2>3, <2>5, <2>8 DEF StreamPart
      <3>2. IsPrefix(got, w) /\ (rstatus = "eof" => got = w)
        BY <2>1, <3>1, ReadIsPrefix
      <3>3. reading.size = Len(w)
        <4>1. \A p \in DOMAIN list_xattrs(leaf, i) : XattrStream(list_xattrs(leaf, i), p).k # 1
          <5>1. \A m \in Nat : m + 2 # 1
            OBVIOUS
          <5> QED
            BY <2>1, <5>1, StreamsDiffer
        <4>2. reading = ContentStream(i)
          BY <2>7, <2>8, <4>1 DEF data_streams
        <4> QED
          BY <2>2, <4>2 DEF ContentStream
      <3>4. ASSUME root.root_dirid = RootDir, read_by_path(leaf, path) # None
            PROVE  read_by_path_content(path) = w
        <4>1. read_by_path(leaf, path) = i
          BY <2>1, <3>4 DEF PathWalkAgrees
        <4> QED
          BY <2>4, <2>5, <3>4, <4>1 DEF read_by_path_content
      <3>5. meta(i).size = Len(w)
        BY <2>2 DEF meta
      <3>6. meta(i).kind = "lnk" => read_link(i, Len(w)) = w
        <4>1. meta(i).kind = inode_kind(read_inode(leaf, i))
          BY DEF meta
        <4> QED
          BY <2>2, <2>3, <2>5, <4>1, WholePiece DEF read_link
      <3>7. Written = {w}
        BY <2>8
      <3> HIDE DEF Written
      <3>8. /\ \E v \in Written : IsPrefix(got, v)
            /\ rstatus = "eof" => got \in Written /\ Len(got) = reading.size
        BY <3>2, <3>3, <3>7
      <3>9. rstatus = "eof" =>
              /\ root.root_dirid = RootDir /\ read_by_path(leaf, path) # None => got = read_by_path_content(path)
              /\ meta(i).size = Len(got)
              /\ meta(i).kind = "lnk" => read_link(i, Len(got)) = got
        BY <3>2, <3>4, <3>5, <3>6
      <3> QED
        BY <2>6, <3>1, <3>8, <3>9 DEF StreamsReadBack, Written
    <2>9. CASE reading.k # 1
      <3>1. reading.k > 1
        <4>1. \A m \in Nat : m + 2 > 1
          OBVIOUS
        <4>2. \A p \in DOMAIN list_xattrs(leaf, i) : XattrStream(list_xattrs(leaf, i), p).k > 1
          BY <2>1, <4>1, StreamsDiffer
        <4>3. ContentStream(i).k = 1
          BY DEF ContentStream
        <4> QED
          BY <2>7, <2>9, <4>2, <4>3 DEF data_streams
      <3>2. /\ rstatus # "err"
            /\ \E p \in DOMAIN list_xattrs(leaf, i) :
                 /\ reading = XattrStream(list_xattrs(leaf, i), p)
                 /\ ReadSoFar(list_xattrs(leaf, i)[p].value)
        BY <3>1 DEF StreamPart
      <3>3. PICK p \in DOMAIN list_xattrs(leaf, i) :
              /\ reading = XattrStream(list_xattrs(leaf, i), p)
              /\ ReadSoFar(list_xattrs(leaf, i)[p].value)
        BY <3>2
      <3>4. PICK a \in ToSet(fs.attrs[i]) :
              list_xattrs(leaf, i)[p].name = Lossy[a.name] /\ list_xattrs(leaf, i)[p].value = a.value
        BY <2>6
      <3>5. PICK v \in Seq(Nat) : v = list_xattrs(leaf, i)[p].value
        BY <2>1, XattrsType
      <3>6. reading.name = Lossy[a.name] /\ reading.size = Len(v)
        BY <2>1, <3>3, <3>4, <3>5, StreamsDiffer
      <3>7. IsPrefix(got, v) /\ (rstatus = "eof" => got = v)
        BY <2>1, <3>3, <3>5, ReadIsPrefix
      <3>8. v \in Written
        BY <2>9, <3>4, <3>5, <3>6
      <3> HIDE DEF Written
      <3>9. /\ \E x \in Written : IsPrefix(got, x)
            /\ rstatus = "eof" => got \in Written /\ Len(got) = reading.size
        BY <3>6, <3>7, <3>8
      <3> QED
        BY <2>6, <2>9, <3>2, <3>9 DEF StreamsReadBack, Written
    <2> QED
      BY <2>8, <2>9
  <1> QED
    BY <1>1, OpenInvariant, FoundInvariant, ClientInvariant, StreamInvariant, WalksAgree, PTL
=============================================================================
