--------------------------- MODULE ChunkWalkProofs ---------------------------
(***************************************************************************)
(* ChunkMap::walk collects exactly the chunks of the chunk tree, on every  *)
(* self-describing image and with every budget that does not run out.      *)
(***************************************************************************)
EXTENDS ChunkWalk, ImageLemmas, FiniteSetTheorems

(* Some set of visited addresses accounts for the map: everything the tree *)
(* hangs below it is on the stack or in the map already.                   *)
Accounted(V) ==
  /\ sb.chunk_root \in V \cup Range(stack)
  /\ \A l \in V : BootReadable(l) =>
       /\ Range(key_ptrs(BootNode(l))) \subseteq V \cup Range(stack)
       /\ Range(chunk_items(BootNode(l))) \subseteq Range(map)

TreeInv ==
  /\ Range(stack) \subseteq ChunkTree
  /\ Range(map) \subseteq TreeChunks(ChunkTree)
  /\ \E V \in SUBSET Addr : Accounted(V)

(* The inductive invariant.  StaysInTree is not inductive alone: that the  *)
(* next pointer is read where the sys_chunk_array puts it depends on the   *)
(* chunks collected so far, and those on the pointers followed so far.     *)
WalkInv ==
  /\ TypeOK
  /\ ErrLosesNothing
  /\ ~bootstrapped_root => map = <<>>
  /\ SelfDescribing(ChunkTree) => TreeInv

-----------------------------------------------------------------------------
(* An entry appended behind an entry that answers is never asked. *)
LEMMA LookupStable ==
  ASSUME NEW m \in Seq(Chunk), NEW n \in Seq(Chunk), NEW l \in Addr, MapLookup(m, l) # None
  PROVE  MapLookup(m \o n, l) = MapLookup(m, l)
  <1> DEFINE mn == m \o n
             Stops == {i \in DOMAIN mn : Overflows(mn[i]) \/ Covers(mn[i], l)}
  <1>1. PICK i \in DOMAIN m :
           /\ MapLookup(m, l) = SysChunkLookup(m[i], l)
           /\ Covers(m[i], l) /\ ~Overflows(m[i])
           /\ \A j \in DOMAIN m : j < i => ~Covers(m[j], l) /\ ~Overflows(m[j])
    BY MapLookupFirst
  <1>2. /\ DOMAIN m = 1 .. Len(m) /\ DOMAIN mn = 1 .. Len(mn)
        /\ Len(mn) = Len(m) + Len(n) /\ Len(m) \in Nat /\ Len(n) \in Nat
        /\ \A j \in 1 .. Len(m) : mn[j] = m[j]
    OBVIOUS
  <1> HIDE DEF mn
  <1>3. i \in Stops /\ DOMAIN mn \subseteq Nat
    BY <1>1, <1>2
  <1>4. Min(Stops) \in Stops /\ \A j \in Stops : Min(Stops) <= j
    BY <1>3, MinLemma
  <1>5. ASSUME NEW j \in Stops PROVE ~(j < i)
    <2>1. SUFFICES ASSUME j < i PROVE FALSE
      OBVIOUS
    <2>2. j \in DOMAIN m /\ mn[j] = m[j]
      BY <1>1, <1>2, <2>1
    <2> QED
      BY <1>1, <2>1, <2>2
  <1>6. Min(Stops) = i
    <2>1. Min(Stops) <= i /\ ~(Min(Stops) < i)
      BY <1>3, <1>4, <1>5
    <2>2. Min(Stops) \in Nat /\ i \in Nat
      BY <1>3, <1>4
    <2> QED
      BY <2>1, <2>2
  <1>7. mn[i] = m[i]
    BY <1>1, <1>2
  <1>8. MapLookup(mn, l) = FirstStripe(m[i], l)
    BY <1>1, <1>3, <1>6, <1>7 DEF MapLookup
  <1> QED
    BY <1>1, <1>8 DEF SysChunkLookup, mn

(* What the sys_chunk_array lets one read is a node of the image. *)
LEMMA BootNodeType ==
  ASSUME IsImage(image), NEW l \in Addr
  PROVE  /\ BootPhys(l) \in Addr \cup {None}
         /\ BootReadable(l) => /\ key_ptrs(BootNode(l)) \in Seq(Addr)
                               /\ chunk_items(BootNode(l)) \in Seq(Chunk)
  <1>1. image.sb.sys_chunks \in Seq(Chunk) /\ image.len \in Nat /\ image.sb.nodesize \in Nat
    BY DEF IsImage, IsSuperblock
  <1>2. BootPhys(l) \in Addr \cup {None}
    BY <1>1, MapLookupType DEF BootPhys, sb
  <1>3. ASSUME BootReadable(l)
        PROVE  key_ptrs(BootNode(l)) \in Seq(Addr) /\ chunk_items(BootNode(l)) \in Seq(Chunk)
    <2>1. BootPhys(l) \in 0 .. image.len
      BY <1>1, <1>2, <1>3, WidthAssumption DEF BootReadable, InImage, Addr
    <2>2. IsNode(BootNode(l))
      BY <2>1 DEF IsImage, BootNode
    <2> QED
      BY <2>2 DEF IsNode, key_ptrs, chunk_items
  <1> QED
    BY <1>2, <1>3

(* The chunk tree holds its root and the pointers of its readable nodes. *)
LEMMA TreeClosed ==
  ASSUME IsImage(image)
  PROVE  /\ ChunkTree \subseteq Addr
         /\ Closed(ChunkTree, {sb.chunk_root}, BootEdges)
         /\ \A l \in ChunkTree : BootReadable(l) =>
              Range(key_ptrs(BootNode(l))) \subseteq ChunkTree
  <1>1. sb.chunk_root \in Addr
    BY DEF IsImage, IsSuperblock, sb
  <1>2. BootEdges \subseteq Addr \X Addr
    <2>1. \A l \in Addr : BootReadable(l) => Range(key_ptrs(BootNode(l))) \subseteq Addr
      BY BootNodeType, RangeLemma
    <2> QED
      BY <2>1 DEF BootEdges
  <1>3. ChunkTree \subseteq Addr /\ Closed(ChunkTree, {sb.chunk_root}, BootEdges)
    BY <1>1, <1>2, ReachableClosed DEF ChunkTree
  <1>4. ASSUME NEW l \in ChunkTree, BootReadable(l), NEW m \in Range(key_ptrs(BootNode(l)))
        PROVE  m \in ChunkTree
    <2>1. <<l, m>> \in BootEdges
      BY <1>3, <1>4 DEF BootEdges
    <2> QED
      BY <1>3, <2>1 DEF Closed
  <1> QED
    BY <1>3, <1>4

(* What is defined from the image alone does not change. *)
LEMMA Frozen ==
  ASSUME image' = image
  PROVE  /\ sb' = sb
         /\ ChunkTree' = ChunkTree
         /\ TreeChunks(ChunkTree)' = TreeChunks(ChunkTree)
         /\ SelfDescribing(ChunkTree)' = SelfDescribing(ChunkTree)
         /\ \A l : BootPhys(l)' = BootPhys(l)
         /\ \A l : BootReadable(l)' = BootReadable(l)
         /\ \A l : BootNode(l)' = BootNode(l)
  BY DEF sb, ChunkTree, TreeChunks, SelfDescribing, BootEdges, BootPhys, BootReadable, BootNode

(* The heart of it: as long as the map holds chunks of the tree only, the  *)
(* walk reads every address of the tree where the sys_chunk_array puts it. *)
LEMMA LookupIsBoot ==
  ASSUME IsImage(image), map \in Seq(Chunk), SelfDescribing(ChunkTree),
         Range(map) \subseteq TreeChunks(ChunkTree), NEW l \in ChunkTree
  PROVE  /\ MapLookup(map, l) \in {None, BootPhys(l)}
         /\ WalkLookup(map, l) = BootPhys(l)
  <1>0. l \in Addr
    BY TreeClosed
  <1>1. MapLookup(map, l) \in {None, BootPhys(l)}
    <2>1. CASE MapLookup(map, l) = None
      BY <2>1
    <2>2. CASE MapLookup(map, l) # None
      <3>1. PICK i \in DOMAIN map : MapLookup(map, l) = SysChunkLookup(map[i], l)
        BY <1>0, <2>2, MapLookupFirst
      <3>2. map[i] \in TreeChunks(ChunkTree)
        BY DEF Range
      <3> QED
        BY <3>1, <3>2 DEF SelfDescribing
    <2> QED
      BY <2>1, <2>2
  <1> QED
    BY <1>1 DEF WalkLookup, BootPhys

-----------------------------------------------------------------------------
(* The walk's start establishes the invariant. *)
LEMMA InitInv == Init => WalkInv
  <1> SUFFICES ASSUME Init PROVE WalkInv
    OBVIOUS
  <1>1. IsImage(image)
    BY ImagesAssumption DEF Init
  <1>2. sb.chunk_root \in Addr
    BY <1>1 DEF IsImage, IsSuperblock, sb
  <1>3. TypeOK
    <2>1. stack \in Seq(Addr) /\ map \in Seq(Chunk)
      BY <1>2 DEF Init, sb
    <2>2. budget \in 0 .. WalkBudget
      BY WalkBudgetAssumption DEF Init
    <2> QED
      BY <1>1, <2>1, <2>2 DEF Init, TypeOK
  <1>4. Range(stack) = {sb.chunk_root} /\ Range(map) = {}
    BY DEF Init, sb, Range
  <1>5. sb.chunk_root \in ChunkTree
    BY <1>1, TreeClosed DEF Closed
  <1>6. Accounted({})
    BY <1>4 DEF Accounted
  <1> QED
    BY <1>3, <1>4, <1>5, <1>6 DEF Init, WalkInv, TreeInv, ErrLosesNothing

(* What an iteration that gets past the budget test knows. *)
LEMMA VisitFacts ==
  ASSUME WalkInv, Visit
  PROVE  /\ IsImage(image) /\ image' = image /\ result = "running"
         /\ map \in Seq(Chunk)
         /\ Top \in Addr
         /\ Pop \in Seq(Addr)
         /\ Range(stack) = Range(Pop) \cup {Top}
         /\ budget' \in 0 .. WalkBudget
  <1>1. TypeOK
    BY DEF WalkInv
  <1>2. /\ Top \in Addr
        /\ Pop \in Seq(Addr)
        /\ Range(stack) = Range(Pop) \cup {Top}
    BY <1>1, PopLemma DEF TypeOK, Visit, Top, Pop
  <1>3. budget' \in 0 .. WalkBudget
    BY <1>1, WalkBudgetAssumption DEF TypeOK, Visit
  <1> QED
    BY <1>1, <1>2, <1>3 DEF TypeOK, Visit

(* On a self-describing image the popped address is read at its boot place. *)
LEMMA PhysIsBoot ==
  ASSUME WalkInv, Visit, SelfDescribing(ChunkTree)
  PROVE  TreeInv /\ Top \in ChunkTree /\ Phys = BootPhys(Top)
  <1>1. TreeInv
    BY DEF WalkInv
  <1>2. Top \in ChunkTree
    BY <1>1, VisitFacts DEF TreeInv
  <1> QED
    BY <1>1, <1>2, LookupIsBoot, VisitFacts DEF TreeInv, Phys

(* Whatever the map and the sys_chunk_array say, a block inside the image  *)
(* is a node.                                                              *)
LEMMA PhysNode ==
  ASSUME WalkInv, VisitNode
  PROVE  IsNode(image.nodes[Phys])
  <1>1. Visit /\ Phys # None /\ InImage(image, Phys)
    BY DEF VisitNode
  <1>2. image.sb.sys_chunks \in Seq(Chunk) /\ image.len \in Nat /\ image.sb.nodesize \in Nat
    BY <1>1, VisitFacts DEF IsImage, IsSuperblock
  <1>3. Phys \in Addr
    BY <1>1, <1>2, VisitFacts, MapLookupType DEF Phys, WalkLookup, sb
  <1>4. Phys \in 0 .. image.len
    BY <1>1, <1>2, <1>3, WidthAssumption DEF InImage, Addr
  <1> QED
    BY <1>1, <1>4, VisitFacts DEF IsImage

(* The branches that skip an address: no chunk maps it, the block lies     *)
(* outside the image, or it does not parse.                                *)
LEMMA SkipInv ==
  ASSUME WalkInv, Unmapped \/ OutOfImage \/ Unparsable
  PROVE  WalkInv'
  <1>1. Visit /\ stack' = Pop /\ map' = map
    BY DEF Unmapped, OutOfImage, Unparsable
  <1>2. TypeOK'
    <2>1. bootstrapped_root' \in BOOLEAN /\ result' \in {"running", "ok", "err"}
      BY DEF WalkInv, TypeOK, Unmapped, OutOfImage, Unparsable
    <2> QED
      BY <1>1, <2>1, VisitFacts DEF TypeOK
  <1>3. ErrLosesNothing'
    <2>1. CASE OutOfImage
      BY <1>1, <2>1, VisitFacts DEF OutOfImage, ErrLosesNothing
    <2>2. CASE Unparsable
      BY <1>1, <2>2, VisitFacts DEF Unparsable, ErrLosesNothing
    <2>3. CASE Unmapped
      BY <1>1, <2>3, VisitFacts DEF Unmapped, ErrLosesNothing, WalkInv, TypeOK
    <2> QED
      BY <2>1, <2>2, <2>3
  <1>4. ASSUME SelfDescribing(ChunkTree)' PROVE TreeInv'
    <2>1. SelfDescribing(ChunkTree)
      BY <1>1, <1>4, Frozen, VisitFacts
    <2>2. TreeInv /\ Top \in ChunkTree /\ ~BootReadable(Top)
      BY <1>1, <2>1, PhysIsBoot DEF Unmapped, OutOfImage, Unparsable, BootReadable
    <2>3. PICK V \in SUBSET Addr, t \in Addr : Accounted(V) /\ t = Top
      BY <1>1, <2>2, VisitFacts DEF TreeInv
    <2>4. Accounted(V \cup {t})'
      BY <1>1, <2>2, <2>3, Frozen, VisitFacts DEF Accounted
    <2>5. \E W \in SUBSET Addr : Accounted(W)'
      BY <2>4
    <2> QED
      BY <1>1, <2>2, <2>5, Frozen, VisitFacts DEF TreeInv
  <1>5. (~bootstrapped_root => map = <<>>)'
    BY <1>1 DEF Unmapped, OutOfImage, Unparsable, WalkInv, TypeOK
  <1> QED
    BY <1>2, <1>3, <1>4, <1>5 DEF WalkInv

(* Adding a leaf's chunks preserves the invariant. *)
LEMMA AddLeafInv ==
  ASSUME WalkInv, AddLeaf
  PROVE  WalkInv'
  <1> DEFINE chunks == chunk_items(image.nodes[Phys])
  <1>1. Visit /\ stack' = Pop /\ map' = map \o chunks /\ result' = "running"
        /\ bootstrapped_root' = TRUE /\ is_leaf(image.nodes[Phys])
    BY VisitFacts DEF AddLeaf, VisitNode
  <1>2. IsNode(image.nodes[Phys])
    BY PhysNode DEF AddLeaf
  <1>3. chunks \in Seq(Chunk)
    BY <1>2 DEF IsNode, chunk_items
  <1>4. map' \in Seq(Chunk) /\ Range(map') = Range(map) \cup Range(chunks)
    BY <1>1, <1>3, ExtendLemma, VisitFacts
  <1>5. TypeOK'
    BY <1>1, <1>4, VisitFacts DEF TypeOK
  <1>6. ASSUME SelfDescribing(ChunkTree)' PROVE TreeInv'
    <2>1. SelfDescribing(ChunkTree)
      BY <1>1, <1>6, Frozen, VisitFacts
    <2>2. TreeInv /\ Top \in ChunkTree /\ Phys = BootPhys(Top)
      BY <1>1, <2>1, PhysIsBoot
    <2>3. BootReadable(Top) /\ BootNode(Top) = image.nodes[Phys]
      BY <2>2 DEF AddLeaf, VisitNode, BootReadable, BootNode
    <2>4. Range(chunks) \subseteq TreeChunks(ChunkTree)
      BY <2>2, <2>3 DEF TreeChunks
    <2>5. key_ptrs(BootNode(Top)) = <<>> /\ Range(<<>>) = {}
      BY <1>1, <2>3 DEF key_ptrs, Range
    <2>6. PICK V \in SUBSET Addr, t \in Addr : Accounted(V) /\ t = Top
      BY <1>1, <2>2, VisitFacts DEF TreeInv
    <2>7. Accounted(V \cup {t})'
      BY <1>1, <1>4, <2>3, <2>5, <2>6, Frozen, VisitFacts DEF Accounted
    <2>8. \E W \in SUBSET Addr : Accounted(W)'
      BY <2>7
    <2> QED
      BY <1>1, <1>4, <2>2, <2>4, <2>8, Frozen, VisitFacts DEF TreeInv
  <1> QED
    BY <1>1, <1>5, <1>6 DEF WalkInv, ErrLosesNothing

(* Descending into an interior node preserves the invariant. *)
LEMMA DescendInv ==
  ASSUME WalkInv, Descend
  PROVE  WalkInv'
  <1> DEFINE ptrs == key_ptrs(image.nodes[Phys])
  <1>1. Visit /\ stack' = Pop \o ptrs /\ map' = map /\ result' = "running"
        /\ bootstrapped_root' = TRUE /\ ~is_leaf(image.nodes[Phys])
    BY VisitFacts DEF Descend, VisitNode
  <1>2. IsNode(image.nodes[Phys])
    BY PhysNode DEF Descend
  <1>3. ptrs \in Seq(Addr)
    BY <1>2 DEF IsNode, key_ptrs
  <1>4. stack' \in Seq(Addr) /\ Range(stack') = Range(Pop) \cup Range(ptrs)
    BY <1>1, <1>3, ExtendLemma, VisitFacts
  <1>5. TypeOK'
    BY <1>1, <1>4, VisitFacts DEF TypeOK
  <1>6. ASSUME SelfDescribing(ChunkTree)' PROVE TreeInv'
    <2>1. SelfDescribing(ChunkTree)
      BY <1>1, <1>6, Frozen, VisitFacts
    <2>2. TreeInv /\ Top \in ChunkTree /\ Phys = BootPhys(Top)
      BY <1>1, <2>1, PhysIsBoot
    <2>3. BootReadable(Top) /\ BootNode(Top) = image.nodes[Phys]
      BY <2>2 DEF Descend, VisitNode, BootReadable, BootNode
    <2>4. Range(ptrs) \subseteq ChunkTree
      BY <1>1, <2>2, <2>3, TreeClosed, VisitFacts
    <2>5. chunk_items(BootNode(Top)) = <<>> /\ Range(<<>>) = {}
      BY <1>1, <2>3 DEF chunk_items, Range
    <2>6. PICK V \in SUBSET Addr, t \in Addr : Accounted(V) /\ t = Top
      BY <1>1, <2>2, VisitFacts DEF TreeInv
    <2>7. Accounted(V \cup {t})'
      BY <1>1, <1>4, <2>3, <2>5, <2>6, Frozen, VisitFacts DEF Accounted
    <2>8. \E W \in SUBSET Addr : Accounted(W)'
      BY <2>7
    <2> QED
      BY <1>1, <1>4, <2>2, <2>4, <2>8, Frozen, VisitFacts DEF TreeInv
  <1> QED
    BY <1>1, <1>5, <1>6 DEF WalkInv, ErrLosesNothing

(* Every step of the walk preserves the invariant. *)
LEMMA StepInv == WalkInv /\ [Next]_vars => WalkInv'
  <1> SUFFICES ASSUME WalkInv, [Next]_vars PROVE WalkInv'
    OBVIOUS
  <1>1. CASE Unmapped \/ OutOfImage \/ Unparsable
    BY <1>1, SkipInv
  <1>2. CASE AddLeaf
    BY <1>2, AddLeafInv
  <1>3. CASE Descend
    BY <1>3, DescendInv
  <1>4. CASE BudgetBreak \/ Return \/ UNCHANGED vars
    <2>1. /\ UNCHANGED <<image, map, stack, budget, bootstrapped_root>>
          /\ result' \in {"ok", result}
      BY <1>4 DEF BudgetBreak, Return, vars
    <2>2. TypeOK' /\ ErrLosesNothing'
      BY <2>1 DEF WalkInv, TypeOK, ErrLosesNothing
    <2>3. TreeInv => TreeInv'
      <3> SUFFICES ASSUME TreeInv PROVE TreeInv'
        OBVIOUS
      <3>1. PICK V \in SUBSET Addr : Accounted(V)
        BY DEF TreeInv
      <3>2. Accounted(V)'
        BY <2>1, <3>1, Frozen DEF Accounted
      <3> QED
        BY <2>1, <3>2, Frozen DEF TreeInv
    <2> QED
      BY <2>1, <2>2, <2>3, Frozen DEF WalkInv
  <1> QED
    BY <1>1, <1>2, <1>3, <1>4 DEF Next

(* The inductive invariant holds throughout ChunkMap::walk. *)
THEOREM WalkInvariant == Spec => []WalkInv
  BY InitInv, StepInv, PTL DEF Spec

(* The variables of ChunkMap::walk keep their shapes. *)
THEOREM TypeCorrect == Spec => []TypeOK
  BY WalkInvariant, PTL DEF WalkInv

(* An error never throws away a chunk that was collected. *)
THEOREM WalkErrLosesNothing == Spec => []ErrLosesNothing
  BY WalkInvariant, PTL DEF WalkInv

(* The walk never leaves the chunk tree of a self-describing image. *)
THEOREM WalkStaysInTree == Spec => []StaysInTree
  <1>1. WalkInv => StaysInTree
    BY DEF WalkInv, TreeInv, StaysInTree
  <1> QED
    BY <1>1, WalkInvariant, PTL

(* With an empty stack the account is closed: the map is complete. *)
LEMMA InvExact == WalkInv => MapIsExact
  <1> SUFFICES ASSUME WalkInv, stack = <<>>, SelfDescribing(ChunkTree)
               PROVE  Range(map) = TreeChunks(ChunkTree)
    BY DEF MapIsExact
  <1>1. TreeInv /\ IsImage(image)
    BY DEF WalkInv, TypeOK
  <1>2. PICK V \in SUBSET Addr : Accounted(V)
    BY <1>1 DEF TreeInv
  <1>3. Range(stack) = {}
    BY DEF Range
  <1>4. Closed(V, {sb.chunk_root}, BootEdges)
    <2>1. ASSUME NEW e \in BootEdges, e[1] \in V PROVE e[2] \in V
      <3>1. PICK l \in Addr : BootReadable(l) /\ e \in {l} \X Range(key_ptrs(BootNode(l)))
        BY <2>1 DEF BootEdges
      <3>2. e[1] = l /\ e[2] \in Range(key_ptrs(BootNode(l)))
        BY <3>1
      <3> QED
        BY <1>2, <1>3, <2>1, <3>1, <3>2 DEF Accounted
    <2> QED
      BY <1>2, <1>3, <2>1 DEF Accounted, Closed
  <1>5. ChunkTree \subseteq V
    BY <1>4, ReachableLeast DEF ChunkTree
  <1>6. TreeChunks(ChunkTree) \subseteq Range(map)
    BY <1>2, <1>5 DEF Accounted, TreeChunks
  <1> QED
    BY <1>1, <1>6 DEF TreeInv

(* A walk that finishes has mapped exactly the chunks of the tree. *)
THEOREM WalkIsExact == Spec => []MapIsExact
  BY InvExact, WalkInvariant, PTL

(* read_node, after the walk, reads every node of the tree where the walk  *)
(* did.                                                                    *)
THEOREM WalkAgreesWithReadNode == Spec => []ReadNodeAgrees
  <1>1. WalkInv => ReadNodeAgrees
    <2> SUFFICES ASSUME WalkInv, SelfDescribing(ChunkTree), NEW l \in ChunkTree, BootReadable(l)
                 PROVE  Readable(image, map, l) /\ Translate(image, map, l) = BootPhys(l)
      BY DEF ReadNodeAgrees
    <2>1. TreeInv /\ IsImage(image) /\ map \in Seq(Chunk)
      BY DEF WalkInv, TypeOK
    <2>2. MapLookup(map, l) \in {None, BootPhys(l)} /\ l \in Addr
      BY <2>1, LookupIsBoot, TreeClosed DEF TreeInv
    <2>3. SysLookup(image.sb.sys_chunks, l) = BootPhys(l)
      BY <2>1, <2>2, FallbackAgrees DEF BootReadable, BootPhys, sb, IsImage, IsSuperblock
    <2>4. Translate(image, map, l) = BootPhys(l)
      BY <2>2, <2>3 DEF Translate
    <2> QED
      BY <2>4 DEF Readable, BootReadable
  <1> QED
    BY <1>1, WalkInvariant, PTL

(* Growing the map moves no address that is mapped already. *)
THEOREM WalkTranslationIsStable == Spec => TranslationIsStable
  <1>1. WalkInv /\ [Next]_vars =>
          [\A l \in Addr : MapLookup(map, l) # None => MapLookup(map', l) = MapLookup(map, l)]_vars
    <2> SUFFICES ASSUME WalkInv, [Next]_vars, NEW l \in Addr, MapLookup(map, l) # None
                 PROVE  MapLookup(map', l) = MapLookup(map, l)
      OBVIOUS
    <2>1. CASE AddLeaf
      <3>1. chunk_items(image.nodes[Phys]) \in Seq(Chunk)
        BY <2>1, PhysNode DEF AddLeaf, IsNode, chunk_items
      <3>2. map \in Seq(Chunk) /\ map' = map \o chunk_items(image.nodes[Phys])
        BY <2>1 DEF AddLeaf, WalkInv, TypeOK
      <3> QED
        BY <3>1, <3>2, LookupStable
    <2>2. CASE ~AddLeaf
      <3>1. map' = map
        BY <2>2 DEF Next, vars, BudgetBreak, Unmapped, OutOfImage, Unparsable, Descend, Return
      <3> QED
        BY <3>1
    <2> QED
      BY <2>1, <2>2
  <1> QED
    BY <1>1, WalkInvariant, PTL DEF Spec, TranslationIsStable

-----------------------------------------------------------------------------
(* Why the budget suffices for a tree: some set V of tree addresses has    *)
(* been paid for, one visit each; what waits on the stack is new, waits    *)
(* once, and hangs below V.                                                *)
Paid(V) ==
  /\ Cardinality(V) = WalkBudget - budget
  /\ V \cap Range(stack) = {}
  /\ IsInjective(stack)
  /\ \A l \in V \cup Range(stack) :
       \/ l = sb.chunk_root
       \/ \E p \in V : BootReadable(p) /\ l \in Range(key_ptrs(BootNode(p)))

(* A cut walk has spent its budget; and every visit went to a new node.    *)
PaidInv ==
  /\ result = "ok" /\ stack # <<>> => budget = 0
  /\ SelfDescribing(ChunkTree) /\ TreeShaped(ChunkTree) =>
       \E V \in SUBSET ChunkTree : Paid(V)

(* Popping keeps the waiting addresses distinct and takes the top one out. *)
LEMMA PopInjective ==
  ASSUME NEW A, NEW s \in Seq(A), s # <<>>, IsInjective(s)
  PROVE  /\ IsInjective(SubSeq(s, 1, Len(s) - 1))
         /\ s[Len(s)] \notin Range(SubSeq(s, 1, Len(s) - 1))
  <1> DEFINE t == SubSeq(s, 1, Len(s) - 1)
  <1>1. Len(s) \in Nat \ {0} /\ DOMAIN s = 1 .. Len(s)
    OBVIOUS
  <1>2. DOMAIN t = 1 .. Len(s) - 1 /\ \A i \in 1 .. Len(s) - 1 : t[i] = s[i]
    BY <1>1
  <1> HIDE DEF t
  <1>3. ASSUME NEW i \in 1 .. Len(s) - 1 PROVE i \in DOMAIN s /\ i # Len(s)
    <2>1. \A n \in Nat \ {0} : \A k \in 1 .. n - 1 : k \in 1 .. n /\ k # n
      OBVIOUS
    <2> QED
      BY <1>1, <2>1, Zenon
  <1>4. Len(s) \in DOMAIN s
    BY <1>1
  <1>5. IsInjective(t) /\ s[Len(s)] \notin Range(t)
    BY <1>2, <1>3, <1>4, Zenon DEF IsInjective, Range
  <1> QED
    BY <1>5 DEF t

(* Two disjoint lists of distinct addresses make one. *)
LEMMA ExtendInjective ==
  ASSUME NEW A, NEW s \in Seq(A), NEW t \in Seq(A),
         IsInjective(s), IsInjective(t), Range(s) \cap Range(t) = {}
  PROVE  IsInjective(s \o t)
  <1> DEFINE st == s \o t
  <1>1. /\ DOMAIN s = 1 .. Len(s) /\ DOMAIN t = 1 .. Len(t) /\ DOMAIN st = 1 .. Len(s) + Len(t)
        /\ Len(s) \in Nat /\ Len(t) \in Nat
        /\ \A i \in 1 .. Len(s) : st[i] = s[i]
        /\ \A i \in Len(s) + 1 .. Len(s) + Len(t) : st[i] = t[i - Len(s)]
    OBVIOUS
  <1> HIDE DEF st
  <1>2. \A i \in DOMAIN st : \/ i \in DOMAIN s /\ st[i] = s[i]
                             \/ i - Len(s) \in DOMAIN t /\ st[i] = t[i - Len(s)]
    BY <1>1
  <1>3. \A i \in DOMAIN s, j \in DOMAIN t : s[i] # t[j]
    BY DEF Range
  <1>4. ASSUME NEW i \in DOMAIN st, NEW j \in DOMAIN st, st[i] = st[j] PROVE i = j
    <2>1. i \in Nat /\ j \in Nat
      BY <1>1
    <2>2. (i \in DOMAIN s /\ j \in DOMAIN s /\ s[i] = s[j])
          \/ (i - Len(s) \in DOMAIN t /\ j - Len(s) \in DOMAIN t /\ t[i - Len(s)] = t[j - Len(s)])
      BY <1>2, <1>3, <1>4
    <2>3. i = j \/ i - Len(s) = j - Len(s)
      BY <2>2 DEF IsInjective
    <2> QED
      BY <1>1, <2>1, <2>3
  <1>5. IsInjective(st)
    BY <1>4 DEF IsInjective
  <1> QED
    BY <1>5 DEF st

(* The addresses of the tree are finitely many. *)
LEMMA TreeFinite ==
  ASSUME IsImage(image)
  PROVE  IsFiniteSet(ChunkTree)
  <1>1. IsFiniteSet(Addr)
    BY FS_Interval, WidthAssumption DEF Addr
  <1> QED
    BY <1>1, TreeClosed, FS_Subset

(* The shape of the tree is a matter of the image alone. *)
LEMMA FrozenShape ==
  ASSUME image' = image
  PROVE  TreeShaped(ChunkTree)' = TreeShaped(ChunkTree)
  BY DEF TreeShaped, sb, ChunkTree, BootEdges, BootPhys, BootReadable, BootNode

(* At the start nothing is paid for and the root waits. *)
LEMMA InitPaid == Init => PaidInv
  <1> SUFFICES ASSUME Init PROVE PaidInv
    OBVIOUS
  <1>1. Cardinality({}) = 0 /\ WalkBudget - budget = 0
    BY FS_EmptySet, WalkBudgetAssumption DEF Init
  <1>2. Range(stack) = {sb.chunk_root} /\ IsInjective(stack)
    BY DEF Init, sb, Range, IsInjective
  <1>3. Paid({})
    BY <1>1, <1>2 DEF Paid
  <1> QED
    BY <1>3 DEF PaidInv, Init

(* A visit to the tree pays for an address not paid for before. *)
LEMMA PayTop ==
  ASSUME WalkInv, Visit, SelfDescribing(ChunkTree), NEW V \in SUBSET ChunkTree, Paid(V)
  PROVE  /\ V \cup {Top} \in SUBSET ChunkTree
         /\ Cardinality(V \cup {Top}) = WalkBudget - budget'
         /\ Top \notin V /\ Top \notin Range(Pop) /\ IsInjective(Pop)
  <1>1. Top \in ChunkTree /\ IsFiniteSet(V)
    BY PhysIsBoot, VisitFacts, TreeFinite, FS_Subset
  <1>2. stack \in Seq(Addr) /\ stack # <<>> /\ IsInjective(stack)
    BY DEF WalkInv, TypeOK, Visit, Paid
  <1>3. Top \notin Range(Pop) /\ IsInjective(Pop)
    BY <1>2, PopInjective DEF Top, Pop
  <1>4. Top \notin V
    BY VisitFacts DEF Paid
  <1>5. Cardinality(V \cup {Top}) = Cardinality(V) + 1
    BY <1>1, <1>4, FS_AddElement
  <1>6. budget \in Nat /\ budget' = budget - 1 /\ Cardinality(V) = WalkBudget - budget
    BY WalkBudgetAssumption DEF WalkInv, TypeOK, Visit, Paid
  <1>7. Cardinality(V \cup {Top}) = WalkBudget - budget'
    BY <1>5, <1>6, WalkBudgetAssumption
  <1> QED
    BY <1>1, <1>3, <1>4, <1>7

(* An iteration that leaves the popped address behind and pushes nothing. *)
LEMMA PopPaid ==
  ASSUME WalkInv, Visit, stack' = Pop, SelfDescribing(ChunkTree),
         NEW V \in SUBSET ChunkTree, Paid(V)
  PROVE  \E W \in SUBSET ChunkTree : Paid(W)'
  <1>1. V \cup {Top} \in SUBSET ChunkTree
    BY PayTop
  <1>2. PICK W \in SUBSET ChunkTree : W = V \cup {Top}
    BY <1>1
  <1>3. Cardinality(W) = WalkBudget - budget' /\ W \cap Range(Pop) = {} /\ IsInjective(Pop)
    <2>1. V \cap Range(Pop) = {}
      BY VisitFacts DEF Paid
    <2> QED
      BY <1>2, <2>1, PayTop
  <1>4. \A l \in W \cup Range(Pop) :
          \/ l = sb.chunk_root
          \/ \E p \in W : BootReadable(p) /\ l \in Range(key_ptrs(BootNode(p)))
    BY <1>2, VisitFacts DEF Paid
  <1>5. Paid(W)'
    BY <1>3, <1>4, Frozen, VisitFacts DEF Paid
  <1> QED
    BY <1>5

(* Descending: the pointers of the popped node are new, because every      *)
(* address that was named already was named by a node paid for earlier.    *)
LEMMA DescendPaid ==
  ASSUME WalkInv, Descend, SelfDescribing(ChunkTree), TreeShaped(ChunkTree),
         NEW V \in SUBSET ChunkTree, Paid(V)
  PROVE  \E W \in SUBSET ChunkTree : Paid(W)'
  <1>0. PICK ptrs, W : ptrs = key_ptrs(BootNode(Top)) /\ W = V \cup {Top}
    OBVIOUS
  <1>1. Visit /\ stack' = Pop \o key_ptrs(image.nodes[Phys])
    BY DEF Descend, VisitNode
  <1>2. Phys = BootPhys(Top) /\ Top \in ChunkTree
    BY <1>1, PhysIsBoot
  <1>3. BootReadable(Top) /\ stack' = Pop \o ptrs
    BY <1>0, <1>1, <1>2 DEF Descend, VisitNode, BootReadable, BootNode
  <1>4. ptrs \in Seq(Addr) /\ Pop \in Seq(Addr) /\ image' = image
    BY <1>0, <1>1, <1>3, BootNodeType, VisitFacts
  <1>5. /\ W \in SUBSET ChunkTree /\ Cardinality(W) = WalkBudget - budget'
        /\ Top \notin V /\ Top \notin Range(Pop) /\ IsInjective(Pop)
    BY <1>0, <1>1, PayTop
  <1>6. /\ \A i \in DOMAIN ptrs : ptrs[i] # sb.chunk_root
        /\ \A i, j \in DOMAIN ptrs : ptrs[i] = ptrs[j] => i = j
        /\ \A p \in V : BootReadable(p) =>
             \A i \in DOMAIN ptrs, j \in DOMAIN key_ptrs(BootNode(p)) :
               ptrs[i] # key_ptrs(BootNode(p))[j]
    BY <1>0, <1>2, <1>3, <1>5 DEF TreeShaped
  <1>7. IsInjective(ptrs)
    BY <1>6 DEF IsInjective
  <1>8. ASSUME NEW i \in DOMAIN ptrs PROVE ptrs[i] \notin V \cup Range(stack)
    <2> SUFFICES ASSUME ptrs[i] \in V \cup Range(stack) PROVE FALSE
      OBVIOUS
    <2>1. PICK p \in V : BootReadable(p) /\ ptrs[i] \in Range(key_ptrs(BootNode(p)))
      BY <1>6 DEF Paid
    <2> QED
      BY <1>6, <2>1 DEF Range
  <1>9. Range(ptrs) \cap (V \cup Range(stack)) = {}
    BY <1>8 DEF Range
  <1>10. Range(stack) = Range(Pop) \cup {Top}
    BY <1>1, VisitFacts
  <1>11. IsInjective(stack') /\ Range(stack') = Range(Pop) \cup Range(ptrs)
    BY <1>3, <1>4, <1>5, <1>7, <1>9, <1>10, ExtendInjective, ExtendLemma
  <1>12. W \cap Range(stack') = {}
    BY <1>0, <1>5, <1>9, <1>10, <1>11 DEF Paid
  <1>13. \A l \in W \cup Range(stack') :
          \/ l = sb.chunk_root
          \/ \E p \in W : BootReadable(p) /\ l \in Range(key_ptrs(BootNode(p)))
    BY <1>0, <1>3, <1>10, <1>11 DEF Paid
  <1>14. Paid(W)'
    BY <1>4, <1>5, <1>11, <1>12, <1>13, Frozen DEF Paid
  <1> QED
    BY <1>5, <1>14

(* Every step keeps the account. *)
LEMMA StepPaid == WalkInv /\ PaidInv /\ [Next]_vars => PaidInv'
  <1> SUFFICES ASSUME WalkInv, PaidInv, [Next]_vars PROVE PaidInv'
    OBVIOUS
  <1>1. image' = image
    BY DEF Next, vars, BudgetBreak, Unmapped, OutOfImage, Unparsable, AddLeaf, Descend, Return,
           VisitNode, Visit
  <1>2. (result = "ok" /\ stack # <<>> => budget = 0)'
    <2>1. CASE Visit
      BY <2>1 DEF Next, vars, BudgetBreak, Unmapped, OutOfImage, Unparsable, AddLeaf, Descend,
                  Return, VisitNode, Visit
    <2>2. CASE BudgetBreak \/ Return \/ UNCHANGED vars
      BY <2>2 DEF BudgetBreak, Return, vars, PaidInv
    <2> QED
      BY <2>1, <2>2 DEF Next, Unmapped, OutOfImage, Unparsable, AddLeaf, Descend, VisitNode
  <1>3. ASSUME (SelfDescribing(ChunkTree) /\ TreeShaped(ChunkTree))'
        PROVE  (\E V \in SUBSET ChunkTree : Paid(V))'
    <2>1. SelfDescribing(ChunkTree) /\ TreeShaped(ChunkTree) /\ ChunkTree' = ChunkTree
      BY <1>1, <1>3, Frozen, FrozenShape
    <2>2. PICK V \in SUBSET ChunkTree : Paid(V)
      BY <2>1 DEF PaidInv
    <2>3. CASE Unmapped \/ OutOfImage \/ Unparsable \/ AddLeaf
      <3>1. Visit /\ stack' = Pop
        BY <2>3 DEF Unmapped, OutOfImage, Unparsable, AddLeaf, VisitNode
      <3> QED
        BY <2>1, <2>2, <3>1, PopPaid
    <2>4. CASE Descend
      BY <2>1, <2>2, <2>4, DescendPaid
    <2>5. CASE BudgetBreak \/ Return \/ UNCHANGED vars
      <3>1. UNCHANGED <<image, stack, budget>>
        BY <2>5 DEF BudgetBreak, Return, vars
      <3>2. Paid(V)'
        BY <2>2, <3>1, Frozen DEF Paid
      <3> QED
        BY <2>1, <3>2
    <2> QED
      BY <2>3, <2>4, <2>5 DEF Next
  <1> QED
    BY <1>2, <1>3 DEF PaidInv

(* When the budget is spent, WalkBudget nodes are paid for and one more    *)
(* waits.                                                                  *)
LEMMA InvBudget == WalkInv /\ PaidInv => BudgetSuffices
  <1> SUFFICES ASSUME WalkInv, PaidInv, result = "ok", stack # <<>>,
                      SelfDescribing(ChunkTree), TreeShaped(ChunkTree)
               PROVE  Cardinality(ChunkTree) > WalkBudget
    BY DEF BudgetSuffices
  <1>1. PICK V \in SUBSET ChunkTree : Paid(V)
    BY DEF PaidInv
  <1>2. IsImage(image) /\ stack \in Seq(Addr) /\ Range(stack) \subseteq ChunkTree
    BY DEF WalkInv, TypeOK, TreeInv
  <1>3. Cardinality(V) = WalkBudget
    BY <1>1, WalkBudgetAssumption DEF Paid, PaidInv
  <1>4. IsFiniteSet(ChunkTree) /\ IsFiniteSet(V)
    BY <1>2, TreeFinite, FS_Subset
  <1>5. Range(stack) # {}
    BY <1>2, RangeLemma
  <1>6. V # ChunkTree
    BY <1>1, <1>2, <1>5 DEF Paid
  <1>7. Cardinality(V) <= Cardinality(ChunkTree) /\ Cardinality(ChunkTree) # Cardinality(V)
    BY <1>4, <1>6, FS_Subset
  <1>8. Cardinality(ChunkTree) \in Nat
    BY <1>4, FS_CardinalityType
  <1> QED
    BY <1>3, <1>7, <1>8, WalkBudgetAssumption

(* A proper tree of at most WalkBudget nodes is never cut short.           *)
THEOREM WalkBudgetSuffices == Spec => []BudgetSuffices
  <1>1. Spec => []PaidInv
    BY InitPaid, StepPaid, WalkInvariant, PTL DEF Spec
  <1> QED
    BY <1>1, InvBudget, WalkInvariant, PTL

(* A walk all of whose nodes can be read does not fail. *)
LEMMA ReadableTreeNeverErrs ==
  ASSUME WalkInv, result # "err", [Next]_vars,
         SelfDescribing(ChunkTree), \A l \in ChunkTree : BootReadable(l)
  PROVE  result' # "err"
  <1>1. ASSUME Visit PROVE Phys # None /\ InImage(image, Phys)
    BY <1>1, PhysIsBoot DEF BootReadable
  <1> QED
    BY <1>1 DEF Next, vars, BudgetBreak, Unmapped, OutOfImage, Unparsable, AddLeaf, Descend,
                Return, VisitNode
=============================================================================
