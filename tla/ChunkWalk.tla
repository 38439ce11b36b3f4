------------------------------- MODULE ChunkWalk -------------------------------
(***************************************************************************)
(* ChunkMap::walk: the logical-to-physical map is bootstrapped from the    *)
(* superblock's sys_chunk_array and completed by walking the chunk tree    *)
(* from sb.chunk_root.  The walk reads the tree through the map it is       *)
(* still building: an entry added by one leaf changes how the next pointer *)
(* is translated.  One action is one branch of one iteration of the loop.  *)
(***************************************************************************)
EXTENDS BtrfsImage, Reachability, FiniteSets

CONSTANTS
  Images,      \* the images the program may be given
  WalkBudget   \* node visits the walk allows itself (4096 in the code)

ASSUME ImagesAssumption == \A img \in Images : IsImage(img)
ASSUME WalkBudgetAssumption == WalkBudget \in Nat

VARIABLES
  image,              \* the image being read; never written
  map,                \* the entries collected so far, in insertion order
  stack,              \* logical addresses still to visit; the last is the top
  budget,             \* visits left
  bootstrapped_root,  \* some address has been translated
  result              \* "running", or how the call returned: "ok" or "err"

vars == <<image, map, stack, budget, bootstrapped_root, result>>

sb == image.sb

Top == stack[Len(stack)]
Pop == SubSeq(stack, 1, Len(stack) - 1)

(* Mutant: an address the map does not know is taken for physical. *)
WalkLookupIdentity(entries, logical) ==
  LET phys == MapLookup(entries, logical) IN IF phys # None THEN phys ELSE logical

(* The map built so far first, then the bootstrap map: both are looked up  *)
(* as ChunkMaps, unlike read_node's fallback.                              *)
WalkLookup(entries, logical) ==
  LET phys == MapLookup(entries, logical)
  IN IF phys # None THEN phys ELSE MapLookup(sb.sys_chunks, logical)

Phys == WalkLookup(map, Top)

(* Mutant: one visit too few. *)
InitShort ==
  /\ image \in Images
  /\ map = <<>>
  /\ stack = <<image.sb.chunk_root>>
  /\ budget = WalkBudget - 1
  /\ bootstrapped_root = FALSE
  /\ result = "running"

Init ==
  /\ image \in Images
  /\ map = <<>>
  /\ stack = <<image.sb.chunk_root>>
  /\ budget = WalkBudget
  /\ bootstrapped_root = FALSE
  /\ result = "running"

-----------------------------------------------------------------------------
(* Mutant: the budget is not tested. *)
VisitUnbounded ==
  /\ result = "running"
  /\ stack # <<>>
  /\ budget' = budget - 1
  /\ UNCHANGED image

(* An iteration that gets past the budget test: the address is popped and  *)
(* paid for.                                                               *)
Visit ==
  /\ result = "running"
  /\ stack # <<>>
  /\ budget > 0
  /\ budget' = budget - 1
  /\ UNCHANGED image

(* Mutant: continue instead of break, with the address left on the stack. *)
BudgetContinue ==
  /\ result = "running"
  /\ stack # <<>>
  /\ budget = 0
  /\ UNCHANGED vars

(* budget == 0: break.  The popped address is dropped with the stack; it   *)
(* stays on the model's stack to tell a cut walk from a finished one.      *)
BudgetBreak ==
  /\ result = "running"
  /\ stack # <<>>
  /\ budget = 0
  /\ result' = "ok"
  /\ UNCHANGED <<image, map, stack, budget, bootstrapped_root>>

(* No chunk maps the address: fatal for the first translation, skipped     *)
(* afterwards.                                                             *)
Unmapped ==
  /\ Visit
  /\ Phys = None
  /\ stack' = Pop
  /\ result' = IF bootstrapped_root THEN result ELSE "err"
  /\ UNCHANGED <<map, bootstrapped_root>>

(* Mutant: a block outside the image is always fatal. *)
OutOfImageFatal ==
  /\ Visit
  /\ Phys # None
  /\ ~InImage(image, Phys)
  /\ stack' = Pop
  /\ bootstrapped_root' = TRUE
  /\ result' = "err"
  /\ UNCHANGED map

(* The block lies outside the image: fatal as long as the map is empty.    *)
OutOfImage ==
  /\ Visit
  /\ Phys # None
  /\ ~InImage(image, Phys)
  /\ stack' = Pop
  /\ bootstrapped_root' = TRUE
  /\ result' = IF map = <<>> THEN "err" ELSE result
  /\ UNCHANGED map

(* The block is shorter than a header: skipped. *)
Unparsable ==
  /\ Visit
  /\ Phys # None
  /\ InImage(image, Phys)
  /\ ~Parses(image)
  /\ stack' = Pop
  /\ bootstrapped_root' = TRUE
  /\ UNCHANGED <<map, result>>

(* The node at the popped address. *)
VisitNode ==
  /\ Visit
  /\ Phys # None
  /\ InImage(image, Phys)
  /\ Parses(image)
  /\ bootstrapped_root' = TRUE
  /\ UNCHANGED result

(* Mutant: a leaf replaces what earlier leaves gave. *)
AddLeafReplaces ==
  /\ VisitNode
  /\ is_leaf(image.nodes[Phys])
  /\ map' = chunk_items(image.nodes[Phys])
  /\ stack' = Pop

(* Mutant: the newest entries are tried first. *)
AddLeafPrepends ==
  /\ VisitNode
  /\ is_leaf(image.nodes[Phys])
  /\ map' = chunk_items(image.nodes[Phys]) \o map
  /\ stack' = Pop

(* A leaf: add_from_node appends its chunks in item order. *)
AddLeaf ==
  /\ VisitNode
  /\ is_leaf(image.nodes[Phys])
  /\ map' = map \o chunk_items(image.nodes[Phys])
  /\ stack' = Pop

(* An interior node: every pointer is pushed, the last one ends on top. *)
Descend ==
  /\ VisitNode
  /\ ~is_leaf(image.nodes[Phys])
  /\ stack' = Pop \o key_ptrs(image.nodes[Phys])
  /\ UNCHANGED map

(* The stack is empty: Ok(map). *)
Return ==
  /\ result = "running"
  /\ stack = <<>>
  /\ result' = "ok"
  /\ UNCHANGED <<image, map, stack, budget, bootstrapped_root>>

Next ==
  \/ BudgetBreak
  \/ Unmapped
  \/ OutOfImage
  \/ Unparsable
  \/ AddLeaf
  \/ Descend
  \/ Return

(* A sequential loop: the next iteration always runs. *)
Spec == Init /\ [][Next]_vars /\ WF_vars(Next)

-----------------------------------------------------------------------------
(* What the walk is for: the tree it describes, seen from outside.         *)

BootPhys(logical) == MapLookup(sb.sys_chunks, logical)

BootReadable(logical) ==
  /\ BootPhys(logical) # None
  /\ InImage(image, BootPhys(logical))
  /\ Parses(image)

BootNode(logical) == image.nodes[BootPhys(logical)]

(* The addresses of the chunk tree: chunk_root and, from there, the        *)
(* pointers of every interior node that can be read through the            *)
(* sys_chunk_array.                                                        *)
BootEdges ==
  UNION {{l} \X Range(key_ptrs(BootNode(l))) : l \in {k \in Addr : BootReadable(k)}}

ChunkTree == Reachable(Addr, {sb.chunk_root}, BootEdges)

TreeChunks(T) == UNION {Range(chunk_items(BootNode(l))) : l \in {k \in T : BootReadable(k)}}

(* mkfs and the kernel keep the chunk tree inside SYSTEM chunks, which are *)
(* all in the sys_chunk_array, and the CHUNK_ITEMs repeat those entries:   *)
(* no chunk of the tree T places a node of the tree anywhere else.         *)
SelfDescribing(T) ==
  \A c \in TreeChunks(T), l \in T : SysChunkLookup(c, l) \in {None, BootPhys(l)}

-----------------------------------------------------------------------------
(* The shapes of the walk's variables. *)
TypeOK ==
  /\ IsImage(image)
  /\ map \in Seq(Chunk)
  /\ stack \in Seq(Addr)
  /\ budget \in 0 .. WalkBudget
  /\ bootstrapped_root \in BOOLEAN
  /\ result \in {"running", "ok", "err"}

(* On a self-describing image the walk never leaves the chunk tree and     *)
(* never maps a chunk the tree does not hold, although it re-translates    *)
(* every pointer through the entries it added itself (the fallback order   *)
(* in ChunkMap::walk).                                                     *)
StaysInTree ==
  LET T == ChunkTree
  IN SelfDescribing(T) => Range(stack) \subseteq T /\ Range(map) \subseteq TreeChunks(T)

(* A walk that returns Ok without being cut short by its budget has every  *)
(* chunk of the tree, and only those: no leaf is lost to the order in      *)
(* which ChunkMap::walk pops the stack.                                    *)
MapIsExact ==
  result = "ok" /\ stack = <<>> =>
    LET T == ChunkTree
    IN SelfDescribing(T) => Range(map) = TreeChunks(T)

(* ChunkMap::walk and read_node agree: after the walk, read_node finds     *)
(* every node the walk could read, at the same place, although it searches *)
(* the finished map and the raw sys_chunk_array instead of the bootstrap.  *)
ReadNodeAgrees ==
  result # "running" =>
    LET T == ChunkTree
    IN SelfDescribing(T) =>
         \A l \in T : BootReadable(l) =>
           /\ Readable(image, map, l)
           /\ Translate(image, map, l) = BootPhys(l)

(* The pointers of the tree name every address once: no two of them agree, *)
(* and none leads back to the root.                                        *)
TreeShaped(T) ==
  LET Ptrs(l) == key_ptrs(BootNode(l))
  IN \A p, q \in {l \in T : BootReadable(l)} : \A i \in DOMAIN Ptrs(p), j \in DOMAIN Ptrs(q) :
       /\ Ptrs(p)[i] # sb.chunk_root
       /\ Ptrs(p)[i] = Ptrs(q)[j] => p = q /\ i = j

(* The visit budget guards against cyclic trees only: a proper tree of at  *)
(* most WalkBudget nodes is never cut short.                               *)
BudgetSuffices ==
  result = "ok" /\ stack # <<>> =>
    LET T == ChunkTree
    IN SelfDescribing(T) /\ TreeShaped(T) => Cardinality(T) > WalkBudget

(* walk gives up before it has collected anything: callers that replace    *)
(* the error by an empty map (unwrap_or_default in audit_image) lose no    *)
(* chunk that was already read.                                            *)
ErrLosesNothing == result = "err" => map = <<>>

(* Growing the map never moves an address that is already mapped: the      *)
(* first entry wins, so data read early and data read late agree.          *)
TranslationIsStable ==
  [][\A l \in Addr : MapLookup(map, l) # None => MapLookup(map', l) = MapLookup(map, l)]_vars

(* The walk returns on every image, cyclic chunk trees included: the visit *)
(* budget of ChunkMap::walk is paid before anything else.                  *)
WalkReturns == <>(result # "running")

=============================================================================
