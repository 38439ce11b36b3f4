--------------------------------- MODULE Audit ---------------------------------
(***************************************************************************)
(* audit_image: the chunk walk, the geometry checks, the checksum sweep,   *)
(* the backup-root checks and the orphan scan, one after the other over    *)
(* one image, all reporting into one list.  The walk and the sweep are the *)
(* modules ChunkWalk and NodeSweep; the map the sweep uses is the one the  *)
(* walk built.                                                             *)
(***************************************************************************)
EXTENDS FsTree, SequencesExt

CONSTANTS
  Images,       \* the images the auditor may be given
  WalkBudget,
  SweepBudget

ASSUME ImagesAssumption ==
  \A img \in Images : IsImage(img) /\ HasItems(img) /\ img.sb.generation \in Nat
ASSUME BudgetAssumption == WalkBudget \in Nat /\ SweepBudget \in Nat

VARIABLES
  image,
  map,                \* the walk's map, then the finished one
  wstack, wbudget, bootstrapped_root, result,   \* ChunkMap::walk
  pushing, stack, seen, budget, swept,          \* sweep_node_crcs
  slot,               \* the backup slot check_backup_roots looks at next
  fs_roots,           \* the FS_TREE roots the orphan scan has still to read
  seen_inodes,        \* the orphans reported
  out,                \* the anomalies
  phase

walkVars == <<wstack, wbudget, bootstrapped_root, result>>
sweepVars == <<pushing, stack, seen, budget, swept>>
scanVars == <<slot, fs_roots, seen_inodes>>
vars == <<image, map, walkVars, sweepVars, scanVars, out, phase>>

sb == image.sb

W == INSTANCE ChunkWalk WITH stack <- wstack, budget <- wbudget
S == INSTANCE NodeSweep WITH Inputs <- {}

Init ==
  /\ W!Init
  /\ pushing = <<>> /\ stack = <<>> /\ seen = {} /\ budget = SweepBudget /\ swept = "running"
  /\ slot = 1 /\ fs_roots = {} /\ seen_inodes = {}
  /\ out = <<>>
  /\ phase = "start"

-----------------------------------------------------------------------------
(* No superblock in the image: nothing to audit. *)
NotBtrfs ==
  /\ phase = "start"
  /\ ~image.sb_parses
  /\ phase' = "done"
  /\ UNCHANGED <<image, map, walkVars, sweepVars, scanVars, out>>

(* The superblock's own checksum; None (an unsupported type) is no report. *)
CheckSuperblock ==
  /\ phase = "start"
  /\ image.sb_parses
  /\ out' = IF sb.csum_type = "crc32c" /\ ~sb.intact
            THEN <<[kind |-> "SuperblockCrcMismatch"]>> ELSE <<>>
  /\ phase' = "walk"
  /\ UNCHANGED <<image, map, walkVars, sweepVars, scanVars>>

Walk ==
  /\ phase = "walk"
  /\ W!Next
  /\ UNCHANGED <<sweepVars, scanVars, out, phase>>

(* Mutant: a root is compared with the image length only. *)
UnreachablePastEnd(m, field, logical) ==
  IF logical < image.len THEN <<>>
  ELSE <<[kind |-> "ImpossibleGeometry", field |-> field, value |-> logical]>>

(* Mutant: the place looked at is reported instead of the address. *)
UnreachablePhysical(m, field, logical) ==
  IF logical = 0 \/ Readable(image, m, logical) THEN <<>>
  ELSE <<[kind |-> "ImpossibleGeometry", field |-> field, value |-> Translate(image, m, logical)]>>

(* check_root_reachable *)
Unreachable(m, field, logical) ==
  IF logical = 0 \/ Readable(image, m, logical) THEN <<>>
  ELSE <<[kind |-> "ImpossibleGeometry", field |-> field, value |-> logical]>>

(* Mutant: the walk's map is lost even when the walk succeeds. *)
CheckGeometryNoMap ==
  /\ phase = "walk"
  /\ result # "running"
  /\ map' = <<>>
  /\ out' = out \o Unreachable(map', "root", sb.root)
                \o Unreachable(map', "chunk_root", sb.chunk_root)
  /\ pushing' = S!Seeds(sb)
  /\ phase' = "sweep"
  /\ UNCHANGED <<image, walkVars, stack, seen, budget, swept, scanVars>>

(* The walk is over: an error becomes the empty map (unwrap_or_default),   *)
(* the two roots are looked up, and the sweep is seeded.                   *)
CheckGeometry ==
  /\ phase = "walk"
  /\ result # "running"
  /\ map' = IF result = "err" THEN <<>> ELSE map
  /\ out' = out \o Unreachable(map', "root", sb.root)
                \o Unreachable(map', "chunk_root", sb.chunk_root)
  /\ pushing' = S!Seeds(sb)
  /\ phase' = "sweep"
  /\ UNCHANGED <<image, walkVars, stack, seen, budget, swept, scanVars>>

Sweep ==
  /\ phase = "sweep"
  /\ S!Next
  /\ UNCHANGED <<walkVars, scanVars, phase>>

(* Mutant: a backup of the current generation is taken for a newer one. *)
DivergesOrEqual(b) == b.tree_root_gen >= sb.generation

(* check_backup_roots: the reason a slot is reported for, if any. *)
Diverges(b) ==
  \/ b.tree_root_gen > sb.generation
  \/ b.fs_root_gen > sb.generation
  \/ b.tree_root # 0 /\ b.tree_root >= image.len

(* One turn of the loop of check_backup_roots. *)
CheckBackup ==
  /\ phase = "sweep"
  /\ swept # "running"
  /\ slot \in DOMAIN sb.backups
  /\ out' = IF Diverges(sb.backups[slot])
            THEN Append(out, [kind |-> "BackupRootDivergence", slot |-> slot]) ELSE out
  /\ slot' = slot + 1
  /\ UNCHANGED <<image, map, walkVars, sweepVars, fs_roots, seen_inodes, phase>>

(* The FS_TREE roots, by where they come from: the root tree (0) or a      *)
(* backup slot.                                                            *)
FsRoot(i) == IF i = 0 THEN fs_tree_root(image, map) ELSE sb.backups[i].fs_root

(* The ones to scan: the live root if the root tree yields one, then every *)
(* backup that is not there already.                                       *)
FsRoots ==
  {i \in 0 .. Len(sb.backups) :
     IF i = 0 THEN FsRoot(0) # None
     ELSE FsRoot(i) # 0 /\ \A j \in 0 .. i - 1 : FsRoot(j) # FsRoot(i)}

(* Mutant: the stage waits for a sweep that was not cut short. *)
ListFsRootsWhenDone ==
  /\ phase = "sweep"
  /\ swept = "done"
  /\ slot \notin DOMAIN sb.backups
  /\ fs_roots' = FsRoots
  /\ phase' = "orphans"
  /\ UNCHANGED <<image, map, walkVars, sweepVars, slot, seen_inodes, out>>

(* The backups are checked; scan_orphans lists the roots to read. *)
ListFsRoots ==
  /\ phase = "sweep"
  /\ swept # "running"
  /\ slot \notin DOMAIN sb.backups
  /\ fs_roots' = FsRoots
  /\ phase' = "orphans"
  /\ UNCHANGED <<image, map, walkVars, sweepVars, slot, seen_inodes, out>>

IsOrphan(it) == it.objectid = OrphanObjectid /\ it.key_type = "ORPHAN_ITEM"

FsLeaf(logical) ==
  /\ Readable(image, map, logical)
  /\ NodeAt(image, map, logical).owner = FsTreeObjectid

(* The inodes the orphan items at a root name. *)
Orphans(logical) ==
  LET items == leaf_items(NodeAt(image, map, logical))
  IN IF FsLeaf(logical) THEN {items[i].offset : i \in {j \in DOMAIN items : IsOrphan(items[j])}}
     ELSE {}

(* Mutant: the inodes reported for earlier roots are not remembered. *)
ScanOrphansForgets ==
  /\ phase = "orphans"
  /\ fs_roots # {}
  /\ \E logical \in {FsRoot(Min(fs_roots))} :
       LET new == SetToSeq(Orphans(logical))
       IN out' = out \o [k \in DOMAIN new |-> [kind |-> "OrphanedInode", inode |-> new[k]]]
  /\ seen_inodes' = seen_inodes
  /\ fs_roots' = fs_roots \ {Min(fs_roots)}
  /\ UNCHANGED <<image, map, walkVars, sweepVars, slot, phase>>

(* One FS_TREE root: each orphan is reported the first time it is met. The *)
(* order within one leaf is left out.                                      *)
ScanOrphans ==
  /\ phase = "orphans"
  /\ fs_roots # {}
  /\ \E logical \in {FsRoot(Min(fs_roots))} :
       LET new == SetToSeq(Orphans(logical) \ seen_inodes)
       IN /\ out' = out \o [k \in DOMAIN new |-> [kind |-> "OrphanedInode", inode |-> new[k]]]
          /\ seen_inodes' = seen_inodes \cup Orphans(logical)
  /\ fs_roots' = fs_roots \ {Min(fs_roots)}
  /\ UNCHANGED <<image, map, walkVars, sweepVars, slot, phase>>

Return ==
  /\ phase = "orphans"
  /\ fs_roots = {}
  /\ phase' = "done"
  /\ UNCHANGED <<image, map, walkVars, sweepVars, scanVars, out>>

Next ==
  \/ NotBtrfs
  \/ CheckSuperblock
  \/ Walk
  \/ CheckGeometry
  \/ Sweep
  \/ CheckBackup
  \/ ListFsRoots
  \/ ScanOrphans
  \/ Return

(* A sequential function: the next step always runs. *)
Spec == Init /\ [][Next]_vars /\ WF_vars(Next)

-----------------------------------------------------------------------------
(* The image judged from outside, without the walk, the map it builds or   *)
(* the sweep: chunks are what the chunk tree holds, and a node is where    *)
(* its chunk puts it.                                                      *)

ChunkSet == W!TreeChunks(W!ChunkTree)

WellMapped ==
  LET T == W!ChunkTree
      C == W!TreeChunks(T)
  IN /\ \A l \in T : W!BootReadable(l)
     /\ W!SelfDescribing(T) /\ W!TreeShaped(T) /\ Cardinality(T) <= WalkBudget
     /\ \A c \in C : ~Overflows(c) /\ c.stripes # <<>>
     /\ \A c, d \in C : (\E l \in Addr : Covers(c, l) /\ Covers(d, l)) => c = d

Home(l) ==
  LET C == {c \in ChunkSet : Covers(c, l)}
  IN IF C = {} THEN None ELSE FirstStripe(CHOOSE c \in C : TRUE, l)

GenuineAt(l) ==
  LET p == Home(l)
  IN p # None /\ InImage(image, p) /\ Parses(image)
       /\ image.nodes[p].bytenr = l /\ image.nodes[p].fsid = sb.fsid

(* The nodes of the two trees the superblock names, the root tree and the  *)
(* chunk tree: from their roots by key pointers through genuine nodes;     *)
(* zero is no address.                                                     *)
LiveNodes ==
  LET G == {l \in Addr : GenuineAt(l)}
      Ptrs(l) == Range(key_ptrs(image.nodes[Home(l)])) \ {0}
  IN S!Reachable(G, ({sb.root, sb.chunk_root} \ {0}) \cap G, UNION {{l} \X (Ptrs(l) \cap G) : l \in G})

(* A filesystem nobody tampered with, on crc32c.  Its sys_chunk_array      *)
(* repeats chunks of the chunk tree.                                       *)
Clean ==
  /\ image.sb_parses /\ sb.intact /\ sb.csum_type = "crc32c"
  /\ WellMapped
  /\ Range(sb.sys_chunks) \subseteq ChunkSet
  /\ GenuineAt(sb.root) /\ GenuineAt(sb.chunk_root)
  /\ \A l \in Addr : GenuineAt(l) => image.nodes[Home(l)].intact
  /\ \A i \in DOMAIN sb.backups :
       sb.backups[i].tree_root_gen <= sb.generation /\ sb.backups[i].fs_root_gen <= sb.generation
  /\ \A p \in 0 .. image.len : \A i \in DOMAIN image.nodes[p].items :
       ~IsOrphan(image.nodes[p].items[i])

Reported(kind) == {i \in DOMAIN out : out[i].kind = kind}

(* audit_image is silent on a clean image: none of its stages takes a      *)
(* stale backup slot, a dangling pointer or an address only the chunk map  *)
(* knows for damage.  The backup tree roots have to lie below the image    *)
(* length, see CleanImageIsSilent.                                         *)
CleanIsSilent ==
  /\ phase = "done"
  /\ Clean
  /\ \A i \in DOMAIN sb.backups : sb.backups[i].tree_root < image.len
  => out = <<>>

(* End to end through audit_image: a node of the root tree or of the chunk *)
(* tree whose body was changed after its checksum was stored is reported,  *)
(* wherever the chunk tree puts it, unless the sweep ran out of budget.    *)
(* The trees that ROOT_ITEMs name are not swept for their own sake.        *)
TamperIsReported ==
  phase = "done" /\ swept = "done" /\ WellMapped =>
    \A l \in LiveNodes :
      image.nodes[Home(l)].intact
        \/ \E i \in Reported("NodeCrcMismatch") : out[i].bytenr = l

(* The FS_TREEs named by the root tree and by the backup slots. *)
FsTreeRoots ==
  ({fs_tree_root(image, map)} \ {None})
    \cup ({sb.backups[i].fs_root : i \in DOMAIN sb.backups} \ {0})

(* The nodes of the tree below a root, as far as they can be read. *)
TreeNodes(logical) ==
  LET Ptrs(l) == Range(key_ptrs(NodeAt(image, map, l)))
  IN S!Reachable(Addr, {logical}, UNION {{l} \X Ptrs(l) : l \in {k \in Addr : Readable(image, map, k)}})

(* The orphans of all leaves of a tree. *)
TreeOrphans(logical) == UNION {Orphans(l) : l \in TreeNodes(logical)}

OneLeaf(logical) == Readable(image, map, logical) /\ is_leaf(NodeAt(image, map, logical))

(* An empty report of audit_image means something: the two live roots were *)
(* read, no node that the sweep can reach is corrupt, and no FS_TREE of a  *)
(* single leaf has an orphan, although a failed walk is replaced by an     *)
(* empty map and unreadable nodes are skipped.  Below an interior FS_TREE  *)
(* root there may be orphans: see OrphansExactlyOnce.                      *)
SilenceIsEarned ==
  phase = "done" /\ image.sb_parses /\ out = <<>> =>
    /\ \A l \in {sb.root, sb.chunk_root} \ {0} : Readable(image, map, l)
    /\ swept = "done" => \A l \in S!SweepTree : ~S!Corrupt(l)
    /\ \A l \in FsTreeRoots : OneLeaf(l) => TreeOrphans(l) = {}

(* What scan_orphans finds: every orphan of the live and backup FS_TREEs   *)
(* that are a single leaf, exactly once (a lead in a backup survives an    *)
(* unreadable root tree, and the same inode in several generations is one  *)
(* lead), and nothing else.  It reads the node at a root and no other, so  *)
(* an orphan in a leaf below an interior root is missed, although its      *)
(* comment speaks of every reachable FS_TREE leaf.                         *)
OrphansExactlyOnce ==
  phase = "done" /\ image.sb_parses =>
    LET Found == UNION {TreeOrphans(l) : l \in {k \in FsTreeRoots : OneLeaf(k)}}
    IN \A ino \in Addr :
         Cardinality({i \in Reported("OrphanedInode") : out[i].inode = ino})
           = IF ino \in Found THEN 1 ELSE 0

(* Every image is audited to the end: both bounded walks return, cyclic    *)
(* trees included, and the stages behind them run.                         *)
AuditReturns == <>(phase = "done")

(* AnomalyKind, with the fields the properties tell apart. *)
Anomaly ==
  [kind : {"SuperblockCrcMismatch"}]
    \cup [kind : {"ImpossibleGeometry"}, field : {"root", "chunk_root"}, value : Addr]
    \cup [kind : {"NodeCrcMismatch"}, bytenr : Addr, offset : Addr]
    \cup [kind : {"BackupRootDivergence"}, slot : Nat]
    \cup [kind : {"OrphanedInode"}, inode : Addr]

(* The shapes of the auditor's own variables. *)
TypeOK ==
  /\ phase \in {"start", "walk", "sweep", "orphans", "done"}
  /\ map \in Seq(Chunk)
  /\ slot \in 1 .. Len(sb.backups) + 1
  /\ fs_roots \subseteq 0 .. Len(sb.backups)
  /\ seen_inodes \subseteq Addr
  /\ out \in Seq(Anomaly)

-----------------------------------------------------------------------------
(* What the documentation of audit_image says, and the code does not do.   *)

(* "A clean image yields an empty vector." *)
CleanImageIsSilent == phase = "done" /\ Clean => out = <<>>
=============================================================================
