------------------------------ MODULE AuditProofs ------------------------------
(***************************************************************************)
(* audit_image end to end, on every image and with every pair of budgets.  *)
(* The invariants of ChunkMap::walk and of sweep_node_crcs are taken from  *)
(* the proofs about those modules; what is proved here is that the stages  *)
(* fit together.                                                           *)
(***************************************************************************)
EXTENDS Audit, ImageLemmas, FiniteSetTheorems

WP == INSTANCE ChunkWalkProofs WITH stack <- wstack, budget <- wbudget
SP == INSTANCE NodeSweepProofs WITH Inputs <- {}

-----------------------------------------------------------------------------
(* The walk and the sweep inside the auditor are the ones proved about.    *)

(* An image is an image in all of them. *)
LEMMA SameImage ==
  /\ Seq(WP!Chunk) = Seq(Chunk) /\ Seq(SP!Chunk) = Seq(Chunk) /\ WP!Addr = Addr /\ SP!Addr = Addr
  /\ \A img : WP!IsImage(img) <=> IsImage(img)
  /\ \A img : SP!IsImage(img) <=> IsImage(img)
  <1>1. WP!Chunk = Chunk /\ SP!Chunk = Chunk /\ WP!Addr = Addr /\ SP!Addr = Addr
    BY DEF WP!Chunk, SP!Chunk, Chunk, WP!Addr, SP!Addr, Addr
  <1>2. WP!RootBackup = RootBackup /\ SP!RootBackup = RootBackup
    BY <1>1 DEF WP!RootBackup, SP!RootBackup, RootBackup
  <1>3. /\ \A n : WP!IsNode(n) <=> IsNode(n)
        /\ \A n : SP!IsNode(n) <=> IsNode(n)
    BY <1>1 DEF WP!IsNode, SP!IsNode, IsNode
  <1>4. /\ \A s : WP!IsSuperblock(s) <=> IsSuperblock(s)
        /\ \A s : SP!IsSuperblock(s) <=> IsSuperblock(s)
    BY <1>1, <1>2 DEF WP!IsSuperblock, SP!IsSuperblock, IsSuperblock
  <1>5. /\ \A img : WP!IsImage(img) <=> IsImage(img)
        /\ \A img : SP!IsImage(img) <=> IsImage(img)
    BY <1>3, <1>4 DEF WP!IsImage, SP!IsImage, IsImage
  <1> QED
    BY <1>1, <1>5

(* The assumptions of the walk hold. *)
LEMMA WalkAssumptions ==
  /\ WP!WidthAssumption /\ WP!HeaderAssumption
  /\ WP!ImagesAssumption /\ WP!WalkBudgetAssumption
  BY WidthAssumption, HeaderAssumption, ImagesAssumption, BudgetAssumption, SameImage
     DEF WP!WidthAssumption, WP!HeaderAssumption, WP!ImagesAssumption, WP!WalkBudgetAssumption

(* So do those of the sweep; it takes its image and map from the walk. *)
LEMMA SweepAssumptions ==
  /\ SP!WidthAssumption /\ SP!HeaderAssumption
  /\ SP!InputsAssumption /\ SP!SweepBudgetAssumption
  BY WidthAssumption, HeaderAssumption, BudgetAssumption
     DEF SP!WidthAssumption, SP!HeaderAssumption, SP!InputsAssumption, SP!SweepBudgetAssumption

(* A lookup is the same lookup in all of them. *)
LEMMA SameLookup ==
  /\ \A m, l : W!MapLookup(m, l) = MapLookup(m, l)
  /\ \A m, l : WP!MapLookup(m, l) = MapLookup(m, l)
  /\ \A m, l : S!MapLookup(m, l) = MapLookup(m, l)
  /\ \A m, l : SP!MapLookup(m, l) = MapLookup(m, l)
  /\ W!None = None /\ WP!None = None /\ S!None = None /\ SP!None = None
  <1>1. \A m, l : W!MapLookup(m, l) = MapLookup(m, l)
    BY DEF W!MapLookup, MapLookup, W!Covers, Covers, W!Overflows, Overflows,
      W!FirstStripe, FirstStripe, W!CheckedAdd, CheckedAdd, W!None, None, W!Min, Min
  <1>2. \A m, l : WP!MapLookup(m, l) = MapLookup(m, l)
    BY DEF WP!MapLookup, MapLookup, WP!Covers, Covers, WP!Overflows, Overflows,
      WP!FirstStripe, FirstStripe, WP!CheckedAdd, CheckedAdd, WP!None, None, WP!Min, Min
  <1>3. \A m, l : S!MapLookup(m, l) = MapLookup(m, l)
    BY DEF S!MapLookup, MapLookup, S!Covers, Covers, S!Overflows, Overflows,
      S!FirstStripe, FirstStripe, S!CheckedAdd, CheckedAdd, S!None, None, S!Min, Min
  <1>4. \A m, l : SP!MapLookup(m, l) = MapLookup(m, l)
    BY DEF SP!MapLookup, MapLookup, SP!Covers, Covers, SP!Overflows, Overflows,
      SP!FirstStripe, FirstStripe, SP!CheckedAdd, CheckedAdd, SP!None, None, SP!Min, Min
  <1> QED
    BY <1>1, <1>2, <1>3, <1>4 DEF W!None, WP!None, S!None, SP!None, None

(* So is one entry of the sys_chunk_array. *)
LEMMA SameSysChunk ==
  /\ \A c, l : W!SysChunkLookup(c, l) = SysChunkLookup(c, l)
  /\ \A c, l : WP!SysChunkLookup(c, l) = SysChunkLookup(c, l)
  /\ \A c, l : S!SysChunkLookup(c, l) = SysChunkLookup(c, l)
  /\ \A c, l : SP!SysChunkLookup(c, l) = SysChunkLookup(c, l)
  <1>1. \A c, l : W!SysChunkLookup(c, l) = SysChunkLookup(c, l)
    BY DEF W!SysChunkLookup, SysChunkLookup, W!Covers, Covers, W!Overflows, Overflows,
      W!FirstStripe, FirstStripe, W!CheckedAdd, CheckedAdd, W!None, None
  <1>2. \A c, l : WP!SysChunkLookup(c, l) = SysChunkLookup(c, l)
    BY DEF WP!SysChunkLookup, SysChunkLookup, WP!Covers, Covers, WP!Overflows, Overflows,
      WP!FirstStripe, FirstStripe, WP!CheckedAdd, CheckedAdd, WP!None, None
  <1>3. \A c, l : S!SysChunkLookup(c, l) = SysChunkLookup(c, l)
    BY DEF S!SysChunkLookup, SysChunkLookup, S!Covers, Covers, S!Overflows, Overflows,
      S!FirstStripe, FirstStripe, S!CheckedAdd, CheckedAdd, S!None, None
  <1>4. \A c, l : SP!SysChunkLookup(c, l) = SysChunkLookup(c, l)
    BY DEF SP!SysChunkLookup, SysChunkLookup, SP!Covers, Covers, SP!Overflows, Overflows,
      SP!FirstStripe, FirstStripe, SP!CheckedAdd, CheckedAdd, SP!None, None
  <1> QED
    BY <1>1, <1>2, <1>3, <1>4

(* read_node, the node it returns and what is asked of it. *)
LEMMA SameReader ==
  /\ \A img, m, l : S!Translate(img, m, l) = Translate(img, m, l)
  /\ \A img, m, l : SP!Translate(img, m, l) = Translate(img, m, l)
  /\ \A img, m, l : S!Readable(img, m, l) = Readable(img, m, l)
  /\ \A img, m, l : SP!Readable(img, m, l) = Readable(img, m, l)
  /\ \A img, m, l : S!NodeAt(img, m, l) = NodeAt(img, m, l)
  /\ \A img, m, l : SP!NodeAt(img, m, l) = NodeAt(img, m, l)
  /\ \A n : S!key_ptrs(n) = key_ptrs(n)
  /\ \A n : SP!key_ptrs(n) = key_ptrs(n)
  /\ \A n : W!key_ptrs(n) = key_ptrs(n)
  /\ \A n : WP!key_ptrs(n) = key_ptrs(n)
  /\ \A n : W!chunk_items(n) = chunk_items(n)
  /\ \A n : WP!chunk_items(n) = chunk_items(n)
  /\ \A img, n : S!CrcValid(img, n) = CrcValid(img, n)
  /\ \A img, n : SP!CrcValid(img, n) = CrcValid(img, n)
  <1>1. \A c, l : S!SysLookup(c, l) = SysLookup(c, l)
    BY DEF S!SysLookup, SysLookup, S!SysChunkLookup, SysChunkLookup, S!Covers, Covers,
      S!Overflows, Overflows, S!FirstStripe, FirstStripe, S!CheckedAdd, CheckedAdd,
      S!None, None, S!Min, Min
  <1>2. \A c, l : SP!SysLookup(c, l) = SysLookup(c, l)
    BY DEF SP!SysLookup, SysLookup, SP!SysChunkLookup, SysChunkLookup, SP!Covers, Covers,
      SP!Overflows, Overflows, SP!FirstStripe, FirstStripe, SP!CheckedAdd, CheckedAdd,
      SP!None, None, SP!Min, Min
  <1>3. /\ \A img, m, l : S!Translate(img, m, l) = Translate(img, m, l)
        /\ \A img, m, l : SP!Translate(img, m, l) = Translate(img, m, l)
    BY <1>1, <1>2, SameLookup DEF S!Translate, SP!Translate, Translate
  <1>4. /\ \A img, m, l : S!Readable(img, m, l) = Readable(img, m, l)
        /\ \A img, m, l : SP!Readable(img, m, l) = Readable(img, m, l)
    BY <1>3, SameLookup DEF S!Readable, SP!Readable, Readable, S!InImage, SP!InImage, InImage,
      S!Parses, SP!Parses, Parses
  <1>5. /\ \A img, m, l : S!NodeAt(img, m, l) = NodeAt(img, m, l)
        /\ \A img, m, l : SP!NodeAt(img, m, l) = NodeAt(img, m, l)
    BY <1>3 DEF S!NodeAt, SP!NodeAt, NodeAt
  <1>6. /\ \A n : S!key_ptrs(n) = key_ptrs(n)
        /\ \A n : SP!key_ptrs(n) = key_ptrs(n)
        /\ \A n : W!key_ptrs(n) = key_ptrs(n)
        /\ \A n : WP!key_ptrs(n) = key_ptrs(n)
        /\ \A n : W!chunk_items(n) = chunk_items(n)
        /\ \A n : WP!chunk_items(n) = chunk_items(n)
    BY DEF S!key_ptrs, SP!key_ptrs, W!key_ptrs, WP!key_ptrs, key_ptrs, W!chunk_items,
      WP!chunk_items, chunk_items, S!is_leaf, SP!is_leaf, W!is_leaf, WP!is_leaf, is_leaf
  <1>7. /\ \A img, n : S!CrcValid(img, n) = CrcValid(img, n)
        /\ \A img, n : SP!CrcValid(img, n) = CrcValid(img, n)
    BY DEF S!CrcValid, SP!CrcValid, CrcValid
  <1> QED
    BY <1>3, <1>4, <1>5, <1>6, <1>7

(* The walk: its start and its steps. *)
LEMMA SameWalk ==
  /\ W!Init <=> WP!Init
  /\ W!Next <=> WP!Next
  <1>1. W!Init <=> WP!Init
    BY DEF W!Init, WP!Init
  <1>2. W!Phys = WP!Phys /\ W!Top = WP!Top /\ W!Pop = WP!Pop
    BY SameLookup DEF W!Phys, WP!Phys, W!WalkLookup, WP!WalkLookup, W!Top, WP!Top, W!Pop, WP!Pop,
      W!sb, WP!sb
  <1>3. W!Visit <=> WP!Visit
    BY DEF W!Visit, WP!Visit
  <1>4. /\ \A img, p : W!InImage(img, p) <=> WP!InImage(img, p)
        /\ \A img : W!Parses(img) <=> WP!Parses(img)
        /\ \A n : W!is_leaf(n) <=> WP!is_leaf(n)
    BY DEF W!InImage, WP!InImage, W!Parses, WP!Parses, W!is_leaf, WP!is_leaf
  <1>5. W!VisitNode <=> WP!VisitNode
    BY <1>2, <1>3, <1>4, SameLookup DEF W!VisitNode, WP!VisitNode
  <1>6. /\ W!BudgetBreak <=> WP!BudgetBreak
        /\ W!Return <=> WP!Return
    BY DEF W!BudgetBreak, WP!BudgetBreak, W!Return, WP!Return
  <1>7. /\ W!Unmapped <=> WP!Unmapped
        /\ W!OutOfImage <=> WP!OutOfImage
        /\ W!Unparsable <=> WP!Unparsable
    BY <1>2, <1>3, <1>4, SameLookup DEF W!Unmapped, WP!Unmapped, W!OutOfImage, WP!OutOfImage,
      W!Unparsable, WP!Unparsable
  <1>8. /\ W!AddLeaf <=> WP!AddLeaf
        /\ W!Descend <=> WP!Descend
    BY <1>2, <1>4, <1>5, SameReader DEF W!AddLeaf, WP!AddLeaf, W!Descend, WP!Descend
  <1> QED
    BY <1>1, <1>6, <1>7, <1>8 DEF W!Next, WP!Next

(* The tree the walk is judged by. *)
LEMMA SameChunkTree ==
  /\ W!ChunkTree = WP!ChunkTree
  /\ \A T : W!TreeChunks(T) = WP!TreeChunks(T)
  /\ \A T : W!SelfDescribing(T) <=> WP!SelfDescribing(T)
  /\ \A T : W!TreeShaped(T) <=> WP!TreeShaped(T)
  /\ \A l : W!BootReadable(l) <=> WP!BootReadable(l)
  <1>1. \A l : W!BootPhys(l) = WP!BootPhys(l) /\ W!BootNode(l) = WP!BootNode(l)
    BY SameLookup DEF W!BootPhys, WP!BootPhys, W!BootNode, WP!BootNode, W!sb, WP!sb
  <1>2. \A l : W!BootReadable(l) <=> WP!BootReadable(l)
    BY <1>1, SameLookup DEF W!BootReadable, WP!BootReadable, W!InImage, WP!InImage,
      W!Parses, WP!Parses
  <1>3. \A s : W!Range(s) = WP!Range(s)
    BY DEF W!Range, WP!Range
  <1>4. W!BootEdges = WP!BootEdges
    BY <1>1, <1>2, <1>3, SameReader DEF W!BootEdges, WP!BootEdges, W!Addr, WP!Addr
  <1>5. W!ChunkTree = WP!ChunkTree
    BY <1>4 DEF W!ChunkTree, WP!ChunkTree, W!Reachable, WP!Reachable, W!Closed, WP!Closed,
      W!Addr, WP!Addr, W!sb, WP!sb
  <1>6. \A T : W!TreeChunks(T) = WP!TreeChunks(T)
    BY <1>1, <1>2, <1>3, SameReader DEF W!TreeChunks, WP!TreeChunks
  <1>7. \A T : W!SelfDescribing(T) <=> WP!SelfDescribing(T)
    BY <1>1, <1>6, SameSysChunk, SameLookup DEF W!SelfDescribing, WP!SelfDescribing
  <1>8. \A T : W!TreeShaped(T) <=> WP!TreeShaped(T)
    BY <1>1, <1>2, SameReader DEF W!TreeShaped, WP!TreeShaped, W!sb, WP!sb
  <1> QED
    BY <1>2, <1>5, <1>6, <1>7, <1>8

(* The sweep: its seeds and its steps. *)
LEMMA SameSweep ==
  /\ S!Next <=> SP!Next
  /\ \A s : S!Seeds(s) = SP!Seeds(s)
  <1>1. \A s : S!Seeds(s) = SP!Seeds(s)
    BY DEF S!Seeds, SP!Seeds
  <1>2. S!Top = SP!Top /\ S!Pop = SP!Pop /\ \A l : S!Offset(l) = SP!Offset(l)
    BY SameLookup DEF S!Top, SP!Top, S!Pop, SP!Pop, S!Offset, SP!Offset
  <1>3. /\ \A n, l : S!Genuine(n, l) <=> SP!Genuine(n, l)
        /\ \A n, l : S!Mismatch(n, l) = SP!Mismatch(n, l)
    BY <1>2 DEF S!Genuine, SP!Genuine, S!Mismatch, SP!Mismatch, S!sb, SP!sb
  <1>4. S!Judged = SP!Judged
    BY <1>2, <1>3, SameReader DEF S!Judged, SP!Judged
  <1>5. S!Visit <=> SP!Visit
    BY <1>2 DEF S!Visit, SP!Visit
  <1>6. /\ S!PushNonZero <=> SP!PushNonZero
        /\ S!BudgetBreak <=> SP!BudgetBreak
        /\ S!Return <=> SP!Return
    BY DEF S!PushNonZero, SP!PushNonZero, S!BudgetBreak, SP!BudgetBreak, S!Return, SP!Return
  <1>7. /\ S!SkipSeen <=> SP!SkipSeen
        /\ S!SkipUnreadable <=> SP!SkipUnreadable
        /\ S!SkipForeign <=> SP!SkipForeign
    BY <1>2, <1>3, <1>5, SameReader DEF S!SkipSeen, SP!SkipSeen, S!SkipUnreadable,
      SP!SkipUnreadable, S!SkipForeign, SP!SkipForeign
  <1>8. S!CheckNode <=> SP!CheckNode
    BY <1>2, <1>3, <1>4, <1>5, SameReader DEF S!CheckNode, SP!CheckNode
  <1> QED
    BY <1>1, <1>6, <1>7, <1>8 DEF S!Next, SP!Next

(* The tree the sweep is judged by. *)
LEMMA SameSweepTree ==
  /\ S!SweepTree = SP!SweepTree
  /\ \A l : S!Corrupt(l) <=> SP!Corrupt(l)
  <1>1. /\ \A l : S!IsGenuine(l) <=> SP!IsGenuine(l)
        /\ \A l : S!Corrupt(l) <=> SP!Corrupt(l)
    BY SameReader DEF S!IsGenuine, SP!IsGenuine, S!Corrupt, SP!Corrupt, S!Genuine, SP!Genuine,
      S!sb, SP!sb
  <1>2. \A s : S!Range(s) = SP!Range(s)
    BY DEF S!Range, SP!Range
  <1>3. S!Roots = SP!Roots /\ \A l : S!Children(l) = SP!Children(l)
    BY <1>2, SameSweep, SameReader DEF S!Roots, SP!Roots, S!Children, SP!Children, S!sb, SP!sb
  <1>4. S!Edges = SP!Edges
    BY <1>1, <1>3 DEF S!Edges, SP!Edges, S!Addr, SP!Addr
  <1>5. S!SweepTree = SP!SweepTree
    BY <1>3, <1>4 DEF S!SweepTree, SP!SweepTree, S!Reachable, SP!Reachable, S!Closed, SP!Closed,
      S!Addr, SP!Addr
  <1> QED
    BY <1>1, <1>5

-----------------------------------------------------------------------------
(* What the list of anomalies says: the nodes and the orphans it names.    *)

Bytenrs(o) == {o[i].bytenr : i \in {j \in DOMAIN o : o[j].kind = "NodeCrcMismatch"}}
Inodes(o) == {o[i].inode : i \in {j \in DOMAIN o : o[j].kind = "OrphanedInode"}}

(* No orphan is named twice. *)
Once(o) ==
  \A i, j \in DOMAIN o :
    /\ o[i].kind = "OrphanedInode" /\ o[j].kind = "OrphanedInode"
    /\ o[i].inode = o[j].inode
    => i = j

Joins(u, o, t) == u = o \o t

(* Adding to the list adds what the addition names. *)
LEMMA ConcatReports ==
  ASSUME NEW o \in Seq(Anomaly), NEW t \in Seq(Anomaly), NEW u, Joins(u, o, t)
  PROVE  /\ u \in Seq(Anomaly)
         /\ u = <<>> <=> o = <<>> /\ t = <<>>
         /\ Bytenrs(u) = Bytenrs(o) \cup Bytenrs(t)
         /\ Inodes(u) = Inodes(o) \cup Inodes(t)
         /\ Once(o) /\ Once(t) /\ Inodes(o) \cap Inodes(t) = {} => Once(u)
  <1>1. /\ u \in Seq(Anomaly)
        /\ DOMAIN o = 1 .. Len(o) /\ DOMAIN t = 1 .. Len(t) /\ DOMAIN u = 1 .. Len(o) + Len(t)
        /\ Len(o) \in Nat /\ Len(t) \in Nat /\ Len(u) = Len(o) + Len(t)
        /\ \A i \in 1 .. Len(o) + Len(t) : u[i] = IF i <= Len(o) THEN o[i] ELSE t[i - Len(o)]
    BY ConcatProperties DEF Joins
  <1>2. \A i \in DOMAIN o : i \in DOMAIN u /\ u[i] = o[i]
    BY <1>1
  <1>3. \A i \in DOMAIN t : Len(o) + i \in DOMAIN u /\ u[Len(o) + i] = t[i]
    BY <1>1
  <1>4. \A i \in DOMAIN u : \/ i \in DOMAIN o /\ u[i] = o[i]
                            \/ i - Len(o) \in DOMAIN t /\ u[i] = t[i - Len(o)]
    BY <1>1
  <1>5. Bytenrs(u) = Bytenrs(o) \cup Bytenrs(t)
    BY <1>2, <1>3, <1>4 DEF Bytenrs
  <1>6. Inodes(u) = Inodes(o) \cup Inodes(t)
    BY <1>2, <1>3, <1>4 DEF Inodes
  <1>7. u = <<>> <=> o = <<>> /\ t = <<>>
    BY <1>1
  <1>8. ASSUME Once(o), Once(t), Inodes(o) \cap Inodes(t) = {} PROVE Once(u)
    <2> SUFFICES ASSUME NEW i \in DOMAIN u, NEW j \in DOMAIN u,
                        u[i].kind = "OrphanedInode", u[j].kind = "OrphanedInode",
                        u[i].inode = u[j].inode
                 PROVE  i = j
      BY DEF Once
    <2>1. \A a \in DOMAIN o, b \in DOMAIN t :
            o[a].kind = "OrphanedInode" /\ t[b].kind = "OrphanedInode" => o[a].inode # t[b].inode
      BY <1>8 DEF Inodes
    <2>2. CASE i \in DOMAIN o /\ u[i] = o[i] /\ j \in DOMAIN o /\ u[j] = o[j]
      BY <1>8, <2>2 DEF Once
    <2>3. CASE /\ i - Len(o) \in DOMAIN t /\ u[i] = t[i - Len(o)]
               /\ j - Len(o) \in DOMAIN t /\ u[j] = t[j - Len(o)]
      <3>1. i - Len(o) = j - Len(o)
        BY <1>8, <2>3 DEF Once
      <3> QED
        BY <1>1, <3>1
    <2> QED
      BY <1>4, <2>1, <2>2, <2>3
  <1> QED
    BY <1>1, <1>5, <1>6, <1>7, <1>8

(* Adding reports that name neither a node nor an orphan. *)
LEMMA ConcatOther ==
  ASSUME NEW o \in Seq(Anomaly), NEW t \in Seq(Anomaly), NEW u, Joins(u, o, t),
         Once(o), Once(t), Inodes(t) = {}, Bytenrs(t) = {}
  PROVE  /\ u \in Seq(Anomaly) /\ Bytenrs(u) = Bytenrs(o) /\ Inodes(u) = Inodes(o) /\ Once(u)
         /\ u = <<>> <=> o = <<>> /\ t = <<>>
  <1>1. /\ u \in Seq(Anomaly)
        /\ u = <<>> <=> o = <<>> /\ t = <<>>
        /\ Bytenrs(u) = Bytenrs(o) \cup Bytenrs(t)
        /\ Inodes(u) = Inodes(o) \cup Inodes(t)
        /\ Once(o) /\ Once(t) /\ Inodes(o) \cap Inodes(t) = {} => Once(u)
    BY ConcatReports
  <1> QED
    BY <1>1, Zenon

(* A single report that is no orphan, and whether it is about a node. *)
LEMMA OneReport ==
  ASSUME NEW r \in Anomaly, r.kind # "OrphanedInode"
  PROVE  /\ <<r>> \in Seq(Anomaly) /\ <<r>> # <<>>
         /\ Inodes(<<r>>) = {} /\ Once(<<r>>)
         /\ Bytenrs(<<r>>) = IF r.kind = "NodeCrcMismatch" THEN {r.bytenr} ELSE {}
  BY DEF Inodes, Once, Bytenrs

(* The empty list says nothing. *)
LEMMA NoReport ==
  <<>> \in Seq(Anomaly) /\ Inodes(<<>>) = {} /\ Once(<<>>) /\ Bytenrs(<<>>) = {}
  BY DEF Inodes, Once, Bytenrs

(* A finite set as a list: its members, each once. *)
LEMMA ListOfSet ==
  ASSUME NEW X, IsFiniteSet(X)
  PROVE  /\ SetToSeq(X) \in Seq(X)
         /\ IsInjective(SetToSeq(X))
         /\ Range(SetToSeq(X)) = X
  <1>1. PICK n \in Nat : n = Cardinality(X) /\ ExistsBijection(1 .. n, X)
    BY FS_CardinalityType
  <1>2. \E f \in [1 .. n -> X] : IsInjective(f)
    BY <1>1 DEF ExistsBijection, Bijection, Injection
  <1>3. PICK f \in [1 .. n -> X] : f = SetToSeq(X) /\ IsInjective(f)
    BY <1>1, <1>2 DEF SetToSeq
  <1>4. f \in Injection(1 .. n, X)
    BY <1>3 DEF Injection
  <1>5. Cardinality(1 .. n) = n
    BY FS_Interval
  <1>6. f \in Surjection(1 .. n, X)
    BY <1>1, <1>4, <1>5, FS_Injection
  <1>7. Range(f) = X
    BY <1>6 DEF Surjection, Range
  <1>8. f \in Seq(X)
    BY SeqDef
  <1> QED
    BY <1>3, <1>7, <1>8

(* What scan_orphans adds for one root. *)
LEMMA OrphanReports ==
  ASSUME NEW X \in SUBSET Addr,
         NEW t, t = [k \in DOMAIN SetToSeq(X) |-> [kind |-> "OrphanedInode", inode |-> SetToSeq(X)[k]]]
  PROVE  /\ t \in Seq(Anomaly) /\ Inodes(t) = X /\ Once(t) /\ Bytenrs(t) = {}
         /\ X = {} => t = <<>>
  <1>1. IsFiniteSet(X)
    <2>1. IsFiniteSet(Addr)
      BY FS_Interval, WidthAssumption DEF Addr
    <2> QED
      BY <2>1, FS_Subset
  <1>2. PICK s \in Seq(X) : s = SetToSeq(X) /\ IsInjective(s) /\ Range(s) = X
    BY <1>1, ListOfSet
  <1>3. Len(s) \in Nat /\ DOMAIN s = 1 .. Len(s) /\ \A k \in DOMAIN s : s[k] \in X
    BY <1>2
  <1>4. /\ t = [k \in 1 .. Len(s) |-> [kind |-> "OrphanedInode", inode |-> s[k]]]
        /\ DOMAIN t = 1 .. Len(s)
    BY <1>2, <1>3
  <1>5. \A k \in 1 .. Len(s) : t[k] \in Anomaly /\ t[k].kind = "OrphanedInode" /\ t[k].inode = s[k]
    BY <1>3, <1>4 DEF Anomaly
  <1>6. t \in [1 .. Len(s) -> Anomaly]
    BY <1>4, <1>5
  <1>7. t \in Seq(Anomaly)
    BY <1>3, <1>6, SeqDef
  <1>8. Inodes(t) = X
    BY <1>2, <1>3, <1>4, <1>5 DEF Inodes, Range
  <1>9. Once(t)
    BY <1>2, <1>3, <1>4, <1>5 DEF Once, IsInjective
  <1>10. Bytenrs(t) = {}
    BY <1>4, <1>5 DEF Bytenrs
  <1>11. ASSUME X = {} PROVE t = <<>>
    BY <1>3, <1>4, <1>7, <1>11
  <1> QED
    BY <1>7, <1>8, <1>9, <1>10, <1>11

-----------------------------------------------------------------------------
(* The invariant, stage by stage.                                          *)

(* The slots are those of the superblock, the image is one the auditor     *)
(* relies on, and without a superblock nothing happens.                    *)
BasePart ==
  /\ TypeOK
  /\ IsImage(image) /\ HasItems(image) /\ image.sb.generation \in Nat
  /\ ~image.sb_parses => phase \in {"start", "done"} /\ out = <<>> /\ swept = "running"

(* Up to the end of the walk: the walk's own invariant, a sweep that has   *)
(* not begun, and no failure on a chunk tree that can be read.             *)
WalkPart ==
  phase \in {"start", "walk"} =>
    /\ WP!WalkInv /\ WP!PaidInv
    /\ pushing = <<>> /\ stack = <<>> /\ seen = {} /\ budget = SweepBudget /\ swept = "running"
    /\ Bytenrs(out) = {}
    /\ WellMapped => result # "err"

(* After it: the map is the chunk tree's if it can be, the sweep's own     *)
(* invariant, a report for each root that cannot be read, and one for each *)
(* corrupt node seen.                                                      *)
SweepPart ==
  phase \in {"sweep", "orphans", "done"} /\ image.sb_parses =>
    /\ WellMapped => Range(map) = ChunkSet
    /\ SP!CoreInv
    /\ \A l \in {sb.root, sb.chunk_root} \ {0} : Readable(image, map, l) \/ out # <<>>
    /\ Bytenrs(out) = {l \in seen : SP!Corrupt(l)}

(* The orphans named are those of the roots scanned, each named once. *)
OrphanPart ==
  /\ Inodes(out) = seen_inodes /\ Once(out)
  /\ phase \in {"start", "walk", "sweep"} => seen_inodes = {}
  /\ phase \in {"orphans", "done"} /\ image.sb_parses =>
       /\ fs_roots \subseteq FsRoots
       /\ seen_inodes = UNION {Orphans(FsRoot(i)) : i \in FsRoots \ fs_roots}
  /\ phase = "done" /\ image.sb_parses => fs_roots = {}

(* A filesystem nobody tampered with, with backup roots inside the image. *)
Spotless ==
  /\ Clean
  /\ \A i \in DOMAIN sb.backups : sb.backups[i].tree_root < image.len

CleanPart == Spotless => out = <<>>

AuditInv == BasePart /\ WalkPart /\ SweepPart /\ OrphanPart /\ CleanPart

-----------------------------------------------------------------------------
(* What is defined from the image alone does not change. *)
LEMMA FrozenImage ==
  ASSUME image' = image
  PROVE  /\ sb' = sb
         /\ ChunkSet' = ChunkSet
         /\ WellMapped' = WellMapped
         /\ Spotless' = Spotless
  <1>1. sb' = sb
    BY DEF sb
  <1>2. /\ \A l : W!BootPhys(l)' = W!BootPhys(l)
        /\ \A l : W!BootReadable(l)' = W!BootReadable(l)
        /\ \A l : W!BootNode(l)' = W!BootNode(l)
    BY DEF W!BootPhys, W!BootReadable, W!BootNode, W!sb
  <1>3. W!ChunkTree' = W!ChunkTree
    BY <1>2 DEF W!ChunkTree, W!BootEdges, W!sb
  <1>4. \A T : W!TreeChunks(T)' = W!TreeChunks(T)
    BY <1>2 DEF W!TreeChunks
  <1>5. /\ \A T : W!SelfDescribing(T)' = W!SelfDescribing(T)
        /\ \A T : W!TreeShaped(T)' = W!TreeShaped(T)
    BY <1>2, <1>4 DEF W!SelfDescribing, W!TreeShaped, W!sb
  <1>6. ChunkSet' = ChunkSet
    BY <1>3, <1>4 DEF ChunkSet
  <1>7. WellMapped' = WellMapped
    BY <1>2, <1>3, <1>4, <1>5 DEF WellMapped
  <1>8. \A l : Home(l)' = Home(l)
    BY <1>6 DEF Home
  <1>9. \A l : GenuineAt(l)' = GenuineAt(l)
    BY <1>1, <1>8 DEF GenuineAt
  <1>10. Clean' = Clean
    BY <1>1, <1>6, <1>7, <1>8, <1>9 DEF Clean
  <1> QED
    BY <1>1, <1>6, <1>7, <1>10 DEF Spotless

(* Nor does what is defined from the image and the finished map. *)
LEMMA FrozenMap ==
  ASSUME image' = image, map' = map
  PROVE  /\ FsRoots' = FsRoots
         /\ \A i : FsRoot(i)' = FsRoot(i)
         /\ \A l : Orphans(l)' = Orphans(l)
         /\ \A l : SP!Corrupt(l)' = SP!Corrupt(l)
  <1>1. \A i : FsRoot(i)' = FsRoot(i)
    BY DEF FsRoot, sb
  <1>2. FsRoots' = FsRoots
    BY <1>1 DEF FsRoots, sb
  <1>3. \A l : Orphans(l)' = Orphans(l)
    BY DEF Orphans, FsLeaf
  <1>4. \A l : SP!Corrupt(l)' = SP!Corrupt(l)
    BY SP!Frozen, SweepAssumptions
  <1> QED
    BY <1>1, <1>2, <1>3, <1>4

(* check_root_reachable reports the root it cannot read, and only that. *)
LEMMA UnreachableReport ==
  ASSUME NEW m, NEW f \in {"root", "chunk_root"}, NEW l \in Addr
  PROVE  /\ Unreachable(m, f, l) \in Seq(Anomaly)
         /\ Inodes(Unreachable(m, f, l)) = {} /\ Once(Unreachable(m, f, l))
         /\ Bytenrs(Unreachable(m, f, l)) = {}
         /\ Unreachable(m, f, l) = <<>> <=> l = 0 \/ Readable(image, m, l)
  <1>1. PICK r : r = [kind |-> "ImpossibleGeometry", field |-> f, value |-> l]
    OBVIOUS
  <1>2. r \in Anomaly /\ r.kind = "ImpossibleGeometry"
    BY <1>1 DEF Anomaly
  <1>3. CASE l = 0 \/ Readable(image, m, l)
    BY <1>3, NoReport DEF Unreachable
  <1>4. CASE ~(l = 0 \/ Readable(image, m, l))
    <2>1. Unreachable(m, f, l) = <<r>>
      BY <1>1, <1>4 DEF Unreachable
    <2> QED
      BY <1>2, <1>4, <2>1, OneReport
  <1> QED
    BY <1>3, <1>4

(* The inodes orphan items name are u64s; a clean image has none.         *)
LEMMA OrphansType ==
  ASSUME IsImage(image), HasItems(image), map \in Seq(Chunk), NEW l \in Addr
  PROVE  /\ Orphans(l) \subseteq Addr
         /\ Clean => Orphans(l) = {}
  <1>1. CASE ~FsLeaf(l)
    BY <1>1 DEF Orphans
  <1>2. CASE FsLeaf(l)
    <2>1. Readable(image, map, l)
      BY <1>2 DEF FsLeaf
    <2>2. PICK p \in 0 .. image.len : p = Translate(image, map, l)
      BY <2>1, ReadableNode
    <2>3. PICK items : items = leaf_items(image.nodes[p])
      OBVIOUS
    <2>4. Orphans(l) = {items[i].offset : i \in {j \in DOMAIN items : IsOrphan(items[j])}}
      BY <1>2, <2>2, <2>3 DEF Orphans, NodeAt
    <2>5. items = <<>> \/ items = image.nodes[p].items
      BY <2>3 DEF leaf_items
    <2>6. \A i \in DOMAIN items : items[i].offset \in Addr
      BY <2>5 DEF HasItems
    <2>7. Clean => \A i \in DOMAIN items : ~IsOrphan(items[i])
      BY <2>5 DEF Clean
    <2> QED
      BY <2>4, <2>6, <2>7
  <1> QED
    BY <1>1, <1>2

(* Every root scan_orphans reads is an address. *)
LEMMA FsRootType ==
  ASSUME IsImage(image), HasItems(image), map \in Seq(Chunk), NEW i \in FsRoots
  PROVE  i \in Nat /\ FsRoot(i) \in Addr
  <1>1. sb.backups \in Seq(RootBackup) /\ sb.root \in Addr /\ image.sb = sb
    BY DEF IsImage, IsSuperblock, sb
  <1>2. i \in 0 .. Len(sb.backups) /\ Len(sb.backups) \in Nat
    BY <1>1 DEF FsRoots
  <1>3. CASE i # 0
    <2>1. sb.backups[i] \in RootBackup
      BY <1>1, <1>2, <1>3
    <2> QED
      BY <1>2, <1>3, <2>1 DEF FsRoot, RootBackup
  <1>4. CASE i = 0
    <2> DEFINE F == FsRootItems(image, map)
    <2>1. fs_tree_root(image, map) # None
      BY <1>4 DEF FsRoots, FsRoot
    <2>2. Readable(image, map, sb.root) /\ F # {}
      BY <1>1, <2>1 DEF fs_tree_root
    <2>3. PICK p \in 0 .. image.len : p = Translate(image, map, sb.root)
      BY <1>1, <2>2, ReadableNode
    <2>4. PICK items : items = leaf_items(image.nodes[p])
      OBVIOUS
    <2>5. items = <<>> \/ items = image.nodes[p].items
      BY <2>4 DEF leaf_items
    <2>6. /\ DOMAIN items \subseteq Nat
          /\ \A k \in DOMAIN items : items[k].key_type = "ROOT_ITEM" => items[k].bytenr \in Addr
      BY <2>5 DEF HasItems
    <2>7. F \subseteq DOMAIN items /\ \A k \in F : items[k].key_type = "ROOT_ITEM"
      BY <1>1, <2>3, <2>4 DEF FsRootItems, NodeAt
    <2>8. FsRoot(0) = items[Min(F)].bytenr
      BY <1>1, <2>2, <2>3, <2>4 DEF FsRoot, fs_tree_root, NodeAt
    <2>9. Min(F) \in F
      <3> HIDE DEF F
      <3> QED
        BY <2>2, <2>6, <2>7, MinLemma
    <2> QED
      BY <1>4, <2>6, <2>7, <2>8, <2>9
  <1> QED
    BY <1>2, <1>3, <1>4

(* Where the chunks do not overlap, every chunk that covers an address     *)
(* puts it in the same place.                                              *)
LEMMA ChunkPlace ==
  ASSUME WellMapped, NEW c \in ChunkSet, NEW l \in Addr
  PROVE  /\ ~Overflows(c)
         /\ Covers(c, l) => FirstStripe(c, l) = Home(l)
         /\ SysChunkLookup(c, l) \in {None, Home(l)}
  <1>1. /\ ~Overflows(c)
        /\ \A d \in ChunkSet : Covers(c, l) /\ Covers(d, l) => c = d
    BY DEF WellMapped, ChunkSet
  <1>2. ASSUME Covers(c, l) PROVE FirstStripe(c, l) = Home(l)
    <2>0. PICK C : C = {d \in ChunkSet : Covers(d, l)}
      OBVIOUS
    <2>1. Home(l) = IF C = {} THEN None ELSE FirstStripe(CHOOSE d \in C : TRUE, l)
      BY <2>0 DEF Home
    <2>2. c \in C /\ \A d \in C : d = c
      BY <1>1, <1>2, <2>0
    <2>3. C # {} /\ (CHOOSE d \in C : TRUE) = c
      BY <2>2
    <2> QED
      BY <2>1, <2>3
  <1> QED
    BY <1>1, <1>2 DEF SysChunkLookup

(* A map that holds the chunks of the tree looks an address up at home. *)
LEMMA MapIsHome ==
  ASSUME WellMapped, NEW m \in Seq(Chunk), Range(m) = ChunkSet, NEW l \in Addr
  PROVE  MapLookup(m, l) = Home(l)
  <1> DEFINE Stops == {i \in DOMAIN m : Overflows(m[i]) \/ Covers(m[i], l)}
  <1>1. \A i \in DOMAIN m : m[i] \in ChunkSet
    BY DEF Range
  <1>2. CASE Stops = {}
    <2>1. \A c \in ChunkSet : ~Covers(c, l)
      BY <1>2 DEF Range
    <2>2. Home(l) = None
      BY <2>1 DEF Home
    <2> QED
      BY <1>2, <2>2 DEF MapLookup
  <1>3. CASE Stops # {}
    <2>1. Stops \in SUBSET Nat
      OBVIOUS
    <2>2. PICK k \in Stops : k = Min(Stops)
      <3> HIDE DEF Stops
      <3> QED
        BY <1>3, <2>1, MinLemma
    <2>3. ~Overflows(m[k]) /\ Covers(m[k], l) /\ FirstStripe(m[k], l) = Home(l)
      BY <1>1, <2>2, ChunkPlace
    <2> QED
      BY <1>3, <2>2, <2>3 DEF MapLookup
  <1> QED
    BY <1>2, <1>3

(* On a clean image read_node finds an address at home or not at all: the  *)
(* sys_chunk_array adds nothing to the chunk tree.                         *)
LEMMA CleanTranslate ==
  ASSUME Clean, NEW m \in Seq(Chunk), Range(m) = ChunkSet, NEW l \in Addr
  PROVE  Translate(image, m, l) = Home(l)
  <1> DEFINE sys == image.sb.sys_chunks
             Hits == {i \in DOMAIN sys : SysChunkLookup(sys[i], l) # None}
  <1>1. WellMapped /\ Range(sys) \subseteq ChunkSet
    BY DEF Clean, sb
  <1>2. MapLookup(m, l) = Home(l)
    BY <1>1, MapIsHome
  <1>3. CASE Home(l) # None
    BY <1>2, <1>3 DEF Translate
  <1>4. CASE Home(l) = None
    <2>1. \A i \in DOMAIN sys : SysChunkLookup(sys[i], l) = None
      BY <1>1, <1>4, ChunkPlace DEF Range
    <2>2. SysLookup(sys, l) = None
      BY <2>1 DEF SysLookup
    <2> QED
      BY <1>2, <1>4, <2>2 DEF Translate
  <1> QED
    BY <1>3, <1>4

-----------------------------------------------------------------------------
(* audit_image starts in the invariant. *)
LEMMA InitAudit == Init => AuditInv
  <1> SUFFICES ASSUME Init PROVE AuditInv
    OBVIOUS
  <1>1. WP!Init
    BY SameWalk DEF Init
  <1>2. WP!WalkInv /\ WP!PaidInv
    BY <1>1, WP!InitInv, WP!InitPaid, WalkAssumptions
  <1>3. image \in Images /\ map = <<>> /\ result = "running"
    BY DEF Init, W!Init
  <1>4. IsImage(image) /\ HasItems(image) /\ image.sb.generation \in Nat
    BY <1>3, ImagesAssumption
  <1>5. Len(sb.backups) \in Nat
    BY <1>4 DEF IsImage, IsSuperblock, sb
  <1>6. BasePart
    BY <1>3, <1>4, <1>5, NoReport DEF Init, BasePart, TypeOK
  <1>7. WalkPart
    BY <1>2, <1>3, NoReport DEF Init, WalkPart
  <1>8. SweepPart /\ OrphanPart /\ CleanPart
    BY NoReport DEF Init, SweepPart, OrphanPart, CleanPart
  <1> QED
    BY <1>6, <1>7, <1>8 DEF AuditInv

(* An image without a superblock is done with at once. *)
LEMMA NotBtrfsStep ==
  ASSUME AuditInv, NotBtrfs
  PROVE  AuditInv'
  <1>1. /\ phase = "start" /\ phase' = "done" /\ ~image.sb_parses
        /\ UNCHANGED <<image, map, sweepVars, scanVars, out>>
    BY DEF NotBtrfs
  <1>2. BasePart'
    BY <1>1, FrozenImage DEF AuditInv, BasePart, TypeOK, scanVars, sweepVars
  <1>3. WalkPart' /\ SweepPart' /\ OrphanPart' /\ CleanPart'
    BY <1>1, FrozenImage DEF AuditInv, WalkPart, SweepPart, OrphanPart, CleanPart, scanVars
  <1> QED
    BY <1>2, <1>3 DEF AuditInv

(* The superblock's checksum is judged before anything else. *)
LEMMA SuperblockStep ==
  ASSUME AuditInv, CheckSuperblock
  PROVE  AuditInv'
  <1>1. /\ phase = "start" /\ phase' = "walk" /\ image.sb_parses
        /\ UNCHANGED <<image, map, walkVars, sweepVars, scanVars>>
    BY DEF CheckSuperblock
  <1>2. /\ out' \in Seq(Anomaly) /\ Inodes(out') = {} /\ Once(out') /\ Bytenrs(out') = {}
        /\ Spotless => out' = <<>>
    <2>1. PICK r \in Anomaly : r = [kind |-> "SuperblockCrcMismatch"]
      BY DEF Anomaly
    <2>2. CASE out' = <<>>
      BY <2>2, NoReport
    <2>3. CASE out' # <<>>
      <3>1. out' = <<r>> /\ ~sb.intact
        BY <2>1, <2>3 DEF CheckSuperblock
      <3> QED
        BY <2>1, <3>1, OneReport DEF Spotless, Clean
    <2> QED
      BY <2>2, <2>3
  <1>3. BasePart'
    BY <1>1, <1>2, FrozenImage DEF AuditInv, BasePart, TypeOK, scanVars
  <1>4. WP!WalkInv' /\ WP!PaidInv'
    BY <1>1, WP!StepInv, WP!StepPaid, WalkAssumptions DEF AuditInv, WalkPart, WP!vars, walkVars
  <1>5. WalkPart'
    BY <1>1, <1>2, <1>4, FrozenImage DEF AuditInv, WalkPart, walkVars, sweepVars
  <1>6. SweepPart' /\ OrphanPart' /\ CleanPart'
    BY <1>1, <1>2, FrozenImage DEF AuditInv, SweepPart, OrphanPart, CleanPart, scanVars
  <1> QED
    BY <1>3, <1>5, <1>6 DEF AuditInv

(* A step of ChunkMap::walk. *)
LEMMA WalkStep ==
  ASSUME AuditInv, Walk
  PROVE  AuditInv'
  <1>1. /\ phase = "walk" /\ UNCHANGED <<sweepVars, scanVars, out, phase>>
        /\ WP!Next
    BY SameWalk DEF Walk
  <1>2. image' = image
    BY <1>1 DEF WP!Next, WP!BudgetBreak, WP!Unmapped, WP!OutOfImage, WP!Unparsable, WP!AddLeaf,
                WP!Descend, WP!Return, WP!VisitNode, WP!Visit
  <1>3. WP!WalkInv /\ WP!PaidInv /\ (WellMapped => result # "err")
    BY <1>1 DEF AuditInv, WalkPart
  <1>4. WP!WalkInv' /\ WP!PaidInv'
    BY <1>1, <1>3, WP!StepInv, WP!StepPaid, WalkAssumptions
  <1>5. map' \in Seq(Chunk)
    BY <1>4, SameImage DEF WP!WalkInv, WP!TypeOK
  <1>6. ASSUME WellMapped PROVE result' # "err"
    <2>1. WP!SelfDescribing(WP!ChunkTree) /\ \A l \in WP!ChunkTree : WP!BootReadable(l)
      BY <1>6, SameChunkTree DEF WellMapped
    <2> QED
      BY <1>1, <1>3, <1>6, <2>1, WP!ReadableTreeNeverErrs, WalkAssumptions
  <1>7. BasePart'
    BY <1>1, <1>2, <1>5, FrozenImage DEF AuditInv, BasePart, TypeOK, scanVars, sweepVars
  <1>8. WalkPart'
    BY <1>1, <1>2, <1>4, <1>6, FrozenImage DEF AuditInv, WalkPart, sweepVars
  <1>9. SweepPart' /\ OrphanPart' /\ CleanPart'
    BY <1>1, <1>2, FrozenImage DEF AuditInv, SweepPart, OrphanPart, CleanPart, scanVars
  <1> QED
    BY <1>7, <1>8, <1>9 DEF AuditInv

(* The walk over a chunk tree that can be mapped ends with its chunks: it  *)
(* neither fails nor is cut short by its budget.                           *)
LEMMA WalkIsDone ==
  ASSUME AuditInv, phase = "walk", result # "running", WellMapped
  PROVE  result = "ok" /\ Range(map) = ChunkSet
  <1>1. WP!WalkInv /\ WP!PaidInv /\ result # "err"
    BY DEF AuditInv, WalkPart
  <1>2. result = "ok"
    BY <1>1 DEF WP!WalkInv, WP!TypeOK
  <1>3. WP!BudgetSuffices /\ WP!MapIsExact
    BY <1>1, WP!InvBudget, WP!InvExact, WalkAssumptions
  <1>4. /\ WP!SelfDescribing(WP!ChunkTree) /\ WP!TreeShaped(WP!ChunkTree)
        /\ Cardinality(WP!ChunkTree) <= WalkBudget
        /\ WP!TreeChunks(WP!ChunkTree) = ChunkSet
    BY SameChunkTree DEF WellMapped, ChunkSet
  <1>5. Cardinality(WP!ChunkTree) \in Nat
    <2>1. WP!IsImage(image)
      BY <1>1 DEF WP!WalkInv, WP!TypeOK
    <2>2. IsFiniteSet(WP!ChunkTree)
      BY <2>1, WP!TreeFinite, WalkAssumptions DEF WP!IsFiniteSet, IsFiniteSet
    <2> QED
      BY <2>2, FS_CardinalityType
  <1>6. WP!Cardinality(WP!ChunkTree) = Cardinality(WP!ChunkTree)
    BY DEF WP!Cardinality, Cardinality
  <1>7. wstack = <<>>
    BY <1>2, <1>3, <1>4, <1>5, <1>6, BudgetAssumption DEF WP!BudgetSuffices
  <1>8. WP!Range(map) = Range(map)
    BY DEF WP!Range, Range
  <1> QED
    BY <1>2, <1>3, <1>4, <1>7, <1>8 DEF WP!MapIsExact

(* The seeded sweep is in its own invariant. *)
Seeded ==
  /\ IsImage(image) /\ map \in Seq(Chunk)
  /\ pushing = S!Seeds(image.sb) /\ stack = <<>> /\ seen = {}
  /\ budget = SweepBudget /\ swept = "running"

(* The seeds of the auditor's sweep establish its core. *)
LEMMA SeededSweep == Seeded => SP!CoreInv
  BY SP!SeededCore, SweepAssumptions, SameImage, SameSweep DEF Seeded

(* The walk is over: the roots are looked up and the sweep is seeded. *)
LEMMA GeometryStep ==
  ASSUME AuditInv, CheckGeometry
  PROVE  AuditInv'
  <1>1. /\ phase = "walk" /\ phase' = "sweep" /\ result # "running"
        /\ map' = IF result = "err" THEN <<>> ELSE map
        /\ UNCHANGED <<image, stack, seen, budget, swept, scanVars>>
    BY DEF CheckGeometry
  <1>2. image.sb_parses /\ IsImage(image) /\ map \in Seq(Chunk) /\ out \in Seq(Anomaly)
    BY <1>1 DEF AuditInv, BasePart, TypeOK
  <1>3. PICK m \in Seq(Chunk) : m = map'
    <2>1. map' \in Seq(Chunk)
      BY <1>1, <1>2
    <2> QED
      BY <2>1
  <1>4. sb.root \in Addr /\ sb.chunk_root \in Addr
    BY <1>2 DEF IsImage, IsSuperblock, sb
  <1>5. PICK u, v : u = Unreachable(m, "root", sb.root) /\ v = Unreachable(m, "chunk_root", sb.chunk_root)
    OBVIOUS
  <1>6. /\ u \in Seq(Anomaly) /\ Inodes(u) = {} /\ Once(u) /\ Bytenrs(u) = {}
        /\ u = <<>> <=> sb.root = 0 \/ Readable(image, m, sb.root)
        /\ v \in Seq(Anomaly) /\ Inodes(v) = {} /\ Once(v) /\ Bytenrs(v) = {}
        /\ v = <<>> <=> sb.chunk_root = 0 \/ Readable(image, m, sb.chunk_root)
    BY <1>4, <1>5, UnreachableReport
  <1>7. out' = (out \o u) \o v
    BY <1>3, <1>5 DEF CheckGeometry
  <1>8. Bytenrs(out) = {} /\ Inodes(out) = seen_inodes /\ Once(out) /\ seen_inodes = {}
    BY <1>1 DEF AuditInv, WalkPart, OrphanPart
  <1>9. PICK w : Joins(w, out, u)
    BY DEF Joins
  <1>10. /\ out' \in Seq(Anomaly) /\ Bytenrs(out') = {} /\ Inodes(out') = {} /\ Once(out')
         /\ out' = <<>> <=> out = <<>> /\ u = <<>> /\ v = <<>>
    <2>1. /\ w \in Seq(Anomaly) /\ Bytenrs(w) = Bytenrs(out) /\ Inodes(w) = Inodes(out) /\ Once(w)
          /\ w = <<>> <=> out = <<>> /\ u = <<>>
      BY <1>2, <1>6, <1>8, <1>9, ConcatOther
    <2>2. PICK z : z = out' /\ Joins(z, w, v)
      BY <1>7, <1>9 DEF Joins
    <2>3. /\ z \in Seq(Anomaly) /\ Bytenrs(z) = Bytenrs(w) /\ Inodes(z) = Inodes(w) /\ Once(z)
          /\ z = <<>> <=> w = <<>> /\ v = <<>>
      BY <1>6, <2>1, <2>2, ConcatOther
    <2> QED
      BY <1>8, <2>1, <2>2, <2>3
  <1>11. \A l \in {sb.root, sb.chunk_root} \ {0} : Readable(image, m, l) \/ out' # <<>>
    BY <1>6, <1>10
  <1>12. WellMapped => Range(m) = ChunkSet
    BY <1>1, <1>3, WalkIsDone
  <1>13. ASSUME Spotless PROVE out' = <<>>
    <2>1. Clean /\ WellMapped /\ GenuineAt(sb.root) /\ GenuineAt(sb.chunk_root) /\ out = <<>>
      BY <1>13 DEF Spotless, Clean, AuditInv, CleanPart
    <2>2. ASSUME NEW l \in Addr, GenuineAt(l) PROVE Readable(image, m, l)
      <3>1. Translate(image, m, l) = Home(l)
        BY <1>12, <2>1, CleanTranslate
      <3> QED
        BY <2>2, <3>1 DEF Readable, GenuineAt
    <2> QED
      BY <1>4, <1>6, <1>10, <2>1, <2>2
  <1>14. Seeded'
    <2>1. pushing' = S!Seeds(image.sb)
      BY DEF CheckGeometry, sb
    <2>2. stack = <<>> /\ seen = {} /\ budget = SweepBudget /\ swept = "running"
      BY <1>1 DEF AuditInv, WalkPart
    <2>3. S!Seeds(image.sb)' = S!Seeds(image.sb)
      BY <1>1 DEF S!Seeds
    <2> QED
      BY <1>1, <1>2, <1>3, <2>1, <2>2, <2>3 DEF Seeded
  <1>15. SP!CoreInv'
    BY <1>14, SeededSweep, PTL
  <1>16. BasePart'
    BY <1>1, <1>2, <1>3, <1>10, FrozenImage DEF AuditInv, BasePart, TypeOK, scanVars
  <1>17. SweepPart'
    <2>1. seen' = {}
      BY <1>14 DEF Seeded
    <2> QED
      BY <1>1, <1>3, <1>10, <1>11, <1>12, <1>15, <2>1, FrozenImage DEF SweepPart
  <1>18. WalkPart' /\ OrphanPart' /\ CleanPart'
    BY <1>1, <1>8, <1>10, <1>13, FrozenImage DEF WalkPart, OrphanPart, CleanPart, scanVars
  <1> QED
    BY <1>16, <1>17, <1>18 DEF AuditInv

(* A step of sweep_node_crcs. *)
LEMMA SweepStep ==
  ASSUME AuditInv, Sweep
  PROVE  AuditInv'
  <1>1. /\ phase = "sweep" /\ UNCHANGED <<walkVars, scanVars, phase>>
        /\ SP!Next
    BY SameSweep DEF Sweep
  <1>2. image.sb_parses /\ IsImage(image) /\ map \in Seq(Chunk) /\ out \in Seq(Anomaly)
    BY <1>1 DEF AuditInv, BasePart, TypeOK
  <1>3. /\ SP!CoreInv /\ (WellMapped => Range(map) = ChunkSet)
        /\ \A l \in {sb.root, sb.chunk_root} \ {0} : Readable(image, map, l) \/ out # <<>>
        /\ Bytenrs(out) = {l \in seen : SP!Corrupt(l)}
        /\ Inodes(out) = seen_inodes /\ Once(out) /\ seen_inodes = {} /\ (Spotless => out = <<>>)
    BY <1>1, <1>2 DEF AuditInv, SweepPart, OrphanPart, CleanPart
  <1>4. SP!CoreInv'
    BY <1>1, <1>3, SP!CoreStep, SweepAssumptions
  <1>5. image' = image /\ map' = map /\ (SP!Quiet \/ \E l \in SP!SweepTree : SP!Found(l))
    BY <1>1, <1>3, SP!ReportStep, SweepAssumptions
  <1>6. /\ out' \in Seq(Anomaly) /\ Inodes(out') = {} /\ Once(out')
        /\ out' = <<>> => out = <<>>
        /\ Bytenrs(out') = {l \in seen' : SP!Corrupt(l)}
        /\ Spotless => out' = <<>>
    <2>1. CASE SP!Quiet
      BY <1>2, <1>3, <2>1 DEF SP!Quiet
    <2>2. CASE \E l \in SP!SweepTree : SP!Found(l)
      <3>1. PICK l \in SP!SweepTree : SP!Found(l)
        BY <2>2
      <3>2. l \in Addr
        <4>1. SP!SweepTree \subseteq SP!Addr
          BY <1>2, SP!TreeClosed, SweepAssumptions, SameImage
        <4> QED
          BY <4>1, SameImage
      <3>3. PICK r : r = [kind |-> "NodeCrcMismatch", bytenr |-> l, offset |-> SP!Offset(l)]
        OBVIOUS
      <3>4. l \notin seen /\ seen' = seen \cup {l} /\ SP!Corrupt(l) /\ out' = Append(out, r)
        BY <3>1, <3>3 DEF SP!Found
      <3>5. r \in Anomaly /\ r.kind = "NodeCrcMismatch" /\ r.bytenr = l
        <4>1. SP!Offset(l) \in Addr
          BY <1>2, <3>2, SameLookup, MapLookupType DEF SP!Offset
        <4> QED
          BY <3>2, <3>3, <4>1 DEF Anomaly
      <3>6. PICK t : t = <<r>>
        OBVIOUS
      <3>7. t \in Seq(Anomaly) /\ t # <<>> /\ Inodes(t) = {} /\ Once(t) /\ Bytenrs(t) = {l}
        BY <3>5, <3>6, OneReport
      <3>8. PICK u : u = out' /\ Joins(u, out, t)
        BY <1>2, <3>4, <3>5, <3>6, AppendIsConcat DEF Joins
      <3>9. /\ u \in Seq(Anomaly)
            /\ u = <<>> <=> out = <<>> /\ t = <<>>
            /\ Bytenrs(u) = Bytenrs(out) \cup Bytenrs(t)
            /\ Inodes(u) = Inodes(out) \cup Inodes(t)
            /\ Once(out) /\ Once(t) /\ Inodes(out) \cap Inodes(t) = {} => Once(u)
        BY <1>2, <3>7, <3>8, ConcatReports
      <3>10. ~Spotless
        <4> SUFFICES ASSUME Spotless PROVE FALSE
          OBVIOUS
        <4>1. Clean /\ sb.csum_type = "crc32c" /\ WellMapped
              /\ \A k \in Addr : GenuineAt(k) => image.nodes[Home(k)].intact
          BY DEF Spotless, Clean
        <4>2. Translate(image, map, l) = Home(l)
          BY <1>2, <1>3, <3>2, <4>1, CleanTranslate
        <4>3. /\ Readable(image, map, l) /\ SP!Genuine(NodeAt(image, map, l), l)
              /\ ~CrcValid(image, NodeAt(image, map, l))
          BY <3>4, SameReader DEF SP!Corrupt, SP!IsGenuine
        <4>4. GenuineAt(l)
          BY <4>2, <4>3 DEF Readable, SP!Genuine, NodeAt, GenuineAt, SP!sb, sb
        <4> QED
          BY <3>2, <4>1, <4>2, <4>3, <4>4 DEF CrcValid, NodeAt, sb
      <3>11. Bytenrs(u) = {k \in seen' : SP!Corrupt(k)}
        BY <1>3, <3>4, <3>7, <3>9
      <3>12. Inodes(u) = {} /\ Once(u)
        BY <1>3, <3>7, <3>9, Zenon
      <3> QED
        BY <3>7, <3>8, <3>9, <3>10, <3>11, <3>12
    <2> QED
      BY <1>5, <2>1, <2>2
  <1>7. BasePart'
    BY <1>1, <1>2, <1>5, <1>6, FrozenImage DEF AuditInv, BasePart, TypeOK, scanVars
  <1>8. SweepPart'
    BY <1>1, <1>3, <1>4, <1>5, <1>6, FrozenImage, FrozenMap DEF SweepPart
  <1>9. WalkPart' /\ OrphanPart' /\ CleanPart'
    BY <1>1, <1>3, <1>5, <1>6, FrozenImage DEF WalkPart, OrphanPart, CleanPart, scanVars
  <1> QED
    BY <1>7, <1>8, <1>9 DEF AuditInv

(* Behind the sweep its results stay: a step that adds no report about a   *)
(* node keeps what was established.                                        *)
LEMMA AfterSweep ==
  ASSUME AuditInv, image.sb_parses, phase \in {"sweep", "orphans"},
         phase' \in {"sweep", "orphans", "done"}, UNCHANGED <<image, map, sweepVars>>,
         Bytenrs(out') = Bytenrs(out), out' = <<>> => out = <<>>
  PROVE  WalkPart' /\ SweepPart'
  <1>1. /\ SP!CoreInv /\ (WellMapped => Range(map) = ChunkSet)
        /\ \A l \in {sb.root, sb.chunk_root} \ {0} : Readable(image, map, l) \/ out # <<>>
        /\ Bytenrs(out) = {l \in seen : SP!Corrupt(l)}
    BY DEF AuditInv, SweepPart
  <1>2. SP!CoreInv'
    BY <1>1, SP!CoreFrozen, SweepAssumptions DEF sweepVars
  <1>3. SweepPart'
    BY <1>1, <1>2, FrozenImage, FrozenMap DEF SweepPart, sweepVars
  <1> QED
    BY <1>3 DEF WalkPart

(* One backup slot. *)
LEMMA BackupStep ==
  ASSUME AuditInv, CheckBackup
  PROVE  AuditInv'
  <1>1. /\ phase = "sweep" /\ phase' = phase /\ slot \in DOMAIN sb.backups /\ slot' = slot + 1
        /\ UNCHANGED <<image, map, sweepVars, fs_roots, seen_inodes>>
    BY DEF CheckBackup
  <1>2. image.sb_parses /\ IsImage(image) /\ map \in Seq(Chunk) /\ out \in Seq(Anomaly)
    BY <1>1 DEF AuditInv, BasePart, TypeOK
  <1>3. Inodes(out) = seen_inodes /\ Once(out) /\ seen_inodes = {} /\ (Spotless => out = <<>>)
    BY <1>1 DEF AuditInv, OrphanPart, CleanPart
  <1>4. /\ sb.backups \in Seq(RootBackup) /\ Len(sb.backups) \in Nat
        /\ slot \in 1 .. Len(sb.backups) /\ image.len \in Nat
    BY <1>1, <1>2 DEF IsImage, IsSuperblock, sb
  <1>5. /\ out' \in Seq(Anomaly) /\ Inodes(out') = Inodes(out) /\ Once(out')
        /\ Bytenrs(out') = Bytenrs(out) /\ (out' = <<>> => out = <<>>)
        /\ Spotless => out' = <<>>
    <2>1. CASE ~Diverges(sb.backups[slot])
      BY <1>2, <1>3, <2>1 DEF CheckBackup
    <2>2. CASE Diverges(sb.backups[slot])
      <3>1. PICK r : r = [kind |-> "BackupRootDivergence", slot |-> slot]
        OBVIOUS
      <3>2. r \in Anomaly /\ r.kind = "BackupRootDivergence" /\ out' = Append(out, r)
        BY <1>4, <2>2, <3>1 DEF CheckBackup, Anomaly
      <3>3. PICK t : t = <<r>>
        OBVIOUS
      <3>4. t \in Seq(Anomaly) /\ t # <<>> /\ Inodes(t) = {} /\ Once(t) /\ Bytenrs(t) = {}
        BY <3>2, <3>3, OneReport
      <3>5. PICK u : u = out' /\ Joins(u, out, t)
        BY <1>2, <3>2, <3>3, AppendIsConcat DEF Joins
      <3>6. /\ u \in Seq(Anomaly) /\ Bytenrs(u) = Bytenrs(out) /\ Inodes(u) = Inodes(out) /\ Once(u)
            /\ u = <<>> <=> out = <<>> /\ t = <<>>
        BY <1>2, <1>3, <3>4, <3>5, ConcatOther
      <3>7. ~Spotless
        <4> SUFFICES ASSUME Spotless PROVE FALSE
          OBVIOUS
        <4>1. PICK b \in RootBackup : b = sb.backups[slot]
          BY <1>4
        <4>2. /\ b.tree_root_gen <= sb.generation /\ b.fs_root_gen <= sb.generation
              /\ b.tree_root < image.len
          BY <1>1, <4>1 DEF Spotless, Clean
        <4>3. /\ b.tree_root_gen \in Nat /\ b.fs_root_gen \in Nat /\ b.tree_root \in Nat
          BY <4>1, WidthAssumption DEF RootBackup, Addr
        <4>4. Diverges(b) /\ sb.generation \in Nat
          BY <2>2, <4>1 DEF AuditInv, BasePart, sb
        <4> QED
          BY <1>4, <4>2, <4>3, <4>4 DEF Diverges
      <3> QED
        BY <3>4, <3>5, <3>6, <3>7
    <2> QED
      BY <2>1, <2>2
  <1>6. slot' \in 1 .. Len(sb.backups) + 1
    BY <1>1, <1>4
  <1>7. BasePart'
    BY <1>1, <1>2, <1>5, <1>6, FrozenImage DEF AuditInv, BasePart, TypeOK
  <1>8. WalkPart' /\ SweepPart'
    BY <1>1, <1>2, <1>5, AfterSweep
  <1>9. OrphanPart' /\ CleanPart'
    BY <1>1, <1>3, <1>5, FrozenImage DEF OrphanPart, CleanPart
  <1> QED
    BY <1>7, <1>8, <1>9 DEF AuditInv

(* The roots to scan are listed. *)
LEMMA ListStep ==
  ASSUME AuditInv, ListFsRoots
  PROVE  AuditInv'
  <1>1. /\ phase = "sweep" /\ phase' = "orphans" /\ fs_roots' = FsRoots
        /\ UNCHANGED <<image, map, sweepVars, slot, seen_inodes, out>>
    BY DEF ListFsRoots
  <1>2. image.sb_parses
    BY <1>1 DEF AuditInv, BasePart
  <1>3. BasePart'
    <2>1. FsRoots \subseteq 0 .. Len(sb.backups)
      BY DEF FsRoots
    <2> QED
      BY <1>1, <1>2, <2>1, FrozenImage DEF AuditInv, BasePart, TypeOK
  <1>4. WalkPart' /\ SweepPart'
    BY <1>1, <1>2, AfterSweep
  <1>5. OrphanPart'
    <2>1. Inodes(out) = seen_inodes /\ Once(out) /\ seen_inodes = {}
      BY <1>1 DEF AuditInv, OrphanPart
    <2>2. fs_roots' = FsRoots' /\ FsRoots' \ fs_roots' = {}
      BY <1>1, FrozenMap
    <2> QED
      BY <1>1, <2>1, <2>2 DEF OrphanPart
  <1>6. CleanPart'
    BY <1>1, FrozenImage DEF AuditInv, CleanPart
  <1> QED
    BY <1>3, <1>4, <1>5, <1>6 DEF AuditInv

(* One FS_TREE root is scanned: what it adds is new, and only that. *)
LEMMA ScanStep ==
  ASSUME AuditInv, ScanOrphans
  PROVE  AuditInv'
  <1>1. /\ phase = "orphans" /\ phase' = phase /\ fs_roots # {}
        /\ UNCHANGED <<image, map, sweepVars, slot>>
    BY DEF ScanOrphans
  <1>2. /\ image.sb_parses /\ IsImage(image) /\ HasItems(image)
        /\ map \in Seq(Chunk) /\ out \in Seq(Anomaly) /\ seen_inodes \subseteq Addr
        /\ fs_roots \subseteq 0 .. Len(sb.backups)
    BY <1>1 DEF AuditInv, BasePart, TypeOK
  <1>3. /\ Inodes(out) = seen_inodes /\ Once(out) /\ (Spotless => out = <<>>)
        /\ fs_roots \subseteq FsRoots
        /\ seen_inodes = UNION {Orphans(FsRoot(i)) : i \in FsRoots \ fs_roots}
    BY <1>1, <1>2 DEF AuditInv, OrphanPart, CleanPart
  <1>4. PICK k \in fs_roots : k = Min(fs_roots)
    <2>1. fs_roots \in SUBSET Nat
      BY <1>2, <1>3, FsRootType
    <2> QED
      BY <1>1, <2>1, MinLemma
  <1>5. FsRoot(k) \in Addr /\ k \in FsRoots
    BY <1>2, <1>3, <1>4, FsRootType
  <1>6. PICK X : X = Orphans(FsRoot(k))
    OBVIOUS
  <1>7. X \subseteq Addr /\ (Spotless => X = {})
    BY <1>2, <1>5, <1>6, OrphansType DEF Spotless
  <1>8. PICK t : t = [i \in DOMAIN SetToSeq(X \ seen_inodes) |->
                       [kind |-> "OrphanedInode", inode |-> SetToSeq(X \ seen_inodes)[i]]]
    OBVIOUS
  <1>9. /\ seen_inodes' = seen_inodes \cup X /\ fs_roots' = fs_roots \ {k}
        /\ Joins(out', out, t)
    BY <1>4, <1>6, <1>8 DEF ScanOrphans, Joins
  <1>10. /\ t \in Seq(Anomaly) /\ Inodes(t) = X \ seen_inodes /\ Once(t) /\ Bytenrs(t) = {}
         /\ X \ seen_inodes = {} => t = <<>>
    <2>1. PICK D \in SUBSET Addr : D = X \ seen_inodes
      BY <1>7
    <2>2. t = [i \in DOMAIN SetToSeq(D) |-> [kind |-> "OrphanedInode", inode |-> SetToSeq(D)[i]]]
      BY <1>8, <2>1
    <2> QED
      BY <2>1, <2>2, OrphanReports
  <1>11. PICK u : u = out' /\ Joins(u, out, t)
    BY <1>9
  <1>12. /\ u \in Seq(Anomaly)
         /\ u = <<>> <=> out = <<>> /\ t = <<>>
         /\ Bytenrs(u) = Bytenrs(out) \cup Bytenrs(t)
         /\ Inodes(u) = Inodes(out) \cup Inodes(t)
         /\ Once(out) /\ Once(t) /\ Inodes(out) \cap Inodes(t) = {} => Once(u)
    BY <1>2, <1>10, <1>11, ConcatReports
  <1>13. Once(u) /\ Inodes(u) = seen_inodes' /\ Bytenrs(u) = Bytenrs(out)
    BY <1>3, <1>9, <1>10, <1>12
  <1>14. Spotless => u = <<>>
    BY <1>3, <1>7, <1>10, <1>12
  <1>15. BasePart'
    BY <1>1, <1>2, <1>7, <1>9, <1>11, <1>12, FrozenImage DEF AuditInv, BasePart, TypeOK
  <1>16. WalkPart' /\ SweepPart'
    BY <1>1, <1>2, <1>11, <1>12, <1>13, AfterSweep
  <1>17. OrphanPart'
    <2>1. FsRoots \ fs_roots' = (FsRoots \ fs_roots) \cup {k}
      BY <1>4, <1>5, <1>9
    <2>2. seen_inodes' = UNION {Orphans(FsRoot(i)) : i \in FsRoots \ fs_roots'}
      BY <1>3, <1>6, <1>9, <2>1
    <2>3. seen_inodes' = UNION {Orphans(FsRoot(i))' : i \in (FsRoots \ fs_roots)'}
      BY <1>1, <2>2, FrozenMap
    <2>4. fs_roots' \subseteq FsRoots'
      BY <1>1, <1>3, <1>9, FrozenMap
    <2> QED
      BY <1>1, <1>11, <1>13, <2>3, <2>4 DEF OrphanPart
  <1>18. CleanPart'
    BY <1>1, <1>11, <1>14, FrozenImage DEF CleanPart
  <1> QED
    BY <1>15, <1>16, <1>17, <1>18 DEF AuditInv

(* The last root is scanned: audit_image returns. *)
LEMMA ReturnStep ==
  ASSUME AuditInv, Return
  PROVE  AuditInv'
  <1>1. /\ phase = "orphans" /\ phase' = "done" /\ fs_roots = {}
        /\ UNCHANGED <<image, map, sweepVars, scanVars, out>>
    BY DEF Return
  <1>2. image.sb_parses
    BY <1>1 DEF AuditInv, BasePart
  <1>3. BasePart'
    BY <1>1, <1>2, FrozenImage DEF AuditInv, BasePart, TypeOK, scanVars
  <1>4. WalkPart' /\ SweepPart'
    BY <1>1, <1>2, AfterSweep
  <1>5. OrphanPart'
    BY <1>1, <1>2, FrozenMap DEF AuditInv, OrphanPart, scanVars
  <1>6. CleanPart'
    BY <1>1, FrozenImage DEF AuditInv, CleanPart
  <1> QED
    BY <1>3, <1>4, <1>5, <1>6 DEF AuditInv

(* Every step of audit_image preserves the invariant. *)
LEMMA StepAudit == AuditInv /\ [Next]_vars => AuditInv'
  <1> SUFFICES ASSUME AuditInv, [Next]_vars PROVE AuditInv'
    OBVIOUS
  <1>1. CASE UNCHANGED vars
    <2>1. UNCHANGED <<image, map, wstack, wbudget, bootstrapped_root, result, pushing, stack, seen,
                      budget, swept, slot, fs_roots, seen_inodes, out, phase>>
      BY <1>1 DEF vars, walkVars, sweepVars, scanVars
    <2>2. BasePart'
      BY <2>1, FrozenImage DEF AuditInv, BasePart, TypeOK
    <2>3. WalkPart'
      <3>1. WP!WalkInv /\ WP!PaidInv => WP!WalkInv' /\ WP!PaidInv'
        BY <2>1, WP!StepInv, WP!StepPaid, WalkAssumptions DEF WP!vars
      <3> QED
        BY <2>1, <3>1, FrozenImage DEF AuditInv, WalkPart
    <2>4. SweepPart'
      <3>1. SP!CoreInv => SP!CoreInv'
        BY <2>1, SP!CoreFrozen, SweepAssumptions
      <3> QED
        BY <2>1, <3>1, FrozenImage, FrozenMap DEF AuditInv, SweepPart
    <2>5. OrphanPart' /\ CleanPart'
      BY <2>1, FrozenImage, FrozenMap DEF AuditInv, OrphanPart, CleanPart
    <2> QED
      BY <2>2, <2>3, <2>4, <2>5 DEF AuditInv
  <1> QED
    BY <1>1, NotBtrfsStep, SuperblockStep, WalkStep, GeometryStep, SweepStep, BackupStep, ListStep,
       ScanStep, ReturnStep DEF Next

(* The inductive invariant holds throughout audit_image. *)
THEOREM AuditInvariant == Spec => []AuditInv
  BY InitAudit, StepAudit, PTL DEF Spec

(* The variables of audit_image keep their shapes. *)
THEOREM AuditTypes == Spec => []TypeOK
  <1>1. AuditInv => TypeOK
    BY DEF AuditInv, BasePart
  <1> QED
    BY <1>1, AuditInvariant, PTL

(* A clean image with its backup roots inside yields an empty list. *)
THEOREM AuditCleanIsSilent == Spec => []CleanIsSilent
  <1>1. AuditInv => CleanIsSilent
    BY DEF AuditInv, CleanPart, Spotless, CleanIsSilent
  <1> QED
    BY <1>1, AuditInvariant, PTL

(* Every FS_TREE root of the superblock is listed, by the first place it   *)
(* comes from.                                                             *)
LEMMA RootsListed ==
  ASSUME IsImage(image), HasItems(image), map \in Seq(Chunk)
  PROVE  {FsRoot(i) : i \in FsRoots} = FsTreeRoots
  <1>1. sb.backups \in Seq(RootBackup)
    BY DEF IsImage, IsSuperblock, sb
  <1>2. Len(sb.backups) \in Nat /\ DOMAIN sb.backups = 1 .. Len(sb.backups)
    BY <1>1
  <1>3. ASSUME NEW i \in FsRoots PROVE FsRoot(i) \in FsTreeRoots
    <2>1. i \in 0 .. Len(sb.backups)
      BY DEF FsRoots
    <2>2. CASE i = 0
      BY <2>2 DEF FsRoots, FsRoot, FsTreeRoots
    <2>3. CASE i # 0
      <3>1. i \in DOMAIN sb.backups
        BY <1>2, <2>1, <2>3
      <3> QED
        BY <2>3, <3>1 DEF FsRoots, FsRoot, FsTreeRoots
    <2> QED
      BY <2>2, <2>3
  <1>4. ASSUME NEW l \in FsTreeRoots PROVE \E i \in FsRoots : l = FsRoot(i)
    <2>1. CASE l = FsRoot(0) /\ l # None
      <3>1. 0 \in FsRoots
        BY <1>2, <2>1 DEF FsRoots
      <3> QED
        BY <2>1, <3>1
    <2>2. CASE \E i \in DOMAIN sb.backups : l = sb.backups[i].fs_root /\ l # 0
      <3>1. PICK i \in DOMAIN sb.backups : l = sb.backups[i].fs_root /\ l # 0
        BY <2>2
      <3>2. l \in Addr
        <4>1. sb.backups[i] \in RootBackup
          BY <1>1, <3>1
        <4> QED
          BY <3>1, <4>1 DEF RootBackup
      <3>3. PICK J : J = {j \in 0 .. Len(sb.backups) : FsRoot(j) = l}
        OBVIOUS
      <3>4. J \in SUBSET Nat
        BY <1>2, <3>3
      <3>5. i \in J
        <4>1. i \in 0 .. Len(sb.backups) /\ i # 0
          BY <1>2
        <4> QED
          BY <3>1, <3>3, <4>1 DEF FsRoot
      <3>6. PICK k \in J : \A j \in J : k <= j
        BY <3>4, <3>5, MinLemma
      <3>7. k \in 0 .. Len(sb.backups) /\ FsRoot(k) = l
        BY <3>3, <3>6
      <3>8. ASSUME NEW j \in 0 .. k - 1 PROVE FsRoot(j) # FsRoot(k)
        <4>1. j \in 0 .. Len(sb.backups) /\ ~(k <= j)
          BY <1>2, <3>7, <3>8
        <4> QED
          BY <3>3, <3>6, <3>7, <4>1
      <3>9. l # None
        BY <3>2, WidthAssumption DEF Addr, None
      <3>10. k \in FsRoots
        BY <3>1, <3>7, <3>8, <3>9 DEF FsRoots
      <3> QED
        BY <3>7, <3>10
    <2> QED
      BY <2>1, <2>2 DEF FsRoot, FsTreeRoots
  <1> QED
    BY <1>3, <1>4

(* The node at a root is all that scan_orphans reads: the whole tree if it *)
(* is a leaf, and nothing that holds items if it is not.                   *)
LEMMA RootOrphans ==
  ASSUME NEW l \in Addr
  PROVE  /\ OneLeaf(l) => TreeOrphans(l) = Orphans(l)
         /\ ~OneLeaf(l) => Orphans(l) = {}
  <1> DEFINE Ptrs(k) == Range(key_ptrs(NodeAt(image, map, k)))
             E == UNION {{k} \X Ptrs(k) : k \in {x \in Addr : Readable(image, map, x)}}
  <1>1. ASSUME OneLeaf(l) PROVE TreeNodes(l) = {l}
    <2>1. Ptrs(l) = {}
      BY <1>1 DEF OneLeaf, key_ptrs, Range
    <2>2. \A e \in E : e[1] # l
      BY <2>1
    <2>3. S!Closed({l}, {l}, E)
      BY <2>2 DEF S!Closed
    <2>4. l \in TreeNodes(l) /\ TreeNodes(l) \subseteq {l}
      BY <2>3 DEF TreeNodes, S!Reachable, S!Closed
    <2> QED
      BY <2>4
  <1>2. ASSUME ~OneLeaf(l) PROVE Orphans(l) = {}
    <2>1. CASE ~FsLeaf(l)
      BY <2>1 DEF Orphans
    <2>2. CASE FsLeaf(l)
      BY <1>2, <2>2 DEF FsLeaf, OneLeaf, leaf_items, Orphans
    <2> QED
      BY <2>1, <2>2
  <1> QED
    BY <1>1, <1>2 DEF TreeOrphans

(* Hence what it finds are the orphans of the trees of one leaf. *)
LEMMA FoundOrphans ==
  ASSUME AuditInv
  PROVE  /\ {FsRoot(i) : i \in FsRoots} = FsTreeRoots /\ FsTreeRoots \subseteq Addr
         /\ UNION {TreeOrphans(l) : l \in {k \in FsTreeRoots : OneLeaf(k)}}
              = UNION {Orphans(FsRoot(i)) : i \in FsRoots}
  <1>1. IsImage(image) /\ HasItems(image) /\ map \in Seq(Chunk)
    BY DEF AuditInv, BasePart, TypeOK
  <1>2. {FsRoot(i) : i \in FsRoots} = FsTreeRoots
    BY <1>1, RootsListed
  <1>3. FsTreeRoots \subseteq Addr
    BY <1>1, <1>2, FsRootType
  <1>4. \A l \in FsTreeRoots : /\ OneLeaf(l) => TreeOrphans(l) = Orphans(l)
                               /\ ~OneLeaf(l) => Orphans(l) = {}
    BY <1>3, RootOrphans
  <1> QED
    BY <1>2, <1>3, <1>4

(* An empty list means that the roots were read, that no reachable node is *)
(* corrupt, and that the FS_TREEs of one leaf have no orphan.              *)
THEOREM AuditSilenceIsEarned == Spec => []SilenceIsEarned
  <1>1. AuditInv => SilenceIsEarned
    <2> SUFFICES ASSUME AuditInv, phase = "done", image.sb_parses, out = <<>>
                 PROVE  /\ \A l \in {sb.root, sb.chunk_root} \ {0} : Readable(image, map, l)
                        /\ swept = "done" => \A l \in S!SweepTree : ~S!Corrupt(l)
                        /\ \A l \in FsTreeRoots : OneLeaf(l) => TreeOrphans(l) = {}
      BY DEF SilenceIsEarned
    <2>1. /\ \A l \in {sb.root, sb.chunk_root} \ {0} : Readable(image, map, l)
          /\ SP!CoreInv
          /\ {l \in seen : SP!Corrupt(l)} = {}
      BY NoReport DEF AuditInv, SweepPart
    <2>2. ASSUME swept = "done", NEW l \in S!SweepTree PROVE ~S!Corrupt(l)
      <3>1. seen = SP!SweepTree
        BY <2>1, <2>2, SP!DoneSawAll, SweepAssumptions
      <3> QED
        BY <2>1, <2>2, <3>1, SameSweepTree
    <2>3. ASSUME NEW l \in FsTreeRoots, OneLeaf(l) PROVE TreeOrphans(l) = {}
      <3>1. seen_inodes = {} /\ seen_inodes = UNION {Orphans(FsRoot(j)) : j \in FsRoots}
        BY NoReport DEF AuditInv, OrphanPart
      <3> QED
        BY <2>3, <3>1, FoundOrphans
    <2> QED
      BY <2>1, <2>2, <2>3
  <1> QED
    BY <1>1, AuditInvariant, PTL

(* Each orphan of the live and the backup FS_TREEs of one leaf is reported *)
(* exactly once, and of the deeper ones none.                              *)
THEOREM AuditOrphansExactlyOnce == Spec => []OrphansExactlyOnce
  <1>1. AuditInv => OrphansExactlyOnce
    <2> SUFFICES ASSUME AuditInv, phase = "done", image.sb_parses,
                        NEW ino \in Addr
                 PROVE  Cardinality({i \in Reported("OrphanedInode") : out[i].inode = ino})
                          = IF ino \in UNION {TreeOrphans(l) : l \in {k \in FsTreeRoots : OneLeaf(k)}}
                            THEN 1 ELSE 0
      BY DEF OrphansExactlyOnce
    <2>1. /\ Inodes(out) = seen_inodes /\ Once(out)
          /\ seen_inodes = UNION {Orphans(FsRoot(i)) : i \in FsRoots}
      BY DEF AuditInv, OrphanPart
    <2>3. Inodes(out) = UNION {TreeOrphans(l) : l \in {k \in FsTreeRoots : OneLeaf(k)}}
      BY <2>1, FoundOrphans
    <2>4. PICK I : I = {i \in Reported("OrphanedInode") : out[i].inode = ino}
      OBVIOUS
    <2>5. CASE ino \in Inodes(out)
      <3>1. PICK i \in I : TRUE
        BY <2>4, <2>5 DEF Inodes, Reported
      <3>2. \A j \in I : j = i
        BY <2>1, <2>4, <3>1 DEF Once, Reported
      <3>3. I = {i}
        BY <3>1, <3>2
      <3>4. Cardinality(I) = 1
        BY <3>3, FS_Singleton
      <3> QED
        BY <2>3, <2>4, <2>5, <3>4
    <2>6. CASE ino \notin Inodes(out)
      <3>1. I = {}
        BY <2>4, <2>6 DEF Inodes, Reported
      <3>2. Cardinality(I) = 0
        BY <3>1, FS_EmptySet
      <3> QED
        BY <2>3, <2>4, <2>6, <3>2
    <2> QED
      BY <2>5, <2>6
  <1> QED
    BY <1>1, AuditInvariant, PTL

(* The two live roots are seeds of the sweep. *)
LEMMA SeedsHoldRoots ==
  ASSUME IsImage(image)
  PROVE  sb.root \in SP!Range(SP!Seeds(sb)) /\ sb.chunk_root \in SP!Range(SP!Seeds(sb))
  <1>1. SP!IsSuperblock(sb)
    BY SameImage DEF SP!IsImage, sb
  <1>2. PICK s \in Seq(Addr) : s = SP!Seeds(sb)
    BY <1>1, SP!SeedsType, SweepAssumptions, SameImage
  <1>3. 1 \in DOMAIN s /\ 2 \in DOMAIN s /\ s[1] = sb.root /\ s[2] = sb.chunk_root
    BY <1>2 DEF SP!Seeds
  <1> QED
    BY <1>2, <1>3 DEF SP!Range

(* The nodes of the live trees are nodes the sweep can reach. *)
LEMMA LiveNodesSwept ==
  ASSUME IsImage(image), map \in Seq(Chunk), WellMapped, Range(map) = ChunkSet, NEW l \in LiveNodes
  PROVE  /\ l \in SP!SweepTree
         /\ image.nodes[Home(l)].intact \/ SP!Corrupt(l)
  <1>1. ASSUME NEW k \in Addr, GenuineAt(k)
        PROVE  SP!IsGenuine(k) /\ Translate(image, map, k) = Home(k)
    <2>1. MapLookup(map, k) = Home(k)
      BY MapIsHome
    <2>2. Translate(image, map, k) = Home(k)
      BY <1>1, <2>1 DEF Translate, GenuineAt
    <2> QED
      BY <1>1, <2>2, SameReader DEF SP!IsGenuine, SP!Genuine, SP!sb, sb, GenuineAt, Readable, NodeAt
  <1>2. PICK G, roots, ptrs :
          /\ G = {k \in Addr : GenuineAt(k)}
          /\ roots = ({sb.root, sb.chunk_root} \ {0}) \cap G
          /\ ptrs = [k \in G |-> Range(key_ptrs(image.nodes[Home(k)])) \ {0}]
    OBVIOUS
  <1>3. LiveNodes = S!Reachable(G, roots, UNION {{k} \X (ptrs[k] \cap G) : k \in G})
    BY <1>2 DEF LiveNodes
  <1>4. PICK edges : edges = UNION {{k} \X (ptrs[k] \cap G) : k \in G}
    OBVIOUS
  <1>5. /\ SP!SweepTree \subseteq Addr /\ SP!Closed(SP!SweepTree, SP!Roots, SP!Edges)
        /\ \A k \in SP!SweepTree : SP!IsGenuine(k) => SP!Children(k) \subseteq SP!SweepTree
    BY SP!TreeClosed, SP!TreeChildren, SweepAssumptions, SameImage
  <1>6. roots \subseteq SP!SweepTree
    <2>1. {sb.root, sb.chunk_root} \ {0} \subseteq SP!Roots
      <3>1. sb.root \in SP!Range(SP!Seeds(sb)) /\ sb.chunk_root \in SP!Range(SP!Seeds(sb))
        BY SeedsHoldRoots
      <3> QED
        BY <3>1 DEF SP!Roots, SP!sb, sb
    <2> QED
      BY <1>2, <1>5, <2>1 DEF SP!Closed
  <1>7. ASSUME NEW k \in G, k \in SP!SweepTree PROVE ptrs[k] \subseteq SP!SweepTree
    <2>1. SP!IsGenuine(k) /\ Translate(image, map, k) = Home(k)
      BY <1>1, <1>2
    <2>2. SP!Children(k) = ptrs[k]
      BY <1>2, <2>1, SameReader DEF SP!Children, NodeAt, SP!Range, Range
    <2> QED
      BY <1>5, <1>7, <2>1, <2>2
  <1>8. PICK V : V = G \cap SP!SweepTree
    OBVIOUS
  <1>9. S!Closed(V, roots, edges)
    <2>1. roots \subseteq V
      BY <1>2, <1>6, <1>8
    <2>2. ASSUME NEW e \in edges, e[1] \in V PROVE e[2] \in V
      <3>1. PICK k \in G : e \in {k} \X (ptrs[k] \cap G)
        BY <1>4
      <3>2. e[1] = k /\ e[2] \in ptrs[k] \cap G
        BY <3>1
      <3> QED
        BY <1>7, <1>8, <2>2, <3>2
    <2> QED
      BY <2>1, <2>2 DEF S!Closed
  <1>10. l \in V
    BY <1>3, <1>4, <1>8, <1>9 DEF S!Reachable
  <1>11. SP!IsGenuine(l) /\ Translate(image, map, l) = Home(l)
    BY <1>1, <1>2, <1>8, <1>10
  <1>12. ASSUME ~image.nodes[Home(l)].intact PROVE SP!Corrupt(l)
    BY <1>11, <1>12, SameReader DEF SP!Corrupt, NodeAt, CrcValid
  <1> QED
    BY <1>8, <1>10, <1>12

(* A node of the live trees whose checksum does not verify is reported     *)
(* unless the sweep ran out of budget.                                     *)
THEOREM AuditTamperIsReported == Spec => []TamperIsReported
  <1>1. AuditInv => TamperIsReported
    <2> SUFFICES ASSUME AuditInv, phase = "done", swept = "done", WellMapped, NEW l \in LiveNodes,
                        ~image.nodes[Home(l)].intact
                 PROVE  \E i \in Reported("NodeCrcMismatch") : out[i].bytenr = l
      BY DEF TamperIsReported
    <2>1. image.sb_parses /\ IsImage(image) /\ map \in Seq(Chunk)
      BY DEF AuditInv, BasePart, TypeOK
    <2>2. /\ SP!CoreInv /\ Range(map) = ChunkSet
          /\ Bytenrs(out) = {k \in seen : SP!Corrupt(k)}
      BY <2>1 DEF AuditInv, SweepPart
    <2>3. l \in SP!SweepTree /\ SP!Corrupt(l)
      BY <2>1, <2>2, LiveNodesSwept
    <2>4. seen = SP!SweepTree
      BY <2>2, SP!DoneSawAll, SweepAssumptions
    <2>5. l \in Bytenrs(out)
      BY <2>2, <2>3, <2>4
    <2> QED
      BY <2>5 DEF Bytenrs, Reported
  <1> QED
    BY <1>1, AuditInvariant, PTL
=============================================================================
