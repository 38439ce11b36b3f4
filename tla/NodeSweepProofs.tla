--------------------------- MODULE NodeSweepProofs ---------------------------
(***************************************************************************)
(* sweep_node_crcs reports exactly the corrupt nodes it can reach, on      *)
(* every image, chunk map and budget.                                      *)
(***************************************************************************)
EXTENDS NodeSweep, ImageLemmas, FiniteSetTheorems

(* Found but not yet visited, in either loop. *)
Pending == Range(stack) \cup (Range(pushing) \ {0})

ReportedSet == {out[i].bytenr : i \in DOMAIN out}

(* Nothing reachable is forgotten between two iterations. *)
NothingLost ==
  /\ Roots \subseteq seen \cup Pending
  /\ \A l \in seen : IsGenuine(l) => Children(l) \subseteq seen \cup Pending

(* The part of the invariant that the loops keep among themselves,         *)
(* whatever else is in the list of anomalies.  Completeness needs          *)
(* NothingLost, soundness that seen and Pending stay inside the tree.      *)
CoreInv ==
  /\ IsImage(image)
  /\ map \in Seq(Chunk)
  /\ pushing \in Seq(Addr)
  /\ stack \in Seq(Addr)
  /\ seen \subseteq Addr
  /\ budget \in 0 .. SweepBudget
  /\ swept \in {"running", "done", "cut"}
  /\ 0 \notin Range(stack)
  /\ NothingLost
  /\ seen \cup Pending \subseteq SweepTree
  /\ swept = "done" => stack = <<>> /\ pushing = <<>>

Report == [kind : {"NodeCrcMismatch"}, bytenr : Addr, offset : Addr]

(* The inductive invariant: with the core, the exact link between what was *)
(* seen and what was reported.                                             *)
SweepInv ==
  /\ CoreInv
  /\ out \in Seq(Report)
  /\ ReportedSet = {l \in seen : Corrupt(l)}
  /\ ReportedOnce

-----------------------------------------------------------------------------
(* The seed loop runs over addresses. *)
LEMMA SeedsType ==
  ASSUME NEW s, IsSuperblock(s)
  PROVE  Seeds(s) \in Seq(Addr)
  <1> DEFINE n == 2 * Len(s.backups)
             f == [i \in 1 .. n |->
                     IF i % 2 = 1 THEN s.backups[(i + 1) \div 2].tree_root
                                  ELSE s.backups[i \div 2].fs_root]
  <1>1. s.backups \in Seq(RootBackup) /\ s.root \in Addr /\ s.chunk_root \in Addr
    BY DEF IsSuperblock
  <1>2. Len(s.backups) \in Nat /\ n \in Nat
    BY <1>1
  <1>3. ASSUME NEW i \in 1 .. n PROVE f[i] \in Addr
    <2>1. \A k \in 1 .. Len(s.backups) :
            s.backups[k].tree_root \in Addr /\ s.backups[k].fs_root \in Addr
      <3> SUFFICES ASSUME NEW k \in 1 .. Len(s.backups)
                   PROVE s.backups[k].tree_root \in Addr /\ s.backups[k].fs_root \in Addr
        OBVIOUS
      <3>1. s.backups[k] \in RootBackup
        BY <1>1
      <3> QED
        BY <3>1 DEF RootBackup
    <2>2. CASE i % 2 = 1
      <3>1. (i + 1) \div 2 \in 1 .. Len(s.backups)
        BY <1>2, <2>2
      <3> QED
        BY <2>1, <2>2, <3>1
    <2>3. CASE i % 2 # 1
      <3>1. i \div 2 \in 1 .. Len(s.backups)
        BY <1>2, <2>3
      <3> QED
        BY <2>1, <2>3, <3>1
    <2> QED
      BY <2>2, <2>3
  <1>4. f \in Seq(Addr)
    <2>1. f \in [1 .. n -> Addr]
      BY <1>3
    <2> HIDE DEF f, n
    <2> QED
      BY <1>2, <2>1, SeqDef
  <1>5. <<s.root, s.chunk_root>> \in Seq(Addr)
    BY <1>1
  <1> HIDE DEF f
  <1>6. <<s.root, s.chunk_root>> \o f \in Seq(Addr)
    BY <1>4, <1>5
  <1> QED
    BY <1>6 DEF Seeds, f, n

(* The graph is a graph over addresses, so SweepTree is closed. *)
LEMMA TreeClosed ==
  ASSUME IsImage(image), map \in Seq(Chunk)
  PROVE  /\ Roots \subseteq Addr
         /\ \A l \in Addr : IsGenuine(l) => Children(l) \subseteq Addr
         /\ Edges \subseteq Addr \X Addr
         /\ SweepTree \subseteq Addr
         /\ Closed(SweepTree, Roots, Edges)
  <1>1. Roots \subseteq Addr
    BY SeedsType, RangeLemma DEF Roots, sb, IsImage
  <1>2. \A l \in Addr : IsGenuine(l) => Children(l) \subseteq Addr
    BY ReadableNode, RangeLemma DEF IsGenuine, Children
  <1>3. Edges \subseteq Addr \X Addr
    BY <1>2 DEF Edges
  <1> QED
    BY <1>1, <1>2, <1>3, ReachableClosed DEF SweepTree

(* Pointers of a genuine node of the tree lead into the tree. *)
LEMMA TreeChildren ==
  ASSUME IsImage(image), map \in Seq(Chunk), NEW l \in SweepTree, IsGenuine(l)
  PROVE  Children(l) \subseteq SweepTree
  <1>1. SUFFICES ASSUME NEW m \in Children(l) PROVE m \in SweepTree
    OBVIOUS
  <1>2. l \in Addr
    BY TreeClosed
  <1>3. <<l, m>> \in Edges
    BY <1>2 DEF Edges
  <1> QED
    BY <1>3, TreeClosed DEF Closed

(* Image and map are fixed, and with them everything derived from them. *)
LEMMA Frozen ==
  ASSUME image' = image, map' = map
  PROVE  /\ Roots' = Roots
         /\ SweepTree' = SweepTree
         /\ \A l : IsGenuine(l)' = IsGenuine(l)
         /\ \A l : Corrupt(l)' = Corrupt(l)
         /\ \A l : Children(l)' = Children(l)
  BY DEF Roots, SweepTree, Edges, IsGenuine, Corrupt, Children, Genuine, sb

-----------------------------------------------------------------------------
(* The seeds of the sweep establish the core. *)
LEMMA SeededCore ==
  ASSUME IsImage(image), map \in Seq(Chunk), pushing = Seeds(image.sb), stack = <<>>,
         seen = {}, budget = SweepBudget, swept = "running"
  PROVE  CoreInv
  <1>1. pushing \in Seq(Addr) /\ budget \in 0 .. SweepBudget
    BY SeedsType, SweepBudgetAssumption DEF IsImage
  <1>2. Range(stack) = {} /\ Pending = Roots
    BY DEF Pending, Roots, sb, Range
  <1>3. Roots \subseteq SweepTree
    BY TreeClosed DEF Closed
  <1> QED
    BY <1>1, <1>2, <1>3 DEF CoreInv, NothingLost

(* One turn of a push loop moves an address within Pending. *)
LEMMA PushCore ==
  ASSUME CoreInv, PushNonZero
  PROVE  CoreInv'
  <1>1. /\ Head(pushing) \in Addr
        /\ Tail(pushing) \in Seq(Addr)
        /\ Range(pushing) = {Head(pushing)} \cup Range(Tail(pushing))
    BY TakeLemma DEF CoreInv, PushNonZero
  <1>2. /\ Append(stack, Head(pushing)) \in Seq(Addr)
        /\ Range(Append(stack, Head(pushing))) = Range(stack) \cup {Head(pushing)}
    BY <1>1, PushLemma DEF CoreInv
  <1>3. stack' \in Seq(Addr) /\ pushing' \in Seq(Addr)
    BY <1>1, <1>2 DEF CoreInv, PushNonZero
  <1>4. Pending' = Pending /\ 0 \notin Range(stack)'
    BY <1>1, <1>2 DEF Pending, PushNonZero, CoreInv
  <1>5. NothingLost'
    BY <1>4, Frozen DEF CoreInv, NothingLost, PushNonZero
  <1> QED
    BY <1>3, <1>4, <1>5, Frozen DEF CoreInv, PushNonZero

(* What every iteration of the pop loop does to the stack. *)
LEMMA VisitFacts ==
  ASSUME CoreInv, Visit
  PROVE  /\ image' = image /\ map' = map /\ swept' = "running"
         /\ Top \in Addr \ {0}
         /\ Top \in SweepTree
         /\ stack' \in Seq(Addr)
         /\ Range(stack) = Range(stack') \cup {Top}
         /\ budget' \in 0 .. SweepBudget
         /\ Pending = Range(stack)
  <1>1. stack \in Seq(Addr) /\ budget \in 0 .. SweepBudget
    BY DEF CoreInv
  <1>2. /\ Top \in Addr
        /\ stack' \in Seq(Addr)
        /\ Range(stack) = Range(stack') \cup {Top}
    BY <1>1, PopLemma DEF Visit, Top, Pop
  <1>3. Pending = Range(stack)
    BY DEF Pending, Visit, Range
  <1>4. Top \in SweepTree /\ Top # 0
    BY <1>2, <1>3 DEF CoreInv
  <1>5. budget' \in 0 .. SweepBudget
    BY <1>1, SweepBudgetAssumption DEF Visit
  <1> QED
    BY <1>2, <1>3, <1>4, <1>5 DEF Visit

(* An iteration that finds nothing: the address is known, or it leads to   *)
(* no genuine node.                                                        *)
LEMMA SkipCore ==
  ASSUME CoreInv, SkipSeen \/ SkipUnreadable \/ SkipForeign
  PROVE  CoreInv'
  <1>1. /\ Visit
        /\ Top \notin seen => ~IsGenuine(Top)
        /\ seen' = seen \cup {Top}
        /\ pushing' = pushing
    BY DEF SkipSeen, SkipUnreadable, SkipForeign, IsGenuine
  <1>2. seen \cup Pending = (seen \cup Pending)'
    BY <1>1, VisitFacts DEF Pending, Visit, Range
  <1>3. NothingLost'
    BY <1>1, <1>2, Frozen, VisitFacts DEF CoreInv, NothingLost
  <1>4. seen' \subseteq Addr /\ 0 \notin Range(stack')
    BY <1>1, VisitFacts DEF CoreInv
  <1> QED
    BY <1>1, <1>2, <1>3, <1>4, Frozen, VisitFacts DEF CoreInv

(* A genuine node is remembered, and its children become pending. *)
LEMMA CheckNodeCore ==
  ASSUME CoreInv, CheckNode
  PROVE  CoreInv'
  <1>1. /\ Visit
        /\ seen' = seen \cup {Top}
        /\ pushing' = key_ptrs(NodeAt(image, map, Top))
        /\ IsGenuine(Top)
        /\ Readable(image, map, Top)
    BY DEF CheckNode, IsGenuine
  <1>2. IsImage(image) /\ map \in Seq(Chunk) /\ Top \in Addr /\ image' = image /\ map' = map
    BY <1>1, VisitFacts DEF CoreInv
  <1>3. pushing' \in Seq(Addr)
    BY <1>1, <1>2, ReadableNode
  <1>4. Pending' = Range(stack') \cup Children(Top)
    BY <1>1 DEF Pending, Children
  <1>5. seen \cup Pending \subseteq (seen \cup Pending)'
    BY <1>1, <1>4, VisitFacts
  <1>6. (seen \cup Pending)' \subseteq SweepTree
    BY <1>1, <1>2, <1>4, TreeChildren, VisitFacts DEF CoreInv
  <1>7. NothingLost'
    <2>1. Roots' \subseteq (seen \cup Pending)'
      BY <1>2, <1>5, Frozen DEF CoreInv, NothingLost
    <2>2. ASSUME NEW l \in seen', IsGenuine(l)'
          PROVE Children(l)' \subseteq (seen \cup Pending)'
      <3>1. CASE l = Top
        BY <1>2, <1>4, <3>1, Frozen
      <3>2. CASE l # Top
        BY <1>1, <1>2, <1>5, <2>2, <3>2, Frozen DEF CoreInv, NothingLost
      <3> QED
        BY <3>1, <3>2
    <2> QED
      BY <2>1, <2>2 DEF NothingLost
  <1>8. seen' \subseteq Addr /\ 0 \notin Range(stack')
    BY <1>1, VisitFacts DEF CoreInv
  <1> QED
    BY <1>1, <1>2, <1>3, <1>6, <1>7, <1>8, Frozen, VisitFacts DEF CoreInv

(* Every step of the sweep preserves the core. *)
LEMMA CoreStep ==
  ASSUME CoreInv, [Next]_vars
  PROVE  CoreInv'
  <1>1. CASE PushNonZero
    BY <1>1, PushCore
  <1>2. CASE SkipSeen \/ SkipUnreadable \/ SkipForeign
    BY <1>2, SkipCore
  <1>3. CASE CheckNode
    BY <1>3, CheckNodeCore
  <1>4. CASE BudgetBreak \/ Return \/ UNCHANGED vars
    <2>1. /\ UNCHANGED <<image, map, pushing, stack, seen, budget>>
          /\ swept' \in {"done", "cut", swept}
          /\ swept' = "done" /\ swept # "done" => stack = <<>> /\ pushing = <<>>
      BY <1>4 DEF BudgetBreak, Return, vars
    <2>2. Pending' = Pending
      BY <2>1 DEF Pending
    <2>3. NothingLost'
      BY <2>1, <2>2, Frozen DEF CoreInv, NothingLost
    <2> QED
      BY <2>1, <2>2, <2>3, Frozen DEF CoreInv
  <1> QED
    BY <1>1, <1>2, <1>3, <1>4 DEF Next

(* The core does not depend on the list of anomalies. *)
LEMMA CoreFrozen ==
  ASSUME CoreInv, UNCHANGED <<image, map, pushing, stack, seen, budget, swept>>
  PROVE  CoreInv'
  <1>1. Pending' = Pending
    BY DEF Pending
  <1>2. NothingLost'
    BY <1>1, Frozen DEF CoreInv, NothingLost
  <1> QED
    BY <1>1, <1>2, Frozen DEF CoreInv

(* A step that meets no corrupt node for the first time, and one that does. *)
Quiet == out' = out /\ {l \in seen' : Corrupt(l)} = {l \in seen : Corrupt(l)}

Found(l) ==
  /\ l \notin seen /\ seen' = seen \cup {l} /\ Corrupt(l)
  /\ out' = Append(out, [kind |-> "NodeCrcMismatch", bytenr |-> l, offset |-> Offset(l)])

(* What one step does to the list of anomalies: nothing, or one report of  *)
(* the corrupt node it met.                                                *)
LEMMA ReportStep ==
  ASSUME CoreInv, [Next]_vars
  PROVE  image' = image /\ map' = map /\ (Quiet \/ \E l \in SweepTree : Found(l))
  <1>1. CASE PushNonZero \/ BudgetBreak \/ Return \/ UNCHANGED vars
    BY <1>1 DEF PushNonZero, BudgetBreak, Return, vars, Quiet
  <1>2. CASE SkipSeen \/ SkipUnreadable \/ SkipForeign
    <2>1. Visit /\ seen' = seen \cup {Top} /\ out' = out /\ (Top \in seen \/ ~Corrupt(Top))
      BY <1>2 DEF SkipSeen, SkipUnreadable, SkipForeign, Corrupt, IsGenuine
    <2> QED
      BY <2>1 DEF Visit, Quiet
  <1>3. CASE CheckNode
    <2>1. /\ Visit /\ Top \notin seen /\ seen' = seen \cup {Top} /\ out' = Judged
          /\ IsGenuine(Top)
      BY <1>3 DEF CheckNode, IsGenuine
    <2>2. NodeAt(image, map, Top).bytenr = Top
      BY <2>1 DEF IsGenuine, Genuine
    <2>3. Corrupt(Top) <=> ~CrcValid(image, NodeAt(image, map, Top))
      BY <2>1 DEF Corrupt
    <2>4. PICK t \in SweepTree : t = Top
      BY <2>1, VisitFacts
    <2>5. CASE Corrupt(Top)
      <3>1. Found(t)
        BY <2>1, <2>2, <2>3, <2>4, <2>5 DEF Found, Judged, Mismatch
      <3> QED
        BY <2>1, <3>1 DEF Visit
    <2>6. CASE ~Corrupt(Top)
      BY <2>1, <2>3, <2>6 DEF Quiet, Judged, Visit
    <2> QED
      BY <2>5, <2>6
  <1> QED
    BY <1>1, <1>2, <1>3 DEF Next

-----------------------------------------------------------------------------
(* The sweep's start establishes the invariant. *)
LEMMA InitInv == Init => SweepInv
  <1> SUFFICES ASSUME Init PROVE SweepInv
    OBVIOUS
  <1>1. IsImage(image) /\ map \in Seq(Chunk)
    BY InputsAssumption DEF Init
  <1>2. CoreInv
    BY <1>1, SeededCore DEF Init
  <1>3. ReportedSet = {} /\ ReportedOnce /\ out \in Seq(Report)
    BY DEF Init, ReportedSet, ReportedOnce
  <1> QED
    BY <1>2, <1>3 DEF Init, SweepInv

(* A report of a node not reported before. *)
LEMMA FoundInv ==
  ASSUME SweepInv, image' = image, map' = map, NEW l \in Addr, Found(l)
  PROVE  /\ out' \in Seq(Report)
         /\ ReportedSet' = {k \in seen' : Corrupt(k)'}
         /\ ReportedOnce'
  <1> DEFINE rec == [kind |-> "NodeCrcMismatch", bytenr |-> l, offset |-> Offset(l)]
  <1>1. out' = Append(out, rec) /\ out \in Seq(Report)
    BY DEF Found, SweepInv
  <1>2. rec \in Report /\ rec.bytenr = l
    <2>1. Offset(l) \in Addr
      BY MapLookupType DEF Offset, SweepInv, CoreInv
    <2> QED
      BY <2>1 DEF Report
  <1> HIDE DEF rec
  <1>3. /\ out' \in Seq(Report)
        /\ Len(out') = Len(out) + 1
        /\ \A i \in 1 .. Len(out) : out'[i] = out[i]
        /\ out'[Len(out) + 1] = rec
        /\ DOMAIN out = 1 .. Len(out)
        /\ DOMAIN out' = 1 .. Len(out) + 1
        /\ Len(out) \in Nat
    BY <1>1, <1>2, AppendProperties
  <1>4. ReportedSet' = ReportedSet \cup {l}
    <2>1. 1 .. Len(out) + 1 = (1 .. Len(out)) \cup {Len(out) + 1}
      BY <1>3
    <2> QED
      BY <1>2, <1>3, <2>1 DEF ReportedSet
  <1>5. ReportedSet' = {k \in seen' : Corrupt(k)'}
    BY <1>4, Frozen DEF SweepInv, Found
  <1>6. \A i \in 1 .. Len(out) : out[i].bytenr # l
    BY <1>3 DEF SweepInv, ReportedSet, Found
  <1>7. ReportedOnce'
    <2> SUFFICES ASSUME NEW i \in 1 .. Len(out) + 1, NEW j \in 1 .. Len(out) + 1,
                        out'[i].bytenr = out'[j].bytenr
                 PROVE  i = j
      BY <1>3 DEF ReportedOnce
    <2>1. CASE i \in 1 .. Len(out) /\ j \in 1 .. Len(out)
      BY <1>3, <2>1 DEF SweepInv, ReportedOnce
    <2>2. CASE i = Len(out) + 1 /\ j \in 1 .. Len(out)
      BY <1>2, <1>3, <1>6, <2>2
    <2>3. CASE j = Len(out) + 1 /\ i \in 1 .. Len(out)
      BY <1>2, <1>3, <1>6, <2>3
    <2> QED
      BY <1>3, <2>1, <2>2, <2>3
  <1> QED
    BY <1>3, <1>5, <1>7

(* Every step of the sweep preserves the invariant. *)
LEMMA StepInv == SweepInv /\ [Next]_vars => SweepInv'
  <1> SUFFICES ASSUME SweepInv, [Next]_vars PROVE SweepInv'
    OBVIOUS
  <1>1. CoreInv /\ CoreInv'
    BY CoreStep DEF SweepInv
  <1>2. image' = image /\ map' = map /\ (Quiet \/ \E l \in SweepTree : Found(l))
    BY <1>1, ReportStep
  <1>3. CASE Quiet
    <2>1. ReportedSet' = ReportedSet /\ ReportedOnce' /\ out' \in Seq(Report)
      BY <1>3 DEF Quiet, ReportedSet, ReportedOnce, SweepInv
    <2>2. ReportedSet' = {l \in seen' : Corrupt(l)'}
      BY <1>2, <1>3, <2>1, Frozen DEF Quiet, SweepInv
    <2> QED
      BY <1>1, <2>1, <2>2 DEF SweepInv
  <1>4. ASSUME NEW l \in SweepTree, Found(l) PROVE SweepInv'
    <2>1. l \in Addr
      BY <1>1, TreeClosed DEF CoreInv
    <2> QED
      BY <1>1, <1>2, <1>4, <2>1, FoundInv DEF SweepInv
  <1> QED
    BY <1>2, <1>3, <1>4

(* The inductive invariant holds throughout sweep_node_crcs. *)
THEOREM SweepInvariant == Spec => []SweepInv
  BY InitInv, StepInv, PTL DEF Spec

(* The variables of sweep_node_crcs keep their shapes. *)
THEOREM TypeCorrect == Spec => []TypeOK
  <1>1. SweepInv => TypeOK
    BY DEF SweepInv, CoreInv, TypeOK, Report
  <1> QED
    BY <1>1, SweepInvariant, PTL

(* No false alarm, on any image: what is reported is a corrupt node that   *)
(* hangs off a live or backup root.                                        *)
THEOREM NoFalseAlarm == Spec => []ReportsAreReal
  <1>1. SweepInv => ReportsAreReal
    <2> SUFFICES ASSUME SweepInv, NEW i \in DOMAIN out
                 PROVE  out[i].bytenr \in SweepTree /\ Corrupt(out[i].bytenr)
      BY DEF ReportsAreReal
    <2>1. out[i].bytenr \in ReportedSet
      BY DEF ReportedSet
    <2> QED
      BY <2>1 DEF SweepInv, CoreInv
  <1> QED
    BY <1>1, SweepInvariant, PTL

(* No node is reported twice, whatever subtrees the roots share. *)
THEOREM NoDuplicateReport == Spec => []ReportedOnce
  BY SweepInvariant, PTL DEF SweepInv

(* A sweep that was not cut short has visited exactly the reachable nodes. *)
LEMMA DoneSawAll ==
  ASSUME CoreInv, swept = "done"
  PROVE  seen = SweepTree
  <1>1. IsImage(image) /\ map \in Seq(Chunk) /\ seen \subseteq Addr
    BY DEF CoreInv
  <1>2. Pending = {}
    BY DEF CoreInv, Pending, Range
  <1>3. Closed(seen, Roots, Edges)
    <2>1. Roots \subseteq seen
      BY <1>2 DEF CoreInv, NothingLost
    <2>2. ASSUME NEW e \in Edges, e[1] \in seen PROVE e[2] \in seen
      <3>1. PICK l \in Addr : IsGenuine(l) /\ e \in {l} \X Children(l)
        BY <2>2 DEF Edges
      <3>2. e[1] = l /\ e[2] \in Children(l)
        BY <3>1
      <3> QED
        BY <1>2, <2>2, <3>1, <3>2 DEF CoreInv, NothingLost
    <2> QED
      BY <2>1, <2>2 DEF Closed
  <1> QED
    BY <1>1, <1>2, <1>3, ReachableLeast DEF CoreInv, SweepTree

(* No silent miss, on any image: a sweep that was not cut short has        *)
(* visited exactly the reachable nodes and reported each corrupt one.      *)
THEOREM NoSilentMiss == Spec => []SweepIsComplete
  <1>1. SweepInv => SweepIsComplete
    <2> SUFFICES ASSUME SweepInv, swept = "done"
                 PROVE  /\ seen = SweepTree
                        /\ \A l \in SweepTree :
                             Corrupt(l) => \E i \in DOMAIN out : out[i].bytenr = l
      BY DEF SweepIsComplete
    <2>1. seen = SweepTree
      BY DoneSawAll DEF SweepInv
    <2>2. ASSUME NEW l \in SweepTree, Corrupt(l)
          PROVE  \E i \in DOMAIN out : out[i].bytenr = l
      BY <2>1, <2>2 DEF SweepInv, ReportedSet
    <2> QED
      BY <2>1, <2>2
  <1> QED
    BY <1>1, SweepInvariant, PTL

-----------------------------------------------------------------------------
(* What the budget pays for.  Every pop is the end of one reference: a     *)
(* seed, or a pointer of a genuine node that was visited.                  *)
NonZero(s) == {i \in DOMAIN s : s[i] # 0}

Refs(V) ==
  UNION {{l} \X NonZero(key_ptrs(NodeAt(image, map, l))) : l \in {k \in V : IsGenuine(k)}}

(* The account: references paid for, waiting on the stack and waiting in   *)
(* the push loop are all the references met so far.                        *)
RefInv ==
  /\ swept = "cut" => stack # <<>> /\ budget = 0
  /\ IsFiniteSet(Refs(seen))
  /\ (SweepBudget - budget) + Len(stack) + Cardinality(NonZero(pushing))
       = Cardinality(NonZero(Seeds(sb))) + Cardinality(Refs(seen))

(* A list has finitely many entries that are addresses. *)
LEMMA NonZeroFinite ==
  ASSUME NEW A, NEW s \in Seq(A)
  PROVE  IsFiniteSet(NonZero(s)) /\ Cardinality(NonZero(s)) \in Nat
  <1>1. DOMAIN s = 1 .. Len(s) /\ Len(s) \in Nat
    OBVIOUS
  <1>2. IsFiniteSet(DOMAIN s)
    BY <1>1, FS_Interval
  <1>3. NonZero(s) \in SUBSET (DOMAIN s)
    BY DEF NonZero
  <1>4. IsFiniteSet(NonZero(s))
    BY <1>2, <1>3, FS_Subset
  <1> QED
    BY <1>4, FS_CardinalityType

(* Taking the head off leaves one address fewer, unless the head is zero. *)
LEMMA NonZeroTail ==
  ASSUME NEW A, NEW s \in Seq(A), s # <<>>
  PROVE  Cardinality(NonZero(s))
           = Cardinality(NonZero(Tail(s))) + (IF Head(s) # 0 THEN 1 ELSE 0)
  <1>0. PICK t \in Seq(A) : t = Tail(s)
    BY TakeLemma
  <1>1. /\ Len(s) \in Nat \ {0} /\ DOMAIN s = 1 .. Len(s) /\ DOMAIN t = 1 .. Len(s) - 1
        /\ Head(s) = s[1] /\ \A i \in 1 .. Len(s) - 1 : t[i] = s[i + 1]
    BY <1>0
  <1> DEFINE S == NonZero(t)
             R == NonZero(s) \ {1}
             f == [i \in S |-> i + 1]
  <1>2. ASSUME NEW i \in S PROVE i \in Nat /\ i + 1 \in R
    BY <1>1, <1>2 DEF NonZero
  <1>3. ASSUME NEW j \in R PROVE j \in Nat /\ j - 1 \in S
    BY <1>1, <1>3 DEF NonZero
  <1> HIDE DEF S, R
  <1>4. \A i, j \in S : f[i] = f[j] => i = j
    BY <1>2
  <1>5. \A j \in R : j - 1 \in S /\ f[j - 1] = j
    BY <1>3
  <1>6. f \in [S -> R]
    BY <1>2
  <1> HIDE DEF f
  <1>7. f \in Bijection(S, R)
    BY <1>4, <1>5, <1>6 DEF Bijection, Injection, Surjection, IsInjective
  <1>8. ExistsBijection(S, R)
    BY <1>7 DEF ExistsBijection
  <1>9. IsFiniteSet(S)
    BY NonZeroFinite DEF S
  <1>10. Cardinality(R) = Cardinality(S)
    BY <1>8, <1>9, FS_Bijection
  <1>11. /\ IsFiniteSet(NonZero(s))
         /\ Cardinality(R) = IF 1 \in NonZero(s) THEN Cardinality(NonZero(s)) - 1
                                                ELSE Cardinality(NonZero(s))
    BY NonZeroFinite, FS_RemoveElement DEF R
  <1>12. 1 \in NonZero(s) <=> Head(s) # 0
    BY <1>1 DEF NonZero
  <1>13. Cardinality(NonZero(s)) \in Nat /\ Cardinality(S) \in Nat
    BY <1>9, <1>11, FS_CardinalityType
  <1> QED
    BY <1>0, <1>10, <1>11, <1>12, <1>13 DEF S

(* Tagging the references of one node does not change their number. *)
LEMMA TaggedCount ==
  ASSUME NEW l, NEW S, IsFiniteSet(S)
  PROVE  IsFiniteSet({l} \X S) /\ Cardinality({l} \X S) = Cardinality(S)
  <1> DEFINE T == {l} \X S
             f == [i \in S |-> <<l, i>>]
  <1>1. f \in [S -> T] /\ \A i, j \in S : f[i] = f[j] => i = j
    OBVIOUS
  <1>2. \A e \in T : \E i \in S : f[i] = e
    OBVIOUS
  <1> HIDE DEF f, T
  <1>3. f \in Bijection(S, T)
    BY <1>1, <1>2 DEF Bijection, Injection, Surjection, IsInjective
  <1>4. ExistsBijection(S, T)
    BY <1>3 DEF ExistsBijection
  <1> QED
    BY <1>4, FS_Bijection DEF T

(* The references of finitely many nodes are finitely many. *)
LEMMA RefsFinite ==
  ASSUME IsImage(image), map \in Seq(Chunk)
  PROVE  IsFiniteSet(Refs(SweepTree))
  <1> DEFINE G == {k \in SweepTree : IsGenuine(k)}
             Of(l) == {l} \X NonZero(key_ptrs(NodeAt(image, map, l)))
             All == {Of(l) : l \in G}
             f == [l \in G |-> Of(l)]
  <1>1. IsFiniteSet(Addr)
    BY FS_Interval, WidthAssumption DEF Addr
  <1>2. G \in SUBSET Addr
    BY TreeClosed
  <1>3. IsFiniteSet(G)
    BY <1>1, <1>2, FS_Subset
  <1>4. ASSUME NEW l \in G PROVE IsFiniteSet(Of(l))
    <2>1. key_ptrs(NodeAt(image, map, l)) \in Seq(Addr)
      BY <1>2, ReadableNode DEF IsGenuine
    <2> QED
      BY <2>1, NonZeroFinite, TaggedCount
  <1>5. f \in Surjection(G, All)
    <2> HIDE DEF G, Of
    <2> QED
      BY DEF Surjection
  <1>6. IsFiniteSet(All)
    BY <1>3, <1>5, FS_Surjection
  <1>7. \A R \in All : IsFiniteSet(R)
    BY <1>4
  <1>8. IsFiniteSet(UNION All)
    BY <1>6, <1>7, FS_UNION
  <1> QED
    BY <1>8 DEF Refs

(* At the start every seed waits in the push loop. *)
LEMMA InitRefs == Init => RefInv
  <1> SUFFICES ASSUME Init PROVE RefInv
    OBVIOUS
  <1>1. Refs(seen) = {}
    BY DEF Init, Refs
  <1>2. IsImage(image) /\ Seeds(sb) \in Seq(Addr)
    BY InputsAssumption, SeedsType DEF Init, sb, IsImage
  <1>3. Cardinality(NonZero(pushing)) = Cardinality(NonZero(Seeds(sb)))
    BY DEF Init, sb
  <1>4. Cardinality(NonZero(Seeds(sb))) \in Nat /\ Len(stack) = 0
    BY <1>2, NonZeroFinite DEF Init
  <1>5. IsFiniteSet(Refs(seen)) /\ Cardinality(Refs(seen)) = 0
    BY <1>1, FS_EmptySet
  <1> QED
    BY <1>3, <1>4, <1>5, SweepBudgetAssumption DEF Init, RefInv

(* Image and map are fixed, and with them the references. *)
LEMMA FrozenRefs ==
  ASSUME image' = image, map' = map
  PROVE  sb' = sb /\ \A V : Refs(V)' = Refs(V)
  BY DEF sb, Refs, IsGenuine, Genuine, NonZero

(* Every step keeps the account. *)
LEMMA StepRefs == CoreInv /\ RefInv /\ [Next]_vars => RefInv'
  <1> SUFFICES ASSUME CoreInv, RefInv, [Next]_vars PROVE RefInv'
    OBVIOUS
  <1>1. image' = image /\ map' = map
    BY ReportStep
  <1>2. Seeds(sb)' = Seeds(sb) /\ \A V : Refs(V)' = Refs(V)
    BY <1>1, FrozenRefs DEF sb
  <1>3. /\ Len(stack) \in Nat /\ budget \in Nat
        /\ Cardinality(NonZero(pushing)) \in Nat /\ Cardinality(Refs(seen)) \in Nat
        /\ Cardinality(NonZero(Seeds(sb))) \in Nat
    <2>1. Seeds(sb) \in Seq(Addr)
      BY SeedsType DEF sb, IsImage, CoreInv
    <2> QED
      BY <2>1, NonZeroFinite, FS_CardinalityType, SweepBudgetAssumption DEF CoreInv, RefInv
  <1>4. CASE PushNonZero
    <2>1. /\ Cardinality(NonZero(pushing))
              = Cardinality(NonZero(pushing')) + (IF Head(pushing) # 0 THEN 1 ELSE 0)
          /\ pushing' \in Seq(Addr)
      BY <1>4, NonZeroTail, TakeLemma DEF CoreInv, PushNonZero
    <2>2. Len(stack') = Len(stack) + (IF Head(pushing) # 0 THEN 1 ELSE 0)
      BY <1>3, <1>4 DEF CoreInv, PushNonZero
    <2>3. seen' = seen /\ budget' = budget /\ swept' = swept /\ swept = "running"
      BY <1>4 DEF PushNonZero
    <2>4. Cardinality(NonZero(pushing')) \in Nat
      BY <2>1, NonZeroFinite
    <2> QED
      BY <1>2, <1>3, <2>1, <2>2, <2>3, <2>4, SweepBudgetAssumption DEF RefInv
  <1>5. ASSUME Visit
        PROVE  /\ Len(stack') = Len(stack) - 1 /\ budget' = budget - 1 /\ swept' = "running"
               /\ Cardinality(NonZero(pushing)) = 0
    <2>1. NonZero(pushing) = {}
      BY <1>5 DEF Visit, NonZero
    <2>2. Len(stack') = Len(stack) - 1
      BY <1>5, PopLemma DEF Visit, Pop, CoreInv
    <2> QED
      BY <1>5, <2>1, <2>2, FS_EmptySet DEF Visit
  <1>6. CASE SkipSeen \/ SkipUnreadable \/ SkipForeign
    <2>1. Visit /\ pushing' = pushing /\ seen' = seen \cup {Top} /\ (Top \in seen \/ ~IsGenuine(Top))
      BY <1>6 DEF SkipSeen, SkipUnreadable, SkipForeign, IsGenuine
    <2>2. Refs(seen') = Refs(seen)
      BY <2>1 DEF Refs
    <2> QED
      BY <1>2, <1>3, <1>5, <2>1, <2>2, SweepBudgetAssumption DEF RefInv
  <1>7. CASE CheckNode
    <2> DEFINE mine == {Top} \X NonZero(pushing')
    <2>1. /\ Visit /\ Top \notin seen /\ seen' = seen \cup {Top} /\ IsGenuine(Top)
          /\ pushing' = key_ptrs(NodeAt(image, map, Top))
      BY <1>7 DEF CheckNode, IsGenuine
    <2>2. pushing' \in Seq(Addr)
      BY <1>7, CheckNodeCore DEF CoreInv
    <2>3. Refs(seen') = Refs(seen) \cup mine
      BY <2>1 DEF Refs
    <2>4. Refs(seen) \cap mine = {}
      BY <2>1 DEF Refs
    <2>5. /\ IsFiniteSet(mine) /\ Cardinality(mine) = Cardinality(NonZero(pushing'))
          /\ Cardinality(NonZero(pushing')) \in Nat
      BY <2>2, NonZeroFinite, TaggedCount
    <2>6. /\ IsFiniteSet(Refs(seen'))
          /\ Cardinality(Refs(seen'))
               = Cardinality(Refs(seen)) + Cardinality(mine) - Cardinality({})
      <3> HIDE DEF mine
      <3>1. PICK R : R = Refs(seen) /\ IsFiniteSet(R) /\ R \cap mine = {}
        BY <2>4 DEF RefInv
      <3>2. /\ IsFiniteSet(R \cup mine)
            /\ Cardinality(R \cup mine)
                 = Cardinality(R) + Cardinality(mine) - Cardinality(R \cap mine)
        BY <2>5, <3>1, FS_Union
      <3> QED
        BY <2>3, <3>1, <3>2
    <2>7. Cardinality(Refs(seen')) = Cardinality(Refs(seen)) + Cardinality(NonZero(pushing'))
      BY <1>3, <2>5, <2>6, FS_EmptySet
    <2> QED
      BY <1>2, <1>3, <1>5, <2>1, <2>5, <2>6, <2>7, SweepBudgetAssumption DEF RefInv
  <1>8. CASE BudgetBreak \/ Return \/ UNCHANGED vars
    <2>1. /\ UNCHANGED <<pushing, stack, seen, budget>>
          /\ swept' = "cut" => stack # <<>> /\ budget = 0
      BY <1>8 DEF BudgetBreak, Return, vars, RefInv
    <2> QED
      BY <1>2, <2>1 DEF RefInv
  <1> QED
    BY <1>4, <1>6, <1>7, <1>8 DEF Next

(* The sweep is cut short only on an image with more references than the   *)
(* budget pays for: at the cut SweepBudget of them are paid, one waits.    *)
THEOREM CutIsEarned == Spec => []CutMeansManyReferences
  <1>1. CoreInv /\ RefInv => CutMeansManyReferences
    <2> SUFFICES ASSUME CoreInv, RefInv, swept = "cut"
                 PROVE  Cardinality(NonZero(Seeds(sb))) + Cardinality(Refs(SweepTree)) > SweepBudget
      BY DEF CutMeansManyReferences, NonZero, Refs
    <2>1. /\ budget = 0 /\ Len(stack) \in Nat \ {0}
          /\ Cardinality(NonZero(pushing)) \in Nat /\ Cardinality(Refs(seen)) \in Nat
      BY NonZeroFinite, FS_CardinalityType DEF CoreInv, RefInv
    <2>2. IsFiniteSet(Refs(SweepTree)) /\ Refs(seen) \in SUBSET Refs(SweepTree)
      BY RefsFinite DEF CoreInv, Refs
    <2>3. Cardinality(Refs(seen)) <= Cardinality(Refs(SweepTree))
          /\ Cardinality(Refs(SweepTree)) \in Nat
      BY <2>2, FS_Subset, FS_CardinalityType
    <2>4. Cardinality(NonZero(Seeds(sb))) \in Nat
      BY SeedsType, NonZeroFinite DEF CoreInv, IsImage, sb
    <2>5. SweepBudget + Len(stack) + Cardinality(NonZero(pushing))
            = Cardinality(NonZero(Seeds(sb))) + Cardinality(Refs(seen))
      BY <2>1, SweepBudgetAssumption DEF RefInv
    <2> QED
      BY <2>1, <2>3, <2>4, <2>5, SweepBudgetAssumption
  <1>2. SweepInv => CoreInv
    BY DEF SweepInv
  <1>3. Spec => []RefInv
    BY <1>2, InitRefs, StepRefs, SweepInvariant, PTL DEF Spec
  <1> QED
    BY <1>1, <1>2, <1>3, SweepInvariant, PTL

-----------------------------------------------------------------------------
(* The refinement: each step of the sweep is a step of TreeAudit or        *)
(* changes nothing TreeAudit can see.                                      *)

AbstractTodo == (Range(stack) \cup Range(pushing)) \ ({0} \cup seen)

(* The pointers TreeAudit follows out of a node are its children. *)
LEMMA AbstractSuccessors ==
  ASSUME IsImage(image), map \in Seq(Chunk), NEW l \in Addr
  PROVE  Abstract!Successors(l) = IF IsGenuine(l) THEN Children(l) ELSE {}
  <1>1. CASE IsGenuine(l)
    <2>1. \A m \in Children(l) : <<l, m>> \in Edges /\ <<l, m>>[1] = l /\ <<l, m>>[2] = m
      BY <1>1 DEF Edges
    <2>2. \A e \in Edges : e[1] = l => e[2] \in Children(l)
      BY DEF Edges
    <2> QED
      BY <1>1, <2>1, <2>2 DEF Abstract!Successors
  <1>2. CASE ~IsGenuine(l)
    <2>1. \A e \in Edges : e[1] # l
      BY <1>2 DEF Edges
    <2> QED
      BY <1>2, <2>1 DEF Abstract!Successors
  <1> QED
    BY <1>1, <1>2

(* What a step leaves alone, TreeAudit does not see either. *)
LEMMA AbstractFrozen ==
  ASSUME image' = image, map' = map
  PROVE  /\ Roots' = Roots
         /\ Edges' = Edges
         /\ {l \in Addr : Corrupt(l)}' = {l \in Addr : Corrupt(l)}
  BY DEF Roots, Edges, IsGenuine, Corrupt, Children, Genuine, sb

(* The sweep starts as TreeAudit does. *)
LEMMA AbstractInit == Init /\ SweepInv => Abstract!Init
  <1> SUFFICES ASSUME Init PROVE Abstract!Init
    OBVIOUS
  <1>1. AbstractTodo = Roots
    BY DEF Init, AbstractTodo, Roots, sb, Range
  <1> QED
    BY <1>1 DEF Abstract!Init, AbstractTodo, Init

(* Every iteration of sweep_node_crcs is a step of TreeAudit, or none. *)
LEMMA AbstractStep == SweepInv /\ SweepInv' /\ [Next]_vars => [Abstract!Next]_(Abstract!vars)
  <1> SUFFICES ASSUME SweepInv, SweepInv', [Next]_vars PROVE [Abstract!Next]_(Abstract!vars)
    OBVIOUS
  <1>1. image' = image /\ map' = map
    BY DEF Next, vars, PushNonZero, BudgetBreak, SkipSeen, SkipUnreadable, SkipForeign,
           CheckNode, Return, Visit
  <1>2. ReportedSet = {l \in seen : Corrupt(l)} /\ ReportedSet' = {l \in seen' : Corrupt(l)}
    BY <1>1, Frozen DEF SweepInv
  <1>3. IsImage(image) /\ map \in Seq(Chunk)
    BY DEF SweepInv, CoreInv
  <1>4. ASSUME Visit, Top \notin seen, seen' = seen \cup {Top},
               Range(pushing') \ {0} = IF IsGenuine(Top) THEN Children(Top) ELSE {}
        PROVE  Abstract!Next
    <2>1. Top \in Addr \ {0} /\ Range(stack) = Range(stack') \cup {Top} /\ Pending = Range(stack)
      BY <1>4, VisitFacts DEF SweepInv
    <2>2. Range(pushing) = {}
      BY <1>4 DEF Visit, Range
    <2>3. Top \in AbstractTodo
      BY <1>4, <2>1 DEF AbstractTodo
    <2>4. AbstractTodo' = (AbstractTodo \cup Abstract!Successors(Top)) \ (seen \cup {Top})
      BY <1>3, <1>4, <2>1, <2>2, AbstractSuccessors DEF AbstractTodo, SweepInv, CoreInv
    <2>5. ReportedSet' = ReportedSet \cup ({Top} \cap {l \in Addr : Corrupt(l)})
      BY <1>2, <1>4, <2>1
    <2>6. swept = "running" /\ swept' = swept
      BY <1>4 DEF Visit
    <2>7. PICK t : t = Top
      OBVIOUS
    <2>8. Abstract!VisitOne(t)
      BY <1>1, <1>4, <2>3, <2>4, <2>5, <2>6, <2>7, AbstractFrozen
         DEF Abstract!VisitOne, AbstractTodo, ReportedSet
    <2>9. t \in (Range(stack) \cup Range(pushing)) \ ({0} \cup seen)
      BY <2>3, <2>7 DEF AbstractTodo
    <2> QED
      BY <2>8, <2>9 DEF Abstract!Next
  <1>5. ASSUME AbstractTodo' = AbstractTodo, seen' = seen, out' = out, swept' = swept
        PROVE  UNCHANGED Abstract!vars
    BY <1>1, <1>5, AbstractFrozen DEF Abstract!vars, AbstractTodo
  <1>6. CASE PushNonZero
    <2>1. Range(pushing) = {Head(pushing)} \cup Range(Tail(pushing)) /\ Head(pushing) \in Addr
      BY <1>6, TakeLemma DEF SweepInv, CoreInv, PushNonZero
    <2>2. Range(Append(stack, Head(pushing))) = Range(stack) \cup {Head(pushing)}
      BY <2>1, PushLemma DEF SweepInv, CoreInv
    <2>3. AbstractTodo' = AbstractTodo
      BY <1>6, <2>1, <2>2 DEF PushNonZero, AbstractTodo
    <2> QED
      BY <1>5, <1>6, <2>3 DEF PushNonZero
  <1>7. CASE SkipSeen
    <2>1. Visit /\ Top \in seen /\ seen' = seen /\ pushing' = pushing /\ out' = out
      BY <1>7 DEF SkipSeen
    <2>2. AbstractTodo' = AbstractTodo
      BY <2>1, VisitFacts DEF AbstractTodo, SweepInv
    <2> QED
      BY <1>5, <2>1, <2>2 DEF Visit
  <1>8. CASE SkipUnreadable \/ SkipForeign
    <2>1. /\ Visit /\ Top \notin seen /\ seen' = seen \cup {Top}
          /\ ~IsGenuine(Top) /\ pushing' = <<>>
      BY <1>8 DEF SkipUnreadable, SkipForeign, IsGenuine, Visit
    <2>2. Range(pushing') = {}
      BY <2>1 DEF Range
    <2> QED
      BY <1>4, <2>1, <2>2
  <1>9. CASE CheckNode
    <2>1. /\ Visit /\ Top \notin seen /\ seen' = seen \cup {Top}
          /\ IsGenuine(Top) /\ pushing' = key_ptrs(NodeAt(image, map, Top))
      BY <1>9 DEF CheckNode, IsGenuine
    <2>2. Range(pushing') \ {0} = Children(Top)
      BY <2>1 DEF Children
    <2> QED
      BY <1>4, <2>1, <2>2
  <1>10. CASE BudgetBreak
    <2>1. AbstractTodo' = AbstractTodo
      BY <1>10 DEF BudgetBreak, AbstractTodo
    <2> QED
      BY <1>1, <1>10, <2>1, AbstractFrozen
         DEF BudgetBreak, Abstract!Next, Abstract!GiveUp, AbstractTodo
  <1>11. CASE Return
    <2>1. AbstractTodo = {} /\ AbstractTodo' = AbstractTodo
      BY <1>11 DEF Return, AbstractTodo, Range
    <2> QED
      BY <1>1, <1>11, <2>1, AbstractFrozen
         DEF Return, Abstract!Next, Abstract!Finish, AbstractTodo
  <1>12. CASE UNCHANGED vars
    BY <1>5, <1>12 DEF vars, AbstractTodo
  <1> QED
    BY <1>6, <1>7, <1>8, <1>9, <1>10, <1>11, <1>12 DEF Next

(* sweep_node_crcs implements the order-free sweep, for every image, map   *)
(* and budget.                                                             *)
THEOREM SweepRefinesTreeAudit == Spec => ImplementsTreeAudit
  BY SweepInvariant, AbstractInit, AbstractStep, PTL
     DEF Spec, ImplementsTreeAudit, Abstract!Spec

(* The variant of sweep_node_crcs.  A step that does not end the sweep     *)
(* spends a pop of the budget, or leaves the budget alone and takes an     *)
(* address off the list a push loop is working through.                    *)
SweepAdvances ==
  swept = "running"
  /\ \/ swept' # "running"
     \/ budget > 0 /\ budget' = budget - 1
     \/ budget' = budget /\ Len(pushing) > 0 /\ Len(pushing') = Len(pushing) - 1

(* No image makes sweep_node_crcs turn forever, a cycle of nodes included: *)
(* every step lowers (budget, addresses to push) in the lexicographic      *)
(* order, and none follows the one that ends the sweep.                    *)
THEOREM SweepIsBounded == Spec => [][SweepAdvances]_vars
  <1>1. ASSUME SweepInv, [Next]_vars PROVE [SweepAdvances]_vars
    <2> SUFFICES ASSUME Next PROVE SweepAdvances
      BY <1>1
    <2>1. /\ pushing \in Seq(Addr) /\ budget \in 0 .. SweepBudget
      BY <1>1 DEF SweepInv, CoreInv
    <2>2. CASE PushNonZero
      <3>1. pushing # <<>> /\ pushing' = Tail(pushing) /\ budget' = budget
        BY <2>2 DEF PushNonZero
      <3>2. Len(pushing) > 0 /\ Len(pushing') = Len(pushing) - 1
        BY <2>1, <3>1
      <3> QED
        BY <2>2, <3>1, <3>2 DEF PushNonZero, SweepAdvances
    <2>3. CASE Visit
      BY <2>1, <2>3 DEF Visit, SweepAdvances
    <2>4. CASE BudgetBreak \/ Return
      BY <2>4 DEF BudgetBreak, Return, SweepAdvances
    <2> QED
      BY <2>2, <2>3, <2>4 DEF Next, SkipSeen, SkipUnreadable, SkipForeign, CheckNode
  <1> QED
    BY <1>1, SweepInvariant, PTL DEF Spec
=============================================================================
