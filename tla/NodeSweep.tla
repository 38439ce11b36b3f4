------------------------------- MODULE NodeSweep -------------------------------
(***************************************************************************)
(* sweep_node_crcs: a bounded depth-first sweep over the tree nodes        *)
(* reachable from the live and backup roots, reporting every node whose    *)
(* crc32c does not verify.  The chunk map is finished and does not change. *)
(* One action is one branch of one iteration: of the loops that push       *)
(* addresses (PushNonZero), or of the loop that pops them (the others).    *)
(***************************************************************************)
EXTENDS BtrfsImage, Reachability, FiniteSets

CONSTANTS
  Inputs,       \* the pairs [image, map] the sweep may be called with
  SweepBudget   \* pops the sweep allows itself (8192 in the code)

ASSUME InputsAssumption == \A in \in Inputs : IsImage(in.image) /\ in.map \in Seq(Chunk)
ASSUME SweepBudgetAssumption == SweepBudget \in Nat

VARIABLES
  image,    \* the image being audited; never written
  map,      \* the finished chunk map
  pushing,  \* the addresses the running for loop has still to push
  stack,    \* addresses to visit; the last is the top
  seen,     \* addresses visited
  budget,   \* pops left
  out,      \* the anomalies reported so far
  swept     \* "running"; then "done", or "cut" when the budget ran out

vars == <<image, map, pushing, stack, seen, budget, out, swept>>

sb == image.sb

(* The seed loop: the two live roots, then tree_root and fs_root of every  *)
(* backup slot.                                                            *)
Seeds(s) ==
  <<s.root, s.chunk_root>>
    \o [i \in 1 .. 2 * Len(s.backups) |->
          IF i % 2 = 1 THEN s.backups[(i + 1) \div 2].tree_root
                       ELSE s.backups[i \div 2].fs_root]

Init ==
  /\ \E in \in Inputs : image = in.image /\ map = in.map
  /\ pushing = Seeds(image.sb)
  /\ stack = <<>>
  /\ seen = {}
  /\ budget = SweepBudget
  /\ out = <<>>
  /\ swept = "running"

-----------------------------------------------------------------------------
Top == stack[Len(stack)]
Pop == SubSeq(stack, 1, Len(stack) - 1)

(* Mutant: the self-reference is not compared. *)
GenuineFsidOnly(n, logical) == n.fsid = sb.fsid

(* A swept block is taken for a tree node when it names its own address    *)
(* and the filesystem.                                                     *)
Genuine(n, logical) == n.bytenr = logical /\ n.fsid = sb.fsid

(* Mutant: the missing translation is not replaced. *)
OffsetUnchecked(logical) == MapLookup(map, logical)

(* The place reported for a node: where the chunk map puts it, or, for a   *)
(* node only the sys_chunk_array maps, the logical address itself.         *)
Offset(logical) ==
  LET phys == MapLookup(map, logical) IN IF phys # None THEN phys ELSE logical

Mismatch(n, logical) ==
  [kind |-> "NodeCrcMismatch", bytenr |-> n.bytenr, offset |-> Offset(logical)]

(* Mutant: zero is pushed like any address. *)
PushAny ==
  /\ swept = "running"
  /\ pushing # <<>>
  /\ pushing' = Tail(pushing)
  /\ stack' = Append(stack, Head(pushing))
  /\ UNCHANGED <<image, map, seen, budget, out, swept>>

(* Mutant: the loop does not move past a zero address. *)
PushStuck ==
  /\ swept = "running"
  /\ pushing # <<>>
  /\ Head(pushing) # 0
  /\ pushing' = Tail(pushing)
  /\ stack' = Append(stack, Head(pushing))
  /\ UNCHANGED <<image, map, seen, budget, out, swept>>

(* One turn of a push loop: a zero address is no address. *)
PushNonZero ==
  /\ swept = "running"
  /\ pushing # <<>>
  /\ pushing' = Tail(pushing)
  /\ stack' = IF Head(pushing) # 0 THEN Append(stack, Head(pushing)) ELSE stack
  /\ UNCHANGED <<image, map, seen, budget, out, swept>>

(* budget == 0: break; the popped address is dropped with the stack. *)
BudgetBreak ==
  /\ swept = "running"
  /\ pushing = <<>>
  /\ stack # <<>>
  /\ budget = 0
  /\ swept' = "cut"
  /\ UNCHANGED <<image, map, pushing, stack, seen, budget, out>>

(* An iteration that gets past the budget test. *)
Visit ==
  /\ swept = "running"
  /\ pushing = <<>>
  /\ stack # <<>>
  /\ budget > 0
  /\ budget' = budget - 1
  /\ stack' = Pop
  /\ UNCHANGED <<image, map, swept>>

(* The address was visited before: only the budget is spent. *)
SkipSeen ==
  /\ Visit
  /\ Top \in seen
  /\ UNCHANGED <<pushing, seen, out>>

(* read_node fails: nothing is reported and nothing pushed. *)
SkipUnreadable ==
  /\ Visit
  /\ Top \notin seen
  /\ ~Readable(image, map, Top)
  /\ seen' = seen \cup {Top}
  /\ UNCHANGED <<pushing, out>>

(* The block does not look like a node of this filesystem. *)
SkipForeign ==
  /\ Visit
  /\ Top \notin seen
  /\ Readable(image, map, Top)
  /\ ~Genuine(NodeAt(image, map, Top), Top)
  /\ seen' = seen \cup {Top}
  /\ UNCHANGED <<pushing, out>>

(* The judgement of the node on top. *)
Judged ==
  IF CrcValid(image, NodeAt(image, map, Top)) THEN out
  ELSE Append(out, Mismatch(NodeAt(image, map, Top), Top))

(* Mutant: the address is not remembered. *)
CheckNodeForgets ==
  /\ Visit
  /\ Readable(image, map, Top)
  /\ Genuine(NodeAt(image, map, Top), Top)
  /\ out' = Judged
  /\ pushing' = key_ptrs(NodeAt(image, map, Top))
  /\ UNCHANGED seen

(* Mutant: the children of a corrupt node are not visited. *)
CheckNodeStops ==
  /\ Visit
  /\ Top \notin seen
  /\ Readable(image, map, Top)
  /\ Genuine(NodeAt(image, map, Top), Top)
  /\ seen' = seen \cup {Top}
  /\ out' = Judged
  /\ pushing' = IF CrcValid(image, NodeAt(image, map, Top))
                THEN key_ptrs(NodeAt(image, map, Top)) ELSE <<>>

(* A genuine node: its checksum is judged and its children are pushed, the *)
(* children of a node that failed the check included.                      *)
CheckNode ==
  /\ Visit
  /\ Top \notin seen
  /\ Readable(image, map, Top)
  /\ Genuine(NodeAt(image, map, Top), Top)
  /\ seen' = seen \cup {Top}
  /\ out' = Judged
  /\ pushing' = key_ptrs(NodeAt(image, map, Top))

(* The stack is empty: the sweep returns. *)
Return ==
  /\ swept = "running"
  /\ pushing = <<>>
  /\ stack = <<>>
  /\ swept' = "done"
  /\ UNCHANGED <<image, map, pushing, stack, seen, budget, out>>

Next ==
  \/ PushNonZero
  \/ BudgetBreak
  \/ SkipSeen
  \/ SkipUnreadable
  \/ SkipForeign
  \/ CheckNode
  \/ Return

(* A sequential loop: the next iteration always runs. *)
Spec == Init /\ [][Next]_vars /\ WF_vars(Next)

-----------------------------------------------------------------------------
(* What the sweep has to visit, seen from outside.                         *)

IsGenuine(l) == Readable(image, map, l) /\ Genuine(NodeAt(image, map, l), l)

Roots == Range(Seeds(sb)) \ {0}

(* Pointers are followed out of genuine nodes only. *)
Children(l) == Range(key_ptrs(NodeAt(image, map, l))) \ {0}

Edges == UNION {{l} \X Children(l) : l \in {k \in Addr : IsGenuine(k)}}

SweepTree == Reachable(Addr, Roots, Edges)

Corrupt(l) == IsGenuine(l) /\ ~CrcValid(image, NodeAt(image, map, l))

(* The shapes of the sweep's variables. *)
TypeOK ==
  /\ IsImage(image)
  /\ map \in Seq(Chunk)
  /\ pushing \in Seq(Addr)
  /\ stack \in Seq(Addr)
  /\ seen \subseteq Addr
  /\ budget \in 0 .. SweepBudget
  /\ out \in Seq([kind : {"NodeCrcMismatch"}, bytenr : Addr, offset : Addr])
  /\ swept \in {"running", "done", "cut"}

(* No false alarm: whatever sweep_node_crcs reports, and at every moment,  *)
(* is a corrupt node that really hangs off a live or a backup root.        *)
ReportsAreReal ==
  LET T == SweepTree
  IN \A i \in DOMAIN out : out[i].bytenr \in T /\ Corrupt(out[i].bytenr)

(* A subtree shared by several roots (the normal case under copy on write) *)
(* is reported once, although its address is pushed once per parent.       *)
ReportedOnce ==
  \A i, j \in DOMAIN out : out[i].bytenr = out[j].bytenr => i = j

(* A sweep that ends before its budget has visited exactly the reachable   *)
(* nodes and reported every corrupt one: the LIFO order, the duplicates on *)
(* the stack and the skipped blocks of sweep_node_crcs lose nothing.       *)
SweepIsComplete ==
  swept = "done" =>
    LET T == SweepTree
    IN /\ seen = T
       /\ \A l \in T : Corrupt(l) => \E i \in DOMAIN out : out[i].bytenr = l

(* The sweep returns on every image, cyclic trees included. *)
SweepReturns == <>(swept # "running")

(* sweep_node_crcs implements the order-free sweep of TreeAudit: pushes    *)
(* and pops of known addresses are stuttering steps, every other iteration *)
(* visits one node.                                                        *)
Abstract == INSTANCE TreeAudit WITH
  roots <- Roots,
  edges <- Edges,
  corrupt <- {l \in Addr : Corrupt(l)},
  todo <- (Range(stack) \cup Range(pushing)) \ ({0} \cup seen),
  visited <- seen,
  reported <- {out[i].bytenr : i \in DOMAIN out},
  status <- swept

ImplementsTreeAudit == Abstract!Spec

(* The budget of sweep_node_crcs is paid per pop, known addresses          *)
(* included, so shared subtrees and duplicate roots eat into it.  It runs  *)
(* out only on an image with more references than SweepBudget.             *)
CutMeansManyReferences ==
  swept = "cut" =>
    LET T == {l \in SweepTree : IsGenuine(l)}
        SeedRefs == {i \in DOMAIN Seeds(sb) : Seeds(sb)[i] # 0}
        PtrRefs(l) == {i \in DOMAIN key_ptrs(NodeAt(image, map, l)) :
                         key_ptrs(NodeAt(image, map, l))[i] # 0}
    IN Cardinality(SeedRefs) + Cardinality(UNION {{l} \X PtrRefs(l) : l \in T}) > SweepBudget

-----------------------------------------------------------------------------
(* What the comments of sweep_node_crcs say, and the code does not do.     *)

(* "A real corrupt node still self-references its own logical address (the *)
(* csum covers the body, not the header's bytenr) so a genuine tamper is   *)
(* not hidden by this filter": a node a root names, still carrying one of  *)
(* the two marks that tell it from free space, is reported when its        *)
(* checksum fails.                                                         *)
TamperIsNotHidden ==
  swept = "done" =>
    \A l \in Roots :
      /\ Readable(image, map, l)
      /\ NodeAt(image, map, l).bytenr = l \/ NodeAt(image, map, l).fsid = sb.fsid
      /\ ~CrcValid(image, NodeAt(image, map, l))
      => \E i \in DOMAIN out : out[i].offset = Offset(l)
=============================================================================
