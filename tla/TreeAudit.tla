------------------------------- MODULE TreeAudit -------------------------------
(***************************************************************************)
(* What a checksum sweep promises, without stack, order or budget: visit   *)
(* what is reachable, each node once and in any order, and report the      *)
(* corrupt ones.  It may give up at any time; if it does not, it finishes  *)
(* only when nothing is left.  NodeSweep implements this specification.    *)
(***************************************************************************)

VARIABLES
  roots,     \* where the sweep starts
  edges,     \* the pointers it follows, pairs of nodes
  corrupt,   \* the nodes whose checksum fails
  todo,      \* found, not yet visited
  visited,
  reported,
  status     \* "running", "done" or "cut"

vars == <<roots, edges, corrupt, todo, visited, reported, status>>

Init ==
  /\ todo = roots
  /\ visited = {}
  /\ reported = {}
  /\ status = "running"

Successors(n) == {e[2] : e \in {d \in edges : d[1] = n}}

VisitOne(n) ==
  /\ status = "running"
  /\ n \in todo
  /\ visited' = visited \cup {n}
  /\ todo' = (todo \cup Successors(n)) \ (visited \cup {n})
  /\ reported' = reported \cup ({n} \cap corrupt)
  /\ UNCHANGED <<roots, edges, corrupt, status>>

Finish ==
  /\ status = "running"
  /\ todo = {}
  /\ status' = "done"
  /\ UNCHANGED <<roots, edges, corrupt, todo, visited, reported>>

GiveUp ==
  /\ status = "running"
  /\ status' = "cut"
  /\ UNCHANGED <<roots, edges, corrupt, todo, visited, reported>>

Next == (\E n \in todo : VisitOne(n)) \/ Finish \/ GiveUp

Spec == Init /\ [][Next]_vars
=============================================================================
