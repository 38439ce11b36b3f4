----------------------------- MODULE Reachability -----------------------------
(***************************************************************************)
(* What a tree walk has to visit: the nodes reachable from a set of roots. *)
(* A graph over the nodes U is a set of edges, pairs of nodes.  Reachable  *)
(* is stated as the least closed set rather than by counting steps, so     *)
(* that a walk is shown sound by "every closed set holds what it visited"  *)
(* and complete by "what it visited is closed".                            *)
(***************************************************************************)

Closed(S, roots, edges) ==
  /\ roots \subseteq S
  /\ \A e \in edges : e[1] \in S => e[2] \in S

Reachable(U, roots, edges) ==
  LET ClosedSets == {S \in SUBSET U : Closed(S, roots, edges)}
  IN {n \in U : \A S \in ClosedSets : n \in S}
=============================================================================
