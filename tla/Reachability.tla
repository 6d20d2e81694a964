--------------------------- MODULE Reachability ---------------------------
(***************************************************************************)
(* Reachability in a directed graph, without recursion: t is reachable     *)
(* from s if every set of nodes that holds s and is closed under the arcs  *)
(* holds t.  This is what the breadth-first searches of steps 2 and 3      *)
(* (evidence.py, constraints.py, graph_views.py) decide.                   *)
(***************************************************************************)

\* No arc leaves S.
Closed(S, arcs) == \A a \in arcs : a[1] \in S => a[2] \in S

Reachable(nodes, arcs, s, t) ==
    \A S \in SUBSET nodes : (s \in S /\ Closed(S, arcs)) => t \in S
=============================================================================
