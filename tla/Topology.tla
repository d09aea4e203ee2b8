------------------------------ MODULE Topology ------------------------------
(***************************************************************************)
(* What the control service makes of the topology: which resources a load  *)
(* is connected to, and which of them feed it directly.  A node carries    *)
(* one resource and has its name; a line is the set of the two nodes it    *)
(* joins.                                                                  *)
(***************************************************************************)
EXTENDS Integers, FiniteSets

CONSTANTS
    Nodes,     \* nodes of the topology
    Loads,     \* those that carry a load
    Lines,     \* lines between them
    SwitchesOf \* per line: its switches

ASSUME TopologyAssumption ==
    /\ Loads \subseteq Nodes
    /\ Lines \subseteq {e \in SUBSET Nodes : Cardinality(e) = 2}
    /\ DOMAIN SwitchesOf = Lines

Switches == UNION {SwitchesOf[e] : e \in Lines}

(* A line carries power when its status is NORMAL and each of its switches *)
(* conducts: is closed and not blocked by an interlock.  A line without    *)
(* switches depends on its status only.                                    *)
IsEnergized(e, normal, conducting) == e \in normal /\ SwitchesOf[e] \subseteq conducting

(* build_graph(): the adjacency is the set of the lines that carry power. *)
Graph(normal, conducting) == {e \in Lines : IsEnergized(e, normal, conducting)}

Neighbours(n, graph) == {m \in Nodes : m # n /\ {n, m} \in graph}

(* What the search from n visits in so many rounds; there are no more      *)
(* rounds than nodes.                                                      *)
Visited(n, graph) ==
    LET within[k \in 0 .. Cardinality(Nodes)] ==
            IF k = 0 THEN {n} ELSE UNION {{m} \union Neighbours(m, graph) : m \in within[k - 1]}
    IN  within[Cardinality(Nodes)]

Reachable(n, graph)    == Visited(n, graph) \ {n}
DirectSupply(n, graph) == Neighbours(n, graph)
IsConnectedToAnyLoad(n, graph) == Reachable(n, graph) \intersect Loads # {}
=============================================================================
