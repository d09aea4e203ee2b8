--------------------------- MODULE MCTopologyFeed ---------------------------
(* A source and a load, joined by a line with a switch that control_db     *)
(* knows, and a busbar on a line without one, which only the simulator has.*)
EXTENDS TopologyFeed

CONSTANTS ess, load, bus, s1, none

MCNodes == {ess, load, bus}
MCLoads == {load}
MCLines == {{ess, load}, {bus, load}}
MCSwitchesOf == [e \in MCLines |-> IF ess \in e THEN {s1} ELSE {}]
MCMainSwitch == [e \in MCLines |-> IF ess \in e THEN s1 ELSE none]
MCDbLines == {{ess, load}}
=============================================================================
