---------------------------- MODULE MCSiteData -------------------------------
EXTENDS SiteData

\* p1 reports a rating and a position, p2 a rating and a dong code; no panel
\* reports the region an operator chooses.
MCPanels  == {"p1", "p2"}
MCReports == [p \in MCPanels |-> [region |-> Nil, model |-> Nil, dong |-> IF p = "p2" THEN "d2" ELSE Nil]]
MCNearest == [S \in SUBSET MCPanels |-> "seoul"]
MCChosen  == {[region |-> "gangnam", model |-> Nil, dong |-> "d1"]}
=============================================================================
