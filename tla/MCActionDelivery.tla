------------------------- MODULE MCActionDelivery -------------------------
(* A small instance of the delivery path: one node, a GPU reset stamped with *)
(* an incident and the unstamped host restore a janitor queues.              *)
EXTENDS ActionDelivery

CONSTANTS n1, reset, restore, i1

MCNode == {n1}
MCAction == {reset, restore}
MCOneAction == {reset}
MCNodeOf == [a \in Action |-> n1]
MCIncidentOf == [a \in Action |-> IF a = restore THEN NoIncident ELSE i1]
MCRestorative == Action \ {reset}
===========================================================================
