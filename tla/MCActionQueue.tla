--------------------------- MODULE MCActionQueue ---------------------------
(* A small instance of the action queue: a GPU reset stamped with an incident *)
(* and the unstamped host restore a janitor queues, on one node.              *)
EXTENDS ActionQueue

CONSTANTS n1, reset, restore, i1

MCNode == {n1}
MCAction == {reset, restore}
MCNodeOf == [a \in MCAction |-> n1]
MCIncidentOf == [a \in MCAction |-> IF a = restore THEN NoIncident ELSE i1]
MCRestorative == {restore}
=============================================================================
