---------------------------- MODULE EventOnce ------------------------------
(***************************************************************************)
(* What the path of a detection promises: once the agent counts a captured *)
(* event as durable it is kept until the controller has settled it, and it *)
(* is settled once.                                                        *)
(***************************************************************************)
EXTENDS Naturals

CONSTANT Event     \* event IDs

VARIABLES
    owed,    \* events the agent counts as delivered to a durable place
    fate     \* what became of each event

OnceInit ==
    /\ owed = {}
    /\ fate = [e \in Event |-> "open"]

(* The agent may count an event as durable in any step, also one that is   *)
(* settled already: the answer to a first delivery was lost.               *)
Owe(e) == owed' \in {owed, owed \cup {e}}

(* Signal counted in an incident, event that opens none, or attempts used  *)
(* up.                                                                     *)
Settle(e) ==
    /\ fate[e] = "open"
    /\ \E f \in {"counted", "dismissed", "dead"} : fate' = [fate EXCEPT ![e] = f]

(* The oldest events of a full spool.                                      *)
Drop(gone) ==
    /\ \A d \in gone : fate[d] = "open"
    /\ fate' = [d \in Event |-> IF d \in gone THEN "dropped" ELSE fate[d]]

OnceNext ==
    /\ \E e \in Event : Owe(e)
    /\ \/ UNCHANGED fate
       \/ \E e \in Event : Settle(e)
       \/ \E gone \in SUBSET Event : Drop(gone)

OnceSpec == OnceInit /\ [][OnceNext]_<<owed, fate>>
=============================================================================
