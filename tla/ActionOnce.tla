---------------------------- MODULE ActionOnce ----------------------------
(***************************************************************************)
(* What the delivery path promises a remediation step about one action ID: *)
(* the executor is started at most once, and the one answer the controller *)
(* records is what the executor really did, or "unknown" for an action     *)
(* that was started.                                                       *)
(***************************************************************************)
CONSTANT Action

VARIABLES
    effect,  \* no, started, ok or failed
    answer   \* none, ok, failed or unknown

onceVars == <<effect, answer>>

OnceInit ==
    /\ effect = [a \in Action |-> "no"]
    /\ answer = [a \in Action |-> "none"]

Start(a) ==
    /\ effect[a] = "no"
    /\ effect' = [effect EXCEPT ![a] = "started"]
    /\ UNCHANGED answer

Finish(a) ==
    /\ effect[a] = "started"
    /\ \E r \in {"ok", "failed"} : effect' = [effect EXCEPT ![a] = r]
    /\ UNCHANGED answer

Answer(a) ==
    /\ answer[a] = "none"
    /\ effect[a] # "no"
    /\ \E r \in {"unknown"} \cup ({effect[a]} \ {"started"}) :
          answer' = [answer EXCEPT ![a] = r]
    /\ UNCHANGED effect

OnceNext == \E a \in Action : Start(a) \/ Finish(a) \/ Answer(a)

OnceSpec == OnceInit /\ [][OnceNext]_onceVars
=============================================================================
