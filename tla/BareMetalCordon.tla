-------------------------- MODULE BareMetalCordon --------------------------
(***************************************************************************)
(* Cordons without an orchestrator (platform/baremetal): the set of holders*)
(* of one node in memory, the journal file it is persisted to before and   *)
(* after every hook, and the operator's script that really takes the       *)
(* machine out of service and puts it back.  One call at a time: cordonMu. *)
(***************************************************************************)
EXTENDS Naturals, FiniteSets

CONSTANTS
    BmOwner,          \* holders
    HookFailsWhole,   \* TRUE: a script that reports failure has done nothing
    MaxBmTrouble      \* bound on failed writes, failed hooks and crashes

VARIABLES
    bmMem,      \* the node's record in memory
    bmDisk,     \* the node's record in the journal
    bmMachine,  \* "up" or "down"
    bmCall,     \* the call that holds cordonMu
    bmUp,       \* the process runs
    bmTold,     \* holders that were told their cordon is in force
    bmTrouble

bmVars == <<bmMem, bmDisk, bmMachine, bmCall, bmUp, bmTold, bmTrouble>>

NoRecord == [owners |-> {}, held |-> {}, phase |-> "none"]
BmNoCall == [pc |-> "idle", op |-> "none", owner |-> "none", before |-> NoRecord]

BmInit ==
    /\ bmMem = NoRecord /\ bmDisk = NoRecord /\ bmMachine = "up"
    /\ bmCall = BmNoCall /\ bmUp = TRUE /\ bmTold = {}
    /\ bmTrouble = 0

BmTrouble ==
    /\ bmTrouble < MaxBmTrouble
    /\ bmTrouble' = bmTrouble + 1

(* persistCordonStateLocked: a temporary file, synced and renamed; the     *)
(* directory sync after the rename may still fail.                         *)
Persisted(record) == bmDisk' = record /\ UNCHANGED bmTrouble
PersistFails(record) == bmDisk' \in {bmDisk, record} /\ BmTrouble

Ready == bmUp /\ bmCall = BmNoCall

-----------------------------------------------------------------------------
(* CordonForOwner                                                          *)

\* Variant: a node that has a record counts as cordoned.
joinsAnyRecord(o) == bmMem.phase # "none"

\* Only a node whose cordon is complete is joined without the hook.
joins(o) == bmMem.phase = "cordoned"

\* Also a holder that is already there is persisted again.
joinWrites(o) == TRUE

CordonJoins(o) ==
    LET record == [bmMem EXCEPT !.owners = @ \cup {o}]
    IN  /\ Ready /\ joins(o)
        /\ \/ /\ IF joinWrites(o) THEN Persisted(record) ELSE UNCHANGED <<bmDisk, bmTrouble>>
              /\ bmMem' = record
              /\ bmTold' = bmTold \cup {o}
           \/ /\ PersistFails(record)
              /\ UNCHANGED <<bmMem, bmTold>>
        /\ UNCHANGED <<bmMachine, bmCall, bmUp>>

\* The intent is written before the hook runs.
CordonBegins(o) ==
    LET record == [owners |-> bmMem.owners \cup {o}, held |-> bmMem.held, phase |-> "cordoning"]
    IN  /\ Ready /\ ~joins(o)
        /\ \/ /\ Persisted(record)
              /\ bmMem' = record
              /\ bmCall' = [pc |-> "hook", op |-> "cordon", owner |-> o, before |-> bmMem]
           \/ /\ PersistFails(record)
              /\ UNCHANGED <<bmMem, bmCall>>
        /\ UNCHANGED <<bmMachine, bmUp, bmTold>>

\* The hook worked: the record is completed and persisted.
CordonEnds ==
    LET record == [bmMem EXCEPT !.phase = "cordoned"]
    IN  /\ bmCall.pc = "hooked" /\ bmCall.op = "cordon"
        /\ bmMem' = record
        /\ \/ Persisted(record) /\ bmTold' = bmTold \cup {bmCall.owner}
           \/ PersistFails(record) /\ UNCHANGED bmTold
        /\ bmCall' = BmNoCall
        /\ UNCHANGED <<bmMachine, bmUp>>

-----------------------------------------------------------------------------
(* ReleaseCordonOwners                                                     *)

Left(o) == [bmMem EXCEPT !.owners = @ \ {o}, !.held = @ \ {o}]

\* Others remain.
ReleaseLeaves(o) ==
    LET record == [Left(o) EXCEPT !.phase = "cordoned"]
    IN  /\ Ready /\ bmMem.phase # "none" /\ Left(o).owners # {}
        /\ bmTold' = bmTold \ {o}
        /\ \/ Persisted(record) /\ bmMem' = record
           \/ PersistFails(record) /\ UNCHANGED bmMem
        /\ UNCHANGED <<bmMachine, bmCall, bmUp>>

\* The last one: the journal says so before the hook runs.
ReleaseBegins(o) ==
    LET record == [Left(o) EXCEPT !.phase = "uncordoning"]
    IN  /\ Ready /\ bmMem.phase # "none" /\ Left(o).owners = {}
        /\ bmTold' = bmTold \ {o}
        /\ \/ /\ Persisted(record)
              /\ bmMem' = record
              /\ bmCall' = [pc |-> "hook", op |-> "uncordon", owner |-> o, before |-> bmMem]
           \/ /\ PersistFails(record)
              /\ UNCHANGED <<bmMem, bmCall>>
        /\ UNCHANGED <<bmMachine, bmUp>>

ReleaseEnds ==
    /\ bmCall.pc = "hooked" /\ bmCall.op = "uncordon"
    /\ \/ Persisted(NoRecord) /\ bmMem' = NoRecord
       \/ PersistFails(NoRecord) /\ UNCHANGED bmMem
    /\ bmCall' = BmNoCall
    /\ UNCHANGED <<bmMachine, bmUp, bmTold>>

-----------------------------------------------------------------------------
(* runHook                                                                 *)

HookWorks ==
    /\ bmCall.pc = "hook"
    /\ bmMachine' = IF bmCall.op = "cordon" THEN "down" ELSE "up"
    /\ bmCall' = [bmCall EXCEPT !.pc = "hooked"]
    /\ UNCHANGED <<bmMem, bmDisk, bmUp, bmTold, bmTrouble>>

\* The record before the call is put back, in memory and, if that works, on disk.
HookFails ==
    /\ bmCall.pc = "hook"
    /\ BmTrouble
    /\ bmMachine' \in IF HookFailsWhole THEN {bmMachine}
                      ELSE {bmMachine, IF bmCall.op = "cordon" THEN "down" ELSE "up"}
    /\ bmMem' = bmCall.before
    /\ bmDisk' \in {bmDisk, bmCall.before}
    /\ bmCall' = BmNoCall
    /\ UNCHANGED <<bmUp, bmTold>>

-----------------------------------------------------------------------------
(* MarkCordonHeldIfOwner, crashes and startup                              *)

MarkCordonHeldIfOwner(o) ==
    LET record == [bmMem EXCEPT !.held = @ \cup {o}]
    IN  /\ Ready /\ o \in bmMem.owners \ bmMem.held
        /\ \/ Persisted(record) /\ bmMem' = record
           \/ PersistFails(record) /\ UNCHANGED bmMem
        /\ UNCHANGED <<bmMachine, bmCall, bmUp, bmTold>>

\* The process dies, perhaps while the script runs.
BmCrashes ==
    /\ bmUp
    /\ BmTrouble
    /\ bmUp' = FALSE
    /\ bmMachine' \in IF bmCall.pc = "hook"
                      THEN {bmMachine, IF bmCall.op = "cordon" THEN "down" ELSE "up"}
                      ELSE {bmMachine}
    /\ bmMem' = NoRecord
    /\ bmCall' = BmNoCall
    /\ UNCHANGED <<bmDisk, bmTold>>

\* loadCordonState: a record in the middle of a hook stops the start.
loadCordonState ==
    /\ ~bmUp /\ bmDisk.phase \in {"none", "cordoned"}
    /\ bmUp' = TRUE
    /\ bmMem' = bmDisk
    /\ UNCHANGED <<bmDisk, bmMachine, bmCall, bmTold, bmTrouble>>

\* A person looks at the machine and repairs the journal, as the error asks.
JournalRepaired ==
    /\ ~bmUp /\ bmDisk.phase \in {"cordoning", "uncordoning"}
    /\ IF bmMachine = "down" /\ bmDisk.owners # {}
       THEN bmDisk' = [bmDisk EXCEPT !.phase = "cordoned"] /\ UNCHANGED bmMachine
       ELSE bmDisk' = NoRecord /\ bmMachine' = "up"
    /\ UNCHANGED <<bmMem, bmCall, bmUp, bmTold, bmTrouble>>

BmNext ==
    \/ \E o \in BmOwner : \/ CordonJoins(o) \/ CordonBegins(o) \/ ReleaseLeaves(o)
                          \/ ReleaseBegins(o) \/ MarkCordonHeldIfOwner(o)
    \/ CordonEnds \/ ReleaseEnds \/ HookWorks \/ HookFails
    \/ BmCrashes \/ loadCordonState \/ JournalRepaired

BmSpec == BmInit /\ [][BmNext]_bmVars

-----------------------------------------------------------------------------
(* Properties                                                              *)

(* Between calls the record in memory is the truth about the machine: a    *)
(* complete cordon is a machine that is down, no record is one that is up  *)
(* -- over failed writes, failed hooks, crashes at any point and restarts. *)
RecordIsTrue ==
    Ready => /\ bmMem.phase = "cordoned" => bmMachine = "down"
             /\ bmMem.phase = "none" => bmMachine = "up"

(* "a successful caller must never be told the state is durable when it is *)
(* not": a holder that was told its cordon is in force is in the journal as*)
(* one, until its release is asked for.                                    *)
ToldIsDurable ==
    bmTold # {} => bmDisk.phase = "cordoned" /\ bmTold \subseteq bmDisk.owners
=============================================================================
