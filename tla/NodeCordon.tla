------------------------------ MODULE NodeCordon ------------------------------
(* One node's cordon, shared by every remediation working on that node.         *)
(* The record lives in annotations of the Node object; it is written by the     *)
(* cordon and uncordon steps of the incidents and by the cordon janitor, each   *)
(* through a read (GET) followed by a conditional write (PATCH with test        *)
(* operations), and beside them by people with kubectl.  The janitor decides    *)
(* from the informer's copy of the node, which may be old.                      *)
(* Source: platform/kubernetes/kubernetes.go, platform/platform.go,             *)
(* controller/cordonjanitor.go, controller/execution.go.                        *)
EXTENDS Naturals, FiniteSets

CONSTANTS
    NcIncident,  \* incidents on this node; an incident's cordon reason is unique
    NcParks,     \* bound: the incidents that may halt, expire and be pruned
    NcAbsent,      \* an annotation that is not on the node
    NcRecords,   \* the restore records a cordon of an older build may carry
    NcTrouble,   \* bound: API errors, lost replies, restarts, people's doings
    NcOldTrouble \* bound: the same, on a node with an older build's cordon

VARIABLES
    ncNode,   \* the Node object in the API server
    ncCache,  \* what the informer's copy of it shows the janitor
    ncInc,    \* incident -> its row in the store
    ncHolds,  \* the incidents whose cordon step succeeded and which go on from there
    ncCall,   \* caller -> the platform call it is in
    ncTheirs, \* history: the marks other hands put on the node, or took over from us
    ncLegacy, \* history: the node came with the cordon of an older build
    ncKept,   \* history: pruned incidents whose hold was marked as a human's
    ncHand,   \* how often people touched the node
    ncFault   \* how often something failed

ncVars == <<ncNode, ncCache, ncInc, ncHolds, ncCall,
            ncTheirs, ncLegacy, ncKept, ncHand, ncFault>>

-------------------------------------------------------------------------------
(* Names.  A hold is recorded under the incident's ID; a cordon of a build that *)
(* predates owner sets is named by its reason (LegacyCordonOwner).              *)

Own(i) == <<"id", i>>
LegacyCordonOwner(i) == <<"legacy-reason", i>>
Names(i) == {Own(i), LegacyCordonOwner(i)}
Owner == UNION {Names(i) : i \in NcIncident}
incidentFromCordonOwner(o) == o[2]

Mark == {"unschedulable", "do-not-disrupt"}
Janitor == "janitor"
Caller == NcIncident \cup {Janitor}

ASSUME CordonAssumption ==
    /\ Janitor \notin NcIncident
    /\ NcAbsent \notin NcIncident
    /\ \A S \in SUBSET Owner : S # NcAbsent
    /\ \A S \in SUBSET Mark : S # NcAbsent
    /\ NcRecords \subseteq {NcAbsent} \cup SUBSET Mark /\ NcParks \subseteq NcIncident

NcNode == [marks      : SUBSET Mark,
         reason     : NcIncident \cup {NcAbsent},
         owners     : {NcAbsent} \cup SUBSET Owner,
         restore    : {NcAbsent} \cup SUBSET Mark,
         held       : BOOLEAN,
         heldOwners : {NcAbsent} \cup SUBSET Owner,
         handoff    : BOOLEAN]

ASSUME ReadAssumption == \A n \in NcNode : n # NcAbsent

NoCall == [op |-> "none"]

\* decodeCordonOwners: an absent annotation is an empty set.
Decoded(a) == IF a = NcAbsent THEN {} ELSE a

countedCordon(n) == n.owners # NcAbsent
Down(n) == "unschedulable" \in n.marks
Ours(n) == n.reason # NcAbsent \/ n.owners # NcAbsent

\* The holds an incident has on the node, under either name.
HoldsOf(i, n) ==
    \/ Names(i) \cap Decoded(n.owners) # {}
    \/ n.owners = NcAbsent /\ n.reason = i

-------------------------------------------------------------------------------
(* The writes.  r is the object a call read, n the object its patch meets.      *)

\* removeOurAnnotationOps names what the read saw, and removing what is no longer
\* there fails the whole patch.
Removable(r, n) ==
    /\ r.reason # NcAbsent => n.reason # NcAbsent
    /\ r.owners # NcAbsent => n.owners # NcAbsent
    /\ r.restore # NcAbsent => n.restore # NcAbsent
    /\ r.held => n.held
    /\ r.heldOwners # NcAbsent => n.heldOwners # NcAbsent

removeOurAnnotations(r, n) ==
    [n EXCEPT !.reason     = IF r.reason # NcAbsent THEN NcAbsent ELSE @,
              !.owners     = IF r.owners # NcAbsent THEN NcAbsent ELSE @,
              !.restore    = IF r.restore # NcAbsent THEN NcAbsent ELSE @,
              !.held       = IF r.held THEN FALSE ELSE @,
              !.heldOwners = IF r.heldOwners # NcAbsent THEN NcAbsent ELSE @]

\* priorMarks: a missing record keeps both marks.
priorMarks(r) == IF r.restore = NcAbsent THEN Mark ELSE r.restore

\* spec.unschedulable is set to what the record says; the pin is only ever removed.
Restored(r, n) ==
    [removeOurAnnotations(r, n) EXCEPT !.marks =
        (priorMarks(r) \cap {"unschedulable"})
        \cup (@ \cap {"do-not-disrupt"} \cap priorMarks(r))]

PinRemovable(r, n) ==
    ("do-not-disrupt" \notin priorMarks(r) /\ "do-not-disrupt" \in r.marks)
        => "do-not-disrupt" \in n.marks

\* Variant: the join and the release without their test of the owner set.
ownerSetUnguarded(r, n) == TRUE
ownerSetGuard(r, n) == n.owners = r.owners

heldOwnerSetGuard(r, n) == n.heldOwners = r.heldOwners

\* Variant: the restore record written without a test of the marks it describes.
snapshotUnguarded(r, n) == TRUE
snapshotGuard(r, n) == n.marks = r.marks

\* CordonForOwner.  A cordon without an owner set is seeded with the holder its
\* reason names, and with that holder's held mark.
SeedOwner(i, r) == IF r.reason = i THEN Own(i) ELSE LegacyCordonOwner(r.reason)
Seeded(i, r) == IF r.owners = NcAbsent /\ r.reason # NcAbsent THEN {SeedOwner(i, r)} ELSE {}

CordonPasses(i, r, n) ==
    /\ ownerSetGuard(r, n)
    /\ r.restore = NcAbsent => snapshotGuard(r, n)

CordonWritten(i, r, n) ==
    [n EXCEPT !.owners     = Decoded(r.owners) \cup Seeded(i, r) \cup {Own(i)},
              !.reason     = i,
              !.marks      = Mark,
              !.heldOwners = IF r.held /\ Seeded(i, r) # {} THEN Seeded(i, r) ELSE @,
              !.restore    = IF r.restore = NcAbsent THEN r.marks ELSE @]

\* ReleaseCordonOwners on a counted cordon.
ReleaseWants(S, r) == S \cap Decoded(r.owners) # {}

\* restoreOps: the takeover is as it was read and everything the mark added can be removed.
restoreGuard(r, n) ==
    /\ n.handoff = r.handoff
    /\ Removable(r, n)
    /\ r.handoff \/ PinRemovable(r, n)

ReleasePasses(S, r, n) ==
    /\ ownerSetGuard(r, n)
    /\ heldOwnerSetGuard(r, n)
    /\ r.owners \subseteq S => restoreGuard(r, n)

\* dropHeldOwnersOps: the record of human verdicts shrinks with the set; it is
\* removed rather than written empty.
dropHeldOwners(S, r, n) ==
    LET kept == Decoded(r.heldOwners) \ S IN
    IF r.heldOwners = NcAbsent \/ kept = r.heldOwners THEN n.heldOwners
    ELSE IF kept = {} THEN NcAbsent ELSE kept

restoreOps(r, n) == IF r.handoff THEN removeOurAnnotations(r, n) ELSE Restored(r, n)

ReleaseWritten(S, r, n) ==
    IF r.owners \subseteq S
    THEN restoreOps(r, n)
    ELSE [n EXCEPT !.owners = r.owners \ S, !.heldOwners = dropHeldOwners(S, r, n)]

\* UncordonIfReason, only for a cordon nobody counts.
UncordonWants(i, r) == r.reason = i /\ ~countedCordon(r)
UncordonPasses(i, r, n) == n.reason = i /\ Removable(r, n) /\ PinRemovable(r, n)

\* clearOurAnnotations, when a takeover forbids the restore.
ClearPasses(r, n) == n.handoff /\ Removable(r, n)

\* MarkCordonHeldIfOwner and MarkCordonHeldIfReason.
MarkOwnerWants(o, r) == o \in Decoded(r.owners) /\ o \notin Decoded(r.heldOwners)
MarkOwnerPasses(r, n) == ownerSetGuard(r, n) /\ heldOwnerSetGuard(r, n)
MarkOwnerWritten(o, r, n) ==
    [n EXCEPT !.heldOwners = Decoded(r.heldOwners) \cup {o}, !.held = TRUE]
MarkReasonWants(i, r) == r.reason = i /\ ~countedCordon(r)

\* What one call does with what it read: whether it writes at all, whether its
\* tests pass, and what it leaves.
Wants(c) ==
    /\ c.op = "release"    => ReleaseWants(c.arg, c.read)
    /\ c.op = "uncordon"   => UncordonWants(c.arg, c.read)
    /\ c.op = "clear"      => Ours(c.read)
    /\ c.op = "markOwner"  => MarkOwnerWants(c.arg, c.read)
    /\ c.op = "markReason" => MarkReasonWants(c.arg, c.read)

Passes(c, n) ==
    /\ c.op = "cordon"     => CordonPasses(c.arg, c.read, n)
    /\ c.op = "release"    => ReleasePasses(c.arg, c.read, n)
    /\ c.op = "uncordon"   => UncordonPasses(c.arg, c.read, n)
    /\ c.op = "clear"      => ClearPasses(c.read, n)
    /\ c.op = "markOwner"  => MarkOwnerPasses(c.read, n)
    /\ c.op = "markReason" => n.reason = c.arg

NcWritten(c, n) ==
    CASE c.op = "cordon"     -> CordonWritten(c.arg, c.read, n)
      [] c.op = "release"    -> ReleaseWritten(c.arg, c.read, n)
      [] c.op = "uncordon"   -> Restored(c.read, n)
      [] c.op = "clear"      -> removeOurAnnotations(c.read, n)
      [] c.op = "markOwner"  -> MarkOwnerWritten(c.arg, c.read, n)
      [] c.op = "markReason" -> [n EXCEPT !.held = TRUE]

-------------------------------------------------------------------------------
(* What the janitor sees: platform.CordonedNode, made from the cached object.   *)

\* cordonedNodeFrom
NotListed == [owners |-> NcAbsent, reason |-> NcAbsent, held |-> FALSE, heldOwners |-> NcAbsent]
CordonedNode(n) ==
    IF Ours(n) /\ Down(n)
    THEN [owners |-> n.owners, reason |-> n.reason, held |-> n.held, heldOwners |-> n.heldOwners]
    ELSE NotListed
Tracked(v) == Decoded(v.owners) # {}
Holds(v) == IF Tracked(v) THEN v.owners ELSE {LegacyCordonOwner(v.reason)}

\* Variant: the mark of one owner in a counted cordon is not read back.
HeldByMark(v, o) == ~Tracked(v) /\ v.held
HeldBy(v, o) == IF Tracked(v) THEN o \in Decoded(v.heldOwners) ELSE v.held

-------------------------------------------------------------------------------
(* A node of an older build: cordoned by incident x, known by its reason only,  *)
(* with or without the restore record, held or not.                             *)

CleanNode(m) ==
    [marks |-> m, reason |-> NcAbsent, owners |-> NcAbsent, restore |-> NcAbsent,
     held |-> FALSE, heldOwners |-> NcAbsent, handoff |-> FALSE]

LegacyNode(x, record) ==
    [CleanNode(Mark) EXCEPT !.reason = x, !.restore = record]

InitNew ==
    /\ ncTheirs = {}
    /\ ncNode = CleanNode(ncTheirs)
    /\ ncHolds = {}
    /\ ncLegacy = FALSE

InitLegacy ==
    \E x \in NcParks, record \in NcRecords :
        /\ ncNode = LegacyNode(x, record)
        /\ ncHolds = {x}
        /\ ncTheirs = record
        /\ ncLegacy = TRUE

CordonInit ==
    /\ InitNew \/ InitLegacy
    /\ ncCache = CordonedNode(ncNode)
    /\ ncInc = [i \in NcIncident |-> "active"]
    /\ ncCall = [p \in Caller |-> NoCall]
    /\ ncKept = {}
    /\ ncHand = 0
    /\ ncFault = 0

-------------------------------------------------------------------------------
(* A platform call: GET, then PATCH.                                            *)

Trouble == ncHand + ncFault < (IF ncLegacy THEN NcOldTrouble ELSE NcTrouble)

Starting(op, arg) == [op |-> op, arg |-> arg, read |-> NcAbsent]

AtGet(p) == ncCall[p].op # "none" /\ ncCall[p].read = NcAbsent
AtPatch(p) == ncCall[p].op # "none" /\ ncCall[p].read # NcAbsent

\* The call returns without an error; a step records what it has done.
Returns(p) ==
    /\ ncCall' = [ncCall EXCEPT ![p] = NoCall]
    /\ ncHolds' = IF ncCall[p].op = "cordon" THEN ncHolds \cup {p} ELSE ncHolds

\* A release that finds a cordon nobody counts goes through its reason
\* (releaseUntrackedCordon); a takeover only strips our annotations.
releaseUntrackedCordon(c, n) ==
    IF n.handoff THEN [c EXCEPT !.op = "clear", !.read = n]
                 ELSE Starting("uncordon", n.reason)

\* What a call still uses of the object it read.
Remembered(c, n) ==
    CASE c.op = "cordon" ->
           [n EXCEPT !.heldOwners = NcAbsent, !.handoff = FALSE,
                     !.marks = IF n.restore = NcAbsent THEN @ ELSE {},
                     !.reason = IF n.owners = NcAbsent THEN @ ELSE NcAbsent]
      [] c.op = "release" /\ ~(n.owners \subseteq c.arg) ->
           [CleanNode({}) EXCEPT !.owners = n.owners, !.heldOwners = n.heldOwners]
      [] c.op = "markOwner" ->
           [CleanNode({}) EXCEPT !.owners = n.owners, !.heldOwners = n.heldOwners]
      [] c.op = "markReason" -> CleanNode({})
      [] OTHER -> n

\* The read: nothing of the caller's is on the node, or what it will write from.
Gets(p) ==
    LET c == ncCall[p]
        read == [c EXCEPT !.read = ncNode]
        untracked == c.op = "release" /\ ~countedCordon(ncNode) IN
    /\ AtGet(p)
    /\ \/ /\ untracked
          /\ ncNode.reason # NcAbsent
          /\ LegacyCordonOwner(ncNode.reason) \in c.arg
          /\ ncCall' = [ncCall EXCEPT ![p] = releaseUntrackedCordon(c, ncNode)]
          /\ UNCHANGED ncHolds
       \/ /\ untracked
          /\ ncNode.reason = NcAbsent \/ LegacyCordonOwner(ncNode.reason) \notin c.arg
          /\ Returns(p)
       \/ /\ ~untracked
          /\ ~Wants(read)
          /\ Returns(p)
       \/ /\ ~untracked
          /\ Wants(read)
          /\ ncCall' = [ncCall EXCEPT ![p].read = Remembered(c, ncNode)]
          /\ UNCHANGED ncHolds
    /\ UNCHANGED <<ncNode, ncCache, ncInc,
                   ncTheirs, ncLegacy, ncKept, ncHand, ncFault>>

Patches(p) ==
    LET c == ncCall[p] IN
    /\ AtPatch(p)
    /\ Passes(c, ncNode)
    /\ ncNode' = NcWritten(c, ncNode)
    /\ ncTheirs' = IF ncNode.handoff /\ ~Ours(ncNode') THEN ncNode'.marks ELSE ncTheirs
    /\ \/ Returns(p) /\ UNCHANGED ncFault
       \/ /\ Trouble      \* the write landed and its reply was lost
          /\ ncFault' = ncFault + 1
          /\ ncCall' = [ncCall EXCEPT ![p] = NoCall]
          /\ UNCHANGED ncHolds
    /\ UNCHANGED <<ncCache, ncInc, ncLegacy, ncKept, ncHand>>

\* A failed test: the join and the release read again (cordonPatchAttempts), the
\* others leave it to the next pass.
Loses(p) ==
    LET c == ncCall[p] IN
    /\ AtPatch(p)
    /\ ~Passes(c, ncNode)
    /\ IF c.op \in {"cordon", "release"}
       THEN ncCall' = [ncCall EXCEPT ![p] = Starting(c.op, c.arg)] /\ UNCHANGED ncHolds
       ELSE Returns(p)
    /\ UNCHANGED <<ncNode, ncCache, ncInc,
                   ncTheirs, ncLegacy, ncKept, ncHand, ncFault>>

\* An API error, or the last attempt lost: the call returns an error.
Fails(p) ==
    /\ ncCall[p].op # "none"
    /\ Trouble
    /\ ncFault' = ncFault + 1
    /\ ncCall' = [ncCall EXCEPT ![p] = NoCall]
    /\ UNCHANGED <<ncNode, ncCache, ncInc, ncHolds,
                   ncTheirs, ncLegacy, ncKept, ncHand>>

-------------------------------------------------------------------------------
(* Incidents.                                                                   *)

Calls(i, op, arg) == ncCall' = [ncCall EXCEPT ![i] = Starting(op, arg)]

\* cordonForIncident; a step runs again after a restart or an unpark.
cordonForIncident(i) ==
    /\ ncInc[i] = "active"
    /\ ncCall[i] = NoCall
    /\ Calls(i, "cordon", i)
    /\ UNCHANGED <<ncNode, ncCache, ncInc, ncHolds,
                   ncTheirs, ncLegacy, ncKept, ncHand, ncFault>>

\* uncordonForIncident gives up both names the hold may be under.
uncordonForIncident(i) ==
    /\ ncInc[i] = "active"
    /\ ncCall[i] = NoCall
    /\ Calls(i, "release", Names(i))
    /\ ncHolds' = ncHolds \ {i}
    /\ UNCHANGED <<ncNode, ncCache, ncInc,
                   ncTheirs, ncLegacy, ncKept, ncHand, ncFault>>

\* The row resolves, halts for a human or expires; a human sends it back or
\* resolves it.  A step in flight keeps it in EXECUTING, which only the step leaves.
RowMoves(i) ==
    \E s \in {"active", "resolved", "human", "expired"} :
        /\ ncCall[i] = NoCall
        /\ \/ ncInc[i] = "active" /\ s # "active"
           \/ ncInc[i] = "human" /\ s \in {"active", "resolved"}
        /\ s \in {"human", "expired"} => i \in NcParks
        /\ ncInc' = [ncInc EXCEPT ![i] = s]
        /\ ncHolds' = IF s \in {"active", "human"} THEN ncHolds ELSE ncHolds \ {i}
        /\ UNCHANGED <<ncNode, ncCache, ncCall,
                       ncTheirs, ncLegacy, ncKept, ncHand, ncFault>>

\* A row goes after days of retention, or with a store restored from a backup, where
\* calls, listings and verdicts take seconds: nothing is in flight, and the janitor
\* has marked the hold of an expired incident, never one it is about to release.
Marked(i, n) ==
    IF countedCordon(n) THEN Names(i) \cap n.owners \subseteq Decoded(n.heldOwners)
                        ELSE n.held
Quiet == ncCache = CordonedNode(ncNode) /\ \A p \in Caller : ncCall[p] = NoCall

Prunes(i) ==
    /\ i \in NcParks
    /\ ncInc[i] \in {"resolved", "expired"}
    /\ Quiet
    /\ HoldsOf(i, ncNode) => (Marked(i, ncNode) <=> ncInc[i] = "expired")
    /\ ncKept' = IF HoldsOf(i, ncNode) /\ Marked(i, ncNode) THEN ncKept \cup {i} ELSE ncKept
    /\ ncInc' = [ncInc EXCEPT ![i] = "pruned"]
    /\ UNCHANGED <<ncNode, ncCache, ncHolds, ncCall,
                   ncTheirs, ncLegacy, ncHand, ncFault>>

-------------------------------------------------------------------------------
(* The janitor: reconcileCordonedNodes.                                         *)

NcCacheSyncs ==
    /\ ncCache # CordonedNode(ncNode)
    /\ ncCache' = CordonedNode(ncNode)
    /\ UNCHANGED <<ncNode, ncInc, ncHolds, ncCall,
                   ncTheirs, ncLegacy, ncKept, ncHand, ncFault>>

\* Variant: a hold whose incident row is gone is left alone.
VerdictOnRow(o) ==
    LET s == ncInc[incidentFromCordonOwner(o)] IN
    CASE s = "resolved"              -> "release"
      [] s \in {"human", "expired"}  -> IF HeldBy(ncCache, o) THEN "none"
                                        ELSE IF Tracked(ncCache) THEN "markOwner"
                                        ELSE "markReason"
      [] OTHER                       -> "none"

\* uncordonAbandoned, markCordonHeld, or nothing.
Verdict(o) ==
    LET s == ncInc[incidentFromCordonOwner(o)] IN
    CASE s = "resolved"              -> "release"
      [] s = "pruned"                -> IF HeldBy(ncCache, o) THEN "none" ELSE "release"
      [] s \in {"human", "expired"}  -> IF HeldBy(ncCache, o) THEN "none"
                                        ELSE IF Tracked(ncCache) THEN "markOwner"
                                        ELSE "markReason"
      [] OTHER                       -> "none"

VerdictCall(o) ==
    CASE Verdict(o) = "release"    -> Starting("release", {o})
      [] Verdict(o) = "markOwner"  -> Starting("markOwner", o)
      [] Verdict(o) = "markReason" -> Starting("markReason", ncCache.reason)
      [] OTHER                     -> NoCall

\* One hold of the listed node.  The listing may be as old as the informer's copy,
\* so a pass over several holds is a series of these.
reconcileCordonOwner(o) ==
    /\ ncCache # NotListed
    /\ o \in Holds(ncCache)
    /\ ncCall[Janitor] = NoCall
    /\ VerdictCall(o) # NoCall
    /\ ncCall' = [ncCall EXCEPT ![Janitor] = VerdictCall(o)]
    /\ UNCHANGED <<ncNode, ncCache, ncInc, ncHolds,
                   ncTheirs, ncLegacy, ncKept, ncHand, ncFault>>

-------------------------------------------------------------------------------
(* Restarts and people.                                                         *)

NcRestarts ==
    /\ Trouble
    /\ ncFault' = ncFault + 1
    /\ ncCall' = [p \in Caller |-> NoCall]
    /\ UNCHANGED <<ncNode, ncCache, ncInc, ncHolds, ncTheirs, ncLegacy, ncKept, ncHand>>

Flip(S, x) == IF x \in S THEN S \ {x} ELSE S \cup {x}

\* kubectl cordon, uncordon, or the autoscaler pin.  People who want a node we hold
\* say so with the takeover annotation below.
HandMarks(m) ==
    /\ ~Ours(ncNode)
    /\ Trouble
    /\ ncHand' = ncHand + 1
    /\ ncNode' = [ncNode EXCEPT !.marks = Flip(@, m)]
    /\ ncTheirs' = ncNode'.marks
    /\ UNCHANGED <<ncCache, ncInc, ncHolds, ncCall, ncLegacy, ncKept, ncFault>>

\* cordonHandoffAnnotation is set and removed by people alone.
HandsOff ==
    /\ Trouble
    /\ ncHand' = ncHand + 1
    /\ ncNode' = [ncNode EXCEPT !.handoff = ~@]
    /\ UNCHANGED <<ncCache, ncInc, ncHolds, ncCall,
                   ncTheirs, ncLegacy, ncKept, ncFault>>

CordonNext ==
    \/ \E p \in Caller : \/ Gets(p) \/ Patches(p) \/ Loses(p) \/ Fails(p)
    \/ \E i \in NcIncident : \/ cordonForIncident(i) \/ uncordonForIncident(i)
                             \/ RowMoves(i) \/ Prunes(i)
    \/ NcCacheSyncs
    \/ \E o \in Owner : reconcileCordonOwner(o)
    \/ NcRestarts
    \/ \E m \in Mark : HandMarks(m)
    \/ HandsOff

CordonSpec == CordonInit /\ [][CordonNext]_ncVars

\* Calls, the informer and the janitor's ticker keep running.  The race for the
\* owner set "is rare and self-clearing": a call that keeps trying does not lose it
\* for ever.  A janitor pass judges every hold of its listing.
CordonFairness ==
    /\ \A p \in Caller : WF_ncVars(Gets(p) \/ Loses(p)) /\ SF_ncVars(Patches(p))
    /\ WF_ncVars(NcCacheSyncs)
    /\ \A o \in Owner : SF_ncVars(reconcileCordonOwner(o))

-------------------------------------------------------------------------------
(* Properties.                                                                  *)

(* CordonForOwner / ReleaseCordonOwners: as long as a remediation is being      *)
(* worked and has not begun to give its hold back, the node stays out of the    *)
(* scheduler's hands and the hold stays on it, whatever the other remediations, *)
(* the janitor and a restarting controller do.                                  *)
HolderKeepsNodeDown ==
    \A i \in NcIncident :
        ncInc[i] = "active" /\ i \in ncHolds
            => Down(ncNode) /\ HoldsOf(i, ncNode)

(* cordonSnapshot / restoreOps: once the node carries none of our records, it   *)
(* has exactly the cordon and the autoscaler pin other hands have given it, or  *)
(* it had when they took it over.  For nodes every cordon of which counts its   *)
(* holders.  And no call of ours that counts holders makes a node schedulable   *)
(* that a person has taken over (cordonHandoffAnnotation).                      *)
RestoreIsFaithful ==
    /\ [](~ncLegacy /\ ~Ours(ncNode) => ncNode.marks = ncTheirs)
    /\ [][ncNode.handoff /\ Down(ncNode) /\ ncHand' = ncHand
          /\ (\A p \in Caller : ncCall[p].op # "uncordon")
            => Down(ncNode')]_ncVars

(* markCordonHeld / dropHeldOwnersOps: a hold the janitor has recorded as a     *)
(* human's keeps the node down after its incident row is pruned, through every  *)
(* later join, release and verdict about the other holds.                       *)
HumanVerdictKept ==
    \A i \in ncKept : Down(ncNode) /\ HoldsOf(i, ncNode)

(* reconcileCordonedNodes: a hold whose incident resolved, or is gone without a *)
(* human's verdict, does not stay on a cordoned node for ever.                  *)
Abandoned(i) ==
    /\ ncInc[i] = "resolved" \/ (ncInc[i] = "pruned" /\ i \notin ncKept)
    /\ HoldsOf(i, ncNode)
    /\ Down(ncNode)

AbandonedHoldReleased == CordonFairness => \A i \in NcIncident : Abandoned(i) ~> ~Abandoned(i)
===============================================================================
