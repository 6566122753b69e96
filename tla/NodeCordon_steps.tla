--------------------------- MODULE NodeCordon_steps ---------------------------
(***************************************************************************)
(* The shared cordon of a node, for any set of incidents and any number of *)
(* failures, restarts and hands (NodeCordon).                              *)
(*                                                                         *)
(* A hold is safe because only two callers may give it up: the incident's  *)
(* own uncordon step, which has left the holders, and the janitor, once    *)
(* the row is resolved or pruned.  A patch computed from an old read       *)
(* passes only when the owner set is the one it read, so it gives up names *)
(* of that one incident; a node that nobody counts is released by its      *)
(* reason, and no other incident can bring that reason back.               *)
(***************************************************************************)
EXTENDS NodeCordon, TLAPS

NcState == {"active", "resolved", "human", "expired", "pruned"}
NcOp == {"cordon", "release", "uncordon", "clear", "markOwner", "markReason"}
NcArg == NcIncident \cup Owner \cup {NcAbsent} \cup SUBSET Owner
NcCallType == [op : NcOp, arg : NcArg, read : {NcAbsent} \cup NcNode]
NcView == [owners : {NcAbsent} \cup SUBSET Owner, reason : NcIncident \cup {NcAbsent}, held : BOOLEAN,
           heldOwners : {NcAbsent} \cup SUBSET Owner]

NcTypeOK ==
    /\ ncNode \in NcNode /\ ncCache \in NcView /\ ncInc \in [NcIncident -> NcState]
    /\ ncHolds \subseteq NcIncident /\ ncKept \subseteq NcIncident
    /\ ncCall \in [Caller -> NcCallType \cup {NoCall}]
    /\ ncTheirs \in {NcAbsent} \cup SUBSET Mark /\ ncLegacy \in BOOLEAN

(* Caller p may give up what incident k holds. *)
Gone(p, k) ==
    /\ k \in NcIncident
    /\ \/ p = k /\ k \notin ncHolds
       \/ /\ p = Janitor /\ ncInc[k] \in {"resolved", "pruned"}
          /\ ~ncLegacy => k \notin ncKept

(* What the call of p rests on. *)
CallerOK(p) ==
    LET c == ncCall[p]
        r == c.read
    IN  c # NoCall =>
          /\ p # Janitor => ncInc[p] = "active"
          /\ c.op = "cordon" => p # Janitor /\ c.arg = p
          /\ c.op \in {"release", "clear"} => \E k \in NcIncident : Gone(p, k) /\ c.arg \subseteq Names(k)
          /\ c.op = "release" /\ r # NcAbsent => r.owners # NcAbsent
          /\ c.op = "clear" => r # NcAbsent /\ r.owners = NcAbsent /\ LegacyCordonOwner(r.reason) \in c.arg
          /\ c.op = "uncordon" =>
                /\ Gone(p, c.arg)
                /\ r # NcAbsent => r.owners = NcAbsent /\ r.reason = c.arg
                /\ ncNode.reason = c.arg => ncNode.owners = NcAbsent
          /\ c.op \in {"markOwner", "markReason"} => p = Janitor
          /\ c.op = "markOwner" => c.arg \in Owner

(* Incident i's cordon of an older build, which no call has touched yet. *)
Untouched(i) ==
    /\ ncNode.owners = NcAbsent /\ ncNode.reason = i
    /\ \A p \in Caller : AtPatch(p) /\ ncCall[p].op \in {"cordon", "clear", "uncordon"} =>
          ncCall[p].read.owners = NcAbsent /\ ncCall[p].read.reason = i

HolderOK(i) ==
    /\ ncInc[i] \in {"active", "human"} /\ Down(ncNode)
    /\ Names(i) \cap Decoded(ncNode.owners) # {} \/ Untouched(i)

(* A node every cordon of which counts its holders: the records come and go *)
(* together, and the restore record is what other hands left.              *)
CountedNode ==
    /\ ncNode.reason = NcAbsent <=> ncNode.owners = NcAbsent
    /\ ncNode.restore = NcAbsent <=> ncNode.owners = NcAbsent
    /\ ncNode.owners # NcAbsent => ncNode.marks = Mark /\ ncNode.restore = ncTheirs
    /\ ncNode.owners = NcAbsent => ncNode.marks = ncTheirs
    /\ ncCache.owners = NcAbsent => ncCache.reason = NcAbsent
    /\ ncNode.owners # {} /\ ncCache.owners # {}

(* What a call has read from such a node.  A full release reads a set that *)
(* stays on the node until that release.                                   *)
CountedRead(p) ==
    LET c == ncCall[p]
        r == c.read
    IN  c # NoCall /\ r # NcAbsent =>
          /\ c.op \notin {"uncordon", "clear"}
          /\ c.op = "cordon" => (r.restore = NcAbsent <=> r.owners = NcAbsent)
                                /\ (r.owners = NcAbsent => r.reason = NcAbsent)
          /\ c.op = "release" /\ r.owners \subseteq c.arg =>
                /\ r.owners \cap Decoded(ncNode.owners) # {}
                /\ r.reason # NcAbsent /\ r.restore = ncNode.restore

KeptOK(i) ==
    /\ ncInc[i] = "pruned"
    /\ Names(i) \cap Decoded(ncNode.owners) # {}
    /\ Names(i) \cap Decoded(ncNode.owners) \subseteq Decoded(ncNode.heldOwners)
    /\ Names(i) \cap Decoded(ncCache.owners) \subseteq Decoded(ncCache.heldOwners)

Counted == CountedNode /\ (\A p \in Caller : CountedRead(p)) /\ (\A i \in ncKept : KeptOK(i))

NcInv ==
    /\ NcTypeOK
    /\ \A p \in Caller : CallerOK(p)
    /\ \A i \in ncHolds : HolderOK(i)
    /\ ~ncLegacy => Counted


-----------------------------------------------------------------------------
(* What the writes leave.                                                  *)

LEMMA NameFacts ==
  /\ \A i \in NcIncident : /\ Names(i) \subseteq Owner /\ Own(i) \in Names(i)
                           /\ LegacyCordonOwner(i) \in Names(i)
  /\ \A o \in Owner : incidentFromCordonOwner(o) \in NcIncident /\ o \in Names(incidentFromCordonOwner(o))
  /\ \A i, j : Names(i) \cap Names(j) # {} => i = j
  /\ \A i, j : LegacyCordonOwner(j) \in Names(i) => i = j
  BY DEF Names, Own, LegacyCordonOwner, Owner, incidentFromCordonOwner

LEMMA NodeFacts ==
  ASSUME NEW n \in NcNode
  PROVE  /\ n.marks \in SUBSET Mark /\ n.reason \in NcIncident \cup {NcAbsent}
         /\ n.owners \in {NcAbsent} \cup SUBSET Owner /\ n.restore \in {NcAbsent} \cup SUBSET Mark
         /\ n.held \in BOOLEAN /\ n.heldOwners \in {NcAbsent} \cup SUBSET Owner /\ n.handoff \in BOOLEAN
         /\ Decoded(n.owners) \in SUBSET Owner /\ Decoded(n.heldOwners) \in SUBSET Owner
         /\ n # NcAbsent
  BY ReadAssumption DEF NcNode, Decoded

(* What the cordon of incident i makes of the node n, having read r. *)
CordonLeft(i, r, n, w) ==
    /\ w \in NcNode
    /\ w.owners = Decoded(r.owners) \cup Seeded(i, r) \cup {Own(i)}
    /\ w.reason = i /\ w.marks = Mark
    /\ Seeded(i, r) = {} => w.heldOwners = n.heldOwners
    /\ r.restore = NcAbsent => w.restore = r.marks
    /\ r.restore # NcAbsent => w.restore = n.restore

LEMMA CordonLeaves ==
  ASSUME NEW n \in NcNode, NEW r \in NcNode, NEW i \in NcIncident, NEW w, w = CordonWritten(i, r, n)
  PROVE  CordonLeft(i, r, n, w)
  <1>1. PICK seeds : seeds = Seeded(i, r) OBVIOUS
  <1>2. PICK owners : owners = Decoded(r.owners) \cup seeds \cup {Own(i)} BY Zenon
  <1>3. PICK heldOwners : heldOwners = IF r.held /\ seeds # {} THEN seeds ELSE n.heldOwners OBVIOUS
  <1>4. PICK restore : restore = IF r.restore = NcAbsent THEN r.marks ELSE n.restore OBVIOUS
  <1>5. seeds \in SUBSET Owner
    <2>1. r.reason # NcAbsent => SeedOwner(i, r) \in Owner BY NameFacts, NodeFacts DEF SeedOwner
    <2> QED BY <1>1, <2>1 DEF Seeded
  <1>6. owners \in SUBSET Owner BY <1>2, <1>5, NameFacts, NodeFacts
  <1>7. heldOwners \in {NcAbsent} \cup SUBSET Owner BY <1>3, <1>5, NodeFacts
  <1>8. restore \in {NcAbsent} \cup SUBSET Mark BY <1>4, NodeFacts
  <1>9. w = [n EXCEPT !.owners = owners, !.reason = i, !.marks = Mark, !.heldOwners = heldOwners,
                      !.restore = restore]
    BY <1>1, <1>2, <1>3, <1>4 DEF CordonWritten
  <1>10. /\ w \in NcNode /\ w.owners = owners /\ w.reason = i /\ w.marks = Mark
         /\ w.heldOwners = heldOwners /\ w.restore = restore
    BY ZenonT(40), <1>6, <1>7, <1>8, <1>9 DEF NcNode
  <1> QED BY <1>1, <1>2, <1>3, <1>4, <1>10 DEF CordonLeft

LEMMA RemovalLeaves ==
  ASSUME NEW n \in NcNode, NEW r \in NcNode, NEW w, w = removeOurAnnotations(r, n)
  PROVE  /\ w \in NcNode /\ w.marks = n.marks /\ w.handoff = n.handoff
         /\ w.reason = IF r.reason # NcAbsent THEN NcAbsent ELSE n.reason
         /\ w.owners = IF r.owners # NcAbsent THEN NcAbsent ELSE n.owners
         /\ w.restore = IF r.restore # NcAbsent THEN NcAbsent ELSE n.restore
  <1>1. PICK reason : reason = IF r.reason # NcAbsent THEN NcAbsent ELSE n.reason OBVIOUS
  <1>2. PICK owners : owners = IF r.owners # NcAbsent THEN NcAbsent ELSE n.owners OBVIOUS
  <1>3. PICK restore : restore = IF r.restore # NcAbsent THEN NcAbsent ELSE n.restore OBVIOUS
  <1>4. PICK held : held = IF r.held THEN FALSE ELSE n.held BY Zenon
  <1>5. PICK heldOwners : heldOwners = IF r.heldOwners # NcAbsent THEN NcAbsent ELSE n.heldOwners OBVIOUS
  <1>6. /\ reason \in NcIncident \cup {NcAbsent} /\ owners \in {NcAbsent} \cup SUBSET Owner
        /\ restore \in {NcAbsent} \cup SUBSET Mark /\ heldOwners \in {NcAbsent} \cup SUBSET Owner
    BY <1>1, <1>2, <1>3, <1>5, NodeFacts
  <1>7. held \in BOOLEAN BY Zenon, <1>4, NodeFacts
  <1>8. w = [n EXCEPT !.reason = reason, !.owners = owners, !.restore = restore, !.held = held,
                      !.heldOwners = heldOwners]
    BY <1>1, <1>2, <1>3, <1>4, <1>5 DEF removeOurAnnotations
  <1>9. /\ w \in NcNode /\ w.marks = n.marks /\ w.handoff = n.handoff /\ w.reason = reason
        /\ w.owners = owners /\ w.restore = restore
    BY ZenonT(40), <1>6, <1>7, <1>8 DEF NcNode
  <1> QED BY <1>1, <1>2, <1>3, <1>9

LEMMA RestoreLeaves ==
  ASSUME NEW n \in NcNode, NEW r \in NcNode, NEW w, w = Restored(r, n)
  PROVE  /\ w \in NcNode
         /\ w.marks = (priorMarks(r) \cap {"unschedulable"}) \cup (n.marks \cap {"do-not-disrupt"} \cap priorMarks(r))
         /\ w.reason = IF r.reason # NcAbsent THEN NcAbsent ELSE n.reason
         /\ w.owners = IF r.owners # NcAbsent THEN NcAbsent ELSE n.owners
         /\ w.restore = IF r.restore # NcAbsent THEN NcAbsent ELSE n.restore
  <1>1. PICK v : v = removeOurAnnotations(r, n) OBVIOUS
  <1>2. PICK marks : marks = (priorMarks(r) \cap {"unschedulable"})
                             \cup (n.marks \cap {"do-not-disrupt"} \cap priorMarks(r)) BY Zenon
  <1>3. /\ v \in NcNode /\ v.marks = n.marks
        /\ v.reason = IF r.reason # NcAbsent THEN NcAbsent ELSE n.reason
        /\ v.owners = IF r.owners # NcAbsent THEN NcAbsent ELSE n.owners
        /\ v.restore = IF r.restore # NcAbsent THEN NcAbsent ELSE n.restore
    BY <1>1, RemovalLeaves
  <1>4. marks \in SUBSET Mark BY <1>2, NodeFacts DEF Mark
  <1>5. w = [v EXCEPT !.marks = marks] BY <1>1, <1>2, <1>3 DEF Restored
  <1>6. w \in NcNode /\ w.marks = marks /\ w.reason = v.reason /\ w.owners = v.owners /\ w.restore = v.restore
    BY <1>3, <1>4, <1>5 DEF NcNode
  <1> QED BY <1>2, <1>3, <1>6

(* What a release of S makes of the node n, having read more than S. *)
PartialLeft(S, r, n, w) ==
    /\ w \in NcNode /\ w.owners = r.owners \ S /\ w.reason = n.reason /\ w.marks = n.marks
    /\ w.restore = n.restore /\ Decoded(n.heldOwners) \ S \subseteq Decoded(w.heldOwners)

LEMMA PartialLeaves ==
  ASSUME NEW n \in NcNode, NEW r \in NcNode, NEW S \in SUBSET Owner, r.owners # NcAbsent,
         n.heldOwners = r.heldOwners, ~(r.owners \subseteq S), NEW w, w = ReleaseWritten(S, r, n)
  PROVE  PartialLeft(S, r, n, w)
  <1>1. PICK h : h = dropHeldOwners(S, r, n) OBVIOUS
  <1>2. h \in {NcAbsent} \cup SUBSET Owner BY <1>1, NodeFacts DEF dropHeldOwners
  <1>3. Decoded(n.heldOwners) \ S \subseteq Decoded(h)
    <2>1. PICK kept : kept = Decoded(n.heldOwners) \ S BY Zenon
    <2>2. kept # NcAbsent BY <2>1, NodeFacts, CordonAssumption
    <2>3. h = IF n.heldOwners = NcAbsent \/ kept = n.heldOwners THEN n.heldOwners
              ELSE IF kept = {} THEN NcAbsent ELSE kept
      BY <1>1, <2>1 DEF dropHeldOwners
    <2>4. Decoded(kept) = kept BY <2>2 DEF Decoded
    <2>5. CASE n.heldOwners = NcAbsent BY <2>5 DEF Decoded
    <2>6. CASE n.heldOwners # NcAbsent BY <2>1, <2>3, <2>4, <2>6
    <2> QED BY <2>5, <2>6
  <1>4. r.owners \ S \in SUBSET Owner BY NodeFacts
  <1>5. /\ w \in NcNode /\ w.owners = r.owners \ S /\ w.reason = n.reason /\ w.marks = n.marks
        /\ w.restore = n.restore /\ w.heldOwners = h
    BY Zenon, <1>1, <1>2, <1>4 DEF NcNode, ReleaseWritten
  <1> QED BY <1>3, <1>5 DEF PartialLeft

-----------------------------------------------------------------------------
(* Who may give up what.                                                   *)

LEMMA CallFacts ==
  ASSUME NcTypeOK, NEW p \in Caller, ncCall[p] # NoCall
  PROVE  /\ ncCall[p] \in NcCallType /\ ncCall[p].op \in NcOp
         /\ ncCall[p].read # NcAbsent => ncCall[p].read \in NcNode
  BY DEF NcTypeOK, NcCallType

LEMMA BusyFacts ==
  ASSUME NcTypeOK, NEW p \in Caller
  PROVE  AtGet(p) \/ AtPatch(p) \/ ncCall[p].op # "none" => ncCall[p] # NoCall
  BY DEF AtGet, AtPatch, NoCall

(* One incident's hold is given up by one caller at a time. *)
LEMMA OneGivesUp ==
  ASSUME NcInv, NEW p \in Caller, NEW q \in Caller, ncCall[p] # NoCall, ncCall[q] # NoCall,
         NEW k, Gone(p, k), Gone(q, k)
  PROVE  p = q
  <1>1. /\ p # Janitor => ncInc[p] = "active"
        /\ q # Janitor => ncInc[q] = "active"
    BY DEF NcInv, CallerOK
  <1> QED BY <1>1, CordonAssumption DEF Gone

(* Nor is it the hold of a remediation that goes on, or of a human. *)
LEMMA GoneIsNoHolder ==
  ASSUME NcInv, NEW p \in Caller, ncCall[p] # NoCall, NEW k, Gone(p, k)
  PROVE  k \notin ncHolds /\ (~ncLegacy => k \notin ncKept)
  <1>1. p # Janitor => ncInc[p] = "active" BY DEF NcInv, CallerOK
  <1>2. k \in ncHolds => ncInc[k] \in {"active", "human"} BY DEF NcInv, HolderOK
  <1>3. ~ncLegacy => (k \in ncKept => ncInc[k] = "pruned") BY DEF NcInv, Counted, KeptOK
  <1> QED BY <1>1, <1>2, <1>3, CordonAssumption DEF Gone

-----------------------------------------------------------------------------
(* Steps that leave the node alone.                                        *)

(* What a read taken now from a node that nobody counts says. *)
ReadNow(p) ==
    AtPatch(p) /\ ncCall[p].op \in {"cordon", "clear", "uncordon"} /\ ncNode.owners = NcAbsent =>
        ncCall[p].read.owners = NcAbsent /\ ncCall[p].read.reason = ncNode.reason

LEMMA CallsMove ==
  ASSUME NcInv, UNCHANGED <<ncNode, ncCache, ncInc, ncTheirs, ncLegacy, ncKept>>, ncHolds' \subseteq ncHolds,
         ncCall' \in [Caller -> NcCallType \cup {NoCall}],
         \A q \in Caller : \/ ncCall'[q] \in {ncCall[q], NoCall}
                           \/ CallerOK(q)' /\ (~ncLegacy => CountedRead(q)') /\ ReadNow(q)'
  PROVE  NcInv'
  <1>1. NcTypeOK' BY DEF NcInv, NcTypeOK
  <1>2. ASSUME NEW q \in Caller PROVE CallerOK(q)'
    <2>1. CASE ncCall'[q] = NoCall BY <2>1 DEF CallerOK
    <2>2. CASE ncCall'[q] = ncCall[q]
      <3>1. \A k : Gone(q, k) => Gone(q, k)' BY DEF Gone
      <3>2. CallerOK(q) BY DEF NcInv
      <3> QED BY <2>2, <3>1, <3>2 DEF CallerOK
    <2> QED BY <2>1, <2>2
  <1>3. ASSUME NEW i \in ncHolds' PROVE HolderOK(i)'
    <2>1. HolderOK(i) BY DEF NcInv
    <2>2. Untouched(i) => Untouched(i)'
      <3> SUFFICES ASSUME Untouched(i), NEW q \in Caller, AtPatch(q)',
                          ncCall'[q].op \in {"cordon", "clear", "uncordon"}
                   PROVE  ncCall'[q].read.owners = NcAbsent /\ ncCall'[q].read.reason = i
        BY DEF Untouched
      <3>1. ncNode.owners = NcAbsent /\ ncNode.reason = i BY DEF Untouched
      <3>2. CASE ncCall'[q] = NoCall BY <3>2 DEF NoCall
      <3>3. CASE ncCall'[q] = ncCall[q] BY <3>3 DEF Untouched, AtPatch
      <3>4. CASE ReadNow(q)' BY <3>1, <3>4 DEF ReadNow
      <3> QED BY <3>2, <3>3, <3>4
    <2> QED BY <2>1, <2>2 DEF HolderOK
  <1>4. ASSUME ~ncLegacy PROVE Counted'
    <2>1. CountedNode' /\ (\A i \in ncKept' : KeptOK(i)') BY <1>4 DEF NcInv, Counted, CountedNode, KeptOK
    <2>2. ASSUME NEW q \in Caller PROVE CountedRead(q)'
      <3>1. CountedRead(q) BY <1>4 DEF NcInv, Counted
      <3>2. CASE ncCall'[q] = NoCall BY <3>2 DEF CountedRead
      <3>3. CASE ncCall'[q] = ncCall[q] BY <3>1, <3>3 DEF CountedRead
      <3> QED BY <1>4, <3>2, <3>3
    <2> QED BY <2>1, <2>2 DEF Counted
  <1> QED BY <1>1, <1>2, <1>3, <1>4 DEF NcInv

(* A call that returns or fails without having written. *)
LEMMA CallEnds ==
  ASSUME NcInv, NEW p \in Caller, UNCHANGED <<ncNode, ncCache, ncInc, ncTheirs, ncLegacy, ncKept>>,
         ncHolds' \subseteq ncHolds, ncCall' = [ncCall EXCEPT ![p] = NoCall]
  PROVE  NcInv'
  <1>1. ncCall' \in [Caller -> NcCallType \cup {NoCall}] BY DEF NcInv, NcTypeOK
  <1>2. \A q \in Caller : ncCall'[q] \in {ncCall[q], NoCall} BY DEF NcInv, NcTypeOK
  <1> QED BY <1>1, <1>2, CallsMove

(* A call of p that begins, or begins again. *)
LEMMA CallStarts ==
  ASSUME NcInv, NEW p \in Caller, UNCHANGED <<ncNode, ncCache, ncInc, ncTheirs, ncLegacy, ncKept>>,
         ncHolds' \subseteq ncHolds, NEW op \in NcOp \ {"clear"}, NEW arg \in NcArg,
         NEW c, c = Starting(op, arg), ncCall' = [ncCall EXCEPT ![p] = c],
         p # Janitor => ncInc[p] = "active",
         op = "cordon" => p # Janitor /\ arg = p,
         op = "release" => \E k \in NcIncident : Gone(p, k)' /\ arg \subseteq Names(k),
         op = "uncordon" => Gone(p, arg)' /\ (ncNode.reason = arg => ncNode.owners = NcAbsent),
         op \in {"markOwner", "markReason"} => p = Janitor,
         op = "markOwner" => arg \in Owner
  PROVE  NcInv'
  <1>1. c \in NcCallType /\ c.op = op /\ c.arg = arg /\ c.read = NcAbsent BY DEF Starting, NcCallType
  <1>2. ncCall' \in [Caller -> NcCallType \cup {NoCall}] /\ ncCall'[p] = c
        /\ \A q \in Caller \ {p} : ncCall'[q] = ncCall[q]
    BY <1>1 DEF NcInv, NcTypeOK
  <1>3. CallerOK(p)' BY <1>1, <1>2 DEF CallerOK
  <1>4. CountedRead(p)' /\ ReadNow(p)' BY <1>1, <1>2 DEF CountedRead, ReadNow, AtPatch
  <1> QED BY <1>2, <1>3, <1>4, CallsMove

LEMMA RememberedFacts ==
  ASSUME NEW n \in NcNode, NEW c \in NcCallType, NEW w, w = Remembered(c, n)
  PROVE  /\ w \in NcNode
         /\ c.op = "cordon" => /\ w.owners = n.owners /\ w.restore = n.restore
                               /\ n.owners = NcAbsent => w.reason = n.reason
         /\ c.op = "release" => w.owners = n.owners /\ (n.owners \subseteq c.arg => w = n)
         /\ c.op \in {"uncordon", "clear"} => w = n
  <1>0. PICK e : e = CleanNode({}) OBVIOUS
  <1>1. e \in NcNode BY <1>0 DEF CleanNode, NcNode, Mark
  <1>2. CASE c.op = "cordon"
    <2>1. PICK marks \in SUBSET Mark, reason \in NcIncident \cup {NcAbsent} :
             /\ marks = IF n.restore = NcAbsent THEN n.marks ELSE {}
             /\ reason = IF n.owners = NcAbsent THEN n.reason ELSE NcAbsent
      <3>1. /\ (IF n.restore = NcAbsent THEN n.marks ELSE {}) \in SUBSET Mark
            /\ (IF n.owners = NcAbsent THEN n.reason ELSE NcAbsent) \in NcIncident \cup {NcAbsent}
        BY NodeFacts
      <3> QED BY Zenon, <3>1
    <2>2. w = [n EXCEPT !.heldOwners = NcAbsent, !.handoff = FALSE, !.marks = marks, !.reason = reason]
      BY <1>2, <2>1 DEF Remembered
    <2>3. w \in NcNode /\ w.owners = n.owners /\ w.restore = n.restore /\ w.reason = reason
      BY Zenon, <2>2 DEF NcNode
    <2> QED BY <1>2, <2>1, <2>3
  <1>3. CASE \/ c.op = "release" /\ ~(n.owners \subseteq c.arg)
             \/ c.op = "markOwner"
    <2>1. w = [e EXCEPT !.owners = n.owners, !.heldOwners = n.heldOwners] BY <1>0, <1>3 DEF Remembered
    <2>2. w \in NcNode /\ w.owners = n.owners BY Zenon, <1>1, <2>1, NodeFacts DEF NcNode
    <2> QED BY <1>3, <2>2
  <1>4. CASE c.op = "markReason"
    <2>1. w = e BY <1>0, <1>4 DEF Remembered
    <2> QED BY <1>1, <1>4, <2>1
  <1>5. CASE c.op \in {"uncordon", "clear"} \/ (c.op = "release" /\ n.owners \subseteq c.arg)
    <2>1. w = n BY <1>5 DEF Remembered
    <2> QED BY <1>5, <2>1
  <1> QED BY <1>2, <1>3, <1>4, <1>5 DEF NcCallType, NcOp

(* A call of p takes the read w. *)
LEMMA CallReads ==
  ASSUME NcInv, NEW p \in Caller, ncCall[p] # NoCall, NEW w, w = Remembered(ncCall[p], ncNode),
         UNCHANGED <<ncNode, ncCache, ncInc, ncTheirs, ncLegacy, ncKept, ncHolds>>,
         ncCall' = [ncCall EXCEPT ![p].read = w],
         ncCall[p].op \notin {"clear"},
         ncCall[p].op = "release" => ncNode.owners # NcAbsent /\ ncCall[p].arg \cap ncNode.owners # {},
         ncCall[p].op = "uncordon" => ncNode.reason = ncCall[p].arg /\ ncNode.owners = NcAbsent
  PROVE  NcInv'
  <1>1. PICK c : c = ncCall[p] OBVIOUS
  <1>2. c \in NcCallType /\ ncNode \in NcNode BY <1>1, CallFacts DEF NcInv, NcTypeOK
  <1>3. /\ w \in NcNode /\ w # NcAbsent
        /\ c.op = "cordon" => /\ w.owners = ncNode.owners /\ w.restore = ncNode.restore
                              /\ ncNode.owners = NcAbsent => w.reason = ncNode.reason
        /\ c.op = "release" => w.owners = ncNode.owners /\ (ncNode.owners \subseteq c.arg => w = ncNode)
        /\ c.op \in {"uncordon", "clear"} => w = ncNode
    BY <1>1, <1>2, RememberedFacts, NodeFacts
  <1>4. PICK d : d = [c EXCEPT !.read = w] BY Zenon
  <1>5. d \in NcCallType /\ d.op = c.op /\ d.arg = c.arg /\ d.read = w /\ d # NoCall
    BY <1>2, <1>3, <1>4 DEF NcCallType, NcOp, NoCall
  <1>6. ncCall' \in [Caller -> NcCallType \cup {NoCall}] /\ ncCall'[p] = d
        /\ \A q \in Caller \ {p} : ncCall'[q] = ncCall[q]
    BY <1>1, <1>4, <1>5 DEF NcInv, NcTypeOK
  <1>7. CallerOK(p) BY DEF NcInv
  <1>8. \A k : Gone(p, k) => Gone(p, k)' BY DEF Gone
  <1>9. CallerOK(p)'
    <2>1. (ncNode' = ncNode /\ ncInc' = ncInc) OBVIOUS
    <2> QED BY <1>1, <1>3, <1>5, <1>6, <1>7, <1>8, <2>1 DEF CallerOK
  <1>10. ReadNow(p)' BY Zenon, <1>3, <1>5, <1>6 DEF ReadNow
  <1>11. ASSUME ~ncLegacy PROVE CountedRead(p)'
    <2>1. CountedNode BY <1>11 DEF NcInv, Counted
    <2>2. c.op # "uncordon" BY <1>1, <1>7, <2>1, CordonAssumption DEF CallerOK, CountedNode, Gone
    <2>3. c.op = "release" /\ w.owners \subseteq c.arg =>
             w.owners \cap Decoded(ncNode.owners) # {} /\ w.reason # NcAbsent /\ w.restore = ncNode.restore
      BY <1>1, <1>3, <2>1 DEF CountedNode, Decoded
    <2>4. c.op = "cordon" => (w.restore = NcAbsent <=> w.owners = NcAbsent)
                             /\ (w.owners = NcAbsent => w.reason = NcAbsent)
      BY <1>3, <2>1 DEF CountedNode
    <2>5. c.op # "clear" BY <1>1
    <2> QED BY Zenon, <1>5, <1>6, <2>2, <2>3, <2>4, <2>5 DEF CountedRead
  <1> QED BY <1>6, <1>9, <1>10, <1>11, CallsMove

LEMMA GetsStep ==
  ASSUME NcInv, NEW p \in Caller, Gets(p) PROVE NcInv'
  <1>1. PICK c : c = ncCall[p] OBVIOUS
  <1>2. /\ c # NoCall /\ c.read = NcAbsent
        /\ UNCHANGED <<ncNode, ncCache, ncInc, ncTheirs, ncLegacy, ncKept>>
    BY <1>1, BusyFacts DEF Gets, AtGet, NcInv
  <1>3. c \in NcCallType /\ c.op \in NcOp /\ CallerOK(p) /\ ncNode \in NcNode
    BY <1>1, <1>2, CallFacts DEF NcInv, NcTypeOK
  <1>4. c.op # "clear" BY <1>1, <1>2, <1>3 DEF CallerOK
  <1>5. CASE /\ c.op = "release" /\ ~countedCordon(ncNode) /\ ncNode.reason # NcAbsent
             /\ LegacyCordonOwner(ncNode.reason) \in c.arg
             /\ ncCall' = [ncCall EXCEPT ![p] = releaseUntrackedCordon(c, ncNode)] /\ UNCHANGED ncHolds
    <2>1. PICK k \in NcIncident : Gone(p, k) /\ c.arg \subseteq Names(k) BY <1>1, <1>2, <1>3, <1>5 DEF CallerOK
    <2>2. k = ncNode.reason BY <1>5, <2>1, NameFacts
    <2>3. ncNode.owners = NcAbsent BY <1>5 DEF countedCordon
    <2>4. p # Janitor => ncInc[p] = "active" BY <1>1, <1>2, <1>3 DEF CallerOK
    <2>5. Gone(p, k)' BY <1>2, <1>5, <2>1 DEF Gone
    <2>6. CASE ~ncNode.handoff
      <3>1. ncCall' = [ncCall EXCEPT ![p] = Starting("uncordon", k)]
        BY <1>5, <2>2, <2>6 DEF releaseUntrackedCordon
      <3>2. "uncordon" \in NcOp \ {"clear"} /\ k \in NcArg BY DEF NcOp, NcArg
      <3>3. PICK op \in NcOp \ {"clear"} : op = "uncordon" BY <3>2
      <3>4. PICK s : s = Starting(op, k) OBVIOUS
      <3>5. ncCall' = [ncCall EXCEPT ![p] = s] /\ ncHolds' \subseteq ncHolds BY Zenon, <1>5, <3>1, <3>3, <3>4
      <3>6. /\ op = "cordon" => p # Janitor /\ k = p
            /\ op = "release" => \E j \in NcIncident : Gone(p, j)' /\ k \subseteq Names(j)
            /\ op = "uncordon" => Gone(p, k)' /\ (ncNode.reason = k => ncNode.owners = NcAbsent)
            /\ op \in {"markOwner", "markReason"} => p = Janitor
            /\ op = "markOwner" => k \in Owner
        BY <2>3, <2>5, <3>3
      <3> QED BY Zenon, <1>2, <2>4, <3>2, <3>4, <3>5, <3>6, CallStarts
    <2>7. CASE ncNode.handoff
      <3>1. PICK d : d = [c EXCEPT !.op = "clear", !.read = ncNode] OBVIOUS
      <3>2. d \in NcCallType /\ d.op = "clear" /\ d.arg = c.arg /\ d.read = ncNode /\ d # NoCall /\ d.read # NcAbsent
        BY Zenon, <1>3, <3>1, NodeFacts DEF NcCallType, NcOp, NoCall
      <3>3. ncCall' = [ncCall EXCEPT ![p] = d] BY <1>5, <2>7, <3>1 DEF releaseUntrackedCordon
      <3>4. ncCall' \in [Caller -> NcCallType \cup {NoCall}] /\ ncCall'[p] = d
            /\ \A q \in Caller \ {p} : ncCall'[q] = ncCall[q]
        BY <3>2, <3>3, SMTT(40) DEF NcInv, NcTypeOK
      <3>5. CallerOK(p)' BY <1>2, <1>5, <2>1, <2>2, <2>3, <2>4, <2>5, <3>2, <3>4 DEF CallerOK
      <3>6. ReadNow(p)' BY <1>2, <3>2, <3>4 DEF ReadNow
      <3>7. ncLegacy BY <1>5, <2>3 DEF NcInv, Counted, CountedNode
      <3> QED BY <1>2, <1>5, <3>4, <3>5, <3>6, <3>7, CallsMove
    <2> QED BY <2>6, <2>7
  <1>6. CASE Returns(p) /\ c.op # "cordon"
    <2>1. ncHolds' = ncHolds /\ ncCall' = [ncCall EXCEPT ![p] = NoCall] BY <1>1, <1>6 DEF Returns
    <2> QED BY Zenon, <1>2, <2>1, CallEnds
  <1>7. CASE /\ ~(c.op = "release" /\ ~countedCordon(ncNode)) /\ Wants([c EXCEPT !.read = ncNode])
             /\ ncCall' = [ncCall EXCEPT ![p].read = Remembered(c, ncNode)] /\ UNCHANGED ncHolds
    <2>1. PICK d : d = [c EXCEPT !.read = ncNode] BY Zenon
    <2>2. d.op = c.op /\ d.arg = c.arg /\ d.read = ncNode BY <1>3, <2>1 DEF NcCallType
    <2>3. Wants(d) BY <1>7, <2>1
    <2>4. c.op = "release" => ncNode.owners # NcAbsent /\ c.arg \cap ncNode.owners # {}
      BY <1>7, <2>2, <2>3 DEF Wants, ReleaseWants, countedCordon, Decoded
    <2>5. c.op = "uncordon" => ncNode.reason = c.arg /\ ncNode.owners = NcAbsent
      BY <2>2, <2>3 DEF Wants, UncordonWants, countedCordon
    <2>6. PICK w : w = Remembered(c, ncNode) OBVIOUS
    <2> QED BY Zenon, <1>1, <1>2, <1>4, <1>7, <2>4, <2>5, <2>6, CallReads
  <1>8. c.op = "cordon" => Wants([c EXCEPT !.read = ncNode])
    <2>1. PICK d : d = [c EXCEPT !.read = ncNode] BY Zenon
    <2>2. d.op = c.op BY <1>3, <2>1 DEF NcCallType
    <2> QED BY <2>1, <2>2 DEF Wants
  <1> QED BY <1>1, <1>5, <1>6, <1>7, <1>8 DEF Gets

LEMMA LosesStep ==
  ASSUME NcInv, NEW p \in Caller, Loses(p) PROVE NcInv'
  <1>1. PICK c : c = ncCall[p] OBVIOUS
  <1>2. /\ c # NoCall /\ c.read # NcAbsent
        /\ UNCHANGED <<ncNode, ncCache, ncInc, ncTheirs, ncLegacy, ncKept>>
    BY <1>1, BusyFacts DEF Loses, AtPatch, NcInv
  <1>3. c \in NcCallType /\ c.op \in NcOp /\ CallerOK(p) BY <1>1, <1>2, CallFacts DEF NcInv
  <1>4. CASE c.op \in {"cordon", "release"}
    <2>1. ncHolds' = ncHolds /\ ncCall' = [ncCall EXCEPT ![p] = Starting(c.op, c.arg)]
      BY <1>1, <1>4 DEF Loses
    <2>2. PICK op \in NcOp \ {"clear"}, arg \in NcArg : op = c.op /\ arg = c.arg
      BY <1>3, <1>4 DEF NcCallType
    <2>3. PICK s : s = Starting(op, arg) OBVIOUS
    <2>4. ncCall' = [ncCall EXCEPT ![p] = s] /\ ncHolds' \subseteq ncHolds BY <2>1, <2>2, <2>3
    <2>5. \A k : Gone(p, k) => Gone(p, k)' BY <1>2, <2>1 DEF Gone
    <2>6. /\ p # Janitor => ncInc[p] = "active"
          /\ op = "cordon" => p # Janitor /\ arg = p
          /\ op = "release" => \E k \in NcIncident : Gone(p, k)' /\ arg \subseteq Names(k)
      BY <1>1, <1>2, <1>3, <1>4, <2>2, <2>5 DEF CallerOK
    <2>7. op # "uncordon" /\ op \notin {"markOwner", "markReason"} BY <1>4, <2>2
    <2> QED BY Zenon, <1>2, <2>3, <2>4, <2>6, <2>7, CallStarts
  <1>5. CASE c.op \notin {"cordon", "release"}
    <2>1. ncHolds' = ncHolds /\ ncCall' = [ncCall EXCEPT ![p] = NoCall] BY <1>1, <1>5 DEF Loses, Returns
    <2> QED BY Zenon, <1>2, <2>1, CallEnds
  <1> QED BY <1>4, <1>5

LEMMA FailsStep ==
  ASSUME NcInv, NEW p \in Caller, Fails(p) PROVE NcInv'
  BY Zenon, CallEnds DEF Fails

LEMMA RestartsStep ==
  ASSUME NcInv, NcRestarts PROVE NcInv'
  <1>1. ncCall' \in [Caller -> NcCallType \cup {NoCall}] /\ \A q \in Caller : ncCall'[q] = NoCall
    BY DEF NcRestarts
  <1> QED BY <1>1, CallsMove DEF NcRestarts

LEMMA IncidentStarts ==
  ASSUME NcInv, NEW i \in NcIncident, cordonForIncident(i) \/ uncordonForIncident(i) PROVE NcInv'
  <1>1. i \in Caller /\ i # Janitor /\ ncInc[i] = "active"
        /\ UNCHANGED <<ncNode, ncCache, ncInc, ncTheirs, ncLegacy, ncKept>>
    BY CordonAssumption DEF cordonForIncident, uncordonForIncident, Caller
  <1>2. CASE cordonForIncident(i)
    <2>1. PICK op \in NcOp \ {"clear"}, arg \in NcArg : op = "cordon" /\ arg = i BY DEF NcOp, NcArg
    <2>2. PICK s : s = Starting(op, arg) OBVIOUS
    <2>3. ncCall' = [ncCall EXCEPT ![i] = s] /\ ncHolds' \subseteq ncHolds
      BY <1>2, <2>1, <2>2 DEF cordonForIncident, Calls
    <2>4. op = "cordon" /\ arg = i BY <2>1
    <2>5. op # "release" /\ op # "uncordon" /\ op \notin {"markOwner", "markReason"} BY <2>1
    <2> QED BY Zenon, <1>1, <2>2, <2>3, <2>4, <2>5, CallStarts
  <1>3. CASE uncordonForIncident(i)
    <2>1. PICK op \in NcOp \ {"clear"}, arg \in NcArg : op = "release" /\ arg = Names(i)
      BY NameFacts DEF NcOp, NcArg
    <2>2. PICK s : s = Starting(op, arg) OBVIOUS
    <2>3. ncCall' = [ncCall EXCEPT ![i] = s] /\ ncHolds' = ncHolds \ {i}
      BY <1>3, <2>1, <2>2 DEF uncordonForIncident, Calls
    <2>4. Gone(i, i)' BY <2>3 DEF Gone
    <2>5. op = "release" => \E k \in NcIncident : Gone(i, k)' /\ arg \subseteq Names(k) BY <2>1, <2>4
    <2>6. op # "cordon" /\ op # "uncordon" /\ op \notin {"markOwner", "markReason"} BY <2>1
    <2> QED BY Zenon, <1>1, <2>2, <2>3, <2>5, <2>6, CallStarts
  <1> QED BY <1>2, <1>3

(* The janitor never releases a hold that was marked as a human's. *)
LEMMA ReleasesNoneKept ==
  ASSUME NcInv, ~ncLegacy, NEW o \in Owner, reconcileCordonOwner(o), Verdict(o) = "release"
  PROVE  incidentFromCordonOwner(o) \notin ncKept
  <1>1. PICK k \in NcIncident : k = incidentFromCordonOwner(o) /\ o \in Names(k) BY NameFacts
  <1> SUFFICES ASSUME k \in ncKept PROVE FALSE BY <1>1
  <1>2. ncInc[k] = "pruned" /\ Names(k) \cap Decoded(ncCache.owners) \subseteq Decoded(ncCache.heldOwners)
    BY DEF NcInv, Counted, KeptOK
  <1>3. ~HeldBy(ncCache, o) BY <1>1, <1>2 DEF Verdict
  <1>4. o \in Holds(ncCache) BY DEF reconcileCordonOwner
  <1>5. CASE Tracked(ncCache)
    <2>1. o \in Decoded(ncCache.owners) BY <1>4, <1>5 DEF Holds, Tracked, Decoded
    <2> QED BY <1>1, <1>2, <1>3, <1>5, <2>1 DEF HeldBy
  <1>6. CASE ~Tracked(ncCache)
    <2>1. ncCache.owners = NcAbsent /\ ncCache.reason = NcAbsent
      BY <1>6 DEF Tracked, Decoded, NcInv, Counted, CountedNode
    <2>2. o = LegacyCordonOwner(NcAbsent) BY <1>4, <1>6, <2>1 DEF Holds
    <2> QED BY <1>1, <2>2, NameFacts, CordonAssumption
  <1> QED BY <1>5, <1>6

LEMMA JanitorStarts ==
  ASSUME NcInv, NEW o \in Owner, reconcileCordonOwner(o) PROVE NcInv'
  <1>0. /\ Janitor \in Caller
        /\ UNCHANGED <<ncNode, ncCache, ncInc, ncTheirs, ncLegacy, ncKept, ncHolds>>
    BY DEF reconcileCordonOwner, Caller
  <1>1. PICK k \in NcIncident : k = incidentFromCordonOwner(o) /\ o \in Names(k) BY NameFacts
  <1>2. CASE Verdict(o) = "release"
    <2>1. ncInc[k] \in {"resolved", "pruned"} BY <1>1, <1>2 DEF Verdict
    <2>2. ~ncLegacy => k \notin ncKept BY <1>1, <1>2, ReleasesNoneKept
    <2>3. Gone(Janitor, k)' BY <1>0, <2>1, <2>2 DEF Gone
    <2>4. PICK op \in NcOp \ {"clear"}, arg \in NcArg : op = "release" /\ arg = {o} BY Zenon DEF NcOp, NcArg
    <2>5. PICK s : s = Starting(op, arg) OBVIOUS
    <2>6. ncCall' = [ncCall EXCEPT ![Janitor] = s]
      BY <1>2, <2>4, <2>5 DEF reconcileCordonOwner, VerdictCall
    <2>7. op = "release" => \E j \in NcIncident : Gone(Janitor, j)' /\ arg \subseteq Names(j)
      BY <1>1, <2>3, <2>4
    <2>8. op # "cordon" /\ op # "uncordon" /\ op \notin {"markOwner", "markReason"} BY <2>4
    <2> QED BY Zenon, <1>0, <2>5, <2>6, <2>7, <2>8, CallStarts
  <1>3. CASE Verdict(o) \in {"markOwner", "markReason"}
    <2>1. ncCache.reason \in NcArg BY DEF NcInv, NcTypeOK, NcView, NcArg
    <2>2. PICK op \in NcOp \ {"clear"}, arg \in NcArg :
             op = Verdict(o) /\ arg = IF Verdict(o) = "markOwner" THEN o ELSE ncCache.reason
      BY <1>3, <2>1 DEF NcOp, NcArg
    <2>3. PICK s : s = Starting(op, arg) OBVIOUS
    <2>4. ncCall' = [ncCall EXCEPT ![Janitor] = s]
      BY Zenon, <1>3, <2>2, <2>3 DEF reconcileCordonOwner, VerdictCall
    <2>5. op # "cordon" /\ op # "uncordon" /\ op # "release" /\ (op = "markOwner" => arg \in Owner) BY <1>3, <2>2
    <2> QED BY Zenon, <1>0, <2>3, <2>4, <2>5, CallStarts
  <1>4. Verdict(o) \in {"release", "markOwner", "markReason"}
    BY DEF reconcileCordonOwner, VerdictCall
  <1> QED BY <1>2, <1>3, <1>4

LEMMA RowMovesStep ==
  ASSUME NcInv, NEW i \in NcIncident, RowMoves(i) PROVE NcInv'
  <1>1. PICK s \in {"active", "resolved", "human", "expired"} :
           /\ ncCall[i] = NoCall /\ ncInc[i] \in {"active", "human"}
           /\ ncInc' = [ncInc EXCEPT ![i] = s]
           /\ ncHolds' = IF s \in {"active", "human"} THEN ncHolds ELSE ncHolds \ {i}
           /\ UNCHANGED <<ncNode, ncCache, ncCall, ncTheirs, ncLegacy, ncKept>>
    BY Zenon DEF RowMoves
  <1>2. /\ ncInc' \in [NcIncident -> NcState] /\ ncInc'[i] = s /\ ncHolds' \subseteq ncHolds
        /\ \A j \in NcIncident \ {i} : ncInc'[j] = ncInc[j]
    BY <1>1 DEF NcInv, NcTypeOK, NcState
  <1>3. NcTypeOK' BY <1>1, <1>2, SMTT(40) DEF NcInv, NcTypeOK
  <1>4. ASSUME NEW q \in Caller PROVE CallerOK(q)'
    <2>1. \A k : Gone(q, k) => Gone(q, k)' BY <1>1, <1>2 DEF Gone
    <2>2. CallerOK(q) BY DEF NcInv
    <2>3. ncCall[q] # NoCall /\ q # Janitor => ncInc'[q] = ncInc[q] BY <1>1, <1>2 DEF Caller
    <2> QED BY <1>1, <2>1, <2>2, <2>3 DEF CallerOK
  <1>5. ASSUME NEW j \in ncHolds' PROVE HolderOK(j)'
    <2>1. HolderOK(j) /\ j \in NcIncident BY <1>2 DEF NcInv, NcTypeOK
    <2>2. ncInc'[j] \in {"active", "human"} BY <1>1, <1>2, <2>1 DEF HolderOK
    <2>3. Untouched(j) => Untouched(j)' BY <1>1 DEF Untouched, AtPatch
    <2> QED BY <1>1, <2>1, <2>2, <2>3 DEF HolderOK
  <1>6. ASSUME ~ncLegacy PROVE Counted'
    <2>1. CountedNode' /\ \A q \in Caller : CountedRead(q)'
      BY <1>1, <1>6 DEF NcInv, Counted, CountedNode, CountedRead
    <2>2. ASSUME NEW j \in ncKept' PROVE KeptOK(j)'
      <3>1. KeptOK(j) /\ j \in NcIncident BY <1>1, <1>6 DEF NcInv, NcTypeOK, Counted
      <3>2. ncInc'[j] = ncInc[j] BY <1>1, <1>2, <3>1 DEF KeptOK
      <3> QED BY <1>1, <3>1, <3>2 DEF KeptOK
    <2> QED BY <2>1, <2>2, SMTT(40) DEF Counted
  <1> QED BY <1>1, <1>3, <1>4, <1>5, <1>6 DEF NcInv

LEMMA PrunesStep ==
  ASSUME NcInv, NEW i \in NcIncident, Prunes(i) PROVE NcInv'
  <1>1. /\ ncInc[i] \in {"resolved", "expired"} /\ ncInc' = [ncInc EXCEPT ![i] = "pruned"]
        /\ ncCache = CordonedNode(ncNode) /\ \A p \in Caller : ncCall[p] = NoCall
        /\ ncKept' = IF HoldsOf(i, ncNode) /\ Marked(i, ncNode) THEN ncKept \cup {i} ELSE ncKept
        /\ UNCHANGED <<ncNode, ncCache, ncHolds, ncCall, ncTheirs, ncLegacy>>
    BY DEF Prunes, Quiet
  <1>2. /\ ncInc' \in [NcIncident -> NcState] /\ ncInc'[i] = "pruned"
        /\ \A j \in NcIncident \ {i} : ncInc'[j] = ncInc[j]
    BY <1>1 DEF NcInv, NcTypeOK, NcState
  <1>3. NcTypeOK' BY <1>1, <1>2, SMTT(40) DEF NcInv, NcTypeOK
  <1>4. \A q \in Caller : CallerOK(q)' BY <1>1 DEF CallerOK
  <1>5. ASSUME NEW j \in ncHolds' PROVE HolderOK(j)'
    <2>1. HolderOK(j) /\ j \in NcIncident BY <1>1 DEF NcInv, NcTypeOK
    <2>2. ncInc'[j] = ncInc[j] BY <1>1, <1>2, <2>1 DEF HolderOK
    <2>3. Untouched(j) => Untouched(j)' BY <1>1 DEF Untouched, AtPatch
    <2> QED BY <1>1, <2>1, <2>2, <2>3 DEF HolderOK
  <1>6. ASSUME ~ncLegacy PROVE Counted'
    <2>0. CountedNode BY <1>6 DEF NcInv, Counted
    <2>1. CountedNode' /\ \A q \in Caller : CountedRead(q)'
      BY <1>1, <2>0 DEF CountedNode, CountedRead
    <2>2. ASSUME NEW j \in ncKept' PROVE KeptOK(j)'
      <3>1. CASE j \in ncKept
        <4>1. KeptOK(j) /\ j \in NcIncident BY <1>6, <3>1 DEF NcInv, NcTypeOK, Counted
        <4>2. ncInc'[j] = "pruned" BY <1>2, <4>1 DEF KeptOK
        <4> QED BY <1>1, <4>1, <4>2 DEF KeptOK
      <3>2. CASE j \notin ncKept
        <4>1. j = i /\ HoldsOf(i, ncNode) /\ Marked(i, ncNode) BY <1>1, <2>2, <3>2
        <4>2. ncNode.owners # NcAbsent BY <2>0, <4>1, CordonAssumption, SMTT(40) DEF CountedNode, HoldsOf, Decoded
        <4>3. ncCache.owners = ncNode.owners /\ ncCache.heldOwners = ncNode.heldOwners
          BY <1>1, <2>0, <4>2 DEF CordonedNode, Ours, Down, CountedNode, Mark
        <4>4. Names(i) \cap Decoded(ncNode.owners) # {} BY <4>1, <4>2 DEF HoldsOf
        <4>5. Names(i) \cap Decoded(ncNode.owners) \subseteq Decoded(ncNode.heldOwners)
          BY <4>1, <4>2 DEF Marked, countedCordon, Decoded
        <4> QED BY <1>1, <1>2, <4>1, <4>3, <4>4, <4>5 DEF KeptOK
      <3> QED BY <3>1, <3>2, SMTT(40)
    <2> QED BY <2>1, <2>2 DEF Counted
  <1> QED BY <1>1, <1>3, <1>4, <1>5, <1>6 DEF NcInv

LEMMA CacheSyncsStep ==
  ASSUME NcInv, NcCacheSyncs PROVE NcInv'
  <1>1. /\ ncCache' = CordonedNode(ncNode)
        /\ UNCHANGED <<ncNode, ncInc, ncHolds, ncCall, ncTheirs, ncLegacy, ncKept>>
    BY DEF NcCacheSyncs
  <1>2. ncNode \in NcNode BY DEF NcInv, NcTypeOK
  <1>3. \/ ncCache'.owners = NcAbsent /\ ncCache'.reason = NcAbsent /\ ncCache'.heldOwners = NcAbsent
        \/ /\ ncCache'.owners = ncNode.owners /\ ncCache'.reason = ncNode.reason
           /\ ncCache'.heldOwners = ncNode.heldOwners
    BY <1>1 DEF CordonedNode, NotListed
  <1>4. NcTypeOK'
    <2>1. CordonedNode(ncNode) \in NcView BY <1>2, NodeFacts, SMTT(40) DEF CordonedNode, NotListed, NcView
    <2> QED BY <1>1, <2>1, SMTT(40) DEF NcInv, NcTypeOK
  <1>5. ASSUME NEW q \in Caller PROVE CallerOK(q)'
    <2>1. \A k : Gone(q, k) => Gone(q, k)' BY <1>1 DEF Gone
    <2>2. CallerOK(q) BY DEF NcInv
    <2> QED BY Zenon, <1>1, <2>1, <2>2 DEF CallerOK
  <1>6. ASSUME NEW j \in ncHolds' PROVE HolderOK(j)'
    <2>1. HolderOK(j) BY <1>1 DEF NcInv
    <2>2. Untouched(j) => Untouched(j)' BY <1>1 DEF Untouched, AtPatch
    <2> QED BY <1>1, <2>1, <2>2 DEF HolderOK
  <1>7. ASSUME ~ncLegacy PROVE Counted'
    <2>1. CountedNode BY <1>7 DEF NcInv, Counted
    <2>2. ncCache'.owners # {} /\ (ncCache'.owners = NcAbsent => ncCache'.reason = NcAbsent)
      BY <1>3, <2>1, CordonAssumption DEF CountedNode
    <2>3. CountedNode' BY <1>1, <2>1, <2>2, SMTT(40) DEF CountedNode
    <2>4. \A q \in Caller : CountedRead(q)' BY <1>1, <1>7 DEF NcInv, Counted, CountedRead
    <2>5. ASSUME NEW j \in ncKept' PROVE KeptOK(j)'
      <3>1. KeptOK(j) BY <1>1, <1>7 DEF NcInv, Counted
      <3>2. Names(j) \cap Decoded(ncCache'.owners) \subseteq Decoded(ncCache'.heldOwners)
        BY <1>3, <3>1, SMTT(40) DEF KeptOK, Decoded
      <3> QED BY <1>1, <3>1, <3>2 DEF KeptOK
    <2> QED BY <2>3, <2>4, <2>5 DEF Counted
  <1> QED BY <1>1, <1>4, <1>5, <1>6, <1>7 DEF NcInv

-----------------------------------------------------------------------------
(* Steps that write the node.                                              *)

(* Hands leave the records alone. *)
LEMMA HandsMove ==
  ASSUME NcInv, NEW n \in NcNode, ncNode' = n, ncTheirs' \in {NcAbsent} \cup SUBSET Mark,
         n.owners = ncNode.owners, n.reason = ncNode.reason, n.restore = ncNode.restore,
         n.heldOwners = ncNode.heldOwners,
         UNCHANGED <<ncCache, ncInc, ncHolds, ncCall, ncLegacy, ncKept>>,
         \/ n.marks = ncNode.marks /\ ncTheirs' = ncTheirs
         \/ n.marks = ncTheirs' /\ ~Ours(ncNode)
  PROVE  NcInv'
  <1>1. NcTypeOK' BY DEF NcInv, NcTypeOK
  <1>2. ASSUME NEW q \in Caller PROVE CallerOK(q)'
    <2>1. \A k : Gone(q, k) => Gone(q, k)' BY DEF Gone
    <2>2. CallerOK(q) BY DEF NcInv
    <2> QED BY Zenon, <2>1, <2>2 DEF CallerOK
  <1>3. ASSUME NEW j \in ncHolds' PROVE HolderOK(j)'
    <2>1. HolderOK(j) /\ j \in NcIncident BY DEF NcInv, NcTypeOK
    <2>2. Untouched(j) => Untouched(j)' BY DEF Untouched, AtPatch
    <2>3. Ours(ncNode) BY <2>1, CordonAssumption DEF HolderOK, Untouched, Ours, Decoded
    <2>4. Down(ncNode)' BY <2>1, <2>3 DEF HolderOK, Down
    <2> QED BY <2>1, <2>2, <2>4, SMTT(40) DEF HolderOK
  <1>4. ASSUME ~ncLegacy PROVE Counted'
    <2>1. CountedNode' BY <1>4 DEF NcInv, Counted, CountedNode, Ours
    <2>2. \A q \in Caller : CountedRead(q)' BY Zenon, <1>4 DEF NcInv, Counted, CountedRead
    <2>3. \A j \in ncKept' : KeptOK(j)' BY <1>4 DEF NcInv, Counted, KeptOK
    <2> QED BY <2>1, <2>2, <2>3, SMTT(40) DEF Counted
  <1> QED BY <1>1, <1>2, <1>3, <1>4 DEF NcInv

LEMMA HandSteps ==
  ASSUME NcInv, HandsOff \/ \E m \in Mark : HandMarks(m) PROVE NcInv'
  <1>0. ncNode \in NcNode BY DEF NcInv, NcTypeOK
  <1>1. CASE HandsOff
    <2>1. PICK n : n = [ncNode EXCEPT !.handoff = ~@] BY Zenon
    <2>2. /\ n \in NcNode /\ n.owners = ncNode.owners /\ n.reason = ncNode.reason
          /\ n.restore = ncNode.restore /\ n.heldOwners = ncNode.heldOwners /\ n.marks = ncNode.marks
      BY Zenon, <1>0, <2>1 DEF NcNode
    <2>3. ncTheirs' = ncTheirs /\ ncNode' = n BY <1>1, <2>1 DEF HandsOff
    <2>4. ncTheirs' \in {NcAbsent} \cup SUBSET Mark BY <2>3 DEF NcInv, NcTypeOK
    <2> QED BY <1>1, <2>2, <2>3, <2>4, HandsMove DEF HandsOff
  <1>2. CASE \E m \in Mark : HandMarks(m)
    <2>1. PICK m \in Mark : HandMarks(m) BY <1>2
    <2>2. PICK marks \in SUBSET Mark : marks = Flip(ncNode.marks, m)
      <3>1. Flip(ncNode.marks, m) \in SUBSET Mark BY <1>0, NodeFacts DEF Flip
      <3> QED BY <3>1
    <2>3. PICK n : n = [ncNode EXCEPT !.marks = marks] BY Zenon
    <2>4. /\ n \in NcNode /\ n.owners = ncNode.owners /\ n.reason = ncNode.reason
          /\ n.restore = ncNode.restore /\ n.heldOwners = ncNode.heldOwners /\ n.marks = marks
      BY <1>0, <2>3 DEF NcNode
    <2>5. ncNode' = n /\ ncTheirs' = marks /\ ~Ours(ncNode)
      BY <2>1, <2>2, <2>3, <2>4 DEF HandMarks
    <2> QED BY <2>1, <2>4, <2>5, HandsMove DEF HandMarks
  <1> QED BY <1>1, <1>2
==============================================================================
