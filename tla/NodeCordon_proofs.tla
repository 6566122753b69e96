-------------------------- MODULE NodeCordon_proofs --------------------------
(***************************************************************************)
(* The shared cordon of a node: the patches, and the theorems they and the *)
(* other steps (NodeCordon_steps) give.                                    *)
(***************************************************************************)
EXTENDS NodeCordon_steps

-----------------------------------------------------------------------------
(* Patches.                                                                *)

(* A patch of p that met its tests. *)
Meets(p, c, n) ==
    /\ c = ncCall[p] /\ c # NoCall /\ c \in NcCallType /\ c.read \in NcNode /\ AtPatch(p)
    /\ CallerOK(p) /\ Passes(c, ncNode) /\ n = NcWritten(c, ncNode)

LEMMA PatchFacts ==
  ASSUME NcInv, NEW p \in Caller, Patches(p), NEW c, c = ncCall[p], NEW n, n = NcWritten(c, ncNode)
  PROVE  /\ Meets(p, c, n) /\ ncNode' = n /\ ncNode \in NcNode
         /\ ncCall' = [ncCall EXCEPT ![p] = NoCall]
         /\ ncHolds' \subseteq ncHolds \cup (IF c.op = "cordon" THEN {p} ELSE {})
         /\ ncTheirs' = IF ncNode.handoff /\ ~Ours(n) THEN n.marks ELSE ncTheirs
         /\ UNCHANGED <<ncCache, ncInc, ncLegacy, ncKept>>
  <1>1. c # NoCall BY BusyFacts DEF Patches, NcInv
  <1>2. c \in NcCallType /\ c.read \in NcNode BY <1>1, CallFacts DEF Patches, AtPatch, NcInv
  <1>3. ncNode \in NcNode /\ CallerOK(p) BY DEF NcInv, NcTypeOK
  <1>4. Meets(p, c, n) /\ ncNode' = n BY <1>1, <1>2, <1>3 DEF Patches, Meets
  <1>5. ncTheirs' = IF ncNode.handoff /\ ~Ours(n) THEN n.marks ELSE ncTheirs BY <1>4 DEF Patches
  <1>6. ncCall' = [ncCall EXCEPT ![p] = NoCall] BY DEF Patches, Returns
  <1>7. ncHolds' \subseteq ncHolds \cup (IF c.op = "cordon" THEN {p} ELSE {}) BY DEF Patches, Returns
  <1> QED BY <1>3, <1>4, <1>5, <1>6, <1>7 DEF Patches

(* What is left to show of a patch: the calls of the others, the holders, and *)
(* on a node every cordon of which counts its holders the records.            *)
UndoesNone(p, n) ==
    \A q \in Caller \ {p} : ncCall[q] # NoCall /\ ncCall[q].op = "uncordon" /\ n.reason = ncCall[q].arg
                            => n.owners = NcAbsent
FullRead(q) ==
    ncCall[q] # NoCall /\ ncCall[q].read # NcAbsent /\ ncCall[q].op = "release"
    /\ ncCall[q].read.owners \subseteq ncCall[q].arg
ReadsLast(p, n) ==
    \A q \in Caller \ {p} : FullRead(q) =>
        ncCall[q].read.owners \cap Decoded(n.owners) # {} /\ ncCall[q].read.restore = n.restore
KeepsHuman(n) ==
    \A j \in ncKept : /\ Names(j) \cap Decoded(n.owners) # {}
                      /\ Names(j) \cap Decoded(n.owners) \subseteq Decoded(n.heldOwners)

LEMMA PatchDone ==
  ASSUME NcInv, NEW p \in Caller, Patches(p), NEW c, c = ncCall[p], NEW n, n = NcWritten(c, ncNode),
         n \in NcNode, c.op = "cordon" => p \in NcIncident,
         UndoesNone(p, n), \A j \in ncHolds' : HolderOK(j)',
         ~ncLegacy => CountedNode' /\ ReadsLast(p, n) /\ KeepsHuman(n)
  PROVE  NcInv'
  <1>1. /\ ncNode' = n /\ ncCall' = [ncCall EXCEPT ![p] = NoCall]
        /\ ncHolds' \subseteq ncHolds \cup (IF c.op = "cordon" THEN {p} ELSE {})
        /\ ncTheirs' = IF ncNode.handoff /\ ~Ours(n) THEN n.marks ELSE ncTheirs
        /\ UNCHANGED <<ncCache, ncInc, ncLegacy, ncKept>>
    BY PatchFacts, SMTT(40)
  <1>2. /\ ncCall' \in [Caller -> NcCallType \cup {NoCall}] /\ ncCall'[p] = NoCall
        /\ \A q \in Caller \ {p} : ncCall'[q] = ncCall[q]
    BY <1>1, SMTT(40) DEF NcInv, NcTypeOK
  <1>3. NcTypeOK'
    <2>1. ncTheirs' \in {NcAbsent} \cup SUBSET Mark BY <1>1, NodeFacts, SMTT(40) DEF NcInv, NcTypeOK
    <2>2. ncHolds' \subseteq NcIncident BY <1>1 DEF NcInv, NcTypeOK
    <2> QED BY <1>1, <1>2, <2>1, <2>2, SMTT(40) DEF NcInv, NcTypeOK
  <1>4. ASSUME NEW q \in Caller PROVE CallerOK(q)'
    <2>1. CASE q = p BY Zenon, <1>2, <2>1 DEF CallerOK
    <2>2. CASE q # p
      <3>1. \A k : Gone(q, k) => Gone(q, k)' BY ZenonT(40), <1>1, <2>2 DEF Gone
      <3>2. CallerOK(q) BY ZenonT(40) DEF NcInv
      <3>3. ncCall'[q] = ncCall[q] BY <1>2, <2>2, SMTT(40)
      <3>4. ncCall[q] # NoCall /\ ncCall[q].op = "uncordon" /\ n.reason = ncCall[q].arg => n.owners = NcAbsent
        BY <2>2, SMTT(40) DEF UndoesNone
      <3> QED BY ZenonT(40), <1>1, <3>1, <3>2, <3>3, <3>4 DEF CallerOK
    <2> QED BY <2>1, <2>2
  <1>5. ASSUME ~ncLegacy PROVE Counted'
    <2>1. ASSUME NEW q \in Caller PROVE CountedRead(q)'
      <3>1. CASE q = p BY <1>2, <3>1 DEF CountedRead
      <3>2. CASE q # p
        <4>1. CountedRead(q) /\ ncCall'[q] = ncCall[q] BY ZenonT(40), <1>2, <1>5, <3>2 DEF NcInv, Counted
        <4>2. FullRead(q) =>
                ncCall[q].read.owners \cap Decoded(n.owners) # {} /\ ncCall[q].read.restore = n.restore
          BY <1>5, <3>2 DEF ReadsLast
        <4> QED BY ZenonT(40), <1>1, <4>1, <4>2 DEF CountedRead, FullRead
      <3> QED BY <3>1, <3>2, SMTT(40)
    <2>2. ASSUME NEW j \in ncKept' PROVE KeptOK(j)'
      <3>1. KeptOK(j) BY <1>1, <1>5, SMTT(40) DEF NcInv, Counted
      <3>2. /\ Names(j) \cap Decoded(n.owners) # {}
            /\ Names(j) \cap Decoded(n.owners) \subseteq Decoded(n.heldOwners)
        BY Zenon, <1>1, <1>5 DEF KeepsHuman
      <3> QED BY Zenon, <1>1, <3>1, <3>2 DEF KeptOK
    <2> QED BY <1>5, <2>1, <2>2, SMTT(40) DEF Counted
  <1> QED BY <1>1, <1>3, <1>4, <1>5 DEF NcInv

(* Untouched stays true while the node keeps its reason and its missing set. *)
LEMMA UntouchedStays ==
  ASSUME NcInv, NEW p \in Caller, ncCall' = [ncCall EXCEPT ![p] = NoCall], NEW j, Untouched(j),
         ncNode'.owners = ncNode.owners, ncNode'.reason = ncNode.reason
  PROVE  Untouched(j)'
  <1>1. ncCall'[p] = NoCall /\ \A q \in Caller \ {p} : ncCall'[q] = ncCall[q] BY DEF NcInv, NcTypeOK
  <1>2. ~AtPatch(p)' BY <1>1 DEF AtPatch, NoCall
  <1>3. \A q \in Caller \ {p} : AtPatch(q)' => AtPatch(q) BY <1>1, SMTT(40) DEF AtPatch
  <1> QED BY <1>1, <1>2, <1>3 DEF Untouched

(* A mark changes neither the set nor the reason nor the node's marks. *)
LEMMA MarkPatch ==
  ASSUME NcInv, NEW p \in Caller, Patches(p), ncCall[p].op \in {"markOwner", "markReason"} PROVE NcInv'
  <1>1. PICK c : c = ncCall[p] OBVIOUS
  <1>2. PICK n : n = NcWritten(c, ncNode) OBVIOUS
  <1>3. /\ Meets(p, c, n) /\ ncNode' = n /\ ncNode \in NcNode /\ ncCall' = [ncCall EXCEPT ![p] = NoCall]
        /\ ncHolds' \subseteq ncHolds \cup (IF c.op = "cordon" THEN {p} ELSE {})
        /\ ncTheirs' = IF ncNode.handoff /\ ~Ours(n) THEN n.marks ELSE ncTheirs
        /\ UNCHANGED <<ncCache, ncInc, ncLegacy, ncKept>>
    BY <1>1, <1>2, PatchFacts, SMTT(40)
  <1>4. c # NoCall /\ c.op \in {"markOwner", "markReason"} /\ c.read \in NcNode BY <1>1, <1>3 DEF Meets
  <1>5. /\ n \in NcNode /\ n.owners = ncNode.owners /\ n.reason = ncNode.reason /\ n.marks = ncNode.marks
        /\ n.restore = ncNode.restore /\ Decoded(ncNode.heldOwners) \subseteq Decoded(n.heldOwners)
    <2>1. CASE c.op = "markOwner"
      <3>1. c.arg \in Owner BY Zenon, <1>1, <1>3, <2>1 DEF Meets, CallerOK
      <3>2. ncNode.heldOwners = c.read.heldOwners
        BY Zenon, <1>3, <2>1 DEF Meets, Passes, MarkOwnerPasses, heldOwnerSetGuard
      <3>3. PICK h \in SUBSET Owner : h = Decoded(c.read.heldOwners) \cup {c.arg}
        BY Zenon, <1>4, <3>1, NodeFacts
      <3>4. n = [ncNode EXCEPT !.heldOwners = h, !.held = TRUE]
        BY <1>2, <2>1, <3>3 DEF NcWritten, MarkOwnerWritten
      <3>5. /\ n \in NcNode /\ n.owners = ncNode.owners /\ n.reason = ncNode.reason
            /\ n.marks = ncNode.marks /\ n.restore = ncNode.restore /\ n.heldOwners = h
        BY Zenon, <1>3, <3>4 DEF NcNode
      <3>6. Decoded(h) = h BY CordonAssumption DEF Decoded
      <3> QED BY Zenon, <3>2, <3>3, <3>5, <3>6
    <2>2. CASE c.op = "markReason"
      <3>1. n = [ncNode EXCEPT !.held = TRUE] BY <1>2, <2>2 DEF NcWritten
      <3>2. /\ n \in NcNode /\ n.owners = ncNode.owners /\ n.reason = ncNode.reason
            /\ n.marks = ncNode.marks /\ n.restore = ncNode.restore /\ n.heldOwners = ncNode.heldOwners
        BY ZenonT(40), <1>3, <3>1 DEF NcNode
      <3> QED BY <3>2
    <2> QED BY <1>4, <2>1, <2>2
  <1>6. UndoesNone(p, n) BY <1>5 DEF UndoesNone, NcInv, CallerOK
  <1>7. ASSUME NEW j \in ncHolds' PROVE HolderOK(j)'
    <2>1. HolderOK(j) BY <1>3, <1>4 DEF NcInv
    <2>2. Untouched(j) => Untouched(j)' BY ZenonT(40), <1>3, <1>5, UntouchedStays
    <2> QED BY Zenon, <1>3, <1>5, <2>1, <2>2 DEF HolderOK, Down
  <1>8. ASSUME ~ncLegacy PROVE CountedNode' /\ ReadsLast(p, n) /\ KeepsHuman(n)
    <2>1. CountedNode /\ (\A q \in Caller : CountedRead(q)) /\ \A j \in ncKept : KeptOK(j)
      BY <1>8 DEF NcInv, Counted
    <2>2. CountedNode' BY ZenonT(40), <1>3, <1>5, <2>1 DEF CountedNode, Ours
    <2>3. ReadsLast(p, n) BY <1>5, <2>1 DEF ReadsLast, FullRead, CountedRead
    <2>4. KeepsHuman(n) BY Zenon, <1>5, <2>1 DEF KeepsHuman, KeptOK
    <2> QED BY <2>2, <2>3, <2>4, SMTT(40)
  <1>9. c.op # "cordon" BY <1>4
  <1> QED BY <1>1, <1>2, <1>5, <1>6, <1>7, <1>8, <1>9, PatchDone

(* Only an incident's own cordon brings its reason back. *)
LEMMA CordonPatch ==
  ASSUME NcInv, NEW p \in Caller, Patches(p), ncCall[p].op = "cordon" PROVE NcInv'
  <1>1. PICK c : c = ncCall[p] OBVIOUS
  <1>2. PICK n : n = NcWritten(c, ncNode) OBVIOUS
  <1>3. /\ Meets(p, c, n) /\ ncNode' = n /\ ncNode \in NcNode /\ ncCall' = [ncCall EXCEPT ![p] = NoCall]
        /\ ncHolds' \subseteq ncHolds \cup (IF c.op = "cordon" THEN {p} ELSE {})
        /\ ncTheirs' = IF ncNode.handoff /\ ~Ours(n) THEN n.marks ELSE ncTheirs
        /\ UNCHANGED <<ncCache, ncInc, ncLegacy, ncKept>>
    BY <1>1, <1>2, PatchFacts
  <1>4. PICK r \in NcNode : r = c.read BY Zenon, <1>3 DEF Meets
  <1>5. p # Janitor /\ c.arg = p /\ p \in NcIncident /\ ncInc[p] = "active" /\ c.op = "cordon"
    BY Zenon, <1>1, <1>3 DEF Meets, CallerOK, Caller
  <1>6. /\ ncNode.owners = r.owners
        /\ r.restore = NcAbsent => ncNode.marks = r.marks
    BY Zenon, <1>3, <1>4, <1>5 DEF Meets, Passes, CordonPasses, ownerSetGuard, snapshotGuard
  <1>7. n = CordonWritten(p, r, ncNode) BY <1>2, <1>4, <1>5 DEF NcWritten
  <1>8. /\ n \in NcNode
        /\ n.owners = Decoded(r.owners) \cup Seeded(p, r) \cup {Own(p)}
        /\ n.reason = p /\ n.marks = Mark
        /\ Seeded(p, r) = {} => n.heldOwners = ncNode.heldOwners
        /\ r.restore = NcAbsent => n.restore = r.marks
        /\ r.restore # NcAbsent => n.restore = ncNode.restore
    <2>1. p \in NcIncident /\ ncNode \in NcNode BY <1>3, <1>5, SMTT(40)
    <2>2. CordonLeft(p, r, ncNode, n) BY <1>7, <2>1, CordonLeaves, SMTT(40)
    <2> QED BY ZenonT(40), <2>2 DEF CordonLeft
  <1>9. n.owners # NcAbsent /\ n.owners # {} /\ n.reason # NcAbsent /\ Decoded(n.owners) = n.owners
    <2>1. n.owners \in SUBSET Owner
      <3>1. n.owners \in {NcAbsent} \cup SUBSET Owner /\ Decoded(r.owners) \in SUBSET Owner BY <1>8, NodeFacts
      <3>2. Seeded(p, r) \subseteq Owner
        BY <1>5, NameFacts, NodeFacts DEF Seeded, SeedOwner
      <3>3. Own(p) \in Owner BY <1>5, NameFacts
      <3> QED BY <1>8, <3>1, <3>2, <3>3
    <2> QED BY <1>5, <1>8, <2>1, CordonAssumption, SMTT(40) DEF Decoded
  <1>10. UndoesNone(p, n)
    <2> SUFFICES ASSUME NEW q \in Caller \ {p}, ncCall[q] # NoCall, ncCall[q].op = "uncordon", ncCall[q].arg = p
                 PROVE  FALSE
      BY <1>8 DEF UndoesNone
    <2>1. Gone(q, p) BY Zenon DEF NcInv, CallerOK
    <2> QED BY <1>5, <2>1, SMTT(40) DEF Gone
  <1>11. ASSUME NEW j \in ncHolds' PROVE HolderOK(j)'
    <2>1. Down(n) BY <1>8 DEF Down, Mark
    <2>2. CASE j = p
      <3>1. Own(p) \in n.owners /\ Own(p) \in Names(p) BY <1>5, <1>8, NameFacts
      <3>2. Names(p) \cap Decoded(n.owners) # {} BY <1>9, <3>1, SMTT(40)
      <3> QED BY ZenonT(40), <1>3, <1>5, <2>1, <2>2, <3>2 DEF HolderOK
    <2>3. CASE j # p
      <3>1. j \in ncHolds /\ j \in NcIncident /\ HolderOK(j) BY Zenon, <1>3, <2>3 DEF NcInv, NcTypeOK
      <3>2. CASE Names(j) \cap Decoded(ncNode.owners) # {}
        <4>1. Names(j) \cap Decoded(n.owners) # {} BY <1>6, <1>8, <1>9, <3>2, SMTT(40)
        <4> QED BY <1>3, <2>1, <3>1, <4>1, SMTT(40) DEF HolderOK
      <3>3. CASE Untouched(j)
        <4>1. r.owners = NcAbsent /\ r.reason = j BY <1>1, <1>3, <1>4, <1>5, <3>3, SMTT(40) DEF Meets, Untouched
        <4>2. LegacyCordonOwner(j) \in n.owners
          BY <1>8, <2>3, <3>1, <4>1, CordonAssumption, SMTT(40) DEF Seeded, SeedOwner
        <4>3. Names(j) \cap Decoded(n.owners) # {} BY <1>9, <3>1, <4>2, NameFacts
        <4> QED BY <1>3, <2>1, <3>1, <4>3 DEF HolderOK
      <3> QED BY <3>1, <3>2, <3>3 DEF HolderOK
    <2> QED BY <2>2, <2>3
  <1>12. ASSUME ~ncLegacy PROVE CountedNode' /\ ReadsLast(p, n) /\ KeepsHuman(n)
    <2>1. CountedNode /\ (\A q \in Caller : CountedRead(q)) /\ \A j \in ncKept : KeptOK(j)
      BY <1>12 DEF NcInv, Counted
    <2>2. (r.restore = NcAbsent <=> r.owners = NcAbsent) /\ (r.owners = NcAbsent => r.reason = NcAbsent)
      <3>1. CountedRead(p) /\ c # NoCall /\ r # NcAbsent BY Zenon, <1>3, <2>1, NodeFacts DEF Meets
      <3> QED BY <1>1, <1>4, <1>5, <3>1 DEF CountedRead
    <2>3. Seeded(p, r) = {} BY <2>2 DEF Seeded
    <2>4. n.restore = ncTheirs /\ n.restore # NcAbsent
      <3>1. CASE ncNode.owners = NcAbsent
        <4>1. n.restore = ncNode.marks BY <1>6, <1>8, <2>2, <3>1, SMTT(40)
        <4> QED BY ZenonT(40), <1>3, <2>1, <3>1, <4>1, NodeFacts, CordonAssumption DEF CountedNode
      <3>2. CASE ncNode.owners # NcAbsent BY <1>6, <1>8, <2>1, <2>2, <3>2 DEF CountedNode
      <3> QED BY <3>1, <3>2
    <2>5. ncTheirs' = ncTheirs BY Zenon, <1>3, <1>9 DEF Ours
    <2>6. CountedNode' BY Zenon, <1>3, <1>8, <1>9, <2>1, <2>4, <2>5 DEF CountedNode
    <2>7. ReadsLast(p, n)
      <3> SUFFICES ASSUME NEW q \in Caller \ {p}, FullRead(q)
                   PROVE  ncCall[q].read.owners \cap Decoded(n.owners) # {} /\ ncCall[q].read.restore = n.restore
        BY Zenon DEF ReadsLast
      <3>1. ncCall[q].read.owners \cap Decoded(ncNode.owners) # {} /\ ncCall[q].read.restore = ncNode.restore
        BY <2>1 DEF FullRead, CountedRead
      <3>2. ncNode.owners # NcAbsent BY <3>1 DEF Decoded
      <3>3. n.restore = ncNode.restore BY <1>6, <1>8, <2>2, <3>2
      <3> QED BY ZenonT(40), <1>6, <1>8, <1>9, <3>1, <3>3
    <2>8. KeepsHuman(n)
      <3> SUFFICES ASSUME NEW j \in ncKept
                   PROVE  /\ Names(j) \cap Decoded(n.owners) # {}
                          /\ Names(j) \cap Decoded(n.owners) \subseteq Decoded(n.heldOwners)
        BY Zenon DEF KeepsHuman
      <3>1. KeptOK(j) /\ j \in NcIncident BY <2>1, SMTT(40) DEF NcInv, NcTypeOK
      <3>2. j # p BY <1>5, <3>1, SMTT(40) DEF KeptOK
      <3>3. Own(p) \notin Names(j) BY <1>5, <3>1, <3>2, NameFacts, SMTT(40)
      <3>4. Names(j) \cap Decoded(n.owners) = Names(j) \cap Decoded(ncNode.owners)
        BY <1>6, <1>8, <1>9, <2>3, <3>3, SMTT(40)
      <3> QED BY Zenon, <1>8, <2>3, <3>1, <3>4 DEF KeptOK
    <2> QED BY <2>6, <2>7, <2>8, SMTT(40)
  <1> QED BY Zenon, <1>1, <1>2, <1>5, <1>8, <1>10, <1>11, <1>12, PatchDone

(* Stripping the annotations of a cordon nobody counts. *)
LEMMA ClearPatch ==
  ASSUME NcInv, NEW p \in Caller, Patches(p), ncCall[p].op \in {"clear", "uncordon"} PROVE NcInv'
  <1>1. PICK c : c = ncCall[p] OBVIOUS
  <1>2. PICK n : n = NcWritten(c, ncNode) OBVIOUS
  <1>3. /\ Meets(p, c, n) /\ ncNode' = n /\ ncNode \in NcNode /\ ncCall' = [ncCall EXCEPT ![p] = NoCall]
        /\ ncHolds' \subseteq ncHolds \cup (IF c.op = "cordon" THEN {p} ELSE {})
        /\ UNCHANGED <<ncCache, ncInc, ncLegacy, ncKept>>
    BY <1>1, <1>2, PatchFacts
  <1>4. PICK r \in NcNode : r = c.read BY Zenon, <1>3 DEF Meets
  <1>5. c.op \in {"clear", "uncordon"} /\ c # NoCall /\ r # NcAbsent BY Zenon, <1>1, <1>3, <1>4, NodeFacts DEF Meets
  <1>6. ncHolds' \subseteq ncHolds BY <1>3, <1>5
  <1>7. PICK k \in NcIncident : Gone(p, k) /\ r.owners = NcAbsent /\ r.reason = k
    <2>1. CASE c.op = "clear"
      <3>1. PICK k \in NcIncident : Gone(p, k) /\ c.arg \subseteq Names(k)
        BY Zenon, <1>1, <1>3, <1>5, <2>1 DEF Meets, CallerOK
      <3>2. r.owners = NcAbsent /\ LegacyCordonOwner(r.reason) \in c.arg
        BY Zenon, <1>1, <1>3, <1>4, <1>5, <2>1 DEF Meets, CallerOK
      <3>3. r.reason = k BY Zenon, <3>1, <3>2, NameFacts
      <3> QED BY <3>1, <3>2, <3>3
    <2>2. CASE c.op = "uncordon"
      BY Zenon, <1>1, <1>3, <1>4, <1>5, <2>2 DEF Meets, CallerOK, Gone
    <2> QED BY <1>5, <2>1, <2>2
  <1>8. k \notin ncHolds BY <1>1, <1>5, <1>7, GoneIsNoHolder
  <1>9. n \in NcNode /\ n.reason = NcAbsent /\ n.owners = ncNode.owners
        /\ (c.op = "clear" => n.marks = ncNode.marks)
    <2>1. k # NcAbsent BY CordonAssumption, SMTT(40)
    <2>2. CASE c.op = "clear"
      <3>1. n = removeOurAnnotations(r, ncNode) BY <1>2, <1>4, <2>2, SMTT(40) DEF NcWritten
      <3> QED BY <1>3, <1>7, <2>1, <3>1, RemovalLeaves
    <2>3. CASE c.op = "uncordon"
      <3>1. n = Restored(r, ncNode) BY <1>2, <1>4, <2>3 DEF NcWritten
      <3> QED BY <1>3, <1>7, <2>1, <2>3, <3>1, RestoreLeaves
    <2> QED BY <1>5, <2>2, <2>3
  <1>10. UndoesNone(p, n)
    <2> SUFFICES ASSUME NEW q \in Caller \ {p}, ncCall[q] # NoCall, ncCall[q].op = "uncordon",
                        ncCall[q].arg = NcAbsent
                 PROVE  FALSE
      BY <1>9 DEF UndoesNone
    <2>1. Gone(q, NcAbsent) BY Zenon DEF NcInv, CallerOK
    <2> QED BY <2>1, CordonAssumption DEF Gone
  <1>11. ASSUME NEW j \in ncHolds' PROVE HolderOK(j)'
    <2>1. j \in ncHolds /\ HolderOK(j) BY <1>6 DEF NcInv
    <2>2. ~Untouched(j)
      <3>1. SUFFICES ASSUME Untouched(j) PROVE FALSE OBVIOUS
      <3>2. r.reason = j BY Zenon, <1>1, <1>3, <1>4, <1>5, <3>1 DEF Meets, Untouched
      <3> QED BY <1>7, <1>8, <2>1, <3>2
    <2>3. Names(j) \cap Decoded(ncNode.owners) # {} BY <2>1, <2>2 DEF HolderOK
    <2>4. c.op = "clear"
      <3>1. SUFFICES ASSUME c.op = "uncordon" PROVE FALSE BY <1>5
      <3>2. ncNode.reason = c.arg BY Zenon, <1>3, <3>1 DEF Meets, Passes, UncordonPasses
      <3>3. ncNode.owners = NcAbsent BY Zenon, <1>1, <1>3, <1>5, <3>1, <3>2 DEF Meets, CallerOK
      <3> QED BY <2>3, <3>3 DEF Decoded
    <2>5. n.marks = ncNode.marks BY <1>9, <2>4
    <2> QED BY ZenonT(40), <1>3, <1>9, <2>1, <2>3, <2>5 DEF HolderOK, Down
  <1>12. ncLegacy
    BY Zenon, <1>1, <1>4, <1>5 DEF NcInv, Counted, CountedRead
  <1>13. c.op # "cordon" BY <1>5
  <1> QED BY Zenon, <1>1, <1>2, <1>9, <1>10, <1>11, <1>12, <1>13, PatchDone

(* A release that leaves other names in the set. *)
LEMMA PartialPatch ==
  ASSUME NcInv, NEW p \in Caller, Patches(p), ncCall[p].op = "release",
         ~(ncCall[p].read.owners \subseteq ncCall[p].arg)
  PROVE  NcInv'
  <1>1. PICK c : c = ncCall[p] OBVIOUS
  <1>2. PICK n : n = NcWritten(c, ncNode) OBVIOUS
  <1>3. /\ Meets(p, c, n) /\ ncNode' = n /\ ncNode \in NcNode /\ ncCall' = [ncCall EXCEPT ![p] = NoCall]
        /\ ncHolds' \subseteq ncHolds \cup (IF c.op = "cordon" THEN {p} ELSE {})
        /\ ncTheirs' = IF ncNode.handoff /\ ~Ours(n) THEN n.marks ELSE ncTheirs
        /\ UNCHANGED <<ncCache, ncInc, ncLegacy, ncKept>>
    BY Zenon, <1>1, <1>2, PatchFacts
  <1>4. PICK r \in NcNode : r = c.read BY Zenon, <1>3 DEF Meets
  <1>5. c.op = "release" /\ c # NoCall /\ r # NcAbsent /\ r.owners # NcAbsent /\ ncHolds' \subseteq ncHolds
    BY Zenon, <1>1, <1>3, <1>4, NodeFacts DEF Meets, CallerOK
  <1>6. PICK k \in NcIncident : Gone(p, k) /\ c.arg \subseteq Names(k)
    BY Zenon, <1>1, <1>3, <1>5 DEF Meets, CallerOK
  <1>7. ncNode.owners = r.owners /\ ncNode.heldOwners = r.heldOwners
    BY Zenon, <1>3, <1>4, <1>5 DEF Meets, Passes, ReleasePasses, ownerSetGuard, heldOwnerSetGuard
  <1>8. PICK S \in SUBSET Owner : S = c.arg BY Zenon, <1>6, NameFacts
  <1>9. n = ReleaseWritten(S, r, ncNode) /\ ~(r.owners \subseteq S)
    BY <1>1, <1>2, <1>4, <1>5, <1>8, SMTT(40) DEF NcWritten
  <1>10. /\ n \in NcNode /\ n.owners = r.owners \ S /\ n.reason = ncNode.reason /\ n.marks = ncNode.marks
         /\ n.restore = ncNode.restore /\ Decoded(ncNode.heldOwners) \ S \subseteq Decoded(n.heldOwners)
    <2>1. PartialLeft(S, r, ncNode, n) BY <1>3, <1>5, <1>7, <1>9, PartialLeaves, ZenonT(40)
    <2> QED BY <2>1 DEF PartialLeft
  <1>11. r.owners \in SUBSET Owner BY <1>5, NodeFacts, SMTT(40)
  <1>12. n.owners # NcAbsent /\ n.owners # {} /\ Decoded(n.owners) = n.owners
         /\ Decoded(ncNode.owners) = r.owners
    BY <1>1, <1>4, <1>5, <1>7, <1>8, <1>10, <1>11, CordonAssumption DEF Decoded
  <1>13. ASSUME NEW j, j # k PROVE /\ Names(j) \cap Decoded(n.owners) = Names(j) \cap Decoded(ncNode.owners)
                                  /\ Names(j) \cap S = {}
    <2>1. Names(j) \cap Names(k) = {} BY <1>13, NameFacts, SMTT(40)
    <2> QED BY ZenonT(40), <1>6, <1>8, <1>10, <1>12, <2>1
  <1>14. k \notin ncHolds /\ (~ncLegacy => k \notin ncKept) BY <1>1, <1>5, <1>6, GoneIsNoHolder, SMTT(40)
  <1>15. UndoesNone(p, n)
    <2> SUFFICES ASSUME NEW q \in Caller \ {p}, ncCall[q] # NoCall, ncCall[q].op = "uncordon",
                        ncNode.reason = ncCall[q].arg
                 PROVE  FALSE
      BY <1>10, SMTT(40) DEF UndoesNone
    <2>1. CallerOK(q) BY Zenon DEF NcInv
    <2> QED BY <1>5, <1>7, <2>1, SMTT(40) DEF CallerOK
  <1>16. ASSUME NEW j \in ncHolds' PROVE HolderOK(j)'
    <2>1. HolderOK(j) /\ j # k BY <1>5, <1>14, SMTT(40) DEF NcInv
    <2>2. Names(j) \cap Decoded(n.owners) # {} BY <1>5, <1>7, <1>13, <2>1, SMTT(40) DEF HolderOK, Untouched
    <2> QED BY ZenonT(40), <1>3, <1>10, <2>1, <2>2 DEF HolderOK, Down
  <1>17. ASSUME ~ncLegacy PROVE CountedNode' /\ ReadsLast(p, n) /\ KeepsHuman(n)
    <2>1. CountedNode /\ (\A q \in Caller : CountedRead(q)) /\ \A j \in ncKept : KeptOK(j)
      BY <1>17, SMTT(40) DEF NcInv, Counted
    <2>2. ncTheirs' = ncTheirs BY <1>3, <1>12, SMTT(40) DEF Ours
    <2>3. CountedNode' BY <1>3, <1>5, <1>7, <1>10, <1>12, <2>1, <2>2 DEF CountedNode
    <2>4. ReadsLast(p, n)
      <3> SUFFICES ASSUME NEW q \in Caller \ {p}, FullRead(q)
                   PROVE  ncCall[q].read.owners \cap Decoded(n.owners) # {} /\ ncCall[q].read.restore = n.restore
        BY ZenonT(40) DEF ReadsLast
      <3>1. /\ ncCall[q].read.owners \cap Decoded(ncNode.owners) # {}
            /\ ncCall[q].read.restore = ncNode.restore /\ ncCall[q] # NoCall
            /\ ncCall[q].read.owners \subseteq ncCall[q].arg
        BY <2>1 DEF FullRead, CountedRead
      <3>2. PICK j \in NcIncident : Gone(q, j) /\ ncCall[q].arg \subseteq Names(j)
        BY ZenonT(40) DEF FullRead, NcInv, CallerOK
      <3>3. j # k BY Zenon, <1>1, <1>5, <1>6, <3>1, <3>2, OneGivesUp
      <3> QED BY ZenonT(40), <1>10, <1>13, <3>1, <3>2, <3>3
    <2>5. KeepsHuman(n)
      <3> SUFFICES ASSUME NEW j \in ncKept
                   PROVE  /\ Names(j) \cap Decoded(n.owners) # {}
                          /\ Names(j) \cap Decoded(n.owners) \subseteq Decoded(n.heldOwners)
        BY Zenon DEF KeepsHuman
      <3>1. KeptOK(j) /\ j # k BY ZenonT(40), <1>14, <1>17, <2>1
      <3> QED BY Zenon, <1>10, <1>13, <3>1 DEF KeptOK
    <2> QED BY <2>3, <2>4, <2>5, SMTT(40)
  <1>18. c.op # "cordon" BY <1>5
  <1> QED BY Zenon, <1>1, <1>2, <1>10, <1>15, <1>16, <1>17, <1>18, PatchDone

(* The last release: the node goes back to what other hands left. *)
LEMMA FullPatch ==
  ASSUME NcInv, NEW p \in Caller, Patches(p), ncCall[p].op = "release",
         ncCall[p].read.owners \subseteq ncCall[p].arg
  PROVE  NcInv'
  <1>1. PICK c : c = ncCall[p] OBVIOUS
  <1>2. PICK n : n = NcWritten(c, ncNode) BY Zenon
  <1>3. /\ Meets(p, c, n) /\ ncNode' = n /\ ncNode \in NcNode /\ ncCall' = [ncCall EXCEPT ![p] = NoCall]
        /\ ncHolds' \subseteq ncHolds \cup (IF c.op = "cordon" THEN {p} ELSE {})
        /\ ncTheirs' = IF ncNode.handoff /\ ~Ours(n) THEN n.marks ELSE ncTheirs
        /\ UNCHANGED <<ncCache, ncInc, ncLegacy, ncKept>>
    BY Zenon, <1>1, <1>2, PatchFacts
  <1>4. PICK r \in NcNode : r = c.read BY Zenon, <1>3 DEF Meets
  <1>5. c.op = "release" /\ c # NoCall /\ r # NcAbsent /\ r.owners # NcAbsent /\ ncHolds' \subseteq ncHolds
    BY Zenon, <1>1, <1>3, <1>4, NodeFacts DEF Meets, CallerOK
  <1>6. PICK k \in NcIncident : Gone(p, k) /\ c.arg \subseteq Names(k)
    BY Zenon, <1>1, <1>3, <1>5 DEF Meets, CallerOK
  <1>7. ncNode.owners = r.owners /\ r.owners \subseteq Names(k) /\ ncNode.handoff = r.handoff
        /\ Decoded(ncNode.owners) = r.owners
    BY Zenon, <1>1, <1>3, <1>4, <1>5, <1>6 DEF Meets, Passes, ReleasePasses, ownerSetGuard, restoreGuard, Decoded
  <1>8. n = IF r.handoff THEN removeOurAnnotations(r, ncNode) ELSE Restored(r, ncNode)
    BY <1>1, <1>2, <1>4, <1>5, SMTT(40) DEF NcWritten, ReleaseWritten, restoreOps
  <1>9. /\ n \in NcNode /\ n.owners = NcAbsent
        /\ n.reason = IF r.reason # NcAbsent THEN NcAbsent ELSE ncNode.reason
        /\ n.restore = IF r.restore # NcAbsent THEN NcAbsent ELSE ncNode.restore
        /\ r.handoff => n.marks = ncNode.marks
        /\ ~r.handoff => n.marks = (priorMarks(r) \cap {"unschedulable"})
                                   \cup (ncNode.marks \cap {"do-not-disrupt"} \cap priorMarks(r))
    <2>1. CASE r.handoff
      <3>1. n = removeOurAnnotations(r, ncNode) BY <1>8, <2>1, SMTT(40)
      <3>2. /\ n \in NcNode /\ n.owners = NcAbsent /\ n.marks = ncNode.marks
            /\ n.reason = IF r.reason # NcAbsent THEN NcAbsent ELSE ncNode.reason
            /\ n.restore = IF r.restore # NcAbsent THEN NcAbsent ELSE ncNode.restore
        BY <1>3, <1>5, <3>1, RemovalLeaves, SMTT(40)
      <3> QED BY <2>1, <3>2, ZenonT(40)
    <2>2. CASE ~r.handoff
      <3>1. n = Restored(r, ncNode) BY <1>8, <2>2, SMTT(40)
      <3>2. /\ n \in NcNode /\ n.owners = NcAbsent
            /\ n.reason = IF r.reason # NcAbsent THEN NcAbsent ELSE ncNode.reason
            /\ n.restore = IF r.restore # NcAbsent THEN NcAbsent ELSE ncNode.restore
            /\ n.marks = (priorMarks(r) \cap {"unschedulable"})
                         \cup (ncNode.marks \cap {"do-not-disrupt"} \cap priorMarks(r))
        BY <1>3, <1>5, <3>1, RestoreLeaves, SMTT(40)
      <3> QED BY <2>2, <3>2, Zenon
    <2> QED BY <2>1, <2>2, SMTT(40)
  <1>10. k \notin ncHolds /\ (~ncLegacy => k \notin ncKept) BY ZenonT(40), <1>1, <1>5, <1>6, GoneIsNoHolder
  <1>11. UndoesNone(p, n) BY <1>9 DEF UndoesNone
  <1>12. ncHolds = {}
    <2> SUFFICES ASSUME NEW j \in ncHolds PROVE FALSE OBVIOUS
    <2>1. HolderOK(j) /\ j # k BY <1>10, SMTT(40) DEF NcInv
    <2>2. Names(j) \cap Names(k) # {} BY <1>5, <1>7, <2>1, SMTT(40) DEF HolderOK, Untouched
    <2> QED BY <2>1, <2>2, NameFacts
  <1>13. ASSUME ~ncLegacy PROVE CountedNode' /\ ReadsLast(p, n) /\ KeepsHuman(n)
    <2>1. CountedNode /\ (\A q \in Caller : CountedRead(q)) /\ \A j \in ncKept : KeptOK(j)
      BY <1>13 DEF NcInv, Counted
    <2>2. r.reason # NcAbsent /\ r.restore = ncNode.restore /\ r.restore # NcAbsent
      <3>1. CountedRead(p) BY <2>1
      <3> QED BY ZenonT(40), <1>1, <1>4, <1>5, <1>7, <2>1, <3>1 DEF CountedRead, CountedNode
    <2>3. n.reason = NcAbsent /\ n.restore = NcAbsent /\ ~Ours(n) BY Zenon, <1>9, <2>2 DEF Ours
    <2>4. n.marks = ncTheirs'
      <3>1. CASE r.handoff BY Zenon, <1>3, <1>7, <2>3, <3>1
      <3>2. CASE ~r.handoff
        <4>1. ncTheirs' = ncTheirs BY Zenon, <1>3, <1>7, <3>2
        <4>2. priorMarks(r) = ncTheirs /\ ncNode.marks = Mark
          BY ZenonT(40), <1>5, <1>7, <2>1, <2>2 DEF priorMarks, CountedNode
        <4>3. ncTheirs \in SUBSET Mark BY <2>2, <4>2, NodeFacts, SMTT(40) DEF priorMarks
        <4>4. n.marks = (ncTheirs \cap {"unschedulable"})
                        \cup (Mark \cap {"do-not-disrupt"} \cap ncTheirs)
          BY <1>9, <3>2, <4>2
        <4> QED BY ZenonT(40), <4>1, <4>3, <4>4 DEF Mark
      <3> QED BY <3>1, <3>2
    <2>5. CountedNode' BY Zenon, <1>3, <1>9, <2>1, <2>3, <2>4, CordonAssumption DEF CountedNode
    <2>6. ReadsLast(p, n)
      <3> SUFFICES ASSUME NEW q \in Caller \ {p}, FullRead(q) PROVE FALSE BY SMTT(40) DEF ReadsLast
      <3>1. /\ ncCall[q].read.owners \cap Decoded(ncNode.owners) # {} /\ ncCall[q] # NoCall
            /\ ncCall[q].read.owners \subseteq ncCall[q].arg
        BY <2>1 DEF FullRead, CountedRead
      <3>2. PICK j \in NcIncident : Gone(q, j) /\ ncCall[q].arg \subseteq Names(j)
        BY ZenonT(40) DEF FullRead, NcInv, CallerOK
      <3>3. Names(j) \cap Names(k) # {} BY <1>7, <3>1, <3>2, SMTT(40)
      <3>4. j = k BY <3>3, NameFacts, Zenon
      <3> QED BY Zenon, <1>1, <1>5, <1>6, <3>1, <3>2, <3>4, OneGivesUp
    <2>7. KeepsHuman(n)
      <3> SUFFICES ASSUME NEW j \in ncKept PROVE FALSE BY Zenon DEF KeepsHuman
      <3>1. KeptOK(j) /\ j # k BY ZenonT(40), <1>10, <1>13, <2>1
      <3>2. Names(j) \cap Names(k) # {} BY <1>7, <3>1, SMTT(40) DEF KeptOK
      <3> QED BY <3>1, <3>2, NameFacts
    <2> QED BY <2>5, <2>6, <2>7, SMTT(40)
  <1>14. c.op # "cordon" /\ \A j \in ncHolds' : HolderOK(j)' BY <1>5, <1>12, SMTT(40)
  <1> QED BY Zenon, <1>1, <1>2, <1>9, <1>11, <1>13, <1>14, PatchDone

LEMMA PatchesStep ==
  ASSUME NcInv, NEW p \in Caller, Patches(p) PROVE NcInv'
  <1>1. ncCall[p] # NoCall BY BusyFacts DEF Patches, NcInv
  <1>2. ncCall[p].op \in NcOp BY <1>1, CallFacts DEF NcInv
  <1> QED BY <1>2, MarkPatch, CordonPatch, ClearPatch, PartialPatch, FullPatch DEF NcOp

-----------------------------------------------------------------------------
(* The theorems.                                                           *)

LEMMA CordonInitInv == CordonInit => NcInv
  <1> SUFFICES ASSUME CordonInit PROVE NcInv OBVIOUS
  <1>1. /\ ncCache = CordonedNode(ncNode) /\ ncInc = [i \in NcIncident |-> "active"]
        /\ ncCall = [p \in Caller |-> NoCall] /\ ncKept = {}
    BY DEF CordonInit
  <1>2. \A p \in Caller : ncCall[p] = NoCall BY <1>1
  <1>3. ncNode \in NcNode =>
           /\ ncCache \in NcView /\ ncInc \in [NcIncident -> NcState]
           /\ ncCall \in [Caller -> NcCallType \cup {NoCall}] /\ ncKept \subseteq NcIncident
    <2>1. ncInc \in [NcIncident -> NcState] BY <1>1 DEF NcState
    <2>2. ncCall \in [Caller -> NcCallType \cup {NoCall}] BY <1>1, SMTT(40)
    <2>3. ncNode \in NcNode => ncCache \in NcView BY <1>1, NodeFacts DEF CordonedNode, NotListed, NcView
    <2> QED BY <1>1, <2>1, <2>2, <2>3
  <1>4. \A p \in Caller : CallerOK(p) BY Zenon, <1>2 DEF CallerOK
  <1>5. CASE InitNew
    <2>1. ncTheirs = {} /\ ncNode = CleanNode({}) /\ ncHolds = {} /\ ncLegacy = FALSE BY <1>5, SMTT(40) DEF InitNew
    <2>2. ncNode \in NcNode BY <2>1 DEF CleanNode, NcNode, Mark
    <2>3. NcTypeOK BY Zenon, <1>3, <2>1, <2>2 DEF NcTypeOK
    <2>4. ncNode.owners = NcAbsent /\ ncNode.reason = NcAbsent /\ ncNode.restore = NcAbsent /\ ncNode.marks = {}
      BY <2>1 DEF CleanNode
    <2>5. ncCache.owners = NcAbsent /\ ncCache.reason = NcAbsent
      BY Zenon, <1>1, <2>4 DEF CordonedNode, Ours, NotListed
    <2>6. CountedNode BY ZenonT(40), <2>1, <2>4, <2>5, CordonAssumption DEF CountedNode
    <2>7. Counted BY <1>1, <1>2, <2>6 DEF Counted, CountedRead
    <2> QED BY <1>4, <2>1, <2>3, <2>7 DEF NcInv
  <1>6. CASE InitLegacy
    <2>1. PICK x \in NcParks, record \in NcRecords :
             ncNode = LegacyNode(x, record) /\ ncHolds = {x} /\ ncTheirs = record /\ ncLegacy = TRUE
      BY <1>6 DEF InitLegacy
    <2>2. x \in NcIncident /\ record \in {NcAbsent} \cup SUBSET Mark BY CordonAssumption
    <2>3. PICK e : e = CleanNode(Mark) OBVIOUS
    <2>4. e \in NcNode /\ e.owners = NcAbsent /\ e.marks = Mark BY <2>3 DEF CleanNode, NcNode, Mark
    <2>5. ncNode = [e EXCEPT !.reason = x, !.restore = record] BY <2>1, <2>3 DEF LegacyNode
    <2>6. ncNode \in NcNode /\ ncNode.owners = NcAbsent /\ ncNode.marks = Mark /\ ncNode.reason = x
      BY ZenonT(40), <2>2, <2>4, <2>5 DEF NcNode
    <2>7. NcTypeOK BY <1>3, <2>1, <2>2, <2>6, SMTT(40) DEF NcTypeOK
    <2>8. \A p \in Caller : ~AtPatch(p)
      <3>1. NoCall.op = "none" BY DEF NoCall
      <3> QED BY <1>2, <3>1, Zenon DEF AtPatch
    <2>9. HolderOK(x) BY <1>1, <2>2, <2>6, <2>8 DEF HolderOK, Untouched, Down, Mark
    <2> QED BY <1>4, <2>1, <2>7, <2>9 DEF NcInv
  <1> QED BY <1>5, <1>6 DEF CordonInit

LEMMA CordonStep == NcInv /\ [CordonNext]_ncVars => NcInv'
  <1> SUFFICES ASSUME NcInv, [CordonNext]_ncVars PROVE NcInv' OBVIOUS
  <1>1. CASE UNCHANGED ncVars
    <2>1. \A q \in Caller : ncCall'[q] \in {ncCall[q], NoCall} BY <1>1 DEF ncVars
    <2>2. /\ UNCHANGED <<ncNode, ncCache, ncInc, ncTheirs, ncLegacy, ncKept>> /\ ncHolds' \subseteq ncHolds
          /\ ncCall' \in [Caller -> NcCallType \cup {NoCall}]
      BY <1>1 DEF ncVars, NcInv, NcTypeOK
    <2> QED BY <2>1, <2>2, CallsMove
  <1>2. CASE \E p \in Caller : Gets(p) \/ Patches(p) \/ Loses(p) \/ Fails(p)
    BY <1>2, GetsStep, PatchesStep, LosesStep, FailsStep
  <1>3. CASE \E i \in NcIncident : cordonForIncident(i) \/ uncordonForIncident(i) \/ RowMoves(i) \/ Prunes(i)
    BY <1>3, IncidentStarts, RowMovesStep, PrunesStep
  <1>4. CASE NcCacheSyncs BY <1>4, CacheSyncsStep
  <1>5. CASE \E o \in Owner : reconcileCordonOwner(o) BY <1>5, JanitorStarts
  <1>6. CASE NcRestarts BY <1>6, RestartsStep
  <1>7. CASE HandsOff \/ \E m \in Mark : HandMarks(m) BY <1>7, HandSteps
  <1> QED BY <1>1, <1>2, <1>3, <1>4, <1>5, <1>6, <1>7 DEF CordonNext

(* CordonForOwner, ReleaseCordonOwners, UncordonIfReason, clearOurAnnotations  *)
(* and the janitor's verdicts: every call gives up the names of one incident   *)
(* only, that incident has left the holders or its row is resolved or pruned,  *)
(* every holder is recorded on a node that is down, and on a node every cordon *)
(* of which counts its holders the set, the reason and the restore record come *)
(* and go together.                                                            *)
THEOREM CordonInvariant == CordonSpec => []NcInv
  BY CordonInitInv, CordonStep, PTL DEF CordonSpec

(* CordonForOwner / ReleaseCordonOwners: whatever the other remediations, the  *)
(* janitor, a restart, a lost reply or a person do, the node of a remediation  *)
(* that is worked and holds it stays down with that hold on it.                *)
THEOREM HolderKeepsDown == CordonSpec => []HolderKeepsNodeDown
  <1>1. NcInv => HolderKeepsNodeDown
    BY DEF NcInv, HolderOK, HolderKeepsNodeDown, HoldsOf, Untouched
  <1> QED BY <1>1, CordonInvariant, PTL

(* markCordonHeld / dropHeldOwnersOps: on a node every cordon of which counts  *)
(* its holders, a hold recorded as a human's keeps the node down after its row *)
(* is pruned.                                                                  *)
THEOREM CountedVerdictKept == CordonSpec => [](~ncLegacy => HumanVerdictKept)
  <1>1. NcInv => (~ncLegacy => HumanVerdictKept)
    <2> SUFFICES ASSUME NcInv, ~ncLegacy, NEW i \in ncKept PROVE Down(ncNode) /\ HoldsOf(i, ncNode)
      BY DEF HumanVerdictKept
    <2>1. CountedNode /\ KeptOK(i) BY DEF NcInv, Counted
    <2>2. ncNode.owners # NcAbsent BY <2>1 DEF KeptOK, Decoded
    <2> QED BY <2>1, <2>2 DEF KeptOK, CountedNode, Down, Mark, HoldsOf
  <1> QED BY <1>1, CordonInvariant, PTL

HandNat == ncHand \in Nat

LEMMA HandsAreCounted == CordonSpec => []HandNat
  <1>1. CordonInit => HandNat BY DEF CordonInit, HandNat
  <1>2. HandNat /\ [CordonNext]_ncVars => HandNat'
    <2> SUFFICES ASSUME ncHand \in Nat, [CordonNext]_ncVars PROVE ncHand' \in Nat BY DEF HandNat
    <2>1. CASE HandsOff \/ \E m \in Mark : HandMarks(m)
      <3>1. ncHand' = ncHand + 1 BY <2>1 DEF HandsOff, HandMarks
      <3> QED BY <3>1
    <2>2. CASE ncHand' = ncHand BY <2>2
    <2>3. CASE \E p \in Caller : Gets(p) \/ Patches(p) \/ Loses(p) \/ Fails(p)
      <3>1. ncHand' = ncHand BY <2>3, Zenon DEF Gets, Patches, Loses, Fails
      <3> QED BY <3>1
    <2>4. CASE \E i \in NcIncident : cordonForIncident(i) \/ uncordonForIncident(i) \/ RowMoves(i) \/ Prunes(i)
      <3>1. ncHand' = ncHand
        BY <2>4, Zenon DEF cordonForIncident, uncordonForIncident, RowMoves, Prunes
      <3> QED BY <3>1
    <2>5. CASE NcCacheSyncs \/ NcRestarts \/ \E o \in Owner : reconcileCordonOwner(o)
      <3>1. ncHand' = ncHand BY <2>5, Zenon DEF NcCacheSyncs, NcRestarts, reconcileCordonOwner
      <3> QED BY <3>1
    <2>6. UNCHANGED ncVars => ncHand' = ncHand BY DEF ncVars
    <2> QED BY <2>1, <2>2, <2>3, <2>4, <2>5, <2>6 DEF CordonNext
  <1> QED BY <1>1, <1>2, PTL DEF CordonSpec

(* No patch but that of an uncounted uncordon makes a taken-over node schedulable. *)
LEMMA TakeoverKept ==
  ASSUME NcInv, NEW p \in Caller, Patches(p), ncNode.handoff, Down(ncNode), ncCall[p].op # "uncordon"
  PROVE  Down(ncNode')
  <1>1. PICK c : c = ncCall[p] OBVIOUS
  <1>2. PICK n : n = NcWritten(c, ncNode) OBVIOUS
  <1>3. Meets(p, c, n) /\ ncNode' = n /\ ncNode \in NcNode BY <1>1, <1>2, PatchFacts, SMTT(40)
  <1>4. PICK r \in NcNode : r = c.read BY <1>3 DEF Meets
  <1>5. c.op \in NcOp \ {"uncordon"} /\ c # NoCall /\ r # NcAbsent
    BY Zenon, <1>1, <1>3, <1>4, CallFacts, NodeFacts DEF Meets, NcInv
  <1>6. CASE c.op = "cordon"
    <2>1. p \in NcIncident /\ c.arg = p BY Zenon, <1>1, <1>3, <1>5, <1>6 DEF Meets, CallerOK, Caller
    <2>2. n = CordonWritten(p, r, ncNode) BY <1>2, <1>4, <1>6, <2>1 DEF NcWritten
    <2>3. CordonLeft(p, r, ncNode, n) BY ZenonT(40), <1>3, <2>1, <2>2, CordonLeaves
    <2> QED BY Zenon, <1>3, <2>3 DEF CordonLeft, Down, Mark
  <1>7. CASE c.op = "release"
    <2>1. n = ReleaseWritten(c.arg, r, ncNode) BY <1>2, <1>4, <1>7 DEF NcWritten
    <2>2. CASE r.owners \subseteq c.arg
      <3>1. r.handoff
        BY Zenon, <1>3, <1>4, <1>7, <2>2 DEF Meets, Passes, ReleasePasses, restoreGuard
      <3>2. n = removeOurAnnotations(r, ncNode) BY <2>1, <2>2, <3>1, SMTT(40) DEF ReleaseWritten, restoreOps
      <3>3. n.marks = ncNode.marks BY <1>3, <3>2, RemovalLeaves
      <3> QED BY <1>3, <3>3 DEF Down
    <2>3. CASE ~(r.owners \subseteq c.arg)
      <3>1. PICK o, h : n = [ncNode EXCEPT !.owners = o, !.heldOwners = h] BY Zenon, <2>1, <2>3 DEF ReleaseWritten
      <3>2. n.marks = ncNode.marks BY <1>3, <3>1 DEF NcNode
      <3> QED BY <1>3, <3>2 DEF Down
    <2> QED BY <2>2, <2>3
  <1>8. CASE c.op = "clear"
    <2>1. n = removeOurAnnotations(r, ncNode) BY <1>2, <1>4, <1>8 DEF NcWritten
    <2>2. n.marks = ncNode.marks BY <1>3, <2>1, RemovalLeaves
    <2> QED BY <1>3, <2>2 DEF Down
  <1>9. CASE c.op \in {"markOwner", "markReason"}
    <2>1. n.marks = ncNode.marks
      BY <1>2, <1>3, <1>9 DEF NcWritten, MarkOwnerWritten, NcNode
    <2> QED BY <1>3, <2>1 DEF Down
  <1> QED BY <1>5, <1>6, <1>7, <1>8, <1>9 DEF NcOp

(* cordonSnapshot / restoreOps / cordonHandoffAnnotation: on a node every      *)
(* cordon of which counts its holders, the node without our records has the    *)
(* marks other hands gave it; and no call that counts holders makes a node     *)
(* schedulable that a person has taken over.                                   *)
THEOREM CordonRestores == CordonSpec => RestoreIsFaithful
  <1>1. NcInv => (~ncLegacy /\ ~Ours(ncNode) => ncNode.marks = ncTheirs)
    BY DEF NcInv, Counted, CountedNode, Ours
  <1>2. NcInv /\ HandNat /\ [CordonNext]_ncVars =>
          [ncNode.handoff /\ Down(ncNode) /\ ncHand' = ncHand
           /\ (\A p \in Caller : ncCall[p].op # "uncordon")
             => Down(ncNode')]_ncVars
    <2> SUFFICES ASSUME NcInv, ncHand \in Nat, CordonNext, ncNode.handoff, Down(ncNode), ncHand' = ncHand,
                        \A p \in Caller : ncCall[p].op # "uncordon"
                 PROVE  Down(ncNode')
      BY DEF HandNat
    <2>1. CASE \E p \in Caller : Patches(p) BY <2>1, TakeoverKept
    <2>2. CASE HandsOff \/ \E m \in Mark : HandMarks(m)
      <3>1. ncHand' = ncHand + 1 BY <2>2 DEF HandsOff, HandMarks
      <3> QED BY <3>1
    <2>3. CASE ncNode' = ncNode BY <2>3
    <2> QED BY ZenonT(40), <2>1, <2>2, <2>3 DEF CordonNext, Gets, Loses, Fails, cordonForIncident, uncordonForIncident,
               RowMoves, Prunes, NcCacheSyncs, reconcileCordonOwner, NcRestarts
  <1> QED BY <1>1, <1>2, CordonInvariant, HandsAreCounted, PTL DEF CordonSpec, RestoreIsFaithful
=============================================================================
