----------------------------- MODULE OperatorPki -----------------------------
(***************************************************************************)
(* The TLS material of an installation (internal/operator/pki.go): two     *)
(* authorities and a leaf under each, kept in four Secrets.  A reconcile   *)
(* pass plans from the informer's copy of the Secrets, writes what it      *)
(* issued one Secret after the other, and stamps each workload with a      *)
(* digest of what that workload mounts, so that its pods start again.      *)
(*                                                                         *)
(* The controller serves with the server leaf and trusts the client CA;    *)
(* the agent presents the client leaf and trusts the server CA.            *)
(***************************************************************************)
EXTENDS Naturals, Sequences, FiniteSets, FiniteSetsExt

CONSTANTS
    LeafRole,     \* {"server", "client"}, or one of the two chains alone
    MaxMaterial,  \* names for pieces of material in use at one time, per role
    MaxPkMishap   \* bound on what people, restores, the clock and a late informer do, and on crashes

VARIABLES
    pkSecret,   \* the Secrets
    pkCache,    \* the informer's copy of them
    pkPlan,     \* Secrets the running pass still has to write
    pkStamps,   \* the digests the running pass will stamp
    pkStamp,    \* the digest on each workload
    pkPod,      \* per workload: the digest it was started for, and what it loaded
    pkOld,      \* per role, the material that is due for renewal
    pkMishap

pkVars == <<pkSecret, pkCache, pkPlan, pkStamps, pkStamp, pkPod, pkOld, pkMishap>>

CaOf(leaf) == IF leaf = "server" THEN "serverCA" ELSE "clientCA"
CaRole == {CaOf(leaf) : leaf \in LeafRole}
PkRole == CaRole \cup LeafRole
Workload == {"controller", "agent"}
Mounted(w) ==
    PkRole \cap (IF w = "controller" THEN {"server", "clientCA"} ELSE {"client", "serverCA"})

(* A Secret: which material it holds, which authority signed it (leaves),  *)
(* its managed-pki label, and whether the installation is its controller.  *)
PkAbsent == [id |-> 0, signer |-> 0, managed |-> FALSE, ours |-> FALSE]
Supplied(id, signer) == [id |-> id, signer |-> signer, managed |-> FALSE, ours |-> FALSE]
Issued(id, signer) == [id |-> id, signer |-> signer, managed |-> TRUE, ours |-> TRUE]

NoPlan == <<>>
NoStamps == [w \in Workload |-> <<>>]

Signers(role) ==
    {leaf \in LeafRole : CaOf(leaf) = role}

\* Material of a role that somebody still holds or was signed by.
InUse(role) ==
    {pkSecret[role].id, pkCache[role].id, pkOld[role]}
    \cup {pkPod[w].has[role].id : w \in Workload}
    \cup UNION {{pkSecret[l].signer, pkCache[l].signer} \cup {pkPod[w].has[l].signer : w \in Workload}
                  : l \in Signers(role)}
    \cup {stamp[role] : stamp \in {s \in {pkStamp[w] : w \in Workload} \cup {pkPod[w].for : w \in Workload}
                                      : role \in DOMAIN s}}

Unused(role) == (1 .. MaxMaterial) \ InUse(role)

PkiInit ==
    /\ \E foreign \in SUBSET LeafRole :   \* chains somebody else supplies
          pkSecret = [role \in PkRole |->
              IF role \in foreign THEN Supplied(1, 1)
              ELSE IF role \in {CaOf(leaf) : leaf \in foreign} THEN Supplied(1, 0) ELSE PkAbsent]
    /\ pkCache = pkSecret
    /\ pkPlan = NoPlan /\ pkStamps = NoStamps
    /\ pkStamp = [w \in Workload |-> <<>>]
    /\ pkPod = [w \in Workload |-> [for |-> <<>>, has |-> [role \in PkRole |-> PkAbsent]]]
    /\ pkOld = [role \in PkRole |-> 0]
    /\ pkMishap = 0

PkMishap ==
    /\ pkMishap < MaxPkMishap
    /\ pkMishap' = pkMishap + 1

-----------------------------------------------------------------------------
(* planPKI                                                                 *)

present(role) == pkCache[role].id # 0
renewalDue(role) == pkOld[role] = pkCache[role].id

\* CARotationRequiredError: a managed authority that is expiring or unreadable.
rotationRequired(role) == present(role) /\ pkCache[role].managed /\ renewalDue(role)

\* authorityFor: nothing for an authority somebody else supplied, the loaded one,
\* or a new one.
authorityFor(role) ==
    IF present(role)
    THEN IF pkCache[role].managed THEN pkCache[role].id ELSE 0
    ELSE Min(Unused(role))

\* Variant: a current leaf is believed to be under the current authority.
leafForUnverified(leaf) ==
    LET ca == authorityFor(CaOf(leaf))
    IN  /\ ca # 0
        /\ ~(present(leaf) /\ ~pkCache[leaf].managed)
        /\ ~ /\ present(leaf) /\ present(CaOf(leaf)) /\ ~renewalDue(leaf)

\* leafFor: reissue unless the leaf is somebody else's, or current and signed by the
\* authority that is loaded now (VerifyLeaf).
leafFor(leaf) ==
    LET ca == authorityFor(CaOf(leaf))
    IN  /\ ca # 0
        /\ ~(present(leaf) /\ ~pkCache[leaf].managed)
        /\ ~ /\ present(leaf) /\ present(CaOf(leaf)) /\ ~renewalDue(leaf)
             /\ pkCache[leaf].signer = ca

caWrite(role) ==
    IF present(role) THEN <<>> ELSE <<[role |-> role, body |-> Issued(authorityFor(role), 0)]>>

leafWrite(leaf) ==
    IF leafFor(leaf)
    THEN <<[role |-> leaf, body |-> Issued(Min(Unused(leaf)), authorityFor(CaOf(leaf)))]>>
    ELSE <<>>

planned ==
    (IF "server" \in LeafRole THEN caWrite("serverCA") ELSE <<>>)
    \o (IF "client" \in LeafRole THEN caWrite("clientCA") ELSE <<>>)
    \o (IF "server" \in LeafRole THEN leafWrite("server") ELSE <<>>)
    \o (IF "client" \in LeafRole THEN leafWrite("client") ELSE <<>>)

\* tlsRevision: per workload, what it mounts -- the planned Secret where there is
\* one, else the one that was read.
tlsRevision(plan, w) ==
    [role \in Mounted(w) |->
        IF \E i \in DOMAIN plan : plan[i].role = role
        THEN (CHOOSE entry \in {plan[i] : i \in DOMAIN plan} : entry.role = role).body.id
        ELSE pkCache[role].id]

Running == pkStamps # NoStamps

\* ReconcilePKI reads the four Secrets and plans; a plan from an old copy counts as
\* a mishap.
PassPlans ==
    /\ ~Running
    /\ \A role \in CaRole : ~rotationRequired(role)
    /\ \A role \in PkRole : Unused(role) # {}
    /\ pkPlan' = planned
    /\ pkStamps' = [w \in Workload |-> tlsRevision(planned, w)]
    /\ \/ pkCache = pkSecret /\ UNCHANGED pkMishap
       \/ pkCache # pkSecret /\ PkMishap
    /\ UNCHANGED <<pkSecret, pkCache, pkStamp, pkPod, pkOld>>

ensureControlledBy(role) == pkCache[role].id = 0 \/ pkCache[role].ours

\* CreateOrUpdate reads the informer again: it creates what it does not see there
\* and updates what it sees, and the API refuses either when that is not the truth.
ensurePKISecret ==
    /\ Running /\ pkPlan # NoPlan
    /\ LET entry == Head(pkPlan)
           ok == ensureControlledBy(entry.role) /\ pkCache[entry.role] = pkSecret[entry.role]
       IN  IF ok
           THEN /\ pkSecret' = [pkSecret EXCEPT ![entry.role] = entry.body]
                /\ pkPlan' = Tail(pkPlan)
                /\ UNCHANGED pkStamps
           ELSE /\ pkPlan' = NoPlan /\ pkStamps' = NoStamps
                /\ UNCHANGED pkSecret
    /\ UNCHANGED <<pkCache, pkStamp, pkPod, pkOld, pkMishap>>

\* ensureDeployment and ensureDaemonSet carry the digests.
PassStamps ==
    /\ Running /\ pkPlan = NoPlan
    /\ pkStamp' = pkStamps
    /\ pkStamps' = NoStamps
    /\ UNCHANGED <<pkSecret, pkCache, pkPlan, pkPod, pkOld, pkMishap>>

\* The operator dies, or a write is refused for another reason.
PassDies ==
    /\ Running
    /\ PkMishap
    /\ pkPlan' = NoPlan /\ pkStamps' = NoStamps
    /\ UNCHANGED <<pkSecret, pkCache, pkStamp, pkPod, pkOld>>

PkCacheSyncs ==
    /\ pkCache # pkSecret
    /\ pkCache' = pkSecret
    /\ UNCHANGED <<pkSecret, pkPlan, pkStamps, pkStamp, pkPod, pkOld, pkMishap>>

\* A new digest on the template rolls the pods; they load what is there then.
Rolls(w) ==
    /\ pkPod[w].for # pkStamp[w]
    /\ \A role \in Mounted(w) : pkSecret[role].id # 0
    /\ pkPod' = [pkPod EXCEPT ![w] =
           [for |-> pkStamp[w],
            has |-> [role \in PkRole |-> IF role \in Mounted(w) THEN pkSecret[role] ELSE PkAbsent]]]
    /\ UNCHANGED <<pkSecret, pkCache, pkPlan, pkStamps, pkStamp, pkOld, pkMishap>>

-----------------------------------------------------------------------------
(* The clock, people and backups.                                          *)

Ages(role) ==
    /\ pkSecret[role].id # 0 /\ pkOld[role] # pkSecret[role].id
    /\ PkMishap
    /\ pkOld' = [pkOld EXCEPT ![role] = pkSecret[role].id]
    /\ UNCHANGED <<pkSecret, pkCache, pkPlan, pkStamps, pkStamp, pkPod>>

\* A managed Secret is lost; for an authority that is due, this is the rotation.
Deleted(role) ==
    /\ pkSecret[role].managed
    /\ \/ PkMishap
       \/ /\ role \in CaRole /\ pkOld[role] = pkSecret[role].id
          /\ UNCHANGED pkMishap
    /\ pkSecret' = [pkSecret EXCEPT ![role] = PkAbsent]
    /\ UNCHANGED <<pkCache, pkPlan, pkStamps, pkStamp, pkPod, pkOld>>

\* A backup brings back a managed leaf without its owner reference.
RestoredLeaf(leaf) ==
    /\ pkSecret[leaf].id # 0 /\ pkSecret[leaf].ours
    /\ PkMishap
    /\ pkSecret' = [pkSecret EXCEPT ![leaf].ours = FALSE]
    /\ UNCHANGED <<pkCache, pkPlan, pkStamps, pkStamp, pkPod, pkOld>>

\* Somebody removes the restored leaf after reading the error.
RestoredLeafRemoved(leaf) ==
    /\ pkSecret[leaf].managed /\ ~pkSecret[leaf].ours
    /\ pkSecret' = [pkSecret EXCEPT ![leaf] = PkAbsent]
    /\ UNCHANGED <<pkCache, pkPlan, pkStamps, pkStamp, pkPod, pkOld, pkMishap>>

PkiNext ==
    \/ PassPlans \/ ensurePKISecret \/ PassStamps \/ PassDies \/ PkCacheSyncs
    \/ \E w \in Workload : Rolls(w)
    \/ \E role \in PkRole : Ages(role) \/ Deleted(role)
    \/ \E leaf \in LeafRole : RestoredLeaf(leaf) \/ RestoredLeafRemoved(leaf)

PkiSpec == PkiInit /\ [][PkiNext]_pkVars

-----------------------------------------------------------------------------
(* Properties                                                              *)

Loaded(w, role) == pkPod[w].has[role]

MutualTrust ==
    /\ "server" \in LeafRole =>
          /\ Loaded("controller", "server").id # 0
          /\ Loaded("controller", "server").signer = Loaded("agent", "serverCA").id
    /\ "client" \in LeafRole =>
          /\ Loaded("agent", "client").id # 0
          /\ Loaded("agent", "client").signer = Loaded("controller", "clientCA").id

\* The operator sees the Secrets as they are, would write nothing, and every pod
\* was started for the digest its workload should carry.
AtRest ==
    /\ ~Running /\ pkCache = pkSecret
    /\ \A w \in Workload : pkPod[w].for = pkStamp[w] /\ pkStamp[w] = tlsRevision(NoPlan, w)
    /\ \A role \in CaRole : ~rotationRequired(role)
    /\ \A role \in PkRole : Unused(role) # {}
    /\ planned = NoPlan

(* Once the operator finds nothing left to do, the fleet authenticates     *)
(* both ways: the leaf the controller serves with is signed by the         *)
(* authority the agents loaded and the other way round -- whatever Secrets *)
(* were lost, restored, renewed or half written by a pass that died, and   *)
(* however late the informer was.                                          *)
RestIsAuthenticated == AtRest => MutualTrust

(* ensureControlledBy: the operator never replaces a Secret it does not    *)
(* control, although it carries the managed label and is due.              *)
ForeignKept ==
    [][\A role \in PkRole :
          pkSecret[role].id # 0 /\ ~pkSecret[role].ours
              => pkSecret'[role] \in {pkSecret[role], PkAbsent}]_pkVars
=============================================================================
