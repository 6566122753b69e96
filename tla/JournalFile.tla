---------------------------- MODULE JournalFile ----------------------------
(***************************************************************************)
(* The agent's write-ahead journal as a file                               *)
(* (internal/agent/actionjournal): whole entry snapshots appended as lines,*)
(* fsynced before the call returns, replayed by Open.  An append can fail  *)
(* before, during or after its write; the process or the node can die at   *)
(* any step; the byte limit makes an append compact the file first.        *)
(*                                                                         *)
(* A line is one entry snapshot or malformed bytes.  All lines have the    *)
(* same size, so MaxLines stands for the byte limit.  "disk.fragment" says *)
(* that the file ends in bytes that no newline terminates.                 *)
(***************************************************************************)
EXTENDS Naturals, Sequences, FiniteSets, SequencesExt

CONSTANTS
    NumActions,  \* action IDs are 1..NumActions, 0 is no action
    MaxActions,  \* maxActions
    MaxLines,    \* maxJournalBytes, in lines
    Outcome,     \* results an executor returns
    MaxClaims,   \* bound: claims offered for each action
    MaxCrashes,  \* bound on crashes
    MaxFaults    \* bound on writes that fail while the process lives

VARIABLES
    disk,       \* the file: its terminated lines, and whether a fragment follows
    synced,     \* lines known to survive a node crash
    phase,      \* "closed", "marking" (inside Open), "open", "corrupt" (Open failed)
    entries,    \* Journal.entries
    size,       \* Journal.bytes
    executing,  \* action the executor is running, 0 if none
    crashes,    \* crashes so far
    faults,     \* failed writes so far
    newest,     \* newest claim the controller offered for each action
    started,    \* history: actions whose running marker was accepted
    recorded,   \* history: the outcome accepted for each action
    acked,      \* history: actions the controller acknowledged
    settled     \* history: actions whose acknowledgement the journal accepted

fileVars == <<disk, synced>>
memVars == <<phase, entries, size>>
histVars == <<newest, started, recorded, acked, settled>>
vars == <<fileVars, memVars, executing, crashes, faults, histVars>>

Id == 1 .. NumActions
State == {"none", "received", "running", "known", "unknown", "reported"}
Result == Outcome \cup {"none"}
Entry == [state : State, token : Nat, result : Result]

NoEntry == [state |-> "none", token |-> 0, result |-> "none"]
NoEntries == [a \in Id |-> NoEntry]
Line(a, e) == [id |-> a, entry |-> e]
Malformed == Line(0, NoEntry)

JournalInit ==
    /\ disk = [lines |-> <<>>, fragment |-> FALSE]
    /\ synced = 0
    /\ phase = "closed"
    /\ entries = NoEntries
    /\ size = 0
    /\ executing = 0
    /\ crashes = 0
    /\ faults = 0
    /\ newest = [a \in Id |-> 0]
    /\ started = {}
    /\ recorded = [a \in Id |-> "none"]
    /\ acked = {}
    /\ settled = {}

(***************************************************************************)
(* Replay                                                                  *)
(***************************************************************************)
AllowedTransition ==
    {<<"received", "running">>, <<"received", "unknown">>, <<"running", "known">>,
     <<"running", "unknown">>, <<"known", "reported">>, <<"unknown", "reported">>}

\* applyRecordLocked accepts snapshot e after snapshot c of the same action.
Follows(c, e) ==
    \/ c.state = "none" /\ e.state = "received"
    \/ /\ c.state = e.state
       /\ c.result = e.result
       /\ c.token = e.token \/ (c.state # "reported" /\ e.token # 0)
    \/ /\ <<c.state, e.state>> \in AllowedTransition
       /\ e.state = "known" => e.result # "none"
       /\ e.state = "unknown" => e.result = "none"
       /\ e.state = "reported" => e.result = c.result
       /\ e.state # "reported" => e.token = c.token

Replay(lines) ==
    LET apply(acc, l) ==
            IF acc.ok /\ Follows(acc.entries[l.id], l.entry)
            THEN [acc EXCEPT !.entries[l.id] = l.entry]
            ELSE [acc EXCEPT !.ok = FALSE]
    IN  FoldLeft(apply, [ok |-> TRUE, entries |-> NoEntries], lines)

KnownChain == <<"received", "running", "known">>
UnknownChain == <<"received", "unknown">>

\* Variant: the chain of a reported entry leaves the running marker out.
ReportedChainShort(result) ==
    <<"received", IF result # "none" THEN "known" ELSE "unknown", "reported">>

ReportedChain(result) ==
    Append(IF result # "none" THEN KnownChain ELSE UnknownChain, "reported")

\* entryHistory: the shortest chain of snapshots that replays to e.
EntryHistory(a, e) ==
    LET chain == CASE e.state = "received" -> <<"received">>
                   [] e.state = "running" -> <<"received", "running">>
                   [] e.state = "known" -> KnownChain
                   [] e.state = "unknown" -> UnknownChain
                   [] e.state = "reported" -> ReportedChain(e.result)
        result(s) == IF s \in {"known", "reported"} THEN e.result ELSE "none"
    IN  [i \in DOMAIN chain |->
            Line(a, [state |-> chain[i], token |-> e.token, result |-> result(chain[i])])]

(***************************************************************************)
(* Appending                                                               *)
(***************************************************************************)
\* compactReportedLocked dropping the reported entries S; nothing is rewritten
\* when no entry is old enough (S empty).
Compacted(S) ==
    LET kept == [a \in Id |-> IF a \in S THEN NoEntry ELSE entries[a]]
        history(a) == IF kept[a] = NoEntry THEN <<>> ELSE EntryHistory(a, kept[a])
        lines == FlattenSeq([a \in Id |-> history(a)])
    IN  IF S = {}
        THEN [disk |-> disk, synced |-> synced, size |-> size, entries |-> entries]
        ELSE [disk |-> [lines |-> lines, fragment |-> FALSE], synced |-> Len(lines),
              size |-> Len(lines), entries |-> kept]

\* Journal j has room for one more line, and for action a.
Fits(j, a) ==
    /\ j.size < MaxLines
    /\ j.entries[a] # NoEntry \/ Cardinality({b \in Id : j.entries[b] # NoEntry}) < MaxActions

\* The journals an append for a may find: compacted only when it does not fit,
\* and then by any set of reported entries that may have outlived the retention.
Bases(a) ==
    IF Fits(Compacted({}), a)
    THEN {Compacted({})}
    ELSE {Compacted(S) : S \in SUBSET {b \in Id : entries[b].state = "reported"}}

\* A whole line written: it joins a fragment that is still there.
Written(d, a, e) ==
    [lines |-> Append(d.lines, IF d.fragment THEN Malformed ELSE Line(a, e)),
     fragment |-> FALSE]

\* Variant: the append returns without waiting for the fsync.
AcceptUnsynced(a, e) ==
    \E j \in Bases(a) :
        /\ Fits(j, a)
        /\ disk' = Written(j.disk, a, e)
        /\ synced' = j.synced
        /\ size' = j.size + 1
        /\ entries' = [j.entries EXCEPT ![a] = e]
        /\ UNCHANGED <<phase, crashes, faults>>

\* appendLocked returning nil.
Accept(a, e) ==
    \E j \in Bases(a) :
        /\ Fits(j, a)
        /\ disk' = Written(j.disk, a, e)
        /\ synced' = Len(disk'.lines)
        /\ size' = j.size + 1
        /\ entries' = [j.entries EXCEPT ![a] = e]
        /\ UNCHANGED <<phase, crashes, faults>>

\* What a write that does not complete leaves behind: nothing, some bytes of the
\* line, or the whole line without a successful fsync.
Remains(j, a, e) ==
    {j.disk, [j.disk EXCEPT !.fragment = TRUE], Written(j.disk, a, e)}

\* The caller of a failed append: Open gives up, every other call returns an error.
Adopt(j) ==
    /\ phase' = IF phase = "marking" THEN "closed" ELSE phase
    /\ entries' = IF phase = "marking" THEN NoEntries ELSE j.entries
    /\ size' = IF phase = "marking" THEN 0 ELSE j.size
    /\ executing' = 0

\* The limits refuse the record, also after the compaction.
Refuse(a) ==
    \E j \in Bases(a) :
        /\ ~Fits(j, a)
        /\ disk' = j.disk
        /\ synced' = j.synced
        /\ Adopt(j)
        /\ UNCHANGED <<crashes, faults>>

\* The open, the write, the fsync or the close fails.
Fail(a, e) ==
    /\ faults < MaxFaults
    /\ faults' = faults + 1
    /\ \E j \in Bases(a) :
        /\ Fits(j, a)
        /\ disk' \in Remains(j, a, e)
        /\ synced' = j.synced
        /\ Adopt(j)
    /\ UNCHANGED crashes

\* The compacting rewrite fails: before the rename nothing happened, after it the
\* file is replaced and memory is not.
CompactionFails(a) ==
    /\ faults < MaxFaults
    /\ faults' = faults + 1
    /\ \E j \in Bases(a) :
        /\ j.entries # entries
        /\ \/ UNCHANGED fileVars
           \/ disk' = j.disk /\ synced' = j.synced
    /\ Adopt(Compacted({}))
    /\ UNCHANGED crashes

\* The process dies and loses its memory.
LoseProcess ==
    /\ crashes < MaxCrashes
    /\ crashes' = crashes + 1
    /\ phase' = "closed"
    /\ entries' = NoEntries
    /\ size' = 0
    /\ executing' = 0
    /\ UNCHANGED faults

\* The process dies in the middle of the append.
Die(a, e) ==
    /\ \E j \in Bases(a) :
        /\ Fits(j, a)
        /\ disk' \in Remains(j, a, e)
        /\ synced' = j.synced
    /\ LoseProcess

Error(a, e) == Refuse(a) \/ Fail(a, e) \/ CompactionFails(a) \/ Die(a, e)

(***************************************************************************)
(* The journal's operations, in the order the agent's action loop calls    *)
(* them.                                                                   *)
(***************************************************************************)
Idle == phase = "open" /\ executing = 0

\* An acknowledged action is never delivered again (ActionDelivery), so no second
\* intent arrives for it.
RecordReceived(a) ==
    LET e == [NoEntry EXCEPT !.state = "received"] IN
    /\ Idle
    /\ entries[a] = NoEntry
    /\ a \notin acked
    /\ (Accept(a, e) /\ UNCHANGED executing) \/ Error(a, e)
    /\ UNCHANGED histVars

\* The controller offers a newer claim; the earlier ones have expired.
SetClaim(a) ==
    LET e == [entries[a] EXCEPT !.token = newest[a] + 1] IN
    /\ Idle
    /\ entries[a].state \notin {"none", "reported"}
    /\ newest[a] < MaxClaims[a]
    /\ newest' = [newest EXCEPT ![a] = @ + 1]
    /\ (Accept(a, e) /\ UNCHANGED executing) \/ Error(a, e)
    /\ UNCHANGED <<started, recorded, acked, settled>>

\* Variant: a claim the controller has replaced still counts as valid.
ClaimCurrentOrOld(a) == entries[a].token # 0

\* claimStillValid: only the newest claim has not expired.
ClaimCurrent(a) == entries[a].token # 0 /\ entries[a].token = newest[a]

MarkRunning(a) ==
    LET e == [entries[a] EXCEPT !.state = "running"] IN
    /\ Idle
    /\ entries[a].state = "received"
    /\ ClaimCurrent(a)
    /\ \/ Accept(a, e) /\ executing' = a /\ started' = started \cup {a}
       \/ Error(a, e) /\ UNCHANGED started
    /\ UNCHANGED <<newest, recorded, acked, settled>>

\* The executor returned r; a failed write is not tried again.
RecordOutcome(a, r) ==
    LET e == [entries[a] EXCEPT !.state = "known", !.result = r] IN
    /\ phase = "open"
    /\ executing = a
    /\ \/ Accept(a, e) /\ executing' = 0 /\ recorded' = [recorded EXCEPT ![a] = r]
       \/ Error(a, e) /\ UNCHANGED recorded
    /\ UNCHANGED <<newest, started, acked, settled>>

MarkOutcomeUnknown(a) ==
    LET e == [entries[a] EXCEPT !.state = "unknown"] IN
    /\ Idle
    /\ entries[a].state = "running"
    /\ ClaimCurrent(a)
    /\ (Accept(a, e) /\ UNCHANGED executing) \/ Error(a, e)
    /\ UNCHANGED histVars

\* The controller acknowledged the outcome.
MarkReported(a) ==
    LET e == [entries[a] EXCEPT !.state = "reported", !.token = 0] IN
    /\ Idle
    /\ entries[a].state \in {"known", "unknown"}
    /\ ClaimCurrent(a)
    /\ acked' = acked \cup {a}
    /\ \/ Accept(a, e) /\ UNCHANGED executing /\ settled' = settled \cup {a}
       \/ Error(a, e) /\ UNCHANGED settled
    /\ UNCHANGED <<newest, started, recorded>>

(***************************************************************************)
(* Crashes and Open                                                        *)
(***************************************************************************)
\* Lines that were not fsynced may be gone or torn after a node crash.
Crash ==
    /\ phase \in {"marking", "open"}
    /\ LoseProcess
    /\ \E k \in synced .. Len(disk.lines), torn \in BOOLEAN :
        /\ torn => k < Len(disk.lines) \/ disk.fragment
        /\ disk' = [lines |-> SubSeq(disk.lines, 1, k), fragment |-> torn]
    /\ UNCHANGED <<synced, histVars>>

\* readRecords: a terminated line that does not decode is an error wherever it
\* stands, bytes without a newline are dropped.
Readable ==
    /\ Len(disk.lines) + (IF disk.fragment THEN 1 ELSE 0) <= MaxLines
    /\ Malformed \notin Range(disk.lines)

\* The lines Open keeps: all of them, or all but a last one that does not follow.
Kept ==
    IF Replay(disk.lines).ok THEN disk.lines ELSE Front(disk.lines)

\* Open: read, replay, drop a torn tail through an atomic replacement.
OpenReplays ==
    /\ phase \in {"closed", "corrupt"}
    /\ IF Readable /\ Replay(Kept).ok
       THEN /\ phase' = "marking"
            /\ disk' = [lines |-> Kept, fragment |-> FALSE]
            /\ synced' = Len(disk'.lines)
            /\ size' = Len(disk'.lines)
            /\ entries' = Replay(disk'.lines).entries
       ELSE /\ phase' = "corrupt"
            /\ UNCHANGED <<fileVars, entries, size>>
    /\ UNCHANGED <<executing, crashes, faults, histVars>>

\* ... then append an unknown outcome for every running marker, in ID order.
OpenMarksInterrupted(a) ==
    LET e == [entries[a] EXCEPT !.state = "unknown"] IN
    /\ phase = "marking"
    /\ entries[a].state = "running"
    /\ \A b \in 1 .. a - 1 : entries[b].state # "running"
    /\ (Accept(a, e) /\ UNCHANGED executing) \/ Error(a, e)
    /\ UNCHANGED histVars

OpenReturns ==
    /\ phase = "marking"
    /\ \A a \in Id : entries[a].state # "running"
    /\ phase' = "open"
    /\ UNCHANGED <<fileVars, entries, size, executing, crashes, faults, histVars>>

JournalNext ==
    \/ \E a \in Id :
        \/ RecordReceived(a) \/ SetClaim(a) \/ MarkRunning(a)
        \/ MarkOutcomeUnknown(a) \/ MarkReported(a) \/ OpenMarksInterrupted(a)
        \/ \E r \in Outcome : RecordOutcome(a, r)
    \/ Crash \/ OpenReplays \/ OpenReturns

JournalSpec == JournalInit /\ [][JournalNext]_vars

(***************************************************************************)
(* Properties                                                              *)
(***************************************************************************)
\* The marker outlives everything: once MarkRunning has returned, no failed write,
\* crash, torn tail or compaction brings the action back to "received", the state
\* from which the agent executes, and only an acknowledged action is forgotten.
StartIsRemembered ==
    phase = "open" => \A a \in started :
        /\ entries[a].state # "received"
        /\ entries[a].state = "none" => a \in acked

\* An outcome RecordOutcome accepted is what every later process reports, until the
\* acknowledged entry is dropped; and an action whose acknowledgement MarkReported
\* accepted never becomes recoverable again.
OutcomeSurvives ==
    phase = "open" =>
        /\ \A a \in Id : recorded[a] # "none" =>
              \/ entries[a].state \in {"known", "reported"} /\ entries[a].result = recorded[a]
              \/ entries[a].state = "none" /\ a \in acked
        /\ \A a \in settled : entries[a].state \in {"none", "reported"}

\* Open's promise for torn writes: as long as no write failed under a live process,
\* a crash at any byte of any append leaves a file Open accepts.
CrashesAreRecovered == faults = 0 => phase # "corrupt"

\* Open's comment: a malformed final record is a torn write and is removed.  So a
\* single append that is cut short must not make the journal unreadable for good.
TornWritesAreRecovered == phase # "corrupt"
=============================================================================
