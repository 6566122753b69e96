--------------------------- MODULE EventIntake -----------------------------
(***************************************************************************)
(* A fault line of the kernel log on its way to an incident: the watcher   *)
(* with its durable cursor (internal/agent/kmsg), the agent's event loop   *)
(* and spool (internal/agent), the archive and the leased outbox (sqlcore) *)
(* and the controllers that drain it.                                      *)
(*                                                                         *)
(* A line is a fault of Fault at a sequence number of a boot; lines without*)
(* a fault are left out.  Every capture of a line is an event with an ID of*)
(* its own.  The spool is what SpoolFile establishes: a sequence whose     *)
(* append succeeds, fails without trace, or fails with the record written. *)
(***************************************************************************)
EXTENDS Naturals, Sequences, FiniteSets, SequencesExt, FiniteSetsExt

CONSTANTS
    Fault,            \* fault identities (detectionKey)
    Poison,           \* faults whose payload the controller rejects
    Actionable,       \* faults the catalogue turns into a signal
    FaultAt,          \* fault of the line at each sequence number of each boot
    Worker,           \* controller processes that drain the outbox
    SpoolMax,         \* maxEvents of the spool
    MaxEventAttempts,
    MaxSeq,           \* bound: fault lines of a boot
    MaxEvBoot,          \* bound on reboots
    MaxEvent,         \* bound on captured events
    MaxEvToken,         \* bound on leases
    MaxFault          \* bound on deaths, failed writes, lost requests and reader errors

VARIABLES
    evBoot,        \* boot of the node
    printed,     \* lines printed in this boot
    ringLow,     \* oldest sequence number the kernel ring still holds
    cursor,      \* cursor file: boot and sequence number, seq 0 if there is none
    spool,       \* spool file: event IDs, oldest first
    watch,       \* watcher of the running process
    loop,        \* event loop of the agent
    seen,        \* detectionSeen
    captured,    \* captured events: the line of each ID
    wire,        \* events whose request may still reach the controller
    archive,     \* archived event IDs in order of arrival
    outbox,      \* outbox row of each event
    evLive,        \* leases that have not expired
    tokens,      \* leases issued
    worker,      \* what each controller process is doing
    count,       \* history: times each event was counted in an incident
    accepted,    \* history: lines the agent may acknowledge
    durable,     \* history: events the agent counts as delivered
    dropped,     \* history: events a full spool, or a rejection, dropped
    guarded,     \* history: lines handed out while the cursor was of this boot
    evFaults       \* misfortunes so far

evNodeVars == <<evBoot, printed, ringLow>>
evFileVars == <<cursor, spool>>
evAgentVars == <<watch, loop, seen>>
eventHist == <<captured, accepted, durable, dropped, guarded>>
storeVars == <<archive, outbox, evLive, tokens, worker, count>>
eventVars == <<evNodeVars, evFileVars, evAgentVars, eventHist, wire, storeVars, evFaults>>

Event == 1 .. MaxEvent
Seqno == 1 .. MaxSeq
EvLine == (0 .. MaxEvBoot) \X Seqno
NoLine == <<0, 0>>
FaultOf(l) == FaultAt[l[1]][l[2]]
EventFault(e) == FaultOf(captured[e])

EvNoWatch == [open |-> FALSE, next |-> 1, chan |-> <<>>, pending |-> {}, mark |-> 0, maxAcked |-> 0]
EvIdle == [pc |-> "idle", event |-> 0, line |-> NoLine, sent |-> 0]
NoRow == [state |-> "none", token |-> 0, attempts |-> 0]
Free == [pc |-> "free", event |-> 0, token |-> 0]

EventInit ==
    /\ evBoot = 0 /\ printed = 0 /\ ringLow = 1
    /\ cursor = [boot |-> 0, seq |-> 0]
    /\ spool = <<>>
    /\ watch = EvNoWatch /\ loop = EvIdle /\ seen = {}
    /\ captured = <<>>
    /\ wire = {}
    /\ archive = <<>> /\ outbox = [e \in Event |-> NoRow]
    /\ evLive = {} /\ tokens = 0
    /\ worker = [w \in Worker |-> Free]
    /\ count = [e \in Event |-> 0]
    /\ accepted = {} /\ durable = {} /\ dropped = {} /\ guarded = {}
    /\ evFaults = 0

Misfortune ==
    /\ evFaults < MaxFault
    /\ evFaults' = evFaults + 1

(***************************************************************************)
(* The kernel log                                                          *)
(***************************************************************************)
PrintLine ==
    /\ printed < MaxSeq
    /\ printed' = printed + 1
    /\ UNCHANGED <<evBoot, ringLow, evFileVars, evAgentVars, eventHist, wire, storeVars, evFaults>>

RingOverwrites ==
    /\ ringLow <= printed
    /\ Misfortune
    /\ ringLow' = ringLow + 1
    /\ UNCHANGED <<evBoot, printed, evFileVars, evAgentVars, eventHist, wire, storeVars>>

(***************************************************************************)
(* The watcher and its cursor                                              *)
(***************************************************************************)
\* loadCursor: the sequence number to resume after, 0 if no cursor is usable.
LoadCursor == IF cursor.boot = evBoot THEN cursor.seq ELSE 0

(* Watch opens the log where the cursor says, or at its tail.  Run calls it*)
(* at the start and on a retry tick once the closed channel is drained.    *)
OpenWatch ==
    /\ loop.pc = "idle" /\ ~watch.open /\ watch.chan = <<>>
    /\ watch' = [watch EXCEPT
           !.open = TRUE,
           !.next = IF LoadCursor > 0 THEN LoadCursor + 1 ELSE printed + 1,
           !.mark = Max({@, LoadCursor}),
           !.maxAcked = Max({@, LoadCursor})]
    /\ UNCHANGED <<evNodeVars, evFileVars, loop, seen, eventHist, wire, storeVars, evFaults>>

(* The reader registers a line as pending before it hands it out.  Where   *)
(* the ring was overwritten it goes on at the oldest line still there.     *)
ReadLine ==
    LET at == Max({watch.next, ringLow})
    IN  /\ watch.open /\ at <= printed
        /\ watch' = [watch EXCEPT
               !.next = at + 1,
               !.chan = Append(@, at),
               !.pending = IF at <= watch.mark THEN @ ELSE @ \cup {at}]
        /\ guarded' = IF LoadCursor > 0 THEN guarded \cup {<<evBoot, at>>} ELSE guarded
        /\ UNCHANGED <<evNodeVars, evFileVars, loop, seen, captured, accepted, durable, dropped,
                       wire, storeVars, evFaults>>

ReaderFails ==
    /\ watch.open
    /\ Misfortune
    /\ watch' = [watch EXCEPT !.open = FALSE]
    /\ UNCHANGED <<evNodeVars, evFileVars, loop, seen, eventHist, wire, storeVars>>

\* Variant: the cursor follows the newest acknowledgement past a gap.
SafeMarkNewest(pending, acked) == acked

\* acknowledgeSeq: the highest sequence number with no pending one at or below it.
SafeMark(pending, acked) ==
    IF pending = {} THEN acked ELSE Min({acked, Min(pending) - 1})

(* Acknowledge, the last step of an accepted line.  A cursor that cannot be*)
(* saved leaves the watermark where it was.                                *)
Acknowledge ==
    LET seq == loop.line[2]
        rest == watch.pending \ {seq}
        acked == Max({watch.maxAcked, seq})
        safe == SafeMark(rest, acked)
        advance == seq > watch.mark /\ safe > watch.mark
    IN  /\ loop.pc = "ack"
        /\ loop' = EvIdle
        /\ \/ /\ cursor' = IF advance THEN [boot |-> evBoot, seq |-> safe] ELSE cursor
              /\ watch' = IF seq <= watch.mark THEN watch
                          ELSE [watch EXCEPT !.pending = rest, !.maxAcked = acked,
                                             !.mark = Max({@, safe})]
              /\ UNCHANGED evFaults
           \/ /\ advance
              /\ Misfortune
              /\ watch' = [watch EXCEPT !.pending = rest, !.maxAcked = acked]
              /\ UNCHANGED cursor
        /\ UNCHANGED <<evNodeVars, spool, seen, eventHist, wire, storeVars>>

(***************************************************************************)
(* The agent's event loop                                                  *)
(***************************************************************************)
(* handleKernelEvent and the first half of handleDetection: a fault seen   *)
(* within the window is covered by its first report, any other becomes an  *)
(* event with a new ID.                                                    *)
TakeLine ==
    LET line == <<evBoot, Head(watch.chan)>>
        id == Len(captured) + 1
    IN  /\ loop.pc = "idle" /\ watch.chan # <<>>
        /\ watch' = [watch EXCEPT !.chan = Tail(@)]
        /\ \/ /\ FaultOf(line) \in seen
              /\ loop' = [EvIdle EXCEPT !.pc = "ack", !.line = line]
              /\ accepted' = accepted \cup {line}
              /\ UNCHANGED captured
           \/ /\ FaultOf(line) \notin seen
              /\ id \in Event
              /\ loop' = [EvIdle EXCEPT !.pc = "post", !.event = id, !.line = line]
              /\ captured' = Append(captured, line)
              /\ UNCHANGED accepted
        /\ UNCHANGED <<evNodeVars, evFileVars, seen, durable, dropped, guarded, wire, storeVars, evFaults>>

\* HandleAgentEvent of an acceptable payload: archive and outbox row in one
\* transaction, nothing for an ID that is archived already.
ArchiveAndEnqueue(e) ==
    IF Contains(archive, e)
    THEN UNCHANGED <<archive, outbox>>
    ELSE /\ archive' = Append(archive, e)
         /\ outbox' = [outbox EXCEPT ![e].state = "pending"]

(* The post is answered: the controller archived the event, or rejected    *)
(* its payload for good and the agent drops it without remembering it.     *)
PostAnswered ==
    LET fault == EventFault(loop.event)
    IN  /\ loop.pc = "post"
        /\ loop' = [loop EXCEPT !.pc = "ack"]
        /\ accepted' = accepted \cup {loop.line}
        /\ IF fault \in Poison
           THEN UNCHANGED <<archive, outbox, durable, seen>>
           ELSE /\ ArchiveAndEnqueue(loop.event)
                /\ durable' = durable \cup {loop.event}
                /\ seen' = seen \cup {fault}
        /\ UNCHANGED <<evNodeVars, evFileVars, watch, captured, dropped, guarded, wire,
                       evLive, tokens, worker, count, evFaults>>

(* The post fails: the request was lost, or it is on its way although the  *)
(* agent has stopped waiting.                                              *)
PostFails ==
    /\ loop.pc = "post"
    /\ Misfortune
    /\ loop' = [loop EXCEPT !.pc = "append"]
    /\ wire' \in {wire, wire \cup {loop.event}}
    /\ UNCHANGED <<evNodeVars, evFileVars, watch, seen, eventHist, storeVars>>

\* Spool.Append, with the oldest events of a full spool dropped.
SpoolWith(e) ==
    LET all == Append(spool, e)
    IN  SubSeq(all, Max({1, Len(all) - SpoolMax + 1}), Len(all))

(* The append that follows: stored, failed with the record on disk, or     *)
(* failed.  Only the first counts as durable.                              *)
AppendEvent ==
    LET e == loop.event
        stored == /\ spool' = SpoolWith(e)
                  /\ dropped' = dropped \cup (ToSet(spool) \ ToSet(spool'))
    IN  /\ loop.pc = "append"
        /\ \/ /\ stored
              /\ loop' = [loop EXCEPT !.pc = "ack"]
              /\ accepted' = accepted \cup {loop.line}
              /\ durable' = durable \cup {e}
              /\ seen' = seen \cup {EventFault(e)}
              /\ UNCHANGED evFaults
           \/ /\ Misfortune
              /\ stored \/ UNCHANGED <<spool, dropped>>
              /\ loop' = EvIdle
              /\ UNCHANGED <<accepted, durable, seen>>
        /\ UNCHANGED <<evNodeVars, cursor, watch, captured, guarded, wire, storeVars>>

WindowPasses ==
    /\ \E f \in seen : seen' = seen \ {f}
    /\ UNCHANGED <<evNodeVars, evFileVars, watch, loop, eventHist, wire, storeVars, evFaults>>

(* flushSpool on a retry tick: ReplayBatch sends from the head until a send*)
(* fails or the budget is used up, and removes what was sent in one commit *)
(* that may fail too.  A rejected event counts as sent.                    *)
StartFlush ==
    /\ loop.pc = "idle" /\ spool # <<>>
    /\ loop' = [EvIdle EXCEPT !.pc = "flush"]
    /\ UNCHANGED <<evNodeVars, evFileVars, watch, seen, eventHist, wire, storeVars, evFaults>>

FlushSend ==
    /\ loop.pc = "flush" /\ loop.sent < Len(spool)
    /\ LET e == spool[loop.sent + 1]
       IN  IF EventFault(e) \in Poison
           THEN UNCHANGED <<archive, outbox>>
           ELSE ArchiveAndEnqueue(e)
    /\ loop' = [loop EXCEPT !.sent = @ + 1]
    /\ UNCHANGED <<evNodeVars, evFileVars, watch, seen, eventHist, wire, evLive, tokens, worker, count, evFaults>>

FlushCommit ==
    /\ loop.pc = "flush"
    /\ spool' = SubSeq(spool, loop.sent + 1, Len(spool))
    /\ dropped' = dropped \cup {e \in ToSet(SubSeq(spool, 1, loop.sent)) : EventFault(e) \in Poison}
    /\ loop' = EvIdle
    /\ UNCHANGED <<evNodeVars, cursor, watch, seen, captured, accepted, durable, guarded, wire,
                   storeVars, evFaults>>

FlushCommitFails ==
    /\ loop.pc = "flush" /\ loop.sent > 0
    /\ Misfortune
    /\ loop' = EvIdle
    /\ UNCHANGED <<evNodeVars, evFileVars, watch, seen, eventHist, wire, storeVars>>

\* The process dies; Run starts again with OpenWatch.
AgentDies ==
    /\ Misfortune
    /\ watch' = EvNoWatch /\ loop' = EvIdle /\ seen' = {}
    /\ \/ UNCHANGED evNodeVars
       \/ /\ evBoot < MaxEvBoot
          /\ evBoot' = evBoot + 1 /\ printed' = 0 /\ ringLow' = 1
    /\ UNCHANGED <<evFileVars, eventHist, wire, storeVars>>

(***************************************************************************)
(* The controller                                                          *)
(***************************************************************************)
LateArrival(e) ==
    /\ wire' = wire \ {e}
    /\ EventFault(e) \notin Poison
    /\ ArchiveAndEnqueue(e)
    /\ UNCHANGED <<evNodeVars, evFileVars, evAgentVars, eventHist, evLive, tokens, worker, count, evFaults>>

RequestLost(e) ==
    /\ wire' = wire \ {e}
    /\ UNCHANGED <<evNodeVars, evFileVars, evAgentVars, eventHist, storeVars, evFaults>>

EventLeaseExpires(t) ==
    /\ evLive' = evLive \ {t}
    /\ UNCHANGED <<evNodeVars, evFileVars, evAgentVars, eventHist, wire, archive, outbox, tokens, worker, count, evFaults>>

\* Variant: a lease that ran out is not taken over.
ClaimablePending(row) == row.state = "pending"

Claimable(row) ==
    \/ row.state = "pending"
    \/ row.state = "leased" /\ row.token \notin evLive

(* ClaimNextEvent: rows that used up their attempts and that nobody holds  *)
(* die, then the oldest claimable one is leased.                           *)
Swept == [e \in Event |->
    IF Claimable(outbox[e]) /\ outbox[e].attempts >= MaxEventAttempts
    THEN [outbox[e] EXCEPT !.state = "dead", !.token = 0]
    ELSE outbox[e]]

ClaimNextEvent(w) ==
    LET candidates == SelectSeq(archive, LAMBDA e : Claimable(Swept[e]))
    IN  /\ worker[w].pc = "free"
        /\ IF candidates = <<>>
           THEN /\ outbox # Swept
                /\ outbox' = Swept
                /\ UNCHANGED <<evLive, tokens, worker>>
           ELSE LET e == Head(candidates)
                IN  /\ tokens < MaxEvToken
                    /\ tokens' = tokens + 1
                    /\ evLive' = evLive \cup {tokens'}
                    /\ outbox' = [Swept EXCEPT ![e] =
                           [state |-> "leased", token |-> tokens', attempts |-> @.attempts + 1]]
                    /\ worker' = [worker EXCEPT ![w] = [pc |-> "claimed", event |-> e, token |-> tokens']]
        /\ UNCHANGED <<evNodeVars, evFileVars, evAgentVars, eventHist, wire, archive, count, evFaults>>

\* Variant: the lease is looked at when the transaction begins and not again.
HoldsLeaseAlways(w) == TRUE

\* The predicate of CompleteClaimedEvent and requireCurrentEventLease.
HoldsLease(w) ==
    LET c == worker[w]
    IN  outbox[c.event].state = "leased" /\ outbox[c.event].token = c.token /\ c.token \in evLive

BeginProcess(w) ==
    /\ worker[w].pc = "claimed"
    /\ worker' = [worker EXCEPT ![w] =
           IF HoldsLease(w) THEN [@ EXCEPT !.pc = "tx"] ELSE Free]
    /\ UNCHANGED <<evNodeVars, evFileVars, evAgentVars, eventHist, wire, archive, outbox, evLive, tokens, count, evFaults>>

(* The transaction of ProcessClaimedEvent: the incident mutation of an     *)
(* actionable event and the completion of the row commit together, if the  *)
(* lease still holds.                                                      *)
CommitProcess(w) ==
    LET e == worker[w].event
    IN  /\ worker[w].pc = "tx"
        /\ worker' = [worker EXCEPT ![w] = Free]
        /\ IF HoldsLease(w)
           THEN /\ outbox' = [outbox EXCEPT ![e].state = "done", ![e].token = 0]
                /\ count' = [count EXCEPT ![e] = IF EventFault(e) \in Actionable THEN @ + 1 ELSE @]
           ELSE UNCHANGED <<outbox, count>>
        /\ UNCHANGED <<evNodeVars, evFileVars, evAgentVars, eventHist, wire, archive, evLive, tokens, evFaults>>

\* A version conflict or store error rolls back; a controller that dies forgets its claim.
AbandonProcess(w) ==
    /\ worker[w].pc \in {"claimed", "tx"}
    /\ Misfortune
    /\ worker' = [worker EXCEPT ![w] = Free]
    /\ UNCHANGED <<evNodeVars, evFileVars, evAgentVars, eventHist, wire, archive, outbox, evLive, tokens, count>>

AgentNext ==
    \/ OpenWatch \/ ReadLine \/ ReaderFails \/ TakeLine \/ PostAnswered \/ PostFails \/ AppendEvent
    \/ Acknowledge \/ WindowPasses \/ StartFlush \/ FlushSend \/ FlushCommit \/ FlushCommitFails
    \/ AgentDies

DrainNext ==
    \/ \E e \in wire : LateArrival(e) \/ RequestLost(e)
    \/ \E t \in evLive : EventLeaseExpires(t)
    \/ \E w \in Worker : ClaimNextEvent(w) \/ BeginProcess(w) \/ CommitProcess(w) \/ AbandonProcess(w)

EventNext == PrintLine \/ RingOverwrites \/ AgentNext \/ DrainNext

EventSpec == EventInit /\ [][EventNext]_eventVars

\* The drain loop keeps polling and working, and leases run out.
EventFairness ==
    /\ \A w \in Worker : WF_eventVars(ClaimNextEvent(w)) /\ WF_eventVars(BeginProcess(w) \/ CommitProcess(w))
    /\ \A t \in 1 .. MaxEvToken : WF_eventVars(t \in evLive /\ EventLeaseExpires(t))

(***************************************************************************)
(* Properties                                                              *)
(***************************************************************************)
(* A line handed out while the cursor file belonged to this boot, and      *)
(* neither delivered nor covered by an earlier report, lies above the      *)
(* persisted cursor: whatever was acknowledged after it, whatever failed   *)
(* and whichever process did it, a restart reads the line again            *)
(* (acknowledgeSeq: "a delivery gap pins the durable cursor below the      *)
(* gap").                                                                  *)
GapIsPinned ==
    \A l \in guarded \ accepted :
        l[1] = evBoot => cursor.boot = evBoot /\ cursor.seq < l[2]

FateOf(e) ==
    IF count[e] > 0 THEN IF count[e] = 1 THEN "counted" ELSE "counted twice"
    ELSE IF outbox[e].state = "done" THEN "dismissed"
    ELSE IF outbox[e].state = "dead" THEN "dead"
    ELSE IF Contains(archive, e) \/ Contains(spool, e) \/ e \in wire THEN "open"
    ELSE IF e \in dropped THEN "dropped"
    ELSE IF e \in durable THEN "vanished"
    ELSE "open"

EvOnce == INSTANCE EventOnce WITH
            owed <- durable,
            fate <- [e \in Event |-> FateOf(e)]

(* The path of a detection implements EventOnce: an event that the agent   *)
(* counts as delivered stays in the spool or the archive until it is       *)
(* settled, and is counted in an incident at most once, over lost answers, *)
(* resent batches, expired leases and controllers that process one event   *)
(* at the same time.                                                       *)
EventPromise == EvOnce!OnceSpec

(* Every archived event is counted, dismissed or dead-lettered at last.    *)
Settled(e) == outbox[e].state \in {"done", "dead"}
ArchivedSettles == EventFairness => \A e \in Event : Contains(archive, e) ~> Settled(e)

=============================================================================
