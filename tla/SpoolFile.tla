----------------------------- MODULE SpoolFile -----------------------------
(***************************************************************************)
(* The agent's event spool as a file (internal/agent/spool): events are    *)
(* appended as lines and fsynced, replayed from the head and removed by    *)
(* replacing the file.  A write, an fsync or a replacement can fail while  *)
(* the process lives, and the process or the node can die in any of them.  *)
(*                                                                         *)
(* A line is an event number or Garbage, a fragment with the next record   *)
(* glued to it.  Events are numbered in the order of their appends.        *)
(***************************************************************************)
EXTENDS Naturals, Sequences, FiniteSets, SequencesExt, FiniteSetsExt

CONSTANTS
    SpoolLimit,    \* maxEvents
    ReplayLimit,   \* limit of a ReplayBatch
    MaxAppend,     \* bound on appended events
    MaxTrouble     \* bound on failures and deaths

VARIABLES
    spFile,     \* the file: terminated lines, and whether a fragment follows
    spSynced,   \* leading lines that a node crash cannot take
    spOld,      \* files a node crash may bring back: their replacement is not durable yet
    spMem,      \* the open Spool: count and dirty
    spCall,     \* the call under way
    spNext,     \* events appended so far
    spOwed,     \* history: events whose Append succeeded and that must be kept
    spShaky,    \* history: those of them accepted while spOld held a file
    spTrouble

spVars == <<spFile, spSynced, spOld, spMem, spCall, spNext, spOwed, spShaky, spTrouble>>

Garbage == 0
NoCall == [op |-> "none", sent |-> 0]
Closed == [open |-> FALSE, count |-> 0, dirty |-> FALSE]

SpoolInit ==
    /\ spFile = [lines |-> <<>>, fragment |-> FALSE]
    /\ spSynced = 0 /\ spOld = {}
    /\ spMem = Closed /\ spCall = NoCall
    /\ spNext = 0 /\ spOwed = {} /\ spShaky = {} /\ spTrouble = 0

SpTrouble ==
    /\ spTrouble < MaxTrouble
    /\ spTrouble' = spTrouble + 1

\* readLocked skips lines that do not parse.
SpReadable(lines) == SelectSeq(lines, LAMBDA l : l # Garbage)

\* repairTornTailLocked: everything after the last newline goes.
Repaired(f) == [f EXCEPT !.fragment = FALSE]

(* Open repairs the tail, then counts what is on disk.                     *)
OpenSpool ==
    /\ ~spMem.open
    /\ spFile' = Repaired(spFile)
    /\ spSynced' = IF spFile.fragment THEN Len(spFile.lines) ELSE spSynced
    /\ spMem' = [open |-> TRUE, count |-> Len(SpReadable(spFile.lines)), dirty |-> FALSE]
    /\ UNCHANGED <<spOld, spCall, spNext, spOwed, spShaky, spTrouble>>

\* Variant: a failed append is not repaired before the next call.
HealedNever == [file |-> spFile, synced |-> spSynced, count |-> spMem.count]

\* healTornTailLocked
Healed ==
    IF spMem.dirty
    THEN [file |-> Repaired(spFile),
          synced |-> IF spFile.fragment THEN Len(spFile.lines) ELSE spSynced,
          count |-> Len(SpReadable(spFile.lines))]
    ELSE [file |-> spFile, synced |-> spSynced, count |-> spMem.count]

\* A record written behind a fragment makes one unreadable line of both.
WithRecord(f, e) ==
    [lines |-> Append(f.lines, IF f.fragment THEN Garbage ELSE e), fragment |-> FALSE]

(* Append up to its write: it may be complete, partial or fail.  The fsync *)
(* and the limit follow in the next steps, with the lock held.             *)
AppendWrites ==
    LET e == spNext + 1
        h == Healed
    IN  /\ spMem.open /\ spCall = NoCall /\ spNext < MaxAppend
        /\ spNext' = e
        /\ spSynced' = h.synced
        /\ \/ /\ spFile' = WithRecord(h.file, e)
              /\ spMem' = [spMem EXCEPT !.count = h.count, !.dirty = FALSE]
              /\ spCall' = [op |-> "sync", sent |-> 0]
              /\ UNCHANGED spTrouble
           \/ /\ SpTrouble
              /\ spFile' \in {h.file, [h.file EXCEPT !.fragment = TRUE]}
              /\ spMem' = [spMem EXCEPT !.count = h.count, !.dirty = TRUE]
              /\ UNCHANGED spCall
        /\ UNCHANGED <<spOld, spOwed, spShaky>>

(* The fsync succeeds and the append is done unless the limit is passed,   *)
(* or it fails and nobody knows what reached the disk.                     *)
AppendSyncs ==
    /\ spCall.op = "sync"
    /\ UNCHANGED spOld
    /\ \/ /\ spSynced' = Len(spFile.lines)
          /\ spMem' = [spMem EXCEPT !.count = @ + 1]
          /\ IF spMem.count + 1 <= SpoolLimit
             THEN /\ spCall' = NoCall
                  /\ spOwed' = spOwed \cup {spNext}
                  /\ spShaky' = IF spOld = {} THEN spShaky ELSE spShaky \cup {spNext}
             ELSE spCall' = [op |-> "truncate", sent |-> 0] /\ UNCHANGED <<spOwed, spShaky>>
          /\ UNCHANGED spTrouble
       \/ /\ SpTrouble
          /\ spMem' = [spMem EXCEPT !.dirty = TRUE]
          /\ spCall' = NoCall
          /\ UNCHANGED <<spSynced, spOwed, spShaky>>
    /\ UNCHANGED <<spFile, spNext>>

(* rewriteLocked: a synced temporary file replaces the spool.  It fails    *)
(* before the rename without effect, or after it, when the directory cannot*)
(* be synced and a node crash may bring the old file back.                 *)
RewriteSucceeds(keep) ==
    /\ spFile' = [lines |-> keep, fragment |-> FALSE]
    /\ spSynced' = Len(keep)
    /\ spOld' = {}
    /\ spShaky' = spShaky \ ToSet(keep)
    /\ UNCHANGED spTrouble

RewriteFails(keep) ==
    /\ SpTrouble
    /\ UNCHANGED spShaky
    /\ \/ UNCHANGED <<spFile, spSynced, spOld>>
       \/ /\ spFile' = [lines |-> keep, fragment |-> FALSE]
          /\ spSynced' = Len(keep)
          /\ spOld' = spOld \cup {SubSeq(spFile.lines, 1, spSynced)}

\* truncateLocked keeps the newest maxEvents.
SpKept(lines) == SubSeq(lines, IF Len(lines) > SpoolLimit THEN Len(lines) - SpoolLimit + 1 ELSE 1, Len(lines))

(* The rest of an Append that passed the limit.  If the replacement fails  *)
(* the caller gets an error although its event is stored.                  *)
AppendTruncates ==
    LET keep == SpKept(SpReadable(spFile.lines))
    IN  /\ spCall.op = "truncate"
        /\ spCall' = NoCall
        /\ \/ /\ RewriteSucceeds(keep)
              /\ spMem' = [spMem EXCEPT !.count = Len(keep)]
              /\ spOwed' = (spOwed \cap ToSet(keep)) \cup {spNext}
           \/ /\ RewriteFails(keep)
              /\ spOwed' = spOwed \cap ToSet(keep)
              /\ UNCHANGED spMem
        /\ UNCHANGED spNext

(* ReplayBatch holds the lock while it sends; what was sent stays on disk  *)
(* until the commit.                                                       *)
ReplayStarts ==
    LET h == Healed
    IN  /\ spMem.open /\ spCall = NoCall
        /\ spFile' = h.file /\ spSynced' = h.synced
        /\ spMem' = [spMem EXCEPT !.count = h.count, !.dirty = FALSE]
        /\ SpReadable(h.file.lines) # <<>>
        /\ spCall' = [op |-> "replay", sent |-> 0]
        /\ UNCHANGED <<spOld, spNext, spOwed, spShaky, spTrouble>>

ReplaySends ==
    /\ spCall.op = "replay"
    /\ spCall.sent < Min({ReplayLimit, Len(SpReadable(spFile.lines))})
    /\ spCall' = [spCall EXCEPT !.sent = @ + 1]
    /\ UNCHANGED <<spFile, spSynced, spOld, spMem, spNext, spOwed, spShaky, spTrouble>>

\* A send fails, the batch is complete or the context has ended.
ReplayEnds ==
    LET all == SpReadable(spFile.lines)
        keep == SubSeq(all, spCall.sent + 1, Len(all))
    IN  /\ spCall.op = "replay"
        /\ spCall' = NoCall
        /\ spOwed' = spOwed \ {all[i] : i \in 1 .. spCall.sent}
        /\ \/ /\ spCall.sent = 0
              /\ UNCHANGED <<spFile, spSynced, spOld, spMem, spShaky, spTrouble>>
           \/ /\ spCall.sent > 0
              /\ RewriteSucceeds(keep)
              /\ spMem' = [spMem EXCEPT !.count = Len(keep)]
           \/ /\ spCall.sent > 0
              /\ RewriteFails(keep)
              /\ UNCHANGED spMem
        /\ UNCHANGED spNext

(* The process dies: what was written stays in the page cache, a write     *)
(* under way leaves a prefix of its record.                                *)
ProcessDies ==
    /\ spMem.open
    /\ SpTrouble
    /\ spMem' = Closed /\ spCall' = NoCall
    /\ \/ UNCHANGED <<spFile, spNext>>
       \/ /\ spCall = NoCall /\ spNext < MaxAppend
          /\ spNext' = spNext + 1
          /\ spFile' = [Healed.file EXCEPT !.fragment = TRUE]
    /\ UNCHANGED <<spSynced, spOld, spOwed, spShaky>>

(* The node dies: unsynced lines may be lost or torn, an unsynced          *)
(* replacement may be undone.                                              *)
NodeDies ==
    /\ SpTrouble
    /\ spMem' = Closed /\ spCall' = NoCall
    /\ \/ \E lines \in spOld : spFile' = [lines |-> lines, fragment |-> FALSE]
       \/ \E n \in spSynced .. Len(spFile.lines), torn \in BOOLEAN :
             /\ torn => n < Len(spFile.lines) \/ spFile.fragment
             /\ spFile' = [lines |-> SubSeq(spFile.lines, 1, n), fragment |-> torn]
    /\ spSynced' = Len(spFile'.lines)
    /\ spOld' = {}
    /\ UNCHANGED <<spNext, spOwed, spShaky>>

SpoolNext ==
    \/ OpenSpool \/ AppendWrites \/ AppendSyncs \/ AppendTruncates
    \/ ReplayStarts \/ ReplaySends \/ ReplayEnds
    \/ ProcessDies \/ NodeDies

SpoolSpec == SpoolInit /\ [][SpoolNext]_spVars

\* The given events lie, in the order of their appends, in the part of the
\* file that no crash can take.
DurableInOrder(events) ==
    SelectSeq(SubSeq(spFile.lines, 1, spSynced), LAMBDA e : e \in events)
        = SetToSortSeq(events, <)

(* An event whose Append returned success, and that was neither sent nor   *)
(* dropped as the oldest of a full spool, survives every crash in place:   *)
(* torn tails, failed fsyncs and half-done replacements never swallow, glue*)
(* or reorder it.  Events accepted after a replacement whose directory sync*)
(* failed are exempt until the next replacement.  And an Append that       *)
(* reports success leaves at most maxEvents events in the file: the cached *)
(* count never falls behind it, whatever writes, fsyncs and replacements   *)
(* failed before.                                                          *)
SpoolKeepsOrder ==
    /\ []DurableInOrder(spOwed \ spShaky)
    /\ [][(spNext \in spOwed' \ spOwed) => Len(SpReadable(spFile'.lines)) <= SpoolLimit]_spVars
=============================================================================
