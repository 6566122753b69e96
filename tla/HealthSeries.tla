---------------------------- MODULE HealthSeries ----------------------------
(***************************************************************************)
(* The polled second detection source of a node: the NVIDIA watcher        *)
(* (agent/gpuhealth) and the AMD watcher (agent/amdhealth), for one GPU    *)
(* with one level series (the last XID, a throttle or a lost device) and   *)
(* one counter series (ECC errors, retired pages, link errors).  The       *)
(* NVIDIA watcher reads its level from DCGM and its counter from           *)
(* nvidia-smi when DCGM fails, and keeps what it has emitted in a file;    *)
(* the AMD watcher reads both from one tool and keeps nothing.             *)
(***************************************************************************)
EXTENDS Integers

CONSTANTS
    SeLevels,    \* the faulted values of the level series
    SeDelta,     \* per vendor: the growth a counter must show to be reported again
    MaxSeCount,  \* bound on the hardware counter
    MaxSeChange, \* bound on changes of the level
    MaxSeStart   \* bound on agent starts and reboots

ASSUME SeriesAssumption ==
    /\ SeDelta \in [{"nvidia", "amd"} -> Nat \ {0}] /\ SeDelta["nvidia"] = 1
    /\ SeLevels \subseteq Nat \ {0}

VARIABLES
    seVendor,
    seLevel,    \* the hardware's level, 0 for none
    seCount,    \* the hardware's counter
    seDevice,   \* which device sits in the slot
    seUp,       \* the agent runs
    seProc,     \* the watcher's memory
    seFile,     \* the record on disk: the boot it is bound to and the level emitted
    seBoot,
    seSent,     \* history: what the last step put on the channel
    seChanged,  \* history: the level has changed, or a save failed, since it was last emitted
    seChanges, seStarts

seVars == <<seVendor, seLevel, seCount, seDevice, seUp, seProc, seFile, seBoot, seSent, seChanged,
            seChanges, seStarts>>

NoValue == -1
NoRecord == [boot |-> 0, level |-> NoValue]
NewWatcher == [loaded |-> FALSE, polled |-> FALSE, baselining |-> FALSE, level |-> NoValue,
               saved |-> NoValue, count |-> NoValue, reported |-> 0, device |-> 0]

SeInit ==
    /\ seVendor \in {"nvidia", "amd"}
    /\ seLevel \in {0} \cup SeLevels /\ seCount = 0 /\ seDevice = 1
    /\ seUp = TRUE /\ seProc = NewWatcher /\ seFile = NoRecord /\ seBoot = 1
    /\ seSent = {} /\ seChanged = TRUE /\ seChanges = 0 /\ seStarts = 0

-----------------------------------------------------------------------------
(* The watchers                                                            *)

\* Variant: the record is read but does not count as seen.
loadStateUnseeded ==
    IF seProc.loaded THEN seProc
    ELSE [seProc EXCEPT !.loaded = TRUE, !.saved = seFile.level]

\* Once per process: a record of this boot seeds the series, without one the level is only
\* noted on the first poll.  The AMD watcher starts empty.
loadStateLocked ==
    IF seProc.loaded THEN seProc
    ELSE IF seVendor = "amd" THEN [seProc EXCEPT !.loaded = TRUE]
    ELSE IF seFile.boot = seBoot /\ seFile.level # NoValue
    THEN [seProc EXCEPT !.loaded = TRUE, !.level = seFile.level, !.saved = seFile.level]
    ELSE [seProc EXCEPT !.loaded = TRUE, !.baselining = seFile.boot # seBoot]

\* DCGM prints no row value for a GPU without an XID; the AMD tools print the zero.
levelObserved == seVendor = "amd" \/ seLevel # 0

baselines(w) == w.baselining /\ ~w.polled

\* The level rule of both filters.
emitsLevel(w) == ~baselines(w) /\ seLevel # 0 /\ seLevel # w.level

filterLevel(w) ==
    IF ~levelObserved THEN w
    ELSE [w EXCEPT !.level = seLevel,
                   !.saved = IF seVendor = "nvidia" /\ (baselines(w) \/ emitsLevel(w)) THEN seLevel ELSE @]

\* The growth since the last report has reached the delta.
emitsCount(w) == w.count # NoValue /\ seCount >= w.count /\ seCount >= w.reported + SeDelta[seVendor]

\* The first value and a value that went backwards are only a baseline.
filterCount(w) ==
    [w EXCEPT !.count = seCount,
              !.reported = IF w.count = NoValue \/ seCount < w.count \/ emitsCount(w) THEN seCount ELSE @]

\* What a tool's output yields series for: DCGM the level, nvidia-smi the counters, an AMD
\* tool whichever fields its version prints.
pollDCGM == {"level"}
parseSMIHealth == {"count"}
parseAMDSMI == SUBSET {"level", "count"}

\* A sample gives candidates only for the fields it carries.
deviceCandidates == parseAMDSMI \ {{}}

\* One source serves a poll: DCGM, or nvidia-smi when DCGM fails; an AMD tool.
sources == IF seVendor = "nvidia" THEN {pollDCGM, parseSMIHealth} ELSE deviceCandidates

\* The record of a successful save.
saveHealthState(w) == [boot |-> seBoot, level |-> w.saved]

\* Another UUID than the last one known at this index starts the series over; a sample
\* without a UUID leaves none known.
forgetReplacedDevice(w, uuid) ==
    IF w.device # 0 /\ uuid # 0 /\ w.device # uuid
    THEN [w EXCEPT !.device = uuid, !.level = NoValue, !.count = NoValue, !.reported = 0]
    ELSE [w EXCEPT !.device = uuid]

\* poll: load, filter, save when the emitted level changed (the write may fail), then send.
poll(seen, uuid) ==
    LET w == forgetReplacedDevice(loadStateLocked, uuid)
        levels == IF "level" \in seen THEN filterLevel(w) ELSE w
        new == [(IF "count" \in seen THEN filterCount(levels) ELSE levels) EXCEPT !.polled = TRUE]
        told == {x \in seen : IF x = "level" THEN emitsLevel(w) ELSE emitsCount(w)}
    IN  /\ seUp
        /\ seProc' = new /\ seSent' = told
        /\ \/ /\ seFile' = IF new.saved = w.saved THEN seFile ELSE saveHealthState(new)
              /\ seChanged' = (seChanged /\ "level" \notin told)
           \/ new.saved # w.saved /\ UNCHANGED seFile /\ seChanged' = TRUE
        /\ UNCHANGED <<seVendor, seLevel, seCount, seDevice, seUp, seBoot, seChanges, seStarts>>

-----------------------------------------------------------------------------
(* The hardware, the agent and the host                                    *)

LevelChanges ==
    /\ seChanges < MaxSeChange /\ seChanges' = seChanges + 1
    /\ seLevel' \in ({0} \cup SeLevels) \ {seLevel}
    /\ seChanged' = TRUE /\ seSent' = {}
    /\ UNCHANGED <<seVendor, seCount, seDevice, seUp, seProc, seFile, seBoot, seStarts>>

\* The counter grows, or a driver reload takes it back to zero.
CounterMoves ==
    /\ seChanges < MaxSeChange /\ seChanges' = seChanges + 1
    /\ \E n \in 0 .. MaxSeCount : n # seCount /\ (n > seCount \/ n = 0) /\ seCount' = n
    /\ seSent' = {}
    /\ UNCHANGED <<seVendor, seLevel, seDevice, seUp, seProc, seFile, seBoot, seChanged, seStarts>>

\* Another GPU takes the slot, with a history of its own.
DeviceReplaced ==
    /\ seVendor = "amd" /\ seChanges < MaxSeChange /\ seChanges' = seChanges + 1
    /\ seDevice' = seDevice + 1 /\ seLevel' = 0 /\ seCount' \in 0 .. MaxSeCount
    /\ seChanged' = TRUE /\ seSent' = {}
    /\ UNCHANGED <<seVendor, seUp, seProc, seFile, seBoot, seStarts>>

SeStops ==
    /\ seUp /\ seUp' = FALSE /\ seProc' = NewWatcher /\ seSent' = {}
    /\ seChanged' = (seChanged \/ seVendor = "amd")
    /\ UNCHANGED <<seVendor, seLevel, seCount, seDevice, seFile, seBoot, seChanges, seStarts>>

\* In the same boot, or in the next, which clears what the host engine retained.
SeStarts ==
    /\ ~seUp /\ seStarts < MaxSeStart /\ seStarts' = seStarts + 1
    /\ seUp' = TRUE /\ seSent' = {}
    /\ \/ UNCHANGED <<seLevel, seCount, seBoot, seChanged>>
       \/ seBoot' = seBoot + 1 /\ seLevel' = 0 /\ seCount' = 0 /\ seChanged' = TRUE
    /\ UNCHANGED <<seVendor, seDevice, seProc, seFile, seChanges>>

\* The record is lost or becomes unreadable.
RecordLost ==
    /\ seFile # NoRecord /\ seFile' = NoRecord /\ seChanged' = TRUE /\ seSent' = {}
    /\ UNCHANGED <<seVendor, seLevel, seCount, seDevice, seUp, seProc, seBoot, seChanges, seStarts>>

SeNext ==
    \/ \E seen \in sources : poll(seen, 0) \/ (seVendor = "amd" /\ poll(seen, seDevice))
    \/ LevelChanges \/ CounterMoves \/ DeviceReplaced \/ SeStops \/ SeStarts \/ RecordLost

SeSpec == SeInit /\ [][SeNext]_seVars

-----------------------------------------------------------------------------
(* A retained fault is told once: a level is emitted only when it has      *)
(* changed since its last emission, across restarts of the agent too,      *)
(* unless the record of it could not be kept.  And no growth of a counter  *)
(* is forgotten by being slow: what has been seen and not yet reported is  *)
(* always less than the delta (filter, loadStateLocked, persistState).     *)
SeriesAreHonest ==
    /\ [](seProc.count # NoValue =>
             /\ seProc.reported <= seProc.count
             /\ seProc.count < seProc.reported + SeDelta[seVendor])
    /\ [][("level" \in seSent') => seChanged]_seVars
=============================================================================
