----------------------------- MODULE WaiverStore -----------------------------
(***************************************************************************)
(* The waiver file on disk and the `changegate waiver add` and `prune`     *)
(* commands that rewrite it (src/internal/cli/waiver.go).  A command loads *)
(* the whole file, changes it in memory and writes it back with            *)
(* os.WriteFile, which truncates before it writes; nothing is locked, so   *)
(* commands may overlap, and one may be killed or fail half way.           *)
(***************************************************************************)
EXTENDS WaiverFile

CONSTANT Commands  \* the processes that may run a waiver command, once each

ASSUME StoreAssumption ==
    /\ IsFiniteSet(Commands)
    /\ WaiverNumbers \subseteq 1..MaxReadID  \* "WVR-%03d": these IDs sort as their numbers do

VARIABLES
    waiverFile,  \* the file: absent, whole, or broken (empty, or cut short)
    command,     \* command -> where it stands and what it would write
    reported,    \* the waivers whose addition was reported to succeed
    disturbed,   \* commands overlapped, or a write was cut short
    now          \* the day

storeVars == <<waiverFile, command, reported, disturbed, now>>

File == [state: {"absent", "whole", "broken"}, records: SUBSET Waiver]
Absent == [state |-> "absent", records |-> {}]
Broken == [state |-> "broken", records |-> {}]
Whole(records) == [state |-> "whole", records |-> records]

Idle == [stage |-> "idle", holds |-> {}, adds |-> {}]
Running(c) == command[c].stage \in {"loaded", "truncated"}

StoreInit ==
    /\ waiverFile = Absent
    /\ command = [c \in Commands |-> Idle]
    /\ reported = {}
    /\ disturbed = FALSE
    /\ now = 0

Overlaps(c) == \E d \in Commands \ {c} : Running(d)

Load(c, holds, adds) ==
    /\ command' = [command EXCEPT ![c] = [stage |-> "loaded", holds |-> holds, adds |-> adds]]
    /\ disturbed' = (disturbed \/ Overlaps(c))
    /\ UNCHANGED <<waiverFile, reported, now>>

\* Mutant: whatever cannot be loaded counts as empty.
AddableWhateverTheFile == TRUE

\* loadWaiverFileOrEmpty: only a file that does not exist counts as empty.
Addable == waiverFile.state # "broken"

LoadToAdd(c, scope, expires) ==
    LET id == NextID(waiverFile.records)
        record == [id |-> id, scope |-> scope, created |-> now, expires |-> expires]
        records == waiverFile.records \union {record}
    IN  /\ command[c].stage = "idle"
        /\ Addable
        /\ id \in WaiverNumbers
        /\ ValidWaivers(records, 0)
        /\ Load(c, records, {record})

LoadToPrune(c) ==
    /\ command[c].stage = "idle"
    /\ waiverFile.state = "whole"
    /\ Load(c, PruneExpired(waiverFile.records, now), {})

\* os.WriteFile opens with O_TRUNC ...
Truncate(c) ==
    /\ command[c].stage = "loaded"
    /\ command' = [command EXCEPT ![c].stage = "truncated"]
    /\ waiverFile' = Broken
    /\ UNCHANGED <<reported, disturbed, now>>

(***************************************************************************)
(* ... and writes at the start of the file.  When another command has      *)
(* written since the truncation, what it wrote beyond these bytes stays:   *)
(* the file holds the records, and perhaps others, or cannot be parsed.    *)
(***************************************************************************)
Write(c) ==
    /\ command[c].stage = "truncated"
    /\ \/ waiverFile' = Whole(command[c].holds)
       \/ /\ waiverFile.state = "whole"
          /\ waiverFile' \in {Broken, Whole(command[c].holds \union waiverFile.records)}
    /\ command' = [command EXCEPT ![c].stage = "done"]
    /\ reported' = reported \union command[c].adds
    /\ UNCHANGED <<disturbed, now>>

\* Records are written in the order of their IDs: what the first bytes hold of them.
Beginnings(records) ==
    {part \in SUBSET records : \A v \in part, w \in records : w.id < v.id => w \in part}

\* The write fails or the process is killed: some of the bytes are there.
CutShort(c) ==
    /\ Running(c)
    /\ IF command[c].stage = "loaded" THEN UNCHANGED <<waiverFile, disturbed>>
       ELSE /\ \/ waiverFile' = Broken
               \/ \E part \in Beginnings(command[c].holds) : waiverFile' = Whole(part)
            /\ disturbed' = TRUE
    /\ command' = [command EXCEPT ![c].stage = "failed"]
    /\ UNCHANGED <<reported, now>>

NextDay ==
    /\ now < LastDay
    /\ now' = now + 1
    /\ UNCHANGED <<waiverFile, command, reported, disturbed>>

CommandStep(c) ==
    \/ \E scope \in Scopes, expires \in Days : LoadToAdd(c, scope, expires)
    \/ LoadToPrune(c)
    \/ Truncate(c)
    \/ Write(c)
    \/ CutShort(c)

StoreNext == (\E c \in Commands : CommandStep(c)) \/ NextDay

StoreSpec == StoreInit /\ [][StoreNext]_storeVars

-----------------------------------------------------------------------------
(***************************************************************************)
(* Properties.                                                             *)
(***************************************************************************)
StoreTypeOK ==
    /\ waiverFile \in File
    /\ command \in [Commands ->
           [stage: {"idle", "loaded", "truncated", "done", "failed"},
            holds: SUBSET Waiver, adds: SUBSET Waiver]]
    /\ reported \subseteq Waiver
    /\ disturbed \in BOOLEAN
    /\ now \in Days

Quiet == \A c \in Commands : ~Running(c)

(***************************************************************************)
(* A waiver reported as added stays: whatever is added and pruned later,   *)
(* it is in the file, and the file can be read, until it has expired - or  *)
(* unless commands overlapped or a write was cut short, the two things the *)
(* commands do nothing against (newWaiverAddCommand, newWaiverPruneCommand,*)
(* writeWaiverFile).                                                       *)
(***************************************************************************)
ReportedWaiversStay ==
    Quiet /\ ~disturbed =>
        /\ waiverFile.state # "broken"
        /\ \A r \in reported : Expired(r, now) \/ r \in waiverFile.records

(***************************************************************************)
(* Nobody covers up a damaged waiver file: as long as no command is in the *)
(* middle of its write, a file that cannot be read stays as it is, for a   *)
(* person to repair, and no command replaces it with what little it could  *)
(* load (loadWaiverFileOrEmpty).                                           *)
(***************************************************************************)
DamageIsNotCoveredUp ==
    [][waiverFile.state = "broken" /\ Quiet => waiverFile' = waiverFile /\ Quiet']_storeVars
=============================================================================
