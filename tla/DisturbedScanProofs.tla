------------------------ MODULE DisturbedScanProofs ------------------------
(***************************************************************************)
(* The waiver file and the scans that meet it while it changes.  First,    *)
(* what no waiver command loses.  Then, a scan while the repository is     *)
(* edited once: at every moment there is a repository, the one of some     *)
(* moment so far, that what was read is of and that the rest will be no    *)
(* laxer than: the witness.  An edit leaves the witness, or makes the      *)
(* repository as it then is the new one.                                   *)
(***************************************************************************)
EXTENDS ScanPipelineProofs, WaiverStore, TLAPS

-----------------------------------------------------------------------------
(***************************************************************************)
(* The waiver file, for any number of waiver commands, any findings and    *)
(* any number of days: what no command loses.                              *)
(***************************************************************************)

\* Only one command at a time touches an undisturbed file.
OneAtATime == \A c, d \in Commands : Running(c) /\ Running(d) => c = d

\* Every reported waiver that has not expired is among the records.
Covers(records) == \A r \in reported : Expired(r, now) \/ r \in records

(***************************************************************************)
(* A running command holds all that was reported, and what it adds; the    *)
(* file does too, unless the command has just truncated it.                *)
(***************************************************************************)
NothingLost ==
    /\ \A c \in Commands :
          /\ Running(c) => Covers(command[c].holds) /\ command[c].adds \subseteq command[c].holds
          /\ command[c].stage = "truncated" => waiverFile.state = "broken"
    /\ (\A c \in Commands : command[c].stage # "truncated") =>
          waiverFile.state # "broken" /\ Covers(waiverFile.records)

\* The inductive invariant.
IInv ==
    /\ StoreTypeOK
    /\ ~disturbed => OneAtATime /\ NothingLost

-----------------------------------------------------------------------------
(***************************************************************************)
(* Types.                                                                  *)
(***************************************************************************)

\* What is in force today is among the records that pruning keeps.
LEMMA PruningKeeps ==
    ASSUME NEW records \in SUBSET Waiver, NEW day \in Days
    PROVE  /\ PruneExpired(records, day) \subseteq records
           /\ \A r \in records : Expired(r, day) \/ r \in PruneExpired(records, day)
    BY DEF PruneExpired

\* What has expired stays expired.
LEMMA ExpiryLasts ==
    ASSUME NEW r \in Waiver, NEW day \in Days, Expired(r, day)
    PROVE  Expired(r, day + 1)
<1>1. r.expires \in Int /\ day \in Int
    BY WaiverAssumption DEF Waiver, Days
<1>. QED  BY <1>1 DEF Expired

\* The first file is well typed.
LEMMA TypeInit == StoreInit => StoreTypeOK
<1>. SUFFICES ASSUME StoreInit PROVE StoreTypeOK
    OBVIOUS
<1>1. 0 \in Days
    BY WaiverAssumption DEF Days
<1>2. Absent \in File
    BY DEF Absent, File
<1>3. Idle \in [stage: {"idle", "loaded", "truncated", "done", "failed"},
                holds: SUBSET Waiver, adds: SUBSET Waiver]
    BY DEF Idle
<1>. QED  BY <1>1, <1>2, <1>3 DEF StoreInit, StoreTypeOK

\* Every step keeps the types.
LEMMA TypeStep == StoreTypeOK /\ [StoreNext]_storeVars => StoreTypeOK'
<1>. SUFFICES ASSUME StoreTypeOK, [StoreNext]_storeVars
              PROVE  StoreTypeOK'
    OBVIOUS
<1>. USE DEF StoreTypeOK
<1>1. ASSUME NEW c \in Commands, NEW scope \in Scopes, NEW expires \in Days, LoadToAdd(c, scope, expires)
      PROVE  StoreTypeOK'
    <2>. DEFINE record == [id |-> NextID(waiverFile.records), scope |-> scope,
                           created |-> now, expires |-> expires]
                records == waiverFile.records \union {record}
    <2>1. record \in Waiver
        BY <1>1 DEF LoadToAdd, Waiver
    <2>2. records \in SUBSET Waiver
        BY <2>1 DEF File
    <2>3. Load(c, records, {record})
        BY <1>1 DEF LoadToAdd
    <2>4. command' = [command EXCEPT ![c] = [stage |-> "loaded", holds |-> records, adds |-> {record}]]
        BY <2>3 DEF Load
    <2>5. [stage |-> "loaded", holds |-> records, adds |-> {record}]
             \in [stage: {"idle", "loaded", "truncated", "done", "failed"},
                  holds: SUBSET Waiver, adds: SUBSET Waiver]
        BY <2>1, <2>2
    <2>. HIDE DEF records, record
    <2>6. command' \in [Commands ->
             [stage: {"idle", "loaded", "truncated", "done", "failed"},
              holds: SUBSET Waiver, adds: SUBSET Waiver]]
        BY <2>4, <2>5
    <2>7. disturbed' \in BOOLEAN /\ UNCHANGED <<waiverFile, reported, now>>
        BY <2>3 DEF Load, Overlaps, Running
    <2>. QED  BY <2>6, <2>7
<1>2. ASSUME NEW c \in Commands, LoadToPrune(c)
      PROVE  StoreTypeOK'
    <2>1. PruneExpired(waiverFile.records, now) \in SUBSET Waiver
        BY PruningKeeps DEF File
    <2>2. disturbed' \in BOOLEAN
        BY <1>2 DEF LoadToPrune, Load, Overlaps, Running
    <2>. QED  BY <1>2, <2>1, <2>2 DEF LoadToPrune, Load
<1>3. ASSUME NEW c \in Commands, Truncate(c)
      PROVE  StoreTypeOK'
    BY <1>3 DEF Truncate, File, Broken
<1>4. ASSUME NEW c \in Commands, Write(c)
      PROVE  StoreTypeOK'
    <2>1. command[c].holds \in SUBSET Waiver /\ command[c].adds \in SUBSET Waiver
        OBVIOUS
    <2>2. waiverFile.records \in SUBSET Waiver
        BY DEF File
    <2>3. waiverFile' \in File
        BY <1>4, <2>1, <2>2 DEF Write, File, Whole, Broken
    <2>. QED  BY <1>4, <2>1, <2>3 DEF Write
<1>5. ASSUME NEW c \in Commands, CutShort(c)
      PROVE  StoreTypeOK'
    <2>1. command[c].holds \in SUBSET Waiver
        OBVIOUS
    <2>2. waiverFile' \in File
        BY <1>5, <2>1 DEF CutShort, Beginnings, File, Whole, Broken
    <2>. QED  BY <1>5, <2>2 DEF CutShort
<1>6. CASE NextDay
    BY <1>6, WaiverAssumption DEF NextDay, Days
<1>7. CASE UNCHANGED storeVars
    BY <1>7 DEF storeVars
<1>. QED  BY <1>1, <1>2, <1>3, <1>4, <1>5, <1>6, <1>7 DEF StoreNext, CommandStep

\* The file, the commands and the clock keep their types, whatever overlaps or dies.
THEOREM TypeCorrectness == StoreSpec => []StoreTypeOK
    BY TypeInit, TypeStep, PTL DEF StoreSpec

-----------------------------------------------------------------------------
(***************************************************************************)
(* Reported waivers.                                                       *)
(***************************************************************************)

\* A command that loads while no other runs, and with it all that was reported, is safe.
LEMMA LoadSafe ==
    ASSUME IInv, NEW c \in Commands, NEW holds \in SUBSET Waiver, NEW adds \in SUBSET Waiver,
           command[c].stage = "idle", Load(c, holds, adds), adds \subseteq holds,
           waiverFile.state # "broken",
           \A r \in waiverFile.records : Expired(r, now) \/ r \in holds,
           ~disturbed'
    PROVE  OneAtATime' /\ NothingLost'
<1>1. ~disturbed /\ \A d \in Commands \ {c} : ~Running(d)
    BY DEF Load, Overlaps
<1>2. \A d \in Commands : d # c => command'[d] = command[d]
    BY DEF Load, IInv, StoreTypeOK
<1>3. command'[c] = [stage |-> "loaded", holds |-> holds, adds |-> adds]
    BY DEF Load, IInv, StoreTypeOK
<1>4. \A d \in Commands : command[d].stage # "truncated"
    BY <1>1 DEF Running
<1>5. Covers(waiverFile.records)
    BY <1>1, <1>4 DEF IInv, NothingLost
<1>6. Covers(holds)
    BY <1>5 DEF Covers
<1>7. UNCHANGED <<waiverFile, reported, now>>
    BY DEF Load
<1>8. \A d \in Commands : Running(d)' => d = c
    BY <1>1, <1>2 DEF Running
<1>9. OneAtATime'
    BY <1>8 DEF OneAtATime
<1>10. NothingLost'
    BY <1>2, <1>3, <1>4, <1>5, <1>6, <1>7, <1>8 DEF NothingLost, Covers
<1>. QED  BY <1>9, <1>10

\* Every step keeps the invariant.
LEMMA StoreStep == IInv /\ [StoreNext]_storeVars => IInv'
<1>. SUFFICES ASSUME IInv, [StoreNext]_storeVars, ~disturbed'
              PROVE  OneAtATime' /\ NothingLost'
    BY TypeStep DEF IInv
<1>. USE DEF IInv
<1>1. ASSUME NEW c \in Commands, NEW scope \in Scopes, NEW expires \in Days, LoadToAdd(c, scope, expires)
      PROVE  OneAtATime' /\ NothingLost'
    <2>. DEFINE record == [id |-> NextID(waiverFile.records), scope |-> scope,
                           created |-> now, expires |-> expires]
                records == waiverFile.records \union {record}
    <2>1. record \in Waiver
        BY <1>1 DEF LoadToAdd, Waiver, StoreTypeOK
    <2>2. records \in SUBSET Waiver
        BY <2>1 DEF File, StoreTypeOK
    <2>3. command[c].stage = "idle" /\ Load(c, records, {record}) /\ waiverFile.state # "broken"
        BY <1>1 DEF LoadToAdd, Addable
    <2>4. {record} \subseteq records /\ \A r \in waiverFile.records : r \in records
        OBVIOUS
    <2>. HIDE DEF records, record
    <2>. QED  BY <2>1, <2>2, <2>3, <2>4, LoadSafe
<1>2. ASSUME NEW c \in Commands, LoadToPrune(c)
      PROVE  OneAtATime' /\ NothingLost'
    <2>. DEFINE records == PruneExpired(waiverFile.records, now)
    <2>1. waiverFile.records \in SUBSET Waiver /\ now \in Days
        BY DEF File, StoreTypeOK
    <2>2. records \in SUBSET Waiver /\ \A r \in waiverFile.records : Expired(r, now) \/ r \in records
        BY <2>1, PruningKeeps
    <2>3. command[c].stage = "idle" /\ Load(c, records, {}) /\ waiverFile.state # "broken"
        BY <1>2 DEF LoadToPrune
    <2>. HIDE DEF records
    <2>. QED  BY <2>2, <2>3, LoadSafe
<1>3. ASSUME NEW c \in Commands, Truncate(c)
      PROVE  OneAtATime' /\ NothingLost'
    <2>1. ~disturbed /\ Running(c) /\ UNCHANGED <<reported, now>> /\ waiverFile' = Broken
        BY <1>3 DEF Truncate, Running
    <2>2. \A d \in Commands : d # c => command'[d] = command[d] /\ ~Running(d)
        BY <1>3, <2>1 DEF Truncate, StoreTypeOK, OneAtATime
    <2>3. command'[c] = [command[c] EXCEPT !.stage = "truncated"]
        BY <1>3 DEF Truncate, StoreTypeOK
    <2>4. \A d \in Commands : Running(d)' => d = c
        BY <2>2 DEF Running
    <2>5. command'[c].stage = "truncated" /\ command'[c].holds = command[c].holds
          /\ command'[c].adds = command[c].adds
        BY <2>3 DEF StoreTypeOK
    <2>6. OneAtATime'
        BY <2>4 DEF OneAtATime
    <2>7. waiverFile'.state = "broken"
        BY <2>1 DEF Broken
    <2>8. \A d \in Commands : command'[d].stage = "truncated" => d = c
        BY <2>4 DEF Running
    <2>9. NothingLost'
        BY <2>1, <2>4, <2>5, <2>7, <2>8 DEF NothingLost, Covers
    <2>. QED  BY <2>6, <2>9
<1>4. ASSUME NEW c \in Commands, Write(c)
      PROVE  OneAtATime' /\ NothingLost'
    <2>1. ~disturbed /\ Running(c) /\ UNCHANGED now /\ reported' = reported \union command[c].adds
        BY <1>4 DEF Write, Running
    <2>2. \A d \in Commands : d # c => command'[d] = command[d] /\ ~Running(d)
        BY <1>4, <2>1 DEF Write, StoreTypeOK, OneAtATime
    <2>3. command'[c].stage = "done"
        BY <1>4 DEF Write, StoreTypeOK
    <2>4. \A d \in Commands : ~Running(d)' /\ command'[d].stage # "truncated"
        BY <2>2, <2>3 DEF Running
    <2>5. waiverFile.state = "broken"
        BY <1>4, <2>1 DEF Write, NothingLost
    <2>6. waiverFile' = Whole(command[c].holds)
        BY <1>4, <2>5 DEF Write
    <2>7. waiverFile'.state # "broken" /\ waiverFile'.records = command[c].holds
        BY <2>6 DEF Whole
    <2>8. Covers(command[c].holds) /\ command[c].adds \subseteq command[c].holds
        BY <2>1 DEF NothingLost
    <2>9. Covers(waiverFile.records)'
        BY <2>1, <2>7, <2>8 DEF Covers
    <2>. QED  BY <2>4, <2>7, <2>9 DEF OneAtATime, NothingLost
<1>5. ASSUME NEW c \in Commands, CutShort(c)
      PROVE  OneAtATime' /\ NothingLost'
    <2>1. ~disturbed /\ command[c].stage = "loaded" /\ Running(c) /\ UNCHANGED <<waiverFile, reported, now>>
        BY <1>5 DEF CutShort, Running
    <2>2. \A d \in Commands : d # c => command'[d] = command[d] /\ ~Running(d)
        BY <1>5, <2>1 DEF CutShort, StoreTypeOK, OneAtATime
    <2>3. command'[c].stage = "failed"
        BY <1>5 DEF CutShort, StoreTypeOK
    <2>4. \A d \in Commands : ~Running(d)' /\ command'[d].stage # "truncated"
        BY <2>2, <2>3 DEF Running
    <2>5. \A d \in Commands : command[d].stage # "truncated"
        BY <2>1, <2>2 DEF Running
    <2>6. waiverFile.state # "broken" /\ Covers(waiverFile.records)
        BY <2>1, <2>5 DEF NothingLost
    <2>. QED  BY <2>1, <2>4, <2>6 DEF OneAtATime, NothingLost, Covers
<1>6. CASE NextDay
    <2>1. ~disturbed /\ UNCHANGED <<waiverFile, command, reported>> /\ now' = now + 1
        BY <1>6 DEF NextDay
    <2>2. \A r \in reported : Expired(r, now) => Expired(r, now')
        BY <2>1, ExpiryLasts DEF StoreTypeOK
    <2>3. \A records : Covers(records) => \A r \in reported' : Expired(r, now') \/ r \in records
        BY <2>1, <2>2 DEF Covers
    <2>. QED  BY <2>1, <2>3 DEF OneAtATime, NothingLost, Running, Covers
<1>7. CASE UNCHANGED storeVars
    BY <1>7 DEF storeVars, OneAtATime, NothingLost, Running, Covers
<1>. QED  BY <1>1, <1>2, <1>3, <1>4, <1>5, <1>6, <1>7 DEF StoreNext, CommandStep

\* Before any command, nothing can be lost.
LEMMA Initially == StoreInit => IInv
<1>. SUFFICES ASSUME StoreInit PROVE OneAtATime /\ NothingLost
    BY TypeInit DEF IInv
<1>1. \A c \in Commands : command[c].stage = "idle"
    BY DEF StoreInit, Idle
<1>2. waiverFile.state # "broken" /\ reported = {}
    BY DEF StoreInit, Absent
<1>. QED  BY <1>1, <1>2 DEF OneAtATime, NothingLost, Running, Covers

\* The inductive invariant holds throughout.
THEOREM Invariance == StoreSpec => []IInv
    BY Initially, StoreStep, PTL DEF StoreSpec

(***************************************************************************)
(* Of the two things that lose a reported waiver, an overlap and a write   *)
(* cut short, one must have happened: adding, pruning and the passing days *)
(* lose none, in any order and number (newWaiverAddCommand,                *)
(* newWaiverPruneCommand).                                                 *)
(***************************************************************************)
THEOREM NoReportedWaiverIsLost == StoreSpec => []ReportedWaiversStay
<1>1. IInv => ReportedWaiversStay
    BY DEF IInv, NothingLost, Covers, ReportedWaiversStay, Quiet, Running
<1>. QED  BY <1>1, Invariance, PTL

(***************************************************************************)
(* No number of commands replaces a file that cannot be read               *)
(* (loadWaiverFileOrEmpty).                                                *)
(***************************************************************************)
THEOREM DamageStays == StoreSpec => DamageIsNotCoveredUp
<1>1. ASSUME StoreTypeOK, [StoreNext]_storeVars, waiverFile.state = "broken", Quiet
      PROVE  waiverFile' = waiverFile /\ Quiet'
    <2>1. \A c \in Commands : ~CommandStep(c)
        BY <1>1 DEF CommandStep, LoadToAdd, Addable, LoadToPrune, Truncate, Write, CutShort, Quiet, Running
    <2>2. NextDay \/ UNCHANGED storeVars
        BY <1>1, <2>1 DEF StoreNext
    <2>. QED  BY <1>1, <2>2 DEF NextDay, storeVars, Quiet, Running
<1>2. StoreTypeOK /\ [StoreNext]_storeVars =>
          [waiverFile.state = "broken" /\ Quiet => waiverFile' = waiverFile /\ Quiet']_storeVars
    BY <1>1
<1>. QED  BY <1>2, TypeCorrectness, PTL DEF StoreSpec, DamageIsNotCoveredUp

-----------------------------------------------------------------------------
(***************************************************************************)
(* Fewer waivers never make for a weaker decision.                         *)
(***************************************************************************)
WaivedAt(f, S) == IF f.site \in S THEN Suppress(f, "waiver") ELSE f

Waiving(F, S) == {WaivedAt(f, S) : f \in F}

\* The sites that waivers suppress on a day.
Effective(records, day) == UNION {w.scope : w \in PruneExpired(records, day)}

Unwaived(F) == \A f \in F : "waiver" \notin f.suppressions

\* What waivers do is read off the sites they suppress.
LEMMA EffectOfWaivers ==
    ASSUME NEW records, NEW F, NEW day
    PROVE  ApplyWaivers(records, F, day) = Waiving(F, Effective(records, day))
<1>1. ASSUME NEW f
      PROVE  (\E w \in records : Matches(w, f, day)) <=> f.site \in Effective(records, day)
    BY DEF Matches, Effective, PruneExpired
<1>2. ASSUME NEW f
      PROVE  (IF \E w \in records : Matches(w, f, day) THEN Suppress(f, "waiver") ELSE f)
                 = WaivedAt(f, Effective(records, day))
    BY <1>1 DEF WaivedAt
<1>. QED  BY Zenon, <1>2 DEF ApplyWaivers, Waiving

\* A finding, waived or not.
LEMMA WaivedAtFields ==
    ASSUME NEW f \in Finding, f.impact = "allow", "waiver" \notin f.suppressions, NEW S
    PROVE  LET g == WaivedAt(f, S)
           IN  /\ g \in Finding /\ g.site = f.site /\ g.impact = "allow"
               /\ g.severity = f.severity /\ g.confidence = f.confidence /\ g.sensitive = f.sensitive
               /\ "waiver" \in g.suppressions <=> f.site \in S
               /\ f.site \notin S => g = f
<1>1. CASE f.site \in S
    <2>1. "waiver" \in SuppressionKinds
        BY DEF SuppressionKinds
    <2>2. WaivedAt(f, S) = Suppress(f, "waiver")
        BY <1>1 DEF WaivedAt
    <2>. QED  BY <1>1, <2>1, <2>2, SuppressedFields
<1>2. CASE f.site \notin S
    <2>1. WaivedAt(f, S) = f
        BY <1>2 DEF WaivedAt
    <2>. QED  BY <1>2, <2>1
<1>. QED  BY <1>1, <1>2

\* A decision is read off the impacts of what is kept.
LEMMA ImpactsDecide ==
    ASSUME NEW kept, NEW more, NEW mode,
           \A f \in kept : f.impact \in {"block", "warn"} => f \in more
    PROVE  DecisionRank(DecisionFor(kept, mode)) <= DecisionRank(DecisionFor(more, mode))
<1>. DEFINE I == {f.impact : f \in kept}
            J == {f.impact : f \in more}
            blocked == IF mode = "block" THEN "block" ELSE "warn"
<1>1. ("block" \in I => "block" \in J) /\ ("warn" \in I => "warn" \in J)
    OBVIOUS
<1>2. DecisionFor(kept, mode) = IF "block" \in I THEN blocked ELSE IF "warn" \in I THEN "warn" ELSE "allow"
    BY DEF DecisionFor
<1>3. DecisionFor(more, mode) = IF "block" \in J THEN blocked ELSE IF "warn" \in J THEN "warn" ELSE "allow"
    BY DEF DecisionFor
<1>4. blocked \in {"block", "warn"}
    OBVIOUS
<1>. HIDE DEF I, J, blocked
<1>. QED  BY <1>1, <1>2, <1>3, <1>4, Ranks

\* What is kept and enforced with more waivers is kept with fewer.
LEMMA EnforcedWithFewer ==
    ASSUME NEW F, Arrivable(F), OnePerSite(F), Unwaived(F), NEW config, IsConfig(config),
           NEW A, NEW B \in SUBSET A,
           NEW n \in DeduplicateFindings(InContext(Waiving(F, A), config)), ~Suppressed(n)
    PROVE  n \in DeduplicateFindings(InContext(Waiving(F, B), config))
<1>1. PICK f \in F : n = ApplyContext(WaivedAt(f, A), config)
    BY DEF DeduplicateFindings, InContext, Waiving
<1>2. /\ f \in Finding /\ f.impact = "allow" /\ "waiver" \notin f.suppressions
      /\ WaivedAt(f, A) \in Finding /\ WaivedAt(f, A).impact = "allow" /\ WaivedAt(f, A).site = f.site
    BY WaivedAtFields DEF Arrivable, Unwaived
<1>3. n.site = f.site /\ n \in Finding /\ "waiver" \notin WaivedAt(f, A).suppressions
    BY <1>1, <1>2, Applied DEF Suppressed
<1>4. f.site \notin A /\ f.site \notin B
    BY <1>2, <1>3, WaivedAtFields
<1>5. WaivedAt(f, A) = f /\ WaivedAt(f, B) = f
    BY <1>4 DEF WaivedAt
<1>6. n \in InContext(Waiving(F, B), config)
    BY <1>1, <1>5 DEF InContext, Waiving
<1>7. ASSUME NEW m \in InContext(Waiving(F, B), config) \ {n}, SameKey(n, m)
      PROVE  SortsBefore(n, m)
    <2>1. PICK x \in F : m = ApplyContext(WaivedAt(x, B), config)
        BY DEF InContext, Waiving
    <2>. DEFINE y == WaivedAt(x, A)
                z == WaivedAt(x, B)
                was == ApplyContext(y, config)
    <2>2. /\ y \in Finding /\ y.site = x.site /\ y.impact = "allow"
          /\ y.severity = x.severity /\ y.confidence = x.confidence /\ y.sensitive = x.sensitive
          /\ "waiver" \in y.suppressions <=> x.site \in A
        BY WaivedAtFields DEF Arrivable, Unwaived
    <2>3. /\ z \in Finding /\ z.site = x.site /\ z.impact = "allow"
          /\ z.severity = x.severity /\ z.confidence = x.confidence /\ z.sensitive = x.sensitive
          /\ "waiver" \in z.suppressions <=> x.site \in B
        BY WaivedAtFields DEF Arrivable, Unwaived
    <2>4. was \in InContext(Waiving(F, A), config)
        BY DEF InContext, Waiving
    <2>. HIDE DEF y, z
    <2>5. m = ApplyContext(z, config)
        BY <2>1 DEF z
    <2>6. /\ was \in Finding /\ m \in Finding /\ was.site = x.site /\ m.site = x.site
          /\ m.severity <= was.severity /\ m.confidence <= was.confidence
        BY <2>2, <2>3, <2>5, JudgedNoHigher
    <2>7. n.site # m.site
        <3>1. SUFFICES ASSUME n.site = m.site PROVE FALSE
            OBVIOUS
        <3>2. x = f
            BY <1>3, <2>6, <3>1 DEF OnePerSite
        <3>. QED  BY <1>1, <1>5, <2>1, <3>2
    <2>. HIDE DEF was
    <2>8. SortsBefore(n, was)
        BY <1>7, <2>4, <2>6, <2>7 DEF DeduplicateFindings, SameKey
    <2>. QED  BY <1>3, <2>6, <2>7, <2>8 DEF SortsBefore, Finding, Severities, Confidences
<1>. QED  BY <1>6, <1>7 DEF DeduplicateFindings

\* With fewer waivers the decision is as strict, or stricter.
LEMMA FewerWaivers ==
    ASSUME NEW F, Arrivable(F), OnePerSite(F), Unwaived(F), NEW config, IsConfig(config),
           NEW A, NEW B \in SUBSET A
    PROVE  DecisionRank(EvaluatePolicy(Waiving(F, A), config).decision)
              <= DecisionRank(EvaluatePolicy(Waiving(F, B), config).decision)
<1>1. ASSUME NEW g \in KeptOf(Waiving(F, A), config), g.impact \in {"block", "warn"}
      PROVE  g \in KeptOf(Waiving(F, B), config)
    <2>1. PICK n \in DeduplicateFindings(InContext(Waiving(F, A), config)) : g = WithImpact(n, config)
        BY DEF KeptOf
    <2>2. PICK f \in F : n = ApplyContext(WaivedAt(f, A), config)
        BY DEF DeduplicateFindings, InContext, Waiving
    <2>3. WaivedAt(f, A) \in Finding /\ WaivedAt(f, A).impact = "allow"
        BY WaivedAtFields DEF Arrivable, Unwaived
    <2>4. n \in Finding /\ n.impact = "allow"
        BY <2>2, <2>3, Applied
    <2>5. ~Suppressed(n)
        BY <1>1, <2>1, <2>4, ImpactOf
    <2>6. n \in DeduplicateFindings(InContext(Waiving(F, B), config))
        BY <2>5, EnforcedWithFewer
    <2>. QED  BY <2>1, <2>6 DEF KeptOf
<1>. QED  BY <1>1, ImpactsDecide, Evaluation

(***************************************************************************)
(* What a scan judges of one plan.                                         *)
(***************************************************************************)
\* The findings of a plan, native and imported.
FindingsOf(r, repo, i) == Merge(Native(r, repo, r.plans[i]), r.imports)

\* Of one imported fingerprint only the first to come is merged.
LEMMA ImportedOnce ==
    ASSUME NEW native, NEW I \in SUBSET Import,
           NEW f \in Merge(native, I) \ native, NEW g \in Merge(native, I) \ native, f.site = g.site
    PROVE  f = g
<1>. DEFINE normal == {NormalizeImported(i) : i \in I}
            First(i) == \A j \in normal \ {i} : j.site = i.site => ComesBefore(i, j)
<1>1. ASSUME NEW h \in Merge(native, I) \ native
      PROVE  \E a \in normal : First(a) /\ h = ImportedFinding(CorrelateImported(a)) /\ a \in Import /\ h.site = a.site
    <2>1. PICK a \in normal : First(a) /\ h = ImportedFinding(CorrelateImported(a))
        BY DEF Merge
    <2>2. PICK u \in I : a = NormalizeImported(u)
        OBVIOUS
    <2>3. h = FindingOf(u)
        BY <2>1, <2>2 DEF FindingOf
    <2>. QED  BY <2>1, <2>2, <2>3, ImportFinding
<1>2. PICK a \in normal : First(a) /\ f = ImportedFinding(CorrelateImported(a)) /\ a \in Import /\ f.site = a.site
    BY <1>1
<1>3. PICK b \in normal : First(b) /\ g = ImportedFinding(CorrelateImported(b)) /\ b \in Import /\ g.site = b.site
    BY <1>1
<1>4. a = b
    <2>1. SUFFICES ASSUME a # b PROVE FALSE
        OBVIOUS
    <2>2. ComesBefore(a, b) /\ ComesBefore(b, a)
        BY <1>2, <1>3, <2>1
    <2>3. a.file \in Nat /\ b.file \in Nat /\ a.severity \in 0..5 /\ a.confidence \in 0..4 /\ b.severity \in 0..5 /\ b.confidence \in 0..4
          /\ a.site \in Nat /\ b.site \in Nat
        BY <1>2, <1>3, DecisionAssumption DEF Import
    <2>. HIDE DEF normal, First
    <2>. QED  BY <2>2, <2>3 DEF ComesBefore, SortsBefore
<1>. QED  BY <1>2, <1>3, <1>4

\* No two findings of a plan have one fingerprint, and none is waived yet.
LEMMA FindingsOfPlan ==
    ASSUME NEW r, NEW repo, MayScan(r, repo), NEW i \in DOMAIN r.plans
    PROVE  LET F == FindingsOf(r, repo, i)
           IN  Arrivable(F) /\ OnePerSite(F) /\ Unwaived(F)
<1>. DEFINE file == r.plans[i]
            native == Native(r, repo, file)
            F == FindingsOf(r, repo, i)
<1>1. r.imports \subseteq Import /\ file \in DOMAIN repo.plans /\ r \in Requests
    BY RequestFields DEF MayScan
<1>2. Arrivable(F)
    BY MergedArrivable DEF FindingsOf
<1>3. ASSUME NEW f \in native
      PROVE  f.site \notin ExternalSites /\ "waiver" \notin f.suppressions
             /\ f = FindingAt(f.site, WithPlan(repo, file).plan[f.site])
    <2>1. f.site \notin ExternalSites /\ "waiver" \notin f.suppressions /\ IsRepository(WithPlan(repo, file))
        BY <1>1, PlanOfRepository
    <2>2. f \in RawFindings(Options(r), WithPlan(repo, file))
        BY DEF Native
    <2>. QED  BY <2>1, <2>2, RawFinding
<1>4. ASSUME NEW f \in F \ native
      PROVE  f.site \in ExternalSites /\ f.suppressions = {}
    <2>1. PICK u \in r.imports : f = FindingOf(u)
        BY DEF FindingsOf, Merge, FindingOf
    <2>2. f.site = u.site /\ f.suppressions = {}
        BY <1>1, <2>1, ImportFinding
    <2>. QED  BY <1>1, <2>2 DEF ExternalSites
<1>. HIDE DEF native, F
<1>5. Unwaived(F)
    <2>1. ASSUME NEW f \in F
          PROVE  "waiver" \notin f.suppressions
        BY <1>3, <1>4
    <2>. QED  BY <2>1 DEF Unwaived
<1>6. OnePerSite(F)
    <2>1. ASSUME NEW f \in F, NEW g \in F, f.site = g.site
          PROVE  f = g
        <3>1. CASE f \in native /\ g \in native
            BY <1>3, <2>1, <3>1
        <3>2. CASE f \notin native /\ g \notin native
            BY <1>1, <2>1, <3>2, ImportedOnce DEF F, native, FindingsOf
        <3>. QED  BY <1>3, <1>4, <2>1, <3>1, <3>2
    <2>. QED  BY <2>1 DEF OnePerSite
<1>. QED  BY <1>2, <1>5, <1>6 DEF F

\* The policy as it judges every plan, with the entries of the baselines it names.
ConfigOf(r, repo) ==
    LET entries == NamedByEither(r, repo)
    IN  ConfigWith(Options(r), repo.policy, Fingerprints(entries), Contexts(entries))

\* What a waiver file leaves of the findings on a day, under a policy that names it.
ReviewedBy(p, records, findings, day) ==
    IF p.waiverFile THEN ApplyWaivers(records, findings, day) ELSE findings

\* What a scan of a single moment makes of a plan.
LEMMA AtPlanIs ==
    ASSUME NEW r, NEW repo, MayScan(r, repo), Accepted(r, repo), NEW i
    PROVE  AtPlan(r, repo, i)
              = EvaluatePolicy(ReviewedBy(repo.policy, repo.waiverFile.records, FindingsOf(r, repo, i), repo.now),
                               ConfigOf(r, repo))
<1>. DEFINE plan == WithPlan(repo, r.plans[i])
            opts == Options(r)
            findings == FindingsOf(r, repo, i)
<1>1. /\ plan.policy = repo.policy /\ plan.waivers = repo.waiverFile.records
      /\ plan.baseline = repo.baseline /\ plan.now = repo.now
    BY DEF WithPlan
<1>2. ~Refused(opts, plan)
    BY RefusedUnlessAccepted
<1>3. opts.baseline = r.baseline
    BY OptionFields
<1>4. AtPlan(r, repo, i) = Judge(opts, plan, findings)
    BY DEF AtPlan, FindingsOf
<1>. HIDE DEF opts, plan, findings
<1>5. LoadedEntries(opts, plan) = NamedByEither(r, repo)
    BY <1>1, <1>3 DEF LoadedEntries, NamedByEither
<1>6. PolicyConfig(opts, plan) = ConfigOf(r, repo)
    BY <1>1, <1>5 DEF PolicyConfig, ConfigOf, opts
<1>7. Reviewed(findings, plan) = ReviewedBy(repo.policy, repo.waiverFile.records, findings, repo.now)
    BY <1>1 DEF Reviewed, ReviewedBy
<1>8. Judge(opts, plan, findings) = EvaluatePolicy(Reviewed(findings, plan), PolicyConfig(opts, plan))
    BY <1>2 DEF Judge
<1>. QED  BY <1>4, <1>6, <1>7, <1>8 DEF findings

\* The policy of a repository is a configuration the gate can work with.
LEMMA ConfigIs ==
    ASSUME NEW r, NEW repo, MayScan(r, repo)
    PROVE  IsConfig(ConfigOf(r, repo))
    BY DEF MayScan, IsPolicy, IsConfig, ConfigOf, ConfigWith

\* A waiver file that waives no more makes for a decision no laxer.
LEMMA WaivingNoMore ==
    ASSUME NEW r, NEW repo, MayScan(r, repo), Accepted(r, repo), NEW i \in DOMAIN r.plans,
           NEW records, NEW day,
           repo.policy.waiverFile =>
               Effective(records, day) \subseteq Effective(repo.waiverFile.records, repo.now)
    PROVE  DecisionRank(AtPlan(r, repo, i).decision)
              <= DecisionRank(EvaluatePolicy(ReviewedBy(repo.policy, records, FindingsOf(r, repo, i), day),
                                             ConfigOf(r, repo)).decision)
<1>. DEFINE F == FindingsOf(r, repo, i)
            config == ConfigOf(r, repo)
            then == Effective(repo.waiverFile.records, repo.now)
            later == Effective(records, day)
<1>1. /\ Arrivable(F) /\ OnePerSite(F) /\ Unwaived(F) /\ IsConfig(config)
      /\ AtPlan(r, repo, i) = EvaluatePolicy(ReviewedBy(repo.policy, repo.waiverFile.records, F, repo.now), config)
    BY FindingsOfPlan, ConfigIs, AtPlanIs
<1>2. CASE repo.policy.waiverFile
    <2>1. /\ ReviewedBy(repo.policy, repo.waiverFile.records, F, repo.now) = Waiving(F, then)
          /\ ReviewedBy(repo.policy, records, F, day) = Waiving(F, later)
        BY <1>2, EffectOfWaivers DEF ReviewedBy
    <2>2. later \in SUBSET then
        BY <1>2
    <2>. HIDE DEF F, config, then, later
    <2>3. DecisionRank(EvaluatePolicy(Waiving(F, then), config).decision)
              <= DecisionRank(EvaluatePolicy(Waiving(F, later), config).decision)
        BY <1>1, <2>2, FewerWaivers
    <2>. QED  BY <1>1, <2>1, <2>3 DEF F, config
<1>3. CASE ~repo.policy.waiverFile
    <2>1. /\ ReviewedBy(repo.policy, repo.waiverFile.records, F, repo.now) = F
          /\ ReviewedBy(repo.policy, records, F, day) = F
        BY <1>3 DEF ReviewedBy
    <2>. HIDE DEF F, config
    <2>2. DecisionRank(EvaluatePolicy(F, config).decision) \in Nat
        BY Decided, Ranks DEF Verdicts, Decisions
    <2>. QED  BY <1>1, <2>1, <2>2 DEF F, config
<1>. QED  BY <1>2, <1>3

\* A plan counts only for itself.
LEMMA SamePlan ==
    ASSUME NEW r, NEW repo, NEW other, NEW i, other.plans[r.plans[i]] = repo.plans[r.plans[i]]
    PROVE  /\ Native(r, other, r.plans[i]) = Native(r, repo, r.plans[i])
           /\ other.policy = repo.policy /\ other.waiverFile = repo.waiverFile
              /\ other.baseline = repo.baseline /\ other.now = repo.now =>
                 AtPlan(r, other, i) = AtPlan(r, repo, i)
<1>1. RawFindings(Options(r), WithPlan(other, r.plans[i])) = RawFindings(Options(r), WithPlan(repo, r.plans[i]))
    BY DEF RawFindings, WithPlan
<1>2. Native(r, other, r.plans[i]) = Native(r, repo, r.plans[i])
    BY <1>1 DEF Native
<1>3. ASSUME other.policy = repo.policy, other.waiverFile = repo.waiverFile,
             other.baseline = repo.baseline, other.now = repo.now
      PROVE  AtPlan(r, other, i) = AtPlan(r, repo, i)
    <2>1. WithPlan(other, r.plans[i]) = WithPlan(repo, r.plans[i])
        BY <1>3 DEF WithPlan
    <2>. QED  BY <1>2, <2>1 DEF AtPlan
<1>. QED  BY <1>2, <1>3

ButWaivers(W, repo) ==
    /\ repo.plans = W.plans /\ repo.policy = W.policy
    /\ repo.baseline = W.baseline /\ repo.now = W.now

\* A repository with more waivers, and otherwise the same, decides no stricter.
LEMMA MoreWaivers ==
    ASSUME NEW r, NEW W, NEW V, MayScan(r, W), MayScan(r, V), Accepted(r, W), Accepted(r, V),
           ButWaivers(W, V), NEW i \in DOMAIN r.plans,
           Effective(W.waiverFile.records, W.now) \subseteq Effective(V.waiverFile.records, V.now)
    PROVE  DecisionRank(AtPlan(r, V, i).decision) <= DecisionRank(AtPlan(r, W, i).decision)
<1>1. FindingsOf(r, V, i) = FindingsOf(r, W, i)
    BY SamePlan DEF FindingsOf, ButWaivers
<1>2. ConfigOf(r, V) = ConfigOf(r, W)
    BY DEF ConfigOf, NamedByEither, ButWaivers
<1>3. AtPlan(r, W, i)
          = EvaluatePolicy(ReviewedBy(W.policy, W.waiverFile.records, FindingsOf(r, W, i), W.now), ConfigOf(r, W))
    BY AtPlanIs
<1>4. V.policy = W.policy
    BY DEF ButWaivers
<1>5. DecisionRank(AtPlan(r, V, i).decision)
          <= DecisionRank(EvaluatePolicy(ReviewedBy(V.policy, W.waiverFile.records, FindingsOf(r, V, i), W.now),
                                         ConfigOf(r, V)).decision)
    BY WaivingNoMore
<1>. QED  BY <1>1, <1>2, <1>3, <1>4, <1>5

\* Expired is expired, and waives nothing.
LEMMA TimeWaivesLess ==
    ASSUME NEW records \in SUBSET Waiver, NEW day \in Days, NEW later \in Days, day <= later
    PROVE  /\ \A w \in records : Expired(w, day) => Expired(w, later)
           /\ Effective(records, later) \subseteq Effective(records, day)
<1>1. \A w \in records : w.expires \in Nat
    BY DEF Waiver, Days
<1>2. day \in Nat /\ later \in Nat
    BY DEF Days
<1>3. \A w \in records : Expired(w, day) => Expired(w, later)
    BY <1>1, <1>2 DEF Expired
<1>. QED  BY <1>3 DEF Effective, PruneExpired

\* More records waive more.
LEMMA EffectiveGrows ==
    ASSUME NEW records, NEW more, records \subseteq more, NEW day
    PROVE  Effective(records, day) \subseteq Effective(more, day)
    BY DEF Effective, PruneExpired

-----------------------------------------------------------------------------
(***************************************************************************)
(* The witness.  While a scan reads its files, there is one repository (W) *)
(* whose scan of a single moment it is going to be no laxer than: what was *)
(* read is W's, and what is still to be read is W's or makes for a         *)
(* stricter decision.  s is the scan, repo the repository as it is.        *)
(***************************************************************************)
ButBaseline(W, repo) ==
    /\ repo.plans = W.plans /\ repo.policy = W.policy
    /\ repo.waiverFile = W.waiverFile /\ repo.now = W.now

HasPolicy(s, W, repo) ==
    /\ s.at = "policy" => repo.policy = W.policy
    /\ s.at # "policy" => s.policy = W.policy

\* The baseline is read where the policy, the flag or both name it.
BaselineUnread(s, W) ==
    \/ s.at \in {"policy", "policy_baseline"}
    \/ s.at \in {"waivers", "baseline"} /\ ~W.policy.baselineFile

HasBaseline(s, W, repo) ==
    /\ BaselineUnread(s, W) => repo.baseline = W.baseline
    /\ s.at \in {"policy", "policy_baseline"} => Knows(s, {})
    /\ s.at \in {"waivers", "baseline"} => Knows(s, NamedByPolicy(W)) /\ BaselineFits(W)
    /\ s.at \in {"context"} \union Scanning =>
          /\ Knows(s, NamedByEither(s.request, W)) /\ BaselineFits(W)
          /\ s.request.newOnly => s.request.baseline
          /\ s.request.baseline => W.baseline.written
    /\ repo.baseline # W.baseline => ButBaseline(W, repo)

\* Once validated, the waiver file waives no more than W's, or stops or races the scan.
WaivesNoMore(W, repo) ==
    \/ repo.waiverFile.state # "whole"
    \/ ~ValidWaivers(repo.waiverFile.records, W.policy.maxWaiverDays)
    \/ Effective(repo.waiverFile.records, repo.now) \subseteq Effective(W.waiverFile.records, W.now)

Validated == {"baseline", "context"} \union Scanning

HasWaivers(s, W, repo) ==
    W.policy.waiverFile =>
        /\ s.at \notin Validated => repo.waiverFile = W.waiverFile
        /\ s.at \in Validated =>
              WaiversFit(W) /\ W.waiverFile.state = "whole" /\ WaivesNoMore(W, repo)

\* A file that is named several times counts where it is read first.
FirstTime(r, i) == \A j \in 1..(i - 1) : r.plans[j] # r.plans[i]

InHand(s, i) == i = s.plan /\ s.at \in {"rules", "apply_waivers"}

HasPlan(s, W, repo, i) ==
    LET file == s.request.plans[i]
        native == Native(s.request, W, file)
    IN  /\ i < s.plan => DecisionRank(AtPlan(s.request, W, i).decision) <= DecisionRank(s.decision)
        /\ InHand(s, i) => s.findings = IF s.at = "rules" THEN native ELSE Merge(native, s.request.imports)
        /\ ~(i < s.plan) /\ ~InHand(s, i) => repo.plans[file] = W.plans[file]

HasPlans(s, W, repo) ==
    /\ s.plan \in DOMAIN s.request.plans
    /\ s.at \in Early => s.plan = 1
    /\ \A i \in DOMAIN s.request.plans : FirstTime(s.request, i) => HasPlan(s, W, repo, i)

\* A waiver command under way: what it holds is what it found, less some or one more.
HoldsFrom(found, holds) ==
    \/ holds \subseteq found
    \/ \E new \in holds : holds = found \union {new} /\ \A w \in found : w.id < new.id

Busy(process) == process.stage \in {"loaded", "truncated"}

UnderWay(s, W, repo, commands) ==
    \A c \in Commands :
        LET stage == commands[c].stage
            holds == commands[c].holds
        IN  /\ Busy(commands[c]) => ButWaivers(W, repo)
            /\ stage = "loaded" =>
                  repo.waiverFile = W.waiverFile /\ HoldsFrom(W.waiverFile.records, holds)
            /\ stage = "truncated" =>
                  /\ repo.waiverFile.state = "broken"
                  /\ W.policy.waiverFile /\ s.at \in Validated =>
                        HoldsFrom(W.waiverFile.records, holds)

\* One thing at a time is under way: a waiver command, or a baseline being written.
OneEdit(commands, being) ==
    /\ \A c, d \in Commands : Busy(commands[c]) /\ Busy(commands[d]) => c = d
    /\ being.written => \A c \in Commands : ~Busy(commands[c])

Sound(repo) ==
    /\ repo.waiverFile.records \subseteq Waiver /\ repo.now \in Days
    /\ repo.baseline.expires \in Nat

Witness(W, s, repo, commands, being) ==
    /\ Sound(W) /\ MayScan(s.request, W) /\ W.now <= repo.now
    /\ HasPolicy(s, W, repo) /\ HasBaseline(s, W, repo) /\ HasWaivers(s, W, repo)
    /\ HasPlans(s, W, repo) /\ UnderWay(s, W, repo, commands)
    /\ being.written => ButBaseline(W, repo)

\* The decision so far is no laxer than some scan of a single moment.
Justified(s, noted) ==
    /\ s.decision \in Decisions
    /\ \E answer \in noted :
          answer # "error" /\ DecisionRank(answer) <= DecisionRank(s.decision)

-----------------------------------------------------------------------------
(***************************************************************************)
(* The steps of the scan, one by one.  A step stops the scan, keeps its    *)
(* witness (or makes the repository as it is the new one), or ends with a  *)
(* decision that is no laxer than the witness's.                           *)
(***************************************************************************)
Following(W) ==
    /\ Verdict(scan) /\ Surroundings /\ Sound(Repository)
    /\ Witness(W, scan, Repository, command, baselineBeing)

Onward(W) ==
    \/ scan'.at = "done" /\ scan'.exit \notin {0, 1}
    \/ /\ scan'.at \in Early \union Scanning
       /\ \E V \in {W, Repository} : Witness(V, scan', Repository, command, baselineBeing)
    \/ scan'.at = "deadline" /\ Justified(scan', {AtomicDecision(scan.request, W)})

\* A scan that fails does not conclude.
LEMMA FailureGoesOn ==
    ASSUME NEW W, Following(W), NEW from, NEW code \in {2, 3, 4, 6}, Fail(from, code)
    PROVE  Onward(W)
    BY Failed DEF Onward, Following, Verdict

\* The repository as it is.
LEMMA AsItIs ==
    /\ Repository.plans = plans /\ Repository.policy = policy /\ Repository.baseline = baseline
    /\ Repository.waiverFile = waiverFile /\ Repository.now = now
    BY DEF Repository

\* Until the first plan is read every plan is still to come.
LEMMA PlansToCome ==
    ASSUME NEW s, NEW t, NEW W, NEW repo, MayScan(s.request, W), HasPlans(s, W, repo), s.at \in Early,
           t.at \in Early \union {"plan"}, t.request = s.request, t.plan = s.plan
    PROVE  HasPlans(t, W, repo)
<1>1. s.plan = 1 /\ DOMAIN s.request.plans = 1..Len(s.request.plans) /\ Len(s.request.plans) \in Nat
    BY RequestFields DEF HasPlans
<1>2. ASSUME NEW i \in DOMAIN s.request.plans, FirstTime(s.request, i)
      PROVE  HasPlan(t, W, repo, i)
    <2>1. ~(i < s.plan) /\ ~InHand(s, i) /\ ~InHand(t, i)
        BY <1>1 DEF InHand, Early
    <2>2. HasPlan(s, W, repo, i)
        BY <1>2 DEF HasPlans
    <2>. QED  BY <2>1, <2>2 DEF HasPlan
<1>. QED  BY <1>1, <1>2 DEF HasPlans

\* What is read before the plans.
LEMMA ReadingGoesOn ==
    ASSUME NEW W, Following(W), scan.at \in Early, scan'.at \in Early \union {"plan"},
           scan'.request = scan.request, scan'.plan = scan.plan,
           HasPolicy(scan', W, Repository), HasBaseline(scan', W, Repository),
           HasWaivers(scan', W, Repository),
           W.policy.waiverFile /\ scan'.at \in Validated =>
               scan.at \in Validated \/ waiverFile.state = "whole"
    PROVE  Onward(W)
<1>1. Witness(W, scan, Repository, command, baselineBeing)
    BY DEF Following
<1>2. HasPlans(scan', W, Repository)
    BY <1>1, PlansToCome DEF Witness
<1>3. UnderWay(scan', W, Repository, command)
    <2>1. UnderWay(scan, W, Repository, command)
        BY <1>1 DEF Witness
    <2>. QED  BY <2>1, AsItIs DEF UnderWay
<1>4. Witness(W, scan', Repository, command, baselineBeing)
    BY <1>1, <1>2, <1>3 DEF Witness
<1>. QED  BY <1>4 DEF Onward, Scanning

\* The policy that is read is the witness's.
LEMMA FollowReadPolicy ==
    ASSUME NEW W, Following(W), ReadPolicy
    PROVE  Onward(W)
<1>. DEFINE update == [scan EXCEPT !.policy = policy]
<1>1. IsScan(scan) /\ Witness(W, scan, Repository, command, baselineBeing)
    BY DEF Following, Verdict
<1>2. /\ IsScan(update) /\ update.request = scan.request /\ update.policy = policy
      /\ update.fingerprints = scan.fingerprints /\ update.risks = scan.risks
      /\ update.plan = scan.plan
    BY <1>1 DEF IsScan
<1>. HIDE DEF update
<1>3. Step("policy", "policy_baseline", update)
    BY DEF ReadPolicy, update
<1>4. /\ scan.at = "policy" /\ scan'.at = "policy_baseline" /\ scan'.request = scan.request
      /\ scan'.policy = policy /\ scan'.plan = scan.plan
      /\ scan'.fingerprints = scan.fingerprints /\ scan'.risks = scan.risks
    BY <1>2, <1>3, Stepped
<1>5. HasPolicy(scan', W, Repository)
    BY <1>1, <1>4, AsItIs DEF Witness, HasPolicy
<1>6. HasBaseline(scan', W, Repository)
    BY <1>1, <1>4 DEF Witness, HasBaseline, BaselineUnread, Knows, Scanning
<1>7. HasWaivers(scan', W, Repository)
    BY <1>1, <1>4 DEF Witness, HasWaivers, Validated, Scanning
<1>. QED  BY <1>4, <1>5, <1>6, <1>7, ReadingGoesOn DEF Early, Validated, Scanning

\* A baseline that the witness's policy names is the witness's, and fresh on its day.
LEMMA FollowReadPolicyBaseline ==
    ASSUME NEW W, Following(W), ReadPolicyBaseline
    PROVE  Onward(W)
<1>1. /\ IsScan(scan) /\ Witness(W, scan, Repository, command, baselineBeing)
      /\ Sound(W) /\ Sound(Repository) /\ W.now <= now
    BY AsItIs DEF Following, Verdict, Witness
<1>2. scan.at = "policy_baseline"
    BY DEF ReadPolicyBaseline, Fail, Step
<1>3. /\ scan.policy = W.policy /\ Knows(scan, {}) /\ baseline = W.baseline
    BY <1>1, <1>2, AsItIs DEF Witness, HasPolicy, HasBaseline, BaselineUnread
<1>4. CASE Fail("policy_baseline", 4)
    BY <1>4, FailureGoesOn
<1>5. ASSUME scan'.at = "waivers", scan'.request = scan.request, scan'.policy = scan.policy,
             scan'.plan = scan.plan, Knows(scan', NamedByPolicy(W)), BaselineFits(W)
      PROVE  Onward(W)
    <2>1. HasPolicy(scan', W, Repository)
        BY <1>3, <1>5 DEF HasPolicy
    <2>2. HasBaseline(scan', W, Repository)
        BY <1>1, <1>2, <1>5 DEF Witness, HasBaseline, BaselineUnread, Scanning
    <2>3. HasWaivers(scan', W, Repository)
        BY <1>1, <1>2, <1>5 DEF Witness, HasWaivers, Validated, Scanning
    <2>. QED  BY <1>2, <1>5, <2>1, <2>2, <2>3, ReadingGoesOn DEF Early, Validated, Scanning
<1>6. CASE ~scan.policy.baselineFile /\ Step("policy_baseline", "waivers", scan)
    <2>1. /\ scan'.at = "waivers" /\ scan'.request = scan.request /\ scan'.policy = scan.policy
          /\ scan'.plan = scan.plan /\ scan'.fingerprints = scan.fingerprints /\ scan'.risks = scan.risks
        BY <1>1, <1>6, Stepped
    <2>2. NamedByPolicy(W) = {} /\ BaselineFits(W)
        BY <1>3, <1>6 DEF NamedByPolicy, BaselineFits
    <2>. QED  BY <1>3, <1>5, <2>1, <2>2 DEF Knows
<1>7. CASE /\ scan.policy.baselineFile /\ baseline.written /\ ~Stale(scan.policy)
           /\ Step("policy_baseline", "waivers", WithBaseline(baseline.entries))
    <2>. DEFINE update == WithBaseline(baseline.entries)
    <2>1. /\ IsScan(update) /\ update.policy = scan.policy
          /\ update.request = scan.request /\ update.plan = scan.plan
        BY <1>1, WithBaselineScan
    <2>2. Knows(update, baseline.entries)
        BY <1>1, <1>3, BaselineKnown
    <2>. HIDE DEF update
    <2>3. Step("policy_baseline", "waivers", update)
        BY <1>7 DEF update
    <2>4. /\ scan'.at = "waivers" /\ scan'.request = scan.request /\ scan'.policy = scan.policy
          /\ scan'.plan = scan.plan /\ scan'.fingerprints = update.fingerprints /\ scan'.risks = update.risks
        BY <2>1, <2>3, Stepped
    <2>5. NamedByPolicy(W) = baseline.entries
        BY <1>3, <1>7 DEF NamedByPolicy
    <2>6. BaselineFits(W)
        <3>1. now < baseline.expires => W.now < baseline.expires
            BY <1>1, <1>3, AsItIs DEF Sound, Days
        <3>. QED  BY <1>3, <1>7, <3>1 DEF BaselineFits, Stale
    <2>. QED  BY <1>5, <2>2, <2>4, <2>5, <2>6 DEF Knows
<1>. QED  BY <1>4, <1>6, <1>7 DEF ReadPolicyBaseline

\* The waiver file that is validated is the witness's, and valid on its day.
LEMMA FollowValidateWaivers ==
    ASSUME NEW W, Following(W), ValidateWaivers
    PROVE  Onward(W)
<1>1. /\ IsScan(scan) /\ Witness(W, scan, Repository, command, baselineBeing)
      /\ Sound(W) /\ now \in Days /\ W.now <= now
    BY AsItIs DEF Following, Verdict, Witness, Sound
<1>2. scan.at = "waivers"
    BY DEF ValidateWaivers, Fail, Step
<1>3. /\ scan.policy = W.policy
      /\ W.policy.waiverFile => waiverFile = W.waiverFile
    BY <1>1, <1>2, AsItIs DEF Witness, HasPolicy, HasWaivers, Validated, Scanning
<1>4. CASE Fail("waivers", 4)
    BY <1>4, FailureGoesOn
<1>5. CASE Step("waivers", "baseline", scan)
    <2>1. /\ scan'.at = "baseline" /\ scan'.request = scan.request /\ scan'.policy = scan.policy
          /\ scan'.plan = scan.plan /\ scan'.fingerprints = scan.fingerprints /\ scan'.risks = scan.risks
        BY <1>1, <1>5, Stepped
    <2>2. ~Fail("waivers", 4)
        <3>1. scan'.at # "done"
            BY <2>1
        <3>. QED  BY <1>1, <3>1, Failed
    <2>3. W.policy.waiverFile =>
              /\ waiverFile.state = "whole"
              /\ ValidWaivers(waiverFile.records, W.policy.maxWaiverDays)
              /\ ~(W.policy.failExpired /\ \E w \in waiverFile.records : Expired(w, now))
        BY <1>3, <2>2 DEF ValidateWaivers
    <2>4. HasPolicy(scan', W, Repository)
        BY <1>3, <2>1 DEF HasPolicy
    <2>5. HasBaseline(scan', W, Repository)
        BY <1>1, <1>2, <2>1 DEF Witness, HasBaseline, BaselineUnread, Scanning, Knows
    <2>6. HasWaivers(scan', W, Repository)
        <3>1. SUFFICES ASSUME W.policy.waiverFile
                       PROVE  WaiversFit(W) /\ W.waiverFile.state = "whole" /\ WaivesNoMore(W, Repository)
            BY <2>1 DEF HasWaivers, Validated
        <3>2. /\ \A w \in W.waiverFile.records : Expired(w, W.now) => Expired(w, now)
              /\ Effective(W.waiverFile.records, now) \subseteq Effective(W.waiverFile.records, W.now)
            BY <1>1, TimeWaivesLess DEF Sound
        <3>. QED  BY <1>3, <2>3, <3>1, <3>2, AsItIs DEF WaiversFit, WaivesNoMore
    <2>. QED  BY <1>2, <2>1, <2>3, <2>4, <2>5, <2>6, ReadingGoesOn DEF Early
<1>. QED  BY <1>4, <1>5 DEF ValidateWaivers

\* The races a step leaves on record.
LEMMA SteppedRaces ==
    ASSUME NEW from, NEW to, NEW update, IsScan(update), Step(from, to, update)
    PROVE  scan'.raced = update.raced
<1>1. scan' = [update EXCEPT !.at = to]
    BY DEF Step
<1>. QED  BY <1>1 DEF IsScan

\* The baseline the flag names: the witness's, or the scan follows the repository as it is.
LEMMA FollowReadBaseline ==
    ASSUME NEW W, Following(W), ReadBaseline, ~scan'.raced
    PROVE  Onward(W)
<1>. DEFINE r == scan.request
            E == baseline.entries
<1>1. /\ IsScan(scan) /\ Witness(W, scan, Repository, command, baselineBeing)
      /\ Sound(W) /\ Sound(Repository) /\ MayScan(r, Repository) /\ MayScan(r, W)
    BY DEF Following, Verdict, Witness, Surroundings
<1>2. scan.at = "baseline"
    BY DEF ReadBaseline, Fail, Step
<1>3. /\ scan.policy = W.policy /\ Knows(scan, NamedByPolicy(W)) /\ BaselineFits(W)
      /\ ~W.policy.baselineFile => baseline = W.baseline
      /\ baseline # W.baseline => ButBaseline(W, Repository)
    BY <1>1, <1>2, AsItIs DEF Witness, HasPolicy, HasBaseline, BaselineUnread
<1>4. CASE \E code \in {2, 3} : Fail("baseline", code)
    BY <1>4, FailureGoesOn
\* What is left to show when the witness stays.
<1>5. ASSUME scan'.at = "context", scan'.request = r, scan'.policy = scan.policy, scan'.plan = scan.plan,
             Knows(scan', NamedByEither(r, W)),
             r.newOnly => r.baseline, r.baseline => W.baseline.written
      PROVE  Onward(W)
    <2>1. HasPolicy(scan', W, Repository)
        BY <1>3, <1>5 DEF HasPolicy
    <2>2. HasBaseline(scan', W, Repository)
        BY <1>1, <1>3, <1>5 DEF Witness, HasBaseline, BaselineUnread, Scanning
    <2>3. HasWaivers(scan', W, Repository)
        BY <1>1, <1>2, <1>5 DEF Witness, HasWaivers, Validated
    <2>. QED  BY <1>2, <1>5, <2>1, <2>2, <2>3, ReadingGoesOn DEF Early, Validated
<1>6. CASE ~r.newOnly /\ ~r.baseline /\ Step("baseline", "context", scan)
    <2>1. /\ scan'.at = "context" /\ scan'.request = r /\ scan'.policy = scan.policy
          /\ scan'.plan = scan.plan /\ scan'.fingerprints = scan.fingerprints /\ scan'.risks = scan.risks
        BY <1>1, <1>6, Stepped
    <2>2. NamedByEither(r, W) = NamedByPolicy(W)
        BY <1>6 DEF NamedByEither, NamedByPolicy
    <2>. QED  BY <1>3, <1>5, <1>6, <2>1, <2>2 DEF Knows
<1>. DEFINE twice == /\ scan.policy.baselineFile
                     /\ \/ scan.fingerprints # Fingerprints(E)
                        \/ scan.risks # Contexts(E) /\ Stale(scan.policy)
            read == WithBaseline(E)
            update == [read EXCEPT !.raced = @ \/ twice]
<1>7. CASE r.baseline /\ baseline.written /\ Step("baseline", "context", update)
    <2>1. /\ IsScan(read) /\ read.policy = scan.policy /\ read.request = r /\ read.plan = scan.plan
          /\ read.fingerprints = scan.fingerprints \union Fingerprints(E)
          /\ read.risks = [x \in DOMAIN scan.risks \union Fingerprints(E) |->
                              IF x \in Fingerprints(E) THEN Contexts(E)[x] ELSE scan.risks[x]]
        BY <1>1, WithBaselineScan
    <2>2. scan.risks = Contexts(E) => DOMAIN scan.risks = Fingerprints(E)
        BY DEF Contexts
    <2>. HIDE DEF read, twice
    <2>3. /\ IsScan(update) /\ update.policy = read.policy /\ update.request = read.request
          /\ update.plan = read.plan
          /\ update.fingerprints = read.fingerprints /\ update.risks = read.risks
          /\ update.raced = (read.raced \/ twice)
        BY <2>1 DEF IsScan
    <2>. HIDE DEF update
    <2>4. /\ scan'.at = "context" /\ scan'.request = r /\ scan'.policy = scan.policy
          /\ scan'.plan = scan.plan
          /\ scan'.fingerprints = read.fingerprints /\ scan'.risks = read.risks
          /\ scan'.raced = (read.raced \/ twice)
        BY <1>7, <2>1, <2>3, Stepped, SteppedRaces
    <2>5. ~twice
        BY <2>4
    <2>6. Fingerprints({}) = {} /\ \A A : DOMAIN Contexts(A) = Fingerprints(A)
        BY DEF Fingerprints, Contexts
    <2>7. Knows(scan', E)
        <3>1. scan.fingerprints \subseteq Fingerprints(E) /\ DOMAIN scan.risks = scan.fingerprints
            BY <1>3, <2>5, <2>6 DEF Knows, NamedByPolicy, twice
        <3>2. /\ scan.fingerprints \union Fingerprints(E) = Fingerprints(E)
              /\ DOMAIN scan.risks \union Fingerprints(E) = Fingerprints(E)
            BY <3>1
        <3>3. /\ scan'.fingerprints = Fingerprints(E)
              /\ scan'.risks = [x \in Fingerprints(E) |-> Contexts(E)[x]]
            BY <2>1, <2>4, <3>2
        <3>4. Contexts(E) = [x \in Fingerprints(E) |-> Contexts(E)[x]]
            BY DEF Contexts
        <3>. QED  BY <3>3, <3>4 DEF Knows
    <2>8. CASE baseline = W.baseline
        <3>1. NamedByEither(r, W) = E
            BY <1>7, <2>8 DEF NamedByEither
        <3>. QED  BY <1>5, <1>7, <2>4, <2>7, <2>8, <3>1
    <2>9. CASE baseline # W.baseline /\ scan.risks = Contexts(E)
        <3>1. W.policy.baselineFile /\ NamedByEither(r, W) = NamedByPolicy(W)
            BY <1>3, <2>9 DEF NamedByEither, NamedByPolicy
        <3>2. Fingerprints(E) = Fingerprints(NamedByPolicy(W)) /\ Contexts(E) = Contexts(NamedByPolicy(W))
            BY <1>3, <2>5, <2>9, <3>1 DEF Knows, twice
        <3>3. Knows(scan', NamedByEither(r, W))
            BY <2>7, <3>1, <3>2 DEF Knows
        <3>4. W.baseline.written
            BY <1>3, <3>1 DEF BaselineFits
        <3>. QED  BY <1>5, <1>7, <2>4, <3>3, <3>4
    <2>10. CASE baseline # W.baseline /\ scan.risks # Contexts(E)
        <3>1. /\ ButBaseline(W, Repository) /\ W.policy.baselineFile /\ ~Stale(scan.policy)
              /\ W.policy = Repository.policy
            BY <1>3, <2>5, <2>10 DEF twice, ButBaseline
        <3>2. HasPolicy(scan', Repository, Repository)
            BY <1>3, <2>4, <3>1 DEF HasPolicy
        <3>3. HasBaseline(scan', Repository, Repository)
            <4>1. BaselineFits(Repository)
                BY <1>3, <1>7, <3>1, AsItIs DEF BaselineFits, Stale
            <4>2. NamedByEither(r, Repository) = E
                BY <1>7, AsItIs DEF NamedByEither
            <4>. QED  BY <1>7, <2>4, <2>7, <4>1, <4>2, AsItIs DEF HasBaseline, BaselineUnread, Scanning
        <3>4. HasWaivers(scan', Repository, Repository)
            <4>1. HasWaivers(scan, W, Repository)
                BY <1>1 DEF Witness
            <4>. QED  BY <1>2, <3>1, <4>1 DEF HasWaivers, Validated, WaiversFit, WaivesNoMore, ButBaseline
        <3>5. HasPlans(scan', Repository, Repository)
            <4>1. HasPlans(scan, W, Repository)
                BY <1>1 DEF Witness
            <4>2. scan.plan = 1 /\ scan'.plan = 1 /\ 1 \in DOMAIN r.plans
                BY <1>2, <2>4, <4>1 DEF HasPlans, Early
            <4>3. DOMAIN r.plans = 1..Len(r.plans) /\ Len(r.plans) \in Nat
                BY <1>1, RequestFields
            <4>4. ASSUME NEW i \in DOMAIN r.plans
                  PROVE  HasPlan(scan', Repository, Repository, i)
                BY <2>4, <4>2, <4>3 DEF HasPlan, InHand
            <4>. QED  BY <2>4, <4>2, <4>4 DEF HasPlans
        <3>6. UnderWay(scan', Repository, Repository, command)
            <4>1. UnderWay(scan, W, Repository, command)
                BY <1>1 DEF Witness
            <4>2. \A c \in Commands : ~Busy(command[c])
                BY <2>10, <4>1, AsItIs DEF UnderWay, ButWaivers
            <4>. QED  BY <4>2 DEF UnderWay, Busy
        <3>7. Repository.now <= Repository.now
            BY <1>1 DEF Sound, Days
        <3>8. Witness(Repository, scan', Repository, command, baselineBeing)
            BY <1>1, <2>4, <3>2, <3>3, <3>4, <3>5, <3>6, <3>7 DEF Witness, ButBaseline
        <3>. QED  BY <2>4, <3>8 DEF Onward, Early
    <2>. QED  BY <2>8, <2>9, <2>10
<1>. QED  BY <1>4, <1>6, <1>7 DEF ReadBaseline, Request

\* The context and the imports do not touch what was read.
LEMMA FollowReadContext ==
    ASSUME NEW W, Following(W), ReadContext
    PROVE  Onward(W)
<1>1. /\ IsScan(scan) /\ Witness(W, scan, Repository, command, baselineBeing)
    BY DEF Following, Verdict
<1>2. scan.at = "context"
    BY DEF ReadContext, Fail, Step
<1>3. CASE \E code \in {2, 3} : Fail("context", code)
    BY <1>3, FailureGoesOn
<1>4. CASE Step("context", "plan", scan)
    <2>1. /\ scan'.at = "plan" /\ scan'.request = scan.request /\ scan'.policy = scan.policy
          /\ scan'.plan = scan.plan /\ scan'.fingerprints = scan.fingerprints /\ scan'.risks = scan.risks
        BY <1>1, <1>4, Stepped
    <2>2. HasPolicy(scan', W, Repository)
        BY <1>1, <1>2, <2>1 DEF Witness, HasPolicy
    <2>3. HasBaseline(scan', W, Repository)
        BY <1>1, <1>2, <2>1 DEF Witness, HasBaseline, BaselineUnread, Scanning, Knows
    <2>4. HasWaivers(scan', W, Repository)
        BY <1>1, <1>2, <2>1 DEF Witness, HasWaivers, Validated, Scanning
    <2>. QED  BY <1>2, <2>1, <2>2, <2>3, <2>4, ReadingGoesOn DEF Early, Validated
<1>. QED  BY <1>3, <1>4 DEF ReadContext

\* While plans are scanned only the plans and the findings change.
LEMMA ScanningGoesOn ==
    ASSUME NEW W, Following(W), scan.at \in Scanning, scan'.at \in Scanning,
           scan'.request = scan.request, scan'.policy = scan.policy,
           scan'.fingerprints = scan.fingerprints, scan'.risks = scan.risks,
           HasPlans(scan', W, Repository)
    PROVE  Onward(W)
<1>1. Witness(W, scan, Repository, command, baselineBeing)
    BY DEF Following
<1>2. HasPolicy(scan', W, Repository)
    BY <1>1 DEF Witness, HasPolicy, Scanning
<1>3. HasBaseline(scan', W, Repository)
    BY <1>1 DEF Witness, HasBaseline, BaselineUnread, Scanning, Knows
<1>4. HasWaivers(scan', W, Repository)
    BY <1>1 DEF Witness, HasWaivers, Validated
<1>5. UnderWay(scan', W, Repository, command)
    <2>1. UnderWay(scan, W, Repository, command) /\ scan.at \in Validated
        BY <1>1 DEF Witness, Validated
    <2>. QED  BY <2>1 DEF UnderWay
<1>6. Witness(W, scan', Repository, command, baselineBeing)
    BY <1>1, <1>2, <1>3, <1>4, <1>5 DEF Witness
<1>. QED  BY <1>6 DEF Onward

\* A plan that is read for the first time is still the witness's.
LEMMA FollowReadPlan ==
    ASSUME NEW W, Following(W), ReadPlan
    PROVE  Onward(W)
<1>. DEFINE native == Native(Request, Repository, CurrentPlan)
            update == [scan EXCEPT !.findings = native]
            r == scan.request
<1>1. /\ IsScan(scan) /\ Witness(W, scan, Repository, command, baselineBeing)
    BY DEF Following, Verdict
<1>2. CASE Fail("plan", 3)
    BY <1>2, FailureGoesOn
<1>3. CASE Step("plan", "rules", update)
    <2>1. native = Native(r, Repository, r.plans[scan.plan])
        BY DEF Request, CurrentPlan
    <2>. HIDE DEF native
    <2>2. /\ IsScan(update) /\ update.policy = scan.policy
          /\ update.request = r /\ update.plan = scan.plan /\ update.decision = scan.decision
          /\ update.fingerprints = scan.fingerprints /\ update.risks = scan.risks
          /\ update.findings = native
        BY <1>1 DEF IsScan
    <2>. HIDE DEF update
    <2>3. /\ scan.at = "plan" /\ scan'.at = "rules" /\ scan'.request = r /\ scan'.policy = scan.policy
          /\ scan'.plan = scan.plan /\ scan'.decision = scan.decision
          /\ scan'.fingerprints = scan.fingerprints /\ scan'.risks = scan.risks
          /\ scan'.findings = native
        BY <1>3, <2>2, Stepped
    <2>4. HasPlans(scan, W, Repository)
        BY <1>1 DEF Witness
    <2>5. ASSUME NEW i \in DOMAIN r.plans, FirstTime(r, i)
          PROVE  HasPlan(scan', W, Repository, i)
        <3>1. HasPlan(scan, W, Repository, i) /\ ~InHand(scan, i)
            BY <2>3, <2>4, <2>5 DEF HasPlans, InHand
        <3>2. InHand(scan', i) <=> i = scan.plan
            BY <2>3 DEF InHand
        <3>3. CASE i = scan.plan
            <4>1. ~(i < scan.plan)
                <5>1. scan.plan \in Nat
                    BY <1>1, <2>4, RequestFields DEF HasPlans, Witness
                <5>. QED  BY <3>3, <5>1
            <4>2. Repository.plans[r.plans[i]] = W.plans[r.plans[i]]
                BY <3>1, <4>1 DEF HasPlan
            <4>3. native = Native(r, W, r.plans[i])
                BY <2>1, <3>3, <4>2, SamePlan
            <4>. QED  BY <2>3, <3>2, <3>3, <4>1, <4>3 DEF HasPlan
        <3>4. CASE i # scan.plan
            BY <2>3, <3>1, <3>2, <3>4 DEF HasPlan
        <3>. QED  BY <3>3, <3>4
    <2>6. HasPlans(scan', W, Repository)
        BY <2>3, <2>4, <2>5 DEF HasPlans, Early
    <2>. QED  BY <2>3, <2>6, ScanningGoesOn DEF Scanning
<1>. QED  BY <1>2, <1>3 DEF ReadPlan

\* A scan that leaves out no rule raises the witness's findings.
LEMMA FollowEvaluateRules ==
    ASSUME NEW W, Following(W), EvaluateRules, ~scan'.cut
    PROVE  Onward(W)
<1>. DEFINE r == scan.request
<1>1. /\ IsScan(scan) /\ Witness(W, scan, Repository, command, baselineBeing)
    BY DEF Following, Verdict
<1>2. PICK some, cut : /\ cut \/ some = scan.findings
                       /\ Step("rules", "apply_waivers",
                               [scan EXCEPT !.findings = Merge(some, r.imports), !.cut = cut])
    <2>1. PICK some : Step("rules", "apply_waivers",
                           [scan EXCEPT !.findings = Merge(some, r.imports),
                                        !.cut = @ \/ some # scan.findings])
        BY DEF EvaluateRules, Request
    <2>2. PICK cut : cut = (scan.cut \/ some # scan.findings)
        OBVIOUS
    <2>3. [scan EXCEPT !.findings = Merge(some, r.imports), !.cut = @ \/ some # scan.findings]
             = [scan EXCEPT !.findings = Merge(some, r.imports), !.cut = cut]
        BY <2>2
    <2>. QED  BY <2>1, <2>2, <2>3
<1>. DEFINE merged == Merge(some, r.imports)
            update == [scan EXCEPT !.findings = merged, !.cut = cut]
<1>. HIDE DEF merged
<1>3. /\ IsScan(update) /\ update.policy = scan.policy
      /\ update.request = r /\ update.plan = scan.plan /\ update.decision = scan.decision
      /\ update.fingerprints = scan.fingerprints /\ update.risks = scan.risks
      /\ update.findings = merged /\ update.cut = cut
    <2>1. update = [scan EXCEPT !.findings = merged, !.cut = cut]
        OBVIOUS
    <2>. HIDE DEF update
    <2>. QED  BY <1>1, <2>1 DEF IsScan
<1>4. Step("rules", "apply_waivers", update)
    BY <1>2 DEF merged
<1>. HIDE DEF update
<1>5. /\ scan.at = "rules" /\ scan'.at = "apply_waivers" /\ scan'.request = r /\ scan'.policy = scan.policy
      /\ scan'.plan = scan.plan /\ scan'.decision = scan.decision
      /\ scan'.fingerprints = scan.fingerprints /\ scan'.risks = scan.risks
      /\ scan'.findings = merged /\ scan'.cut = cut
    BY <1>3, <1>4, Stepped
<1>6. merged = Merge(scan.findings, r.imports)
    BY <1>2, <1>5 DEF merged
<1>7. HasPlans(scan, W, Repository)
    BY <1>1 DEF Witness
<1>8. ASSUME NEW i \in DOMAIN r.plans, FirstTime(r, i)
      PROVE  HasPlan(scan', W, Repository, i)
    <2>1. HasPlan(scan, W, Repository, i)
        BY <1>7, <1>8 DEF HasPlans
    <2>2. InHand(scan', i) <=> InHand(scan, i)
        BY <1>5 DEF InHand
    <2>. QED  BY <1>5, <1>6, <2>1, <2>2 DEF HasPlan
<1>9. HasPlans(scan', W, Repository)
    BY <1>5, <1>7, <1>8 DEF HasPlans, Early
<1>. QED  BY <1>5, <1>9, ScanningGoesOn DEF Scanning

\* Every plan file is read a first time.
LEMMA FirstReading ==
    ASSUME NEW r, NEW repo, MayScan(r, repo), NEW i \in DOMAIN r.plans
    PROVE  \E j \in DOMAIN r.plans : FirstTime(r, j) /\ r.plans[j] = r.plans[i]
<1>. DEFINE S == {j \in DOMAIN r.plans : r.plans[j] = r.plans[i]}
<1>1. DOMAIN r.plans = 1..Len(r.plans) /\ Len(r.plans) \in Nat
    BY RequestFields
<1>2. S \in SUBSET Nat /\ S # {}
    BY <1>1
<1>3. PICK j \in S : \A k \in S : j <= k
    BY <1>2, SmallestOf
<1>4. ASSUME NEW k \in 1..(j - 1)
      PROVE  r.plans[k] # r.plans[j]
    <2>1. j \in 1..Len(r.plans)
        BY <1>1
    <2>2. k \in DOMAIN r.plans /\ k < j
        BY <1>1, <2>1
    <2>. QED  BY <1>3, <2>1, <2>2
<1>. QED  BY <1>3, <1>4 DEF FirstTime

\* When each plan that is read first counts for no more, all of them do.
LEMMA NoStricter ==
    ASSUME NEW r, NEW W, MayScan(r, W), NEW d \in Decisions,
           Accepted(r, W), W.policy.waiverFile => W.waiverFile.state = "whole",
           \A i \in DOMAIN r.plans : FirstTime(r, i) => DecisionRank(AtPlan(r, W, i).decision) <= DecisionRank(d)
    PROVE  AtomicDecision(r, W) # "error" /\ DecisionRank(AtomicDecision(r, W)) <= DecisionRank(d)
<1>. DEFINE D == {AtPlan(r, W, i).decision : i \in DOMAIN r.plans}
<1>1. D \in SUBSET Decisions /\ D # {}
    BY AtomicDecisions
<1>2. AtomicDecision(r, W) = Strongest(D)
    BY AtomicOutcomes
<1>3. ASSUME NEW i \in DOMAIN r.plans
      PROVE  AtPlan(r, W, i).decision \in Verdicts /\ DecisionRank(AtPlan(r, W, i).decision) <= DecisionRank(d)
    <2>1. AtPlan(r, W, i).decision \in Verdicts
        BY AtPlanIs, Decided
    <2>2. PICK j \in DOMAIN r.plans : FirstTime(r, j) /\ r.plans[j] = r.plans[i]
        BY FirstReading
    <2>3. AtPlan(r, W, j) = AtPlan(r, W, i)
        BY <2>2 DEF AtPlan
    <2>4. DecisionRank(AtPlan(r, W, j).decision) <= DecisionRank(d)
        BY <2>2
    <2>. QED  BY <2>1, <2>3, <2>4
<1>4. Strongest(D) \in D
    BY <1>1, HasStrongest
<1>5. PICK i \in DOMAIN r.plans : Strongest(D) = AtPlan(r, W, i).decision
    BY <1>4
<1>. QED  BY <1>2, <1>3, <1>5 DEF Verdicts

\* What an evaluated plan leaves on record.
LEMMA EvaluatedRaces ==
    ASSUME IsScan(scan), NEW findings
    PROVE  Evaluated(findings).raced
               <=> \/ scan.raced
                   \/ scan.policy.waiverFile /\ ~ValidWaivers(waiverFile.records, scan.policy.maxWaiverDays)
<1>. DEFINE outcome == EvaluatePolicy(findings,
                           ConfigWith(Options(Request), scan.policy, scan.fingerprints, scan.risks))
            evaluated == scan.evaluated \union Tagged(scan.plan, outcome.findings)
            decision == StrongestDecision(scan.decision, outcome.decision)
            raced == scan.raced \/ (/\ scan.policy.waiverFile
                                    /\ ~ValidWaivers(waiverFile.records, scan.policy.maxWaiverDays))
            plan == scan.plan + 1
<1>1. Evaluated(findings) = [scan EXCEPT !.evaluated = evaluated, !.decision = decision,
                                         !.raced = raced, !.plan = plan, !.findings = {}]
    BY DEF Evaluated
<1>. HIDE DEF evaluated, decision, raced, plan
<1>2. Evaluated(findings).raced = raced
    BY <1>1 DEF IsScan
<1>. QED  BY <1>2 DEF raced

\* A plan is decided no laxer than in the scan of the witness.
LEMMA FollowApplyAndEvaluate ==
    ASSUME NEW W, Following(W), ApplyAndEvaluate, ~scan'.raced
    PROVE  Onward(W)
<1>. DEFINE r == scan.request
            p == scan.policy
            findings == ReviewedBy(p, waiverFile.records, scan.findings, now)
            outcome == EvaluatePolicy(findings, ConfigWith(Options(r), p, scan.fingerprints, scan.risks))
            update == Evaluated(findings)
            next == AfterPlan
<1>1. /\ IsScan(scan) /\ Witness(W, scan, Repository, command, baselineBeing)
      /\ MayScan(r, W)
      /\ scan.at = "apply_waivers" => scan.decision \in Verdicts \union {"none"}
    BY DEF Following, Verdict, Witness, Scanning
<1>2. CASE \E code \in {3, 4} : Fail("apply_waivers", code)
    BY <1>2, FailureGoesOn
<1>3. CASE /\ p.waiverFile => waiverFile.state = "whole"
           /\ Step("apply_waivers", next, update)
    <2>1. scan.at = "apply_waivers"
        BY <1>3 DEF Step
    <2>2. /\ p = W.policy /\ Knows(scan, NamedByEither(r, W)) /\ BaselineFits(W)
          /\ r.newOnly => r.baseline
          /\ r.baseline => W.baseline.written
          /\ HasPlans(scan, W, Repository)
          /\ W.policy.waiverFile =>
                WaiversFit(W) /\ W.waiverFile.state = "whole" /\ WaivesNoMore(W, Repository)
        BY <1>1, <2>1 DEF Witness, HasPolicy, HasBaseline, HasWaivers, Validated, Scanning
    <2>3. Accepted(r, W)
        BY <2>2 DEF Accepted, WaiversFit
    <2>4. ConfigWith(Options(r), p, scan.fingerprints, scan.risks) = ConfigOf(r, W)
        BY <2>2 DEF Knows, ConfigOf
    <2>5. /\ IsScan(update) /\ update.policy = p /\ update.request = r
          /\ update.fingerprints = scan.fingerprints /\ update.risks = scan.risks
          /\ update.plan = scan.plan + 1
          /\ update.decision = Strongest({scan.decision, outcome.decision})
          /\ update.raced <=> scan.raced \/ (p.waiverFile /\ ~ValidWaivers(waiverFile.records, p.maxWaiverDays))
        <3>. HIDE DEF findings
        <3>. QED  BY <1>1, EvaluatedScan, EvaluatedRaces DEF Request
    <2>. HIDE DEF update, next
    <2>6. /\ scan'.at = next /\ scan'.request = r /\ scan'.policy = p
          /\ scan'.fingerprints = scan.fingerprints /\ scan'.risks = scan.risks
          /\ scan'.plan = scan.plan + 1
          /\ scan'.decision = Strongest({scan.decision, outcome.decision})
          /\ scan'.raced = update.raced
        <3>. HIDE DEF outcome
        <3>. QED  BY <1>3, <2>5, Stepped, SteppedRaces
    <2>7. p.waiverFile => Effective(waiverFile.records, now) \subseteq Effective(W.waiverFile.records, W.now)
        BY <1>3, <2>2, <2>5, <2>6, AsItIs DEF WaivesNoMore
    <2>8. outcome.decision \in Verdicts
        BY Decided
    <2>9. /\ scan'.decision \in Decisions
          /\ DecisionRank(scan.decision) <= DecisionRank(scan'.decision)
          /\ DecisionRank(outcome.decision) <= DecisionRank(scan'.decision)
        <3>. DEFINE D == {scan.decision, outcome.decision}
        <3>1. D \in SUBSET Decisions /\ D # {}
            BY <1>1, <2>1, <2>8 DEF Verdicts, Decisions
        <3>2. Strongest(D) \in D /\ \A e \in D : DecisionRank(e) <= DecisionRank(Strongest(D))
            BY <3>1, HasStrongest
        <3>. HIDE DEF outcome
        <3>. QED  BY <2>6, <3>1, <3>2
    <2>10. /\ DOMAIN r.plans = 1..Len(r.plans) /\ Len(r.plans) \in Nat
           /\ scan.plan \in 1..Len(r.plans)
        BY <1>1, <2>2, RequestFields DEF HasPlans
    <2>11. ASSUME NEW i \in DOMAIN r.plans
           PROVE  /\ DecisionRank(AtPlan(r, W, i).decision) \in Nat
                  /\ DecisionRank(scan.decision) \in Nat /\ DecisionRank(scan'.decision) \in Nat
                  /\ DecisionRank(outcome.decision) \in Nat
        <3>1. AtPlan(r, W, i).decision \in Verdicts
            BY <1>1, <2>3, AtPlanIs, Decided
        <3>. HIDE DEF outcome
        <3>. QED  BY <1>1, <2>1, <2>8, <2>9, <3>1, Ranks DEF Verdicts, Decisions
    <2>12. ASSUME NEW i \in DOMAIN r.plans, FirstTime(r, i), i < scan'.plan
           PROVE  DecisionRank(AtPlan(r, W, i).decision) <= DecisionRank(scan'.decision)
        <3>1. HasPlan(scan, W, Repository, i)
            BY <2>2, <2>12 DEF HasPlans
        <3>2. CASE i < scan.plan
            <4>1. DecisionRank(AtPlan(r, W, i).decision) <= DecisionRank(scan.decision)
                BY <3>1, <3>2 DEF HasPlan
            <4>. HIDE DEF outcome
            <4>. QED  BY <2>9, <2>11, <4>1
        <3>3. CASE i = scan.plan
            <4>1. scan.findings = FindingsOf(r, W, i)
                BY <2>1, <3>1, <3>3 DEF HasPlan, InHand, FindingsOf
            <4>2. outcome = EvaluatePolicy(ReviewedBy(W.policy, waiverFile.records, FindingsOf(r, W, i), now),
                                           ConfigOf(r, W))
                BY <2>2, <2>4, <4>1
            <4>3. DecisionRank(AtPlan(r, W, i).decision) <= DecisionRank(outcome.decision)
                <5>. HIDE DEF outcome
                <5>. QED  BY <1>1, <2>2, <2>3, <2>7, <4>2, WaivingNoMore
            <4>. HIDE DEF outcome
            <4>. QED  BY <2>9, <2>11, <4>3
        <3>. QED  BY <2>6, <2>10, <2>12, <3>2, <3>3
    <2>13. CASE scan.plan < Len(r.plans)
        <3>1. next = "plan" /\ scan'.plan \in DOMAIN r.plans
            BY <2>6, <2>10, <2>13 DEF AfterPlan, Request, next
        <3>2. ASSUME NEW i \in DOMAIN r.plans, FirstTime(r, i)
              PROVE  HasPlan(scan', W, Repository, i)
            <4>1. HasPlan(scan, W, Repository, i)
                BY <2>2, <3>2 DEF HasPlans
            <4>2. ~InHand(scan', i)
                BY <2>6, <3>1 DEF InHand
            <4>3. ~(i < scan'.plan) => ~(i < scan.plan) /\ ~InHand(scan, i)
                BY <2>6, <2>10 DEF InHand
            <4>4. ~(i < scan'.plan) => Repository.plans[r.plans[i]] = W.plans[r.plans[i]]
                BY <4>1, <4>3 DEF HasPlan
            <4>. QED  BY <2>6, <2>12, <3>2, <4>2, <4>4 DEF HasPlan
        <3>3. HasPlans(scan', W, Repository)
            BY <2>6, <3>1, <3>2 DEF HasPlans, Early
        <3>. QED  BY <2>1, <2>6, <3>1, <3>3, ScanningGoesOn DEF Scanning
    <2>14. CASE ~(scan.plan < Len(r.plans))
        <3>1. next = "deadline" /\ scan'.plan = Len(r.plans) + 1
            BY <2>6, <2>10, <2>14 DEF AfterPlan, Request, next
        <3>2. \A i \in DOMAIN r.plans : i < scan'.plan
            BY <2>10, <3>1
        <3>3. /\ AtomicDecision(r, W) # "error"
              /\ DecisionRank(AtomicDecision(r, W)) <= DecisionRank(scan'.decision)
            BY <1>1, <2>2, <2>3, <2>9, <2>12, <3>2, NoStricter
        <3>4. Justified(scan', {AtomicDecision(r, W)})
            BY <2>9, <3>3 DEF Justified
        <3>. QED  BY <2>6, <3>1, <3>4 DEF Onward
    <2>. QED  BY <2>13, <2>14
<1>4. \/ \E code \in {3, 4} : Fail("apply_waivers", code)
      \/ (p.waiverFile => waiverFile.state = "whole") /\ Step("apply_waivers", next, update)
    <2>1. /\ p.waiverFile => findings = ApplyWaivers(waiverFile.records, scan.findings, now)
          /\ ~p.waiverFile => findings = scan.findings
        BY DEF ReviewedBy
    <2>. HIDE DEF findings
    <2>. QED  BY <2>1 DEF ApplyAndEvaluate
<1>. QED  BY <1>2, <1>3, <1>4

\* A scan that is done takes no step.
LEMMA StepsStart ==
    ASSUME ScanStep
    PROVE  /\ scan.at \in Early \union Scanning \union Reporting \union {"deadline"}
           /\ scan.at \in Early \union Scanning =>
                 \/ ReadPolicy \/ ReadPolicyBaseline \/ ValidateWaivers \/ ReadBaseline \/ ReadContext
                 \/ ReadPlan \/ EvaluateRules \/ ApplyAndEvaluate
           /\ scan.at \in Reporting \union {"deadline"} =>
                 \/ LimitFindings \/ AuditPolicy \/ AuditPlans \/ AuditWaivers \/ AuditBaseline
                 \/ WriteBundle \/ WriteReport
<1>. USE DEF Early, Scanning, Reporting, Fail, Step
<1>1. ReadPolicy => scan.at = "policy"
    BY DEF ReadPolicy
<1>2. ReadPolicyBaseline => scan.at = "policy_baseline"
    BY DEF ReadPolicyBaseline
<1>3. ValidateWaivers => scan.at = "waivers"
    BY DEF ValidateWaivers
<1>4. ReadBaseline => scan.at = "baseline"
    BY DEF ReadBaseline
<1>5. ReadContext => scan.at = "context"
    BY DEF ReadContext
<1>6. ReadPlan => scan.at = "plan"
    BY DEF ReadPlan
<1>7. EvaluateRules => scan.at = "rules"
    BY DEF EvaluateRules
<1>8. ApplyAndEvaluate => scan.at = "apply_waivers"
    BY DEF ApplyAndEvaluate
<1>9. LimitFindings => scan.at = "deadline"
    BY DEF LimitFindings
<1>10. AuditPolicy \/ AuditPlans \/ AuditWaivers \/ AuditBaseline
         => scan.at \in {"audit_policy", "audit_plans", "audit_waivers", "audit_baseline"}
    BY DEF AuditPolicy, AuditPlans, AuditWaivers, AuditBaseline
<1>11. WriteBundle \/ WriteReport => scan.at \in {"bundle", "report"}
    BY DEF WriteBundle, WriteReport
<1>. HIDE DEF Step, Fail
<1>. QED  BY <1>1, <1>2, <1>3, <1>4, <1>5, <1>6, <1>7, <1>8, <1>9, <1>10, <1>11 DEF ScanStep

\* While the files are read, the scan goes on with a witness or fails.
LEMMA FollowScanStep ==
    ASSUME NEW W, Following(W), ScanStep, scan.at \in Early \union Scanning, ~scan'.raced, ~scan'.cut
    PROVE  Onward(W)
    BY StepsStart, FollowReadPolicy, FollowReadPolicyBaseline, FollowValidateWaivers, FollowReadBaseline,
       FollowReadContext, FollowReadPlan, FollowEvaluateRules, FollowApplyAndEvaluate

\* What a failure and a piece of audit evidence leave on record.
LEMMA FailedRaces ==
    ASSUME IsScan(scan), NEW from, NEW code, Fail(from, code)
    PROVE  scan'.raced = scan.raced
<1>. DEFINE update == [scan EXCEPT !.exit = code]
<1>1. IsScan(update) /\ update.raced = scan.raced
    BY DEF IsScan
<1>. HIDE DEF update
<1>2. Step(from, "done", update)
    BY DEF Fail, update
<1>. QED  BY <1>1, <1>2, SteppedRaces

\* The same of a piece of audit evidence, which decides nothing.
LEMMA NotedRaces ==
    ASSUME IsScan(scan), NEW evidence
    PROVE  Noted(evidence).raced = scan.raced /\ Noted(evidence).decision = scan.decision
<1>. DEFINE report == [scan.report EXCEPT !.audit = @ \o <<evidence>>]
<1>1. Noted(evidence) = [scan EXCEPT !.report = report]
    BY DEF Noted
<1>. HIDE DEF report
<1>. QED  BY <1>1 DEF IsScan

\* A race, or a rule left out, stays on record.
LEMMA RacesLast ==
    ASSUME Verdict(scan), ScanStep
    PROVE  (scan.raced => scan'.raced) /\ (scan.cut => scan'.cut)
<1>. DEFINE Lasts(s) == (scan.raced => s.raced) /\ (scan.cut => s.cut)
<1>1. IsScan(scan)
    BY DEF Verdict
<1>2. ASSUME NEW from, NEW code, Fail(from, code)
      PROVE  Lasts(scan')
    BY <1>1, <1>2, Failed, FailedRaces
<1>3. ASSUME NEW from, NEW to, NEW update, IsScan(update), Lasts(update), Step(from, to, update)
      PROVE  Lasts(scan')
    BY <1>3, Stepped, SteppedRaces
<1>4. CASE ReadPolicy
    <2>1. LET u == [scan EXCEPT !.policy = policy] IN IsScan(u) /\ Lasts(u)
        BY <1>1 DEF IsScan
    <2>. QED  BY <1>3, <1>4, <2>1 DEF ReadPolicy
<1>5. CASE ReadPolicyBaseline
    <2>1. LET u == WithBaseline(baseline.entries) IN IsScan(u) /\ Lasts(u)
        BY <1>1, WithBaselineScan
    <2>. QED  BY <1>1, <1>2, <1>3, <1>5, <2>1 DEF ReadPolicyBaseline
<1>6. CASE ReadBaseline
    <2>. DEFINE read == WithBaseline(baseline.entries)
    <2>1. IsScan(read) /\ Lasts(read)
        BY <1>1, WithBaselineScan
    <2>. HIDE DEF read
    <2>2. ASSUME NEW raced, NEW u, u = [read EXCEPT !.raced = raced], read.raced => raced
          PROVE  IsScan(u) /\ Lasts(u)
        BY <2>1, <2>2 DEF IsScan
    <2>3. \/ Fail("baseline", 2) \/ Fail("baseline", 3)
          \/ Step("baseline", "context", scan)
          \/ \E raced : /\ read.raced => raced
                        /\ Step("baseline", "context", [read EXCEPT !.raced = raced])
        <3>1. ASSUME NEW twice, Step("baseline", "context", [read EXCEPT !.raced = @ \/ twice])
              PROVE  \E raced : /\ read.raced => raced
                                /\ Step("baseline", "context", [read EXCEPT !.raced = raced])
            <4>1. PICK raced : raced = (read.raced \/ twice)
                OBVIOUS
            <4>2. [read EXCEPT !.raced = @ \/ twice] = [read EXCEPT !.raced = raced]
                BY <4>1
            <4>. QED  BY <3>1, <4>1, <4>2
        <3>. QED  BY <1>6, <3>1 DEF ReadBaseline, read
    <2>. QED  BY <1>1, <1>2, <1>3, <2>2, <2>3
<1>7. CASE ReadPlan
    <2>1. \A f : LET u == [scan EXCEPT !.findings = f] IN IsScan(u) /\ Lasts(u)
        BY <1>1 DEF IsScan
    <2>2. Fail("plan", 3) \/ \E f : Step("plan", "rules", [scan EXCEPT !.findings = f])
        BY <1>7 DEF ReadPlan
    <2>. QED  BY <1>2, <1>3, <2>1, <2>2
<1>8. CASE EvaluateRules
    <2>1. ASSUME NEW f, NEW cut, NEW u, u = [scan EXCEPT !.findings = f, !.cut = cut], scan.cut => cut
          PROVE  IsScan(u) /\ Lasts(u)
        BY <1>1, <2>1 DEF IsScan
    <2>2. PICK some : Step("rules", "apply_waivers",
                           [scan EXCEPT !.findings = Merge(some, Request.imports),
                                        !.cut = @ \/ some # scan.findings])
        BY <1>8 DEF EvaluateRules
    <2>3. PICK f, cut : f = Merge(some, Request.imports) /\ cut = (scan.cut \/ some # scan.findings)
        OBVIOUS
    <2>4. [scan EXCEPT !.findings = Merge(some, Request.imports), !.cut = @ \/ some # scan.findings]
             = [scan EXCEPT !.findings = f, !.cut = cut]
        BY <2>3
    <2>5. Step("rules", "apply_waivers", [scan EXCEPT !.findings = f, !.cut = cut])
        BY <2>2, <2>4
    <2>. QED  BY <1>3, <2>1, <2>3, <2>5
<1>9. CASE ApplyAndEvaluate
    <2>1. \A f : IsScan(Evaluated(f)) /\ Lasts(Evaluated(f))
        BY <1>1, EvaluatedScan, EvaluatedRaces
    <2>2. \/ Fail("apply_waivers", 3) \/ Fail("apply_waivers", 4)
          \/ \E f : Step("apply_waivers", AfterPlan, Evaluated(f))
        BY <1>9 DEF ApplyAndEvaluate
    <2>. QED  BY <1>2, <1>3, <2>1, <2>2
<1>10. CASE LimitFindings
    <2>. DEFINE kept == Limit(scan.evaluated, Request.maxFindings)
                report == [NoReport EXCEPT !.decision = scan.decision, !.findings = kept,
                                           !.summary = RiskSummary(kept)]
    <2>1. IsReport(report)
        BY LimitedReport
    <2>2. Fail("deadline", 3) \/ Step("deadline", "audit_policy", [scan EXCEPT !.report = report])
        BY <1>10 DEF LimitFindings
    <2>. HIDE DEF report
    <2>3. LET u == [scan EXCEPT !.report = report] IN IsScan(u) /\ Lasts(u)
        BY <1>1, <2>1 DEF IsScan
    <2>. QED  BY <1>2, <1>3, <2>2, <2>3
<1>11. CASE AuditPolicy \/ AuditPlans \/ AuditWaivers \/ AuditBaseline
    <2>1. \A e : IsScan(Noted(e)) /\ Lasts(Noted(e))
        BY <1>1, NotedScan, NotedRaces
    <2>2. \/ Fail("audit_waivers", 3) \/ Fail("audit_baseline", 3)
          \/ \E from, to, e : Step(from, to, Noted(e))
        BY <1>11 DEF AuditPolicy, AuditPlans, AuditWaivers, AuditBaseline
    <2>. QED  BY <1>2, <1>3, <2>1, <2>2
<1>12. CASE WriteReport
    <2>1. ASSUME NEW output, NEW code, NEW u, u = [scan EXCEPT !.output = output, !.exit = code]
          PROVE  IsScan(u) /\ Lasts(u)
        BY <1>1, <2>1 DEF IsScan
    <2>2. \E output, code : Step("report", "done", [scan EXCEPT !.output = output, !.exit = code])
        BY <1>12 DEF WriteReport
    <2>. QED  BY <1>3, <2>1, <2>2
<1>13. CASE ValidateWaivers \/ ReadContext \/ WriteBundle
    BY <1>1, <1>2, <1>3, <1>13 DEF ValidateWaivers, ReadContext, WriteBundle
<1>. QED
    BY <1>4, <1>5, <1>6, <1>7, <1>8, <1>9, <1>10, <1>11, <1>12, <1>13 DEF ScanStep

\* Once the plans are evaluated the decision stays, and is what is reported.
LEMMA DecisionStays ==
    ASSUME Verdict(scan), ScanStep, scan.at \in Reporting \union {"deadline"}
    PROVE  \/ scan'.at = "done" /\ scan'.exit \notin {0, 1}
           \/ /\ scan'.at \in Reporting \union {"done"} /\ scan'.decision = scan.decision
              /\ scan.at = "deadline" => scan'.report.decision = scan.decision
              /\ scan.at \in Reporting => scan'.report.decision = scan.report.decision
<1>1. IsScan(scan)
    BY DEF Verdict
<1>2. ASSUME NEW from, NEW code \in {3, 6}, Fail(from, code)
      PROVE  scan'.at = "done" /\ scan'.exit \notin {0, 1}
    BY <1>1, <1>2, Failed
<1>3. ASSUME NEW from \in Reporting, NEW to \in Reporting \union {"done"}, NEW update, IsScan(update),
             update.decision = scan.decision, update.report.decision = scan.report.decision,
             Step(from, to, update)
      PROVE  /\ scan'.at \in Reporting \union {"done"} /\ scan'.decision = scan.decision
             /\ scan.at # "deadline" /\ scan'.report.decision = scan.report.decision
    BY <1>3, Stepped DEF Reporting
<1>4. CASE LimitFindings
    <2>. DEFINE kept == Limit(scan.evaluated, Request.maxFindings)
                report == [NoReport EXCEPT !.decision = scan.decision, !.findings = kept,
                                           !.summary = RiskSummary(kept)]
    <2>1. IsReport(report) /\ report.decision = scan.decision
        BY LimitedReport
    <2>2. Fail("deadline", 3) \/ Step("deadline", "audit_policy", [scan EXCEPT !.report = report])
        BY <1>4 DEF LimitFindings
    <2>. HIDE DEF report
    <2>3. LET u == [scan EXCEPT !.report = report]
          IN  IsScan(u) /\ u.decision = scan.decision /\ u.report = report
        BY <1>1, <2>1 DEF IsScan
    <2>4. CASE Step("deadline", "audit_policy", [scan EXCEPT !.report = report])
        <3>1. PICK u : u = [scan EXCEPT !.report = report]
            OBVIOUS
        <3>2. IsScan(u) /\ u.decision = scan.decision /\ u.report = report
            BY <2>3, <3>1
        <3>3. Step("deadline", "audit_policy", u)
            BY <2>4, <3>1
        <3>4. /\ scan.at = "deadline" /\ scan'.at = "audit_policy"
              /\ scan'.decision = scan.decision /\ scan'.report = report
            BY <3>2, <3>3, Stepped
        <3>. QED  BY <2>1, <3>4 DEF Reporting
    <2>. QED  BY <1>2, <2>2, <2>4
<1>5. CASE AuditPolicy \/ AuditPlans \/ AuditWaivers \/ AuditBaseline
    <2>1. \A e : /\ IsScan(Noted(e)) /\ Noted(e).decision = scan.decision
                 /\ Noted(e).report.decision = scan.report.decision
        BY <1>1, NotedScan, NotedRaces
    <2>2. \/ Fail("audit_waivers", 3) \/ Fail("audit_baseline", 3)
          \/ \E from \in Reporting, to \in Reporting : \E e : Step(from, to, Noted(e))
        BY <1>5 DEF AuditPolicy, AuditPlans, AuditWaivers, AuditBaseline, Reporting
    <2>. QED  BY <1>2, <1>3, <2>1, <2>2
<1>6. CASE WriteReport
    <2>1. ASSUME NEW output, NEW code, NEW u, u = [scan EXCEPT !.output = output, !.exit = code]
          PROVE  IsScan(u) /\ u.decision = scan.decision /\ u.report = scan.report
        BY <1>1, <2>1 DEF IsScan
    <2>2. \E output, code : Step("report", "done", [scan EXCEPT !.output = output, !.exit = code])
        BY <1>6 DEF WriteReport
    <2>3. PICK output, code : Step("report", "done", [scan EXCEPT !.output = output, !.exit = code])
        BY <2>2
    <2>4. PICK u : u = [scan EXCEPT !.output = output, !.exit = code]
        OBVIOUS
    <2>5. IsScan(u) /\ u.decision = scan.decision /\ u.report = scan.report
        BY <2>1, <2>4
    <2>6. Step("report", "done", u)
        BY <2>3, <2>4
    <2>7. "report" \in Reporting
        BY DEF Reporting
    <2>. QED  BY <1>3, <2>5, <2>6, <2>7
<1>7. CASE WriteBundle
    <2>1. {"bundle", "report"} \subseteq Reporting
        BY DEF Reporting
    <2>. QED  BY <1>1, <1>2, <1>3, <1>7, <2>1 DEF WriteBundle
<1>. QED  BY <1>4, <1>5, <1>6, <1>7, StepsStart

\* What a deadline that passes leaves as it is.
LEMMA LateRaces ==
    ASSUME IsScan(scan), DeadlinePasses
    PROVE  scan'.raced = scan.raced /\ scan'.findings = scan.findings
<1>1. scan' = [scan EXCEPT !.late = TRUE]
    BY DEF DeadlinePasses
<1>. QED  BY <1>1 DEF IsScan

\* The witness of a scan is no matter of its deadline.
LEMMA LateWitness ==
    ASSUME NEW W, NEW repo, NEW commands, NEW being, NEW s, NEW t, Witness(W, s, repo, commands, being),
           t.request = s.request, t.at = s.at, t.policy = s.policy, t.fingerprints = s.fingerprints,
           t.risks = s.risks, t.plan = s.plan, t.decision = s.decision, t.findings = s.findings
    PROVE  Witness(W, t, repo, commands, being)
<1>1. HasPolicy(t, W, repo) /\ HasBaseline(t, W, repo) /\ HasWaivers(t, W, repo)
    BY DEF Witness, HasPolicy, HasBaseline, HasWaivers, BaselineUnread, Knows
<1>2. HasPlans(t, W, repo)
    <2>1. ASSUME NEW i
          PROVE  HasPlan(s, W, repo, i) => HasPlan(t, W, repo, i)
        BY DEF HasPlan, InHand
    <2>. QED  BY <2>1 DEF Witness, HasPlans
<1>3. UnderWay(t, W, repo, commands)
    BY DEF Witness, UnderWay
<1>. QED  BY <1>1, <1>2, <1>3 DEF Witness

-----------------------------------------------------------------------------
(***************************************************************************)
(* What happens around the scan, one edit after the other: the witness     *)
(* stays, or the repository as it is now (new) takes its place.            *)
(***************************************************************************)
Nobody(commands) == \A c \in Commands : ~Busy(commands[c])

\* Where no command is under way there is nothing to say of them.
LEMMA NobodyUnderWay ==
    ASSUME NEW W, NEW s, NEW repo, NEW commands, Nobody(commands)
    PROVE  UnderWay(s, W, repo, commands)
    BY DEF Nobody, UnderWay, Busy

\* What was not read yet of a scan that is at its beginning.
LEMMA NoPlanYet ==
    ASSUME NEW s, NEW W, NEW repo, MayScan(s.request, W), HasPlans(s, W, repo), s.at \in Early, NEW new
    PROVE  HasPlans(s, new, new)
<1>1. s.plan = 1 /\ DOMAIN s.request.plans = 1..Len(s.request.plans) /\ Len(s.request.plans) \in Nat
    BY RequestFields DEF HasPlans
<1>2. ASSUME NEW i \in DOMAIN s.request.plans
      PROVE  HasPlan(s, new, new, i)
    <2>1. ~(i < s.plan) /\ ~InHand(s, i)
        BY <1>1 DEF InHand, Early
    <2>. QED  BY <2>1 DEF HasPlan
<1>. QED  BY <1>1, <1>2 DEF HasPlans

\* A plan is edited: if it was read the scan keeps what it read, else it will read the new one.
LEMMA WitnessOfEditedPlan ==
    ASSUME NEW s, NEW old, NEW new, NEW commands, NEW being, Witness(old, s, old, commands, being),
           Nobody(commands), Sound(new), MayScan(s.request, new), NEW file,
           \A other \in DOMAIN old.plans : other # file => new.plans[other] = old.plans[other],
           new.policy = old.policy, new.waiverFile = old.waiverFile, new.baseline = old.baseline,
           new.now = old.now, ~being.written
    PROVE  \E V \in {old, new} : Witness(V, s, new, commands, being)
<1>. DEFINE r == s.request
            Read(i) == FirstTime(r, i) /\ (i < s.plan \/ InHand(s, i))
<1>1. /\ Sound(old) /\ MayScan(r, old) /\ old.now <= old.now
      /\ HasPolicy(s, old, old) /\ HasBaseline(s, old, old) /\ HasWaivers(s, old, old)
      /\ HasPlans(s, old, old)
    BY DEF Witness
<1>2. /\ DOMAIN r.plans = 1..Len(r.plans) /\ Len(r.plans) \in Nat
      /\ \A i \in DOMAIN r.plans : r.plans[i] \in DOMAIN old.plans
    BY <1>1, RequestFields
<1>3. CASE \E i \in DOMAIN r.plans : Read(i) /\ r.plans[i] = file
    <2>1. PICK i \in DOMAIN r.plans : Read(i) /\ r.plans[i] = file
        BY <1>3
    <2>2. ASSUME NEW j \in DOMAIN r.plans, FirstTime(r, j)
          PROVE  HasPlan(s, old, new, j)
        <3>1. HasPlan(s, old, old, j)
            BY <1>1, <2>2 DEF HasPlans
        <3>2. CASE j = i
            BY <2>1, <3>1, <3>2 DEF HasPlan
        <3>3. CASE j # i
            <4>1. r.plans[j] # file
                <5>1. i < j \/ j < i
                    BY <1>2, <3>3
                <5>2. i \in 1..(j - 1) \/ j \in 1..(i - 1)
                    BY <1>2, <5>1
                <5>. QED  BY <2>1, <2>2, <5>2 DEF FirstTime
            <4>2. new.plans[r.plans[j]] = old.plans[r.plans[j]]
                BY <1>2, <4>1
            <4>. QED  BY <3>1, <4>2 DEF HasPlan
        <3>. QED  BY <3>2, <3>3
    <2>3. HasPlans(s, old, new)
        BY <1>1, <2>2 DEF HasPlans
    <2>4. HasPolicy(s, old, new) /\ HasBaseline(s, old, new) /\ HasWaivers(s, old, new)
        BY <1>1 DEF HasPolicy, HasBaseline, HasWaivers, WaivesNoMore
    <2>5. Witness(old, s, new, commands, being)
        BY <1>1, <2>3, <2>4, NobodyUnderWay DEF Witness
    <2>. QED  BY <2>5
<1>4. CASE ~(\E i \in DOMAIN r.plans : Read(i) /\ r.plans[i] = file)
    <2>1. ASSUME NEW j \in DOMAIN r.plans, FirstTime(r, j)
          PROVE  HasPlan(s, new, new, j)
        <3>1. HasPlan(s, old, old, j)
            BY <1>1, <2>1 DEF HasPlans
        <3>2. CASE Read(j)
            <4>1. new.plans[r.plans[j]] = old.plans[r.plans[j]]
                BY <1>2, <1>4, <3>2
            <4>2. AtPlan(r, new, j) = AtPlan(r, old, j) /\ Native(r, new, r.plans[j]) = Native(r, old, r.plans[j])
                BY <4>1, SamePlan
            <4>. QED  BY <3>1, <4>2 DEF HasPlan
        <3>3. CASE ~Read(j)
            BY <2>1, <3>3 DEF HasPlan
        <3>. QED  BY <3>2, <3>3
    <2>2. HasPlans(s, new, new)
        BY <1>1, <2>1 DEF HasPlans
    <2>3. HasPolicy(s, new, new) /\ HasWaivers(s, new, new)
        BY <1>1 DEF HasPolicy, HasWaivers, WaivesNoMore, WaiversFit
    <2>4. HasBaseline(s, new, new)
        BY <1>1 DEF HasBaseline, BaselineUnread, NamedByPolicy, NamedByEither, BaselineFits
    <2>5. Witness(new, s, new, commands, being)
        BY <1>1, <2>2, <2>3, <2>4, NobodyUnderWay DEF Witness
    <2>. QED  BY <2>5
<1>. QED  BY <1>3, <1>4

\* The policy is edited: it was read, or the scan reads the new one.
LEMMA WitnessOfEditedPolicy ==
    ASSUME NEW s, NEW old, NEW new, NEW commands, NEW being, Witness(old, s, old, commands, being),
           Nobody(commands), Sound(new), MayScan(s.request, new),
           new.plans = old.plans, new.waiverFile = old.waiverFile, new.baseline = old.baseline,
           new.now = old.now, ~being.written
    PROVE  \E V \in {old, new} : Witness(V, s, new, commands, being)
<1>1. /\ Sound(old) /\ MayScan(s.request, old) /\ old.now <= old.now
      /\ HasPolicy(s, old, old) /\ HasBaseline(s, old, old) /\ HasWaivers(s, old, old)
      /\ HasPlans(s, old, old)
    BY DEF Witness
<1>2. CASE s.at = "policy"
    <2>1. HasPolicy(s, new, new) /\ HasWaivers(s, new, new)
        BY <1>2 DEF HasPolicy, HasWaivers, Validated, Scanning
    <2>2. HasBaseline(s, new, new)
        BY <1>1, <1>2 DEF HasBaseline, BaselineUnread, Scanning
    <2>3. HasPlans(s, new, new)
        BY <1>1, <1>2, NoPlanYet DEF Early
    <2>4. Witness(new, s, new, commands, being)
        BY <1>1, <2>1, <2>2, <2>3, NobodyUnderWay DEF Witness
    <2>. QED  BY <2>4
<1>3. CASE s.at # "policy"
    <2>1. HasPolicy(s, old, new) /\ HasBaseline(s, old, new) /\ HasWaivers(s, old, new)
        BY <1>1, <1>3 DEF HasPolicy, HasBaseline, HasWaivers, WaivesNoMore
    <2>2. HasPlans(s, old, new)
        BY <1>1 DEF HasPlans, HasPlan
    <2>3. Witness(old, s, new, commands, being)
        BY <1>1, <2>1, <2>2, NobodyUnderWay DEF Witness
    <2>. QED  BY <2>3
<1>. QED  BY <1>2, <1>3

\* The baseline is truncated, or written: it was read, or the scan reads what it is now.
LEMMA WitnessOfEditedBaseline ==
    ASSUME NEW W, NEW s, NEW repo, NEW new, NEW commands, NEW being, NEW being2,
           Witness(W, s, repo, commands, being), Nobody(commands), Sound(new), MayScan(s.request, new),
           ButBaseline(W, repo), ButBaseline(repo, new)
    PROVE  \E V \in {W, new} : Witness(V, s, new, commands, being2)
<1>1. /\ Sound(W) /\ MayScan(s.request, W) /\ W.now <= repo.now
      /\ HasPolicy(s, W, repo) /\ HasBaseline(s, W, repo) /\ HasWaivers(s, W, repo)
      /\ HasPlans(s, W, repo)
    BY DEF Witness
<1>2. ButBaseline(W, new) /\ ButBaseline(new, new) /\ W.now <= new.now /\ new.now <= new.now
    BY <1>1 DEF ButBaseline
<1>3. CASE BaselineUnread(s, W)
    <2>1. s.at \in Early
        BY <1>3 DEF BaselineUnread, Early
    <2>2. HasPlans(s, new, new)
        BY <1>1, <2>1, NoPlanYet
    <2>3. HasPolicy(s, new, new)
        BY <1>1, <1>2 DEF HasPolicy, ButBaseline
    <2>4. HasWaivers(s, new, new)
        BY <1>1, <1>2 DEF HasWaivers, ButBaseline, WaivesNoMore, WaiversFit
    <2>5. HasBaseline(s, new, new)
        BY <1>1, <1>2, <1>3 DEF HasBaseline, BaselineUnread, Scanning, ButBaseline, NamedByPolicy, BaselineFits
    <2>6. Witness(new, s, new, commands, being2)
        BY <1>2, <2>2, <2>3, <2>4, <2>5, NobodyUnderWay DEF Witness
    <2>. QED  BY <2>6
<1>4. CASE ~BaselineUnread(s, W)
    <2>1. HasPolicy(s, W, new)
        BY <1>1, <1>2 DEF HasPolicy, ButBaseline
    <2>2. HasBaseline(s, W, new)
        BY <1>1, <1>2, <1>4 DEF HasBaseline
    <2>3. HasWaivers(s, W, new)
        BY <1>1, <1>2 DEF HasWaivers, ButBaseline, WaivesNoMore
    <2>4. HasPlans(s, W, new)
        BY <1>1 DEF HasPlans, HasPlan, ButBaseline
    <2>5. Witness(W, s, new, commands, being2)
        BY <1>1, <1>2, <2>1, <2>2, <2>3, <2>4, NobodyUnderWay DEF Witness
    <2>. QED  BY <2>5
<1>. QED  BY <1>3, <1>4

\* Only the waiver file or the day has changed, and the witness stays.
LEMMA WitnessStays ==
    ASSUME NEW W, NEW s, NEW repo, NEW new, NEW commands, NEW commands2, NEW being, NEW being2,
           Witness(W, s, repo, commands, being),
           new.plans = repo.plans, new.policy = repo.policy, new.baseline = W.baseline,
           W.now <= new.now, ~being2.written,
           HasWaivers(s, W, new), UnderWay(s, W, new, commands2)
    PROVE  Witness(W, s, new, commands2, being2)
<1>1. /\ HasPolicy(s, W, repo) /\ HasBaseline(s, W, repo) /\ HasPlans(s, W, repo)
    BY DEF Witness
<1>2. HasPolicy(s, W, new) /\ HasBaseline(s, W, new)
    BY <1>1 DEF HasPolicy, HasBaseline
<1>3. HasPlans(s, W, new)
    BY <1>1 DEF HasPlans, HasPlan
<1>. QED  BY <1>2, <1>3 DEF Witness

\* Only the waiver file has changed, and the repository is the new witness.
LEMMA WitnessChanges ==
    ASSUME NEW W, NEW s, NEW repo, NEW new, NEW commands, NEW commands2, NEW being, NEW being2,
           Witness(W, s, repo, commands, being), ButWaivers(W, new), Sound(new), MayScan(s.request, new),
           ~being2.written, HasWaivers(s, new, new), UnderWay(s, new, new, commands2),
           \A i \in DOMAIN s.request.plans : FirstTime(s.request, i) /\ i < s.plan =>
               DecisionRank(AtPlan(s.request, new, i).decision) <= DecisionRank(s.decision)
    PROVE  Witness(new, s, new, commands2, being2)
<1>1. /\ HasPolicy(s, W, repo) /\ HasBaseline(s, W, repo) /\ HasPlans(s, W, repo) /\ Sound(W)
      /\ W.now <= repo.now
    BY DEF Witness
<1>2. HasPolicy(s, new, new)
    BY <1>1 DEF HasPolicy, ButWaivers
<1>3. HasBaseline(s, new, new)
    BY <1>1 DEF HasBaseline, BaselineUnread, ButWaivers, NamedByPolicy, NamedByEither, BaselineFits
<1>4. HasPlans(s, new, new)
    <2>1. ASSUME NEW i \in DOMAIN s.request.plans, FirstTime(s.request, i)
          PROVE  HasPlan(s, new, new, i)
        <3>1. HasPlan(s, W, repo, i)
            BY <1>1, <2>1 DEF HasPlans
        <3>2. Native(s.request, new, s.request.plans[i]) = Native(s.request, W, s.request.plans[i])
            BY SamePlan DEF ButWaivers
        <3>. QED  BY <2>1, <3>1, <3>2 DEF HasPlan
    <2>. QED  BY <1>1, <2>1 DEF HasPlans
<1>5. new.now <= new.now
    BY DEF Sound, Days
<1>. QED  BY <1>2, <1>3, <1>4, <1>5 DEF Witness

\* The day turns.
LEMMA WitnessOfNextDay ==
    ASSUME NEW s, NEW old, NEW new, NEW commands, NEW being, Witness(old, s, old, commands, being),
           Nobody(commands), ~being.written, Sound(new),
           new.baseline = old.baseline, old.now <= new.now,
           new.plans = old.plans, new.policy = old.policy, new.waiverFile = old.waiverFile
    PROVE  Witness(old, s, new, commands, being)
<1>1. Sound(old) /\ HasWaivers(s, old, old)
    BY DEF Witness
<1>2. Effective(old.waiverFile.records, new.now) \subseteq Effective(old.waiverFile.records, old.now)
    BY <1>1, TimeWaivesLess DEF Sound
<1>3. HasWaivers(s, old, new)
    BY <1>1, <1>2 DEF HasWaivers, WaivesNoMore
<1>. QED  BY <1>3, NobodyUnderWay, WitnessStays

-----------------------------------------------------------------------------
(***************************************************************************)
(* The steps of the one waiver command under way.                          *)
(***************************************************************************)
\* What a write leaves of the records is as much of them as a waiver more or fewer.
LEMMA BeginningsHold ==
    ASSUME NEW found, NEW holds, HoldsFrom(found, holds), NEW part \in Beginnings(holds),
           \A w \in holds : w.id \in Nat
    PROVE  HoldsFrom(found, part)
<1>1. part \subseteq holds /\ \A v \in part, w \in holds : w.id < v.id => w \in part
    BY DEF Beginnings
<1>2. CASE holds \subseteq found
    BY <1>1, <1>2 DEF HoldsFrom
<1>3. CASE \E new \in holds : holds = found \union {new} /\ \A w \in found : w.id < new.id
    <2>1. PICK new \in holds : holds = found \union {new} /\ \A w \in found : w.id < new.id
        BY <1>3
    <2>2. CASE new \in part
        <3>1. part = found \union {new}
            BY <1>1, <2>1, <2>2
        <3>. QED  BY <2>1, <2>2, <3>1 DEF HoldsFrom
    <2>3. CASE new \notin part
        <3>1. part \subseteq found
            BY <1>1, <2>1, <2>3
        <3>. QED  BY <3>1 DEF HoldsFrom
    <2>. QED  BY <2>2, <2>3
<1>. QED  BY <1>2, <1>3 DEF HoldsFrom

\* A command loads the file: the repository is as it was.
LEMMA WitnessOfLoading ==
    ASSUME NEW s, NEW repo, NEW commands, NEW commands2, NEW being, Witness(repo, s, repo, commands, being),
           NEW c \in Commands, NEW holds, ~being.written, HoldsFrom(repo.waiverFile.records, holds),
           commands2[c].stage = "loaded", commands2[c].holds = holds,
           \A d \in Commands \ {c} : ~Busy(commands2[d])
    PROVE  Witness(repo, s, repo, commands2, being)
<1>1. UnderWay(s, repo, repo, commands2)
    <2>1. ASSUME NEW d \in Commands
          PROVE  /\ Busy(commands2[d]) => ButWaivers(repo, repo)
                 /\ commands2[d].stage = "loaded" => HoldsFrom(repo.waiverFile.records, commands2[d].holds)
                 /\ commands2[d].stage # "truncated"
        <3>1. CASE d = c
            BY <3>1 DEF ButWaivers
        <3>2. CASE d # c
            <4>1. ~Busy(commands2[d])
                BY <3>2
            <4>. QED  BY <4>1 DEF Busy
        <3>. QED  BY <3>1, <3>2
    <2>. QED  BY <2>1 DEF UnderWay
<1>. QED  BY <1>1 DEF Witness

\* A command truncates the file it has loaded.
LEMMA WitnessOfTruncation ==
    ASSUME NEW W, NEW s, NEW repo, NEW new, NEW commands, NEW commands2, NEW being,
           Witness(W, s, repo, commands, being), ~being.written, Sound(new), MayScan(s.request, new),
           s.at \in Early \union Scanning,
           NEW c \in Commands, commands[c].stage = "loaded",
           commands2[c].stage = "truncated", commands2[c].holds = commands[c].holds,
           \A d \in Commands \ {c} : ~Busy(commands2[d]),
           new.plans = repo.plans, new.policy = repo.policy, new.baseline = repo.baseline,
           new.now = repo.now, new.waiverFile.state = "broken"
    PROVE  \E V \in {W, new} : Witness(V, s, new, commands2, being)
<1>1. /\ HasWaivers(s, W, repo) /\ UnderWay(s, W, repo, commands) /\ W.now <= new.now
      /\ HasPlans(s, W, repo) /\ MayScan(s.request, W)
    BY DEF Witness
<1>2. ButWaivers(W, repo) /\ HoldsFrom(W.waiverFile.records, commands[c].holds)
    BY <1>1 DEF UnderWay, Busy
<1>3. ButWaivers(W, new)
    BY <1>2 DEF ButWaivers
<1>4. ASSUME NEW V, ButWaivers(V, new),
             V.policy.waiverFile /\ s.at \in Validated => HoldsFrom(V.waiverFile.records, commands[c].holds)
      PROVE  UnderWay(s, V, new, commands2)
    <2>1. ASSUME NEW d \in Commands
          PROVE  /\ Busy(commands2[d]) => ButWaivers(V, new)
                 /\ commands2[d].stage # "loaded"
                 /\ commands2[d].stage = "truncated" =>
                      /\ new.waiverFile.state = "broken"
                      /\ V.policy.waiverFile /\ s.at \in Validated =>
                            HoldsFrom(V.waiverFile.records, commands2[d].holds)
        <3>1. CASE d = c
            BY <1>4, <3>1
        <3>2. CASE d # c
            <4>1. ~Busy(commands2[d])
                BY <3>2
            <4>. QED  BY <4>1 DEF Busy
        <3>. QED  BY <3>1, <3>2
    <2>. QED  BY <2>1 DEF UnderWay
<1>5. CASE s.at \notin Validated
    <2>1. HasWaivers(s, new, new)
        BY <1>5 DEF HasWaivers
    <2>2. UnderWay(s, new, new, commands2)
        BY <1>4, <1>5 DEF ButWaivers
    <2>3. \A i \in DOMAIN s.request.plans : ~(i < s.plan)
        <3>0. s.at \in Early
            BY <1>5 DEF Validated
        <3>1. s.plan = 1 /\ DOMAIN s.request.plans = 1..Len(s.request.plans) /\ Len(s.request.plans) \in Nat
            BY <1>1, <3>0, RequestFields DEF HasPlans
        <3>. QED  BY <3>1
    <2>4. Witness(new, s, new, commands2, being)
        BY <1>3, <2>1, <2>2, <2>3, WitnessChanges
    <2>. QED  BY <2>4
<1>6. CASE s.at \in Validated
    <2>1. HasWaivers(s, W, new)
        BY <1>1, <1>6 DEF HasWaivers, WaivesNoMore
    <2>2. UnderWay(s, W, new, commands2)
        BY <1>2, <1>3, <1>4
    <2>3. Witness(W, s, new, commands2, being)
        BY <1>1, <1>3, <2>1, <2>2, WitnessStays DEF ButWaivers
    <2>. QED  BY <2>3
<1>. QED  BY <1>5, <1>6

\* A command under way is over, and the file is as it was.
LEMMA WitnessOfGivingUp ==
    ASSUME NEW W, NEW s, NEW repo, NEW commands, NEW commands2, NEW being,
           Witness(W, s, repo, commands, being), Nobody(commands2)
    PROVE  Witness(W, s, repo, commands2, being)
    BY NobodyUnderWay DEF Witness

\* One waiver more that has expired waives nothing.
LEMMA ExpiredAddsNothing ==
    ASSUME NEW found, NEW new, NEW day, Expired(new, day)
    PROVE  Effective(found \union {new}, day) \subseteq Effective(found, day)
    BY DEF Effective, PruneExpired

\* A command writes: what it writes is a waiver more or fewer than the witness has, or nothing readable.
LEMMA WitnessOfWriting ==
    ASSUME NEW W, NEW s, NEW repo, NEW new, NEW commands, NEW commands2, NEW being,
           Witness(W, s, repo, commands, being), ~being.written, Sound(new), MayScan(s.request, new),
           s.at \in Early \union Scanning, s.decision \in Decisions,
           NEW c \in Commands, commands[c].stage = "truncated", Nobody(commands2),
           \A w \in commands[c].holds : w.id \in Nat,
           new.plans = repo.plans, new.policy = repo.policy, new.baseline = repo.baseline,
           new.now = repo.now,
           \/ new.waiverFile.state = "broken"
           \/ /\ new.waiverFile.state = "whole"
              /\ new.waiverFile.records \in Beginnings(commands[c].holds)
    PROVE  \E V \in {W, new} : Witness(V, s, new, commands2, being)
<1>. DEFINE r == s.request
            part == new.waiverFile.records
<1>1. /\ HasWaivers(s, W, repo) /\ UnderWay(s, W, repo, commands) /\ W.now <= new.now
      /\ HasPlans(s, W, repo) /\ HasBaseline(s, W, repo) /\ MayScan(r, W)
    BY DEF Witness
<1>2. /\ ButWaivers(W, repo)
      /\ W.policy.waiverFile /\ s.at \in Validated => HoldsFrom(W.waiverFile.records, commands[c].holds)
    BY <1>1 DEF UnderWay, Busy
<1>3. ButWaivers(W, new)
    BY <1>2 DEF ButWaivers
<1>4. /\ DOMAIN r.plans = 1..Len(r.plans) /\ Len(r.plans) \in Nat
      /\ s.at \in Early => \A i \in DOMAIN r.plans : ~(i < s.plan)
    <2>1. DOMAIN r.plans = 1..Len(r.plans) /\ Len(r.plans) \in Nat
        BY <1>1, RequestFields
    <2>2. s.at \in Early => s.plan = 1
        BY <1>1 DEF HasPlans
    <2>. QED  BY <2>1, <2>2
\* The witness stays unless there is more to waive.
<1>5. ASSUME HasWaivers(s, W, new)
      PROVE  \E V \in {W, new} : Witness(V, s, new, commands2, being)
    <2>1. Witness(W, s, new, commands2, being)
        BY <1>1, <1>3, <1>5, NobodyUnderWay, WitnessStays DEF ButWaivers
    <2>. QED  BY <2>1
<1>6. CASE s.at \notin Validated
    <2>1. HasWaivers(s, new, new)
        BY <1>6 DEF HasWaivers
    <2>2. s.at \in Early
        BY <1>6 DEF Validated
    <2>3. Witness(new, s, new, commands2, being)
        BY <1>3, <1>4, <2>1, <2>2, NobodyUnderWay, WitnessChanges
    <2>. QED  BY <2>3
<1>7. CASE ~W.policy.waiverFile
    BY <1>5, <1>7 DEF HasWaivers
<1>8. CASE s.at \in Validated /\ W.policy.waiverFile
    <2>1. WaiversFit(W) /\ W.waiverFile.state = "whole"
        BY <1>1, <1>8 DEF HasWaivers
    <2>2. WaivesNoMore(W, new) => HasWaivers(s, W, new)
        BY <1>8, <2>1 DEF HasWaivers
    <2>3. CASE new.waiverFile.state # "whole"
        BY <1>5, <2>2, <2>3 DEF WaivesNoMore
    <2>4. CASE new.waiverFile.state = "whole"
        <3>1. HoldsFrom(W.waiverFile.records, part)
            BY <1>2, <1>8, <2>4, BeginningsHold
        <3>2. new.now = W.now /\ new.policy = W.policy
            BY <1>3 DEF ButWaivers
        <3>3. CASE part \subseteq W.waiverFile.records
            <4>1. WaivesNoMore(W, new)
                BY <3>2, <3>3, EffectiveGrows DEF WaivesNoMore
            <4>. QED  BY <1>5, <2>2, <4>1
        <3>4. CASE WaiversFit(new) /\ W.waiverFile.records \subseteq part
            <4>1. HasWaivers(s, new, new)
                BY <2>4, <3>4 DEF HasWaivers, WaivesNoMore
            <4>2. ASSUME NEW i \in DOMAIN r.plans, FirstTime(r, i), i < s.plan
                  PROVE  DecisionRank(AtPlan(r, new, i).decision) <= DecisionRank(s.decision)
                <5>1. s.at \in Scanning
                    BY <1>4, <4>2
                <5>2. Accepted(r, W) /\ Accepted(r, new)
                    BY <1>1, <1>3, <2>1, <3>4, <5>1 DEF HasBaseline, Accepted, BaselineFits, ButWaivers
                <5>3. DecisionRank(AtPlan(r, new, i).decision) <= DecisionRank(AtPlan(r, W, i).decision)
                    BY <1>1, <1>3, <3>2, <3>4, <5>2, EffectiveGrows, MoreWaivers
                <5>4. DecisionRank(AtPlan(r, W, i).decision) <= DecisionRank(s.decision)
                    BY <1>1, <4>2 DEF HasPlans, HasPlan
                <5>5. /\ DecisionRank(AtPlan(r, new, i).decision) \in Nat
                      /\ DecisionRank(AtPlan(r, W, i).decision) \in Nat
                      /\ DecisionRank(s.decision) \in Nat
                    <6>1. /\ AtPlan(r, new, i).decision \in Verdicts
                          /\ AtPlan(r, W, i).decision \in Verdicts
                        BY <1>1, <5>2, AtPlanIs, Decided
                    <6>. QED  BY <6>1, Ranks DEF Verdicts, Decisions
                <5>. QED  BY <5>3, <5>4, <5>5
            <4>3. Witness(new, s, new, commands2, being)
                BY <1>3, <4>1, <4>2, NobodyUnderWay, WitnessChanges
            <4>. QED  BY <4>3
        <3>5. ASSUME ~WaiversFit(new), NEW more, part = W.waiverFile.records \union {more}
              PROVE  WaivesNoMore(W, new)
            <4>1. CASE ~ValidWaivers(part, W.policy.maxWaiverDays)
                BY <4>1 DEF WaivesNoMore
            <4>2. CASE ValidWaivers(part, W.policy.maxWaiverDays)
                <5>1. W.policy.failExpired /\ \E w \in part : Expired(w, W.now)
                    BY <3>2, <3>5, <4>2 DEF WaiversFit
                <5>2. ~(\E w \in W.waiverFile.records : Expired(w, W.now))
                    BY <1>8, <2>1, <5>1 DEF WaiversFit
                <5>3. Expired(more, W.now)
                    BY <3>5, <5>1, <5>2
                <5>4. Effective(part, W.now) \subseteq Effective(W.waiverFile.records, W.now)
                    BY <3>5, <5>3, ExpiredAddsNothing
                <5>. QED  BY <3>2, <5>4 DEF WaivesNoMore
            <4>. QED  BY <4>1, <4>2
        <3>. QED  BY <1>5, <2>2, <3>1, <3>3, <3>4, <3>5 DEF HoldsFrom
    <2>. QED  BY <2>3, <2>4
<1>. QED  BY <1>6, <1>7, <1>8

-----------------------------------------------------------------------------
(***************************************************************************)
(* The types of what is around the scan.                                   *)
(***************************************************************************)
\* What the waiver commands and the clock do, they do as in WaiverStore.
LEMMA StoreSteps ==
    ASSUME [Next]_vars
    PROVE  [StoreNext]_storeVars
<1>1. CASE ScanStep
    <2>1. UNCHANGED repositoryVars
        BY <1>1 DEF ScanStep, ReadPolicy, ReadPolicyBaseline, ValidateWaivers, ReadBaseline, ReadContext,
               ReadPlan, EvaluateRules, ApplyAndEvaluate, LimitFindings, AuditPolicy, AuditPlans,
               AuditWaivers, AuditBaseline, WriteBundle, WriteReport, Fail, Step
    <2>. QED  BY <2>1 DEF repositoryVars
<1>2. CASE StartsInStore \/ GoesOnInStore
    BY <1>2 DEF StartsInStore, GoesOnInStore, StoreNext, CommandStep
<1>3. CASE ~ScanStep /\ ~(StartsInStore \/ GoesOnInStore)
    <2>1. UNCHANGED storeVars
        BY <1>3 DEF Next, DeadlinePasses, EditPlan, EditPolicy, TruncateBaseline, WriteBaseline,
               repositoryVars, vars
    <2>. QED  BY <2>1
<1>. QED  BY <1>1, <1>2, <1>3

(***************************************************************************)
(* The waiver file, the commands and the clock keep their types around a   *)
(* scan too.                                                               *)
(***************************************************************************)
THEOREM StoreTypesHold == Spec => []StoreTypeOK
<1>1. Init => StoreTypeOK
    <2>. SUFFICES ASSUME Init PROVE StoreTypeOK
        OBVIOUS
    <2>1. PICK repo \in Repositories : waiverFile = Whole(repo.waivers)
        BY DEF Init
    <2>2. repo.waivers \in SUBSET Waiver
        BY <2>1, PipelineAssumption
    <2>3. waiverFile \in File
        BY <2>1, <2>2 DEF File, Whole
    <2>4. Idle \in [stage: {"idle", "loaded", "truncated", "done", "failed"},
                    holds: SUBSET Waiver, adds: SUBSET Waiver]
        BY DEF Idle
    <2>5. 0 \in Days
        BY WaiverAssumption DEF Days
    <2>. QED  BY <2>3, <2>4, <2>5 DEF Init, StoreTypeOK
<1>2. StoreTypeOK /\ [Next]_vars => StoreTypeOK'
    BY StoreSteps, TypeStep
<1>. QED  BY <1>1, <1>2, PTL DEF Spec

\* The repository as it will be.
LEMMA AsItWillBe ==
    /\ Repository'.plans = plans' /\ Repository'.policy = policy' /\ Repository'.baseline = baseline'
    /\ Repository'.waiverFile = waiverFile' /\ Repository'.now = now'
    BY DEF Repository

\* The ID handed out is above those of the file.
LEMMA NextIDIsAbove ==
    ASSUME NEW records \in SUBSET Waiver
    PROVE  \A w \in records : w.id < NextID(records)
<1>1. ASSUME NEW w \in records
      PROVE  w.id < NextID(records)
    <2>1. w.id \in WaiverNumbers
        BY DEF Waiver
    <2>2. PICK id : id = w.id
        OBVIOUS
    <2>3. id \in 1..MaxReadID
        BY <2>1, <2>2, StoreAssumption
    <2>4. ReadID(w.id) = id
        BY <2>2, <2>3, WaiverAssumption DEF ReadID
    <2>5. NextID(records) \in 1..(MaxReadID + 1) /\ ReadID(w.id) < NextID(records)
        BY NextIDIsAboveReads
    <2>. QED  BY <2>2, <2>4, <2>5
<1>. QED  BY <1>1

-----------------------------------------------------------------------------
(***************************************************************************)
(* What happens around the scan, action by action.                         *)
(***************************************************************************)
\* A scan that reads its files, and what is around it before and after.
Around ==
    /\ Surroundings /\ Surroundings' /\ UNCHANGED scan
    /\ Sound(Repository) /\ Sound(Repository)' /\ StoreTypeOK
    /\ scan.at \in Early \union Scanning /\ scan.decision \in Decisions
    /\ OneEdit(command, baselineBeing)

\* The witness of the scan afterwards.
Follows(V) == Witness(V, scan', Repository', command', baselineBeing')

\* Nothing has happened yet, and something does.
LEMMA FirstEditKeepsWitness ==
    ASSUME Around, Untouched, Witness(Repository, scan, Repository, command, baselineBeing),
           \/ \E file \in DOMAIN plans, s \in Sites, risk \in Risks : EditPlan(file, s, risk)
           \/ \E p \in Policies : EditPolicy(p)
           \/ \E file \in DOMAIN plans : TruncateBaseline(file)
           \/ StartsInStore
    PROVE  \E V \in {Repository, Repository'} : Follows(V)
<1>1. /\ Sound(Repository') /\ MayScan(scan.request, Repository') /\ scan' = scan
      /\ ~baselineBeing.written /\ Nobody(command)
    BY DEF Around, Surroundings, Sound, Untouched, Nobody, Busy
<1>2. CASE \E file \in DOMAIN plans, s \in Sites, risk \in Risks : EditPlan(file, s, risk)
    <2>1. PICK file \in DOMAIN plans, s \in Sites, risk \in Risks : EditPlan(file, s, risk)
        BY <1>2
    <2>2. /\ plans' = [plans EXCEPT ![file] = [x \in DOMAIN plans[file] \union {s} |->
                                                  IF x = s THEN risk ELSE plans[file][x]]]
          /\ UNCHANGED <<policy, baseline, baselineBeing, storeVars>>
        BY <2>1 DEF EditPlan
    <2>3. \A other \in DOMAIN plans : other # file => plans'[other] = plans[other]
        BY <2>2
    <2>4. /\ Repository'.policy = Repository.policy /\ Repository'.waiverFile = Repository.waiverFile
          /\ Repository'.baseline = Repository.baseline /\ Repository'.now = Repository.now
          /\ command' = command /\ baselineBeing' = baselineBeing
        BY <2>2, AsItIs, AsItWillBe DEF storeVars
    <2>5. \A other \in DOMAIN Repository.plans :
              other # file => Repository'.plans[other] = Repository.plans[other]
        BY <2>3, AsItIs, AsItWillBe
    <2>6. \E V \in {Repository, Repository'} : Witness(V, scan, Repository', command, baselineBeing)
        BY <1>1, <2>4, <2>5, WitnessOfEditedPlan
    <2>. QED  BY <1>1, <2>4, <2>6 DEF Follows
<1>3. CASE \E p \in Policies : EditPolicy(p)
    <2>1. UNCHANGED <<plans, baseline, baselineBeing, storeVars>>
        BY <1>3 DEF EditPolicy
    <2>2. /\ Repository'.plans = Repository.plans /\ Repository'.waiverFile = Repository.waiverFile
          /\ Repository'.baseline = Repository.baseline /\ Repository'.now = Repository.now
          /\ command' = command /\ baselineBeing' = baselineBeing
        BY <2>1, AsItIs, AsItWillBe DEF storeVars
    <2>3. \E V \in {Repository, Repository'} : Witness(V, scan, Repository', command, baselineBeing)
        BY <1>1, <2>2, WitnessOfEditedPolicy
    <2>. QED  BY <1>1, <2>2, <2>3 DEF Follows
<1>4. CASE \E file \in DOMAIN plans : TruncateBaseline(file)
    <2>1. UNCHANGED <<plans, policy, storeVars>>
        BY <1>4 DEF TruncateBaseline
    <2>2. ButBaseline(Repository, Repository) /\ ButBaseline(Repository, Repository') /\ command' = command
        BY <2>1, AsItIs, AsItWillBe DEF storeVars, ButBaseline
    <2>3. \E V \in {Repository, Repository'} : Witness(V, scan, Repository', command, baselineBeing')
        BY <1>1, <2>2, WitnessOfEditedBaseline
    <2>. QED  BY <1>1, <2>2, <2>3 DEF Follows
<1>5. ASSUME NEW c \in Commands, NEW holds, NEW adds, Load(c, holds, adds),
             HoldsFrom(waiverFile.records, holds), UNCHANGED <<plans, policy, baseline, baselineBeing>>
      PROVE  Follows(Repository)
    <2>1. /\ command'[c].stage = "loaded" /\ command'[c].holds = holds
          /\ \A d \in Commands \ {c} : command'[d] = command[d]
        BY <1>5 DEF Load, Around, StoreTypeOK
    <2>2. \A d \in Commands \ {c} : ~Busy(command'[d])
        BY <1>1, <2>1 DEF Nobody
    <2>3. Repository' = Repository
        BY <1>5 DEF Load, Repository
    <2>4. Witness(Repository, scan, Repository, command', baselineBeing)
        BY <1>1, <1>5, <2>1, <2>2, AsItIs, WitnessOfLoading
    <2>. QED  BY <1>1, <1>5, <2>3, <2>4 DEF Follows
<1>6. CASE StartsInStore
    <2>1. UNCHANGED <<plans, policy, baseline, baselineBeing>>
        BY <1>6 DEF StartsInStore
    <2>2. CASE \E c \in Commands, scope \in Scopes, expires \in Days : LoadToAdd(c, scope, expires)
        <3>1. PICK c \in Commands, scope \in Scopes, expires \in Days : LoadToAdd(c, scope, expires)
            BY <2>2
        <3>. DEFINE record == [id |-> NextID(waiverFile.records), scope |-> scope,
                               created |-> now, expires |-> expires]
        <3>2. Load(c, waiverFile.records \union {record}, {record})
            BY <3>1 DEF LoadToAdd
        <3>3. record.id = NextID(waiverFile.records) /\ waiverFile.records \in SUBSET Waiver
            BY AsItIs DEF Around, Sound
        <3>. HIDE DEF record
        <3>4. HoldsFrom(waiverFile.records, waiverFile.records \union {record})
            BY <3>3, NextIDIsAbove DEF HoldsFrom
        <3>5. Follows(Repository)
            BY <1>5, <2>1, <3>2, <3>4
        <3>. QED  BY <3>5
    <2>3. CASE \E c \in Commands : LoadToPrune(c)
        <3>1. PICK c \in Commands : Load(c, PruneExpired(waiverFile.records, now), {})
            BY <2>3 DEF LoadToPrune
        <3>2. HoldsFrom(waiverFile.records, PruneExpired(waiverFile.records, now))
            BY DEF HoldsFrom, PruneExpired
        <3>3. Follows(Repository)
            BY <1>5, <2>1, <3>1, <3>2
        <3>. QED  BY <3>3
    <2>4. CASE NextDay
        <3>1. /\ Repository'.plans = Repository.plans /\ Repository'.policy = Repository.policy
              /\ Repository'.waiverFile = Repository.waiverFile /\ Repository'.baseline = Repository.baseline
              /\ command' = command /\ baselineBeing' = baselineBeing
            BY <2>1, <2>4, AsItIs, AsItWillBe DEF NextDay
        <3>2. Repository.now <= Repository'.now
            BY <2>4, AsItIs, AsItWillBe DEF NextDay, Around, StoreTypeOK, Days
        <3>3. Witness(Repository, scan, Repository', command, baselineBeing)
            BY <1>1, <3>1, <3>2, WitnessOfNextDay
        <3>4. Follows(Repository)
            BY <1>1, <3>1, <3>3 DEF Follows
        <3>. QED  BY <3>4
    <2>. QED  BY <1>6, <2>2, <2>3, <2>4 DEF StartsInStore
<1>. QED  BY <1>2, <1>3, <1>4, <1>6

\* What was begun goes on.
LEMMA GoingOnKeepsWitness ==
    ASSUME Around, NEW W, Witness(W, scan, Repository, command, baselineBeing),
           WriteBaseline \/ GoesOnInStore
    PROVE  \E V \in {W, Repository'} : Follows(V)
<1>1. /\ Sound(Repository') /\ MayScan(scan.request, Repository') /\ scan' = scan
      /\ scan.at \in Early \union Scanning /\ scan.decision \in Decisions
    BY DEF Around, Surroundings, Sound
<1>2. CASE WriteBaseline
    <2>1. /\ baselineBeing.written /\ UNCHANGED <<plans, policy, storeVars>>
        BY <1>2 DEF WriteBaseline
    <2>2. Nobody(command) /\ ButBaseline(W, Repository)
        BY <2>1 DEF Around, OneEdit, Nobody, Witness
    <2>3. ButBaseline(Repository, Repository') /\ command' = command
        BY <2>1, AsItIs, AsItWillBe DEF storeVars, ButBaseline
    <2>4. \E V \in {W, Repository'} : Witness(V, scan, Repository', command, baselineBeing')
        BY <1>1, <2>2, <2>3, WitnessOfEditedBaseline
    <2>. QED  BY <1>1, <2>3, <2>4 DEF Follows
<1>3. CASE GoesOnInStore
    <2>1. /\ UNCHANGED <<plans, policy, baseline, baselineBeing>>
          /\ \E c \in Commands : Truncate(c) \/ Write(c) \/ CutShort(c)
        BY <1>3 DEF GoesOnInStore
    <2>2. PICK c \in Commands : Truncate(c) \/ Write(c) \/ CutShort(c)
        BY <2>1
    <2>3. Busy(command[c]) /\ now' = now
        BY <2>2 DEF Truncate, Write, CutShort, Running, Busy
    <2>4. ~baselineBeing.written /\ \A d \in Commands \ {c} : ~Busy(command[d])
        BY <2>3 DEF Around, OneEdit
    <2>5. /\ Repository'.plans = Repository.plans /\ Repository'.policy = Repository.policy
          /\ Repository'.baseline = Repository.baseline /\ Repository'.now = Repository.now
          /\ baselineBeing' = baselineBeing
        BY <2>1, <2>3, AsItIs, AsItWillBe
    <2>6. command'[c].holds = command[c].holds /\ \A d \in Commands \ {c} : ~Busy(command'[d])
        BY <2>2, <2>4 DEF Truncate, Write, CutShort, Around, StoreTypeOK
    <2>7. command[c].holds \subseteq Waiver
        BY DEF Around, StoreTypeOK
    <2>8. CASE Truncate(c)
        <3>1. /\ command[c].stage = "loaded" /\ command'[c].stage = "truncated"
              /\ waiverFile'.state = "broken"
            BY <2>8 DEF Truncate, Broken, Around, StoreTypeOK
        <3>2. \E V \in {W, Repository'} : Witness(V, scan, Repository', command', baselineBeing)
            <4>. DEFINE new == Repository'
                        after == command'
            <4>1. /\ Sound(new) /\ MayScan(scan.request, new)
                  /\ after[c].stage = "truncated" /\ after[c].holds = command[c].holds
                  /\ \A d \in Commands \ {c} : ~Busy(after[d])
                  /\ new.plans = Repository.plans /\ new.policy = Repository.policy
                  /\ new.baseline = Repository.baseline /\ new.now = Repository.now
                  /\ new.waiverFile.state = "broken"
                BY <1>1, <2>5, <2>6, <3>1, AsItWillBe
            <4>. HIDE DEF new, after
            <4>2. \E V \in {W, new} : Witness(V, scan, new, after, baselineBeing)
                BY <1>1, <2>4, <3>1, <4>1, WitnessOfTruncation
            <4>. QED  BY <4>2 DEF new, after
        <3>. QED  BY <1>1, <2>5, <3>2 DEF Follows
    <2>9. CASE CutShort(c) /\ command[c].stage = "loaded"
        <3>1. waiverFile' = waiverFile /\ command'[c].stage = "failed"
            BY <2>9 DEF CutShort, Around, StoreTypeOK
        <3>2. Nobody(command')
            BY <2>6, <3>1 DEF Nobody, Busy
        <3>3. Repository' = Repository
            BY <2>1, <2>3, <3>1 DEF Repository
        <3>4. Witness(W, scan, Repository, command', baselineBeing)
            BY <3>2, WitnessOfGivingUp
        <3>. QED  BY <1>1, <2>5, <3>3, <3>4 DEF Follows
    <2>10. CASE Write(c) \/ (CutShort(c) /\ command[c].stage # "loaded")
        <3>1. command[c].stage = "truncated" /\ command'[c].stage \in {"done", "failed"}
            BY <2>10 DEF Write, CutShort, Running, Around, StoreTypeOK
        <3>2. Nobody(command')
            BY <2>6, <3>1 DEF Nobody, Busy
        <3>3. waiverFile.state = "broken"
            BY <3>1, AsItIs DEF Witness, UnderWay
        <3>4. waiverFile' = Broken \/ \E part \in Beginnings(command[c].holds) : waiverFile' = Whole(part)
            <4>1. command[c].holds \in Beginnings(command[c].holds)
                BY DEF Beginnings
            <4>2. CASE Write(c)
                BY <3>3, <4>1, <4>2 DEF Write
            <4>3. CASE CutShort(c) /\ command[c].stage # "loaded"
                BY <4>3 DEF CutShort
            <4>. QED  BY <2>10, <4>2, <4>3
        <3>5. \/ waiverFile'.state = "broken"
              \/ waiverFile'.state = "whole" /\ waiverFile'.records \in Beginnings(command[c].holds)
            BY <3>4 DEF Broken, Whole
        <3>6. \A w \in command[c].holds : w.id \in Nat
            BY <2>7, WaiverAssumption DEF Waiver
        <3>7. \E V \in {W, Repository'} : Witness(V, scan, Repository', command', baselineBeing)
            <4>. DEFINE new == Repository'
                        after == command'
            <4>1. /\ Sound(new) /\ MayScan(scan.request, new) /\ Nobody(after)
                  /\ new.plans = Repository.plans /\ new.policy = Repository.policy
                  /\ new.baseline = Repository.baseline /\ new.now = Repository.now
                  /\ \/ new.waiverFile.state = "broken"
                     \/ /\ new.waiverFile.state = "whole"
                        /\ new.waiverFile.records \in Beginnings(command[c].holds)
                BY <1>1, <2>5, <3>2, <3>5, AsItWillBe
            <4>. HIDE DEF new, after
            <4>2. \E V \in {W, new} : Witness(V, scan, new, after, baselineBeing)
                BY <1>1, <2>4, <3>1, <3>6, <4>1, WitnessOfWriting
            <4>. QED  BY <4>2 DEF new, after
        <3>. QED  BY <1>1, <2>5, <3>7 DEF Follows
    <2>. QED  BY <2>2, <2>8, <2>9, <2>10
<1>. QED  BY <1>2, <1>3

\* One thing at a time is under way as long as there was one edit.
LEMMA OneEditStays ==
    ASSUME StoreTypeOK, OneEdit(command, baselineBeing), edits \in Nat, edits = 0 => Untouched,
           [Next]_vars, edits' <= 1, Verdict(scan)
    PROVE  OneEdit(command', baselineBeing')
<1>1. CASE command' = command /\ baselineBeing' = baselineBeing
    BY <1>1
<1>2. CASE ScanStep \/ DeadlinePasses \/ UNCHANGED vars
    <2>1. UNCHANGED repositoryVars
        BY <1>2, RequestStays DEF DeadlinePasses, vars
    <2>. QED  BY <1>1, <2>1 DEF repositoryVars, storeVars
<1>3. CASE \/ \E file \in DOMAIN plans, s \in Sites, risk \in Risks : EditPlan(file, s, risk)
           \/ \E p \in Policies : EditPolicy(p)
    BY <1>1, <1>3 DEF EditPlan, EditPolicy, storeVars
<1>4. ASSUME Edited PROVE (\A c \in Commands : ~Busy(command[c])) /\ ~baselineBeing.written
    BY <1>4 DEF Edited, Untouched, Busy
<1>5. CASE \E file \in DOMAIN plans : TruncateBaseline(file)
    <2>1. Edited /\ command' = command
        BY <1>5 DEF TruncateBaseline, storeVars
    <2>. QED  BY <1>4, <2>1 DEF OneEdit
<1>6. CASE WriteBaseline
    <2>1. command' = command /\ ~baselineBeing'.written
        BY <1>6 DEF WriteBaseline, NoBaseline, storeVars
    <2>. QED  BY <2>1 DEF OneEdit
<1>7. CASE StartsInStore
    <2>1. Edited /\ baselineBeing' = baselineBeing
        BY <1>7 DEF StartsInStore
    <2>2. \/ command' = command
          \/ \E c \in Commands : \A d \in Commands \ {c} : command'[d] = command[d]
        BY <1>7 DEF StartsInStore, LoadToAdd, LoadToPrune, Load, NextDay, StoreTypeOK
    <2>. QED  BY <1>1, <1>4, <2>1, <2>2 DEF OneEdit
<1>8. CASE GoesOnInStore
    <2>1. PICK c \in Commands : Truncate(c) \/ Write(c) \/ CutShort(c)
        BY <1>8 DEF GoesOnInStore
    <2>2. Busy(command[c]) /\ baselineBeing' = baselineBeing
        BY <1>8, <2>1 DEF GoesOnInStore, Truncate, Write, CutShort, Running, Busy
    <2>3. \A d \in Commands \ {c} : command'[d] = command[d]
        BY <2>1 DEF Truncate, Write, CutShort, StoreTypeOK
    <2>. QED  BY <2>2, <2>3 DEF OneEdit
<1>. QED  BY <1>2, <1>3, <1>5, <1>6, <1>7, <1>8 DEF Next

-----------------------------------------------------------------------------
(***************************************************************************)
(* The inductive invariant.                                                *)
(***************************************************************************)
\* A scan that reads has its witness; one that reports has a decision no laxer than one.
Supported ==
    /\ scan.at \in Early \union Scanning =>
          /\ edits = 0 => Witness(Repository, scan, Repository, command, baselineBeing)
          /\ \E W : /\ AtomicDecision(scan.request, W) \in answers
                    /\ Witness(W, scan, Repository, command, baselineBeing)
    /\ scan.at \in Reporting \union {"deadline"} \/ Concluded => Justified(scan, answers)
    /\ scan.at \in Reporting \/ Concluded => scan.report.decision = scan.decision

NoLaxer ==
    /\ Sound(Repository) /\ baselineBeing.expires \in Nat
    /\ AtomicDecision(scan.request, Repository) \in answers
    /\ edits <= 1 => OneEdit(command, baselineBeing)
    /\ edits <= 1 /\ ~scan.raced /\ ~scan.cut => Supported

\* What a scan of a single moment decided justifies as long as it is remembered.
LEMMA StillJustified ==
    ASSUME NEW s, NEW noted, NEW more, Justified(s, noted), noted \subseteq more
    PROVE  Justified(s, more)
    BY DEF Justified

\* Before the scan has read anything the repository is its witness.
LEMMA NewScanHasWitness ==
    ASSUME Init, StoreTypeOK, Surroundings
    PROVE  NoLaxer
<1>1. PICK r \in Requests : scan = NewScan(r)
    BY DEF Init
<1>2. PICK repo \in Repositories : /\ baseline = repo.baseline
                                   /\ waiverFile = Whole(repo.waivers)
    BY DEF Init
<1>3. /\ edits = 0 /\ baselineBeing = NoBaseline /\ answers = {AtomicDecision(scan.request, Repository)}
      /\ \A c \in Commands : command[c].stage = "idle"
    BY DEF Init, Idle, Request
<1>4. /\ scan.at = "policy" /\ scan.plan = 1 /\ scan.request = r
      /\ scan.fingerprints = {} /\ scan.risks = Contexts({})
    BY <1>1 DEF NewScan
<1>5. Sound(Repository)
    BY <1>2, AsItIs, PipelineAssumption DEF Sound, StoreTypeOK, File
<1>6. Nobody(command) /\ OneEdit(command, baselineBeing)
    BY <1>3 DEF Nobody, OneEdit, Busy
<1>7. HasPolicy(scan, Repository, Repository)
    BY <1>4 DEF HasPolicy
<1>8. HasBaseline(scan, Repository, Repository)
    BY <1>4 DEF HasBaseline, Scanning, Knows, Fingerprints
<1>9. HasWaivers(scan, Repository, Repository)
    BY <1>4 DEF HasWaivers, Validated, Scanning
<1>10. HasPlans(scan, Repository, Repository)
    <2>1. /\ DOMAIN scan.request.plans = 1..Len(scan.request.plans)
          /\ Len(scan.request.plans) \in Nat \ {0}
        BY RequestFields DEF Surroundings
    <2>2. ASSUME NEW i \in DOMAIN scan.request.plans
          PROVE  HasPlan(scan, Repository, Repository, i)
        BY <1>4, <2>1, <2>2 DEF HasPlan, InHand
    <2>. QED  BY <1>4, <2>1, <2>2 DEF HasPlans
<1>11. Witness(Repository, scan, Repository, command, baselineBeing)
    <2>1. Repository.now <= Repository.now /\ ~baselineBeing.written
        BY <1>3, <1>5 DEF Sound, Days, NoBaseline
    <2>. QED  BY <1>5, <1>6, <1>7, <1>8, <1>9, <1>10, <2>1, NobodyUnderWay DEF Witness, Surroundings
<1>12. scan.at \notin Reporting \union {"deadline"} /\ ~Concluded
    BY <1>4 DEF Reporting, Concluded, Done
<1>. QED  BY <1>3, <1>5, <1>6, <1>11, <1>12 DEF NoLaxer, Supported, NoBaseline

\* What a witness decides is remembered; so is what the repository as it is decides.
LEMMA ScanStepSupported ==
    ASSUME Verdict(scan), Surroundings, Undisturbed, NoLaxer, ScanStep,
           edits <= 1, ~scan'.raced, ~scan'.cut
    PROVE  Supported'
<1>1. /\ scan'.request = scan.request /\ edits' = edits /\ UNCHANGED repositoryVars
      /\ ~scan.raced /\ ~scan.cut
    BY RequestStays, RacesLast
<1>2. answers' = answers
    BY DEF ScanStep, ReadPolicy, ReadPolicyBaseline, ValidateWaivers, ReadBaseline, ReadContext, ReadPlan,
           EvaluateRules, ApplyAndEvaluate, LimitFindings, AuditPolicy, AuditPlans, AuditWaivers,
           AuditBaseline, WriteBundle, WriteReport, Fail, Step
<1>3. Repository' = Repository /\ command' = command /\ baselineBeing' = baselineBeing
    BY <1>1, RepositoryStays DEF repositoryVars, storeVars
<1>4. Supported /\ Sound(Repository) /\ AtomicDecision(scan.request, Repository) \in answers
    BY <1>1 DEF NoLaxer
<1>5. CASE scan'.at = "done" /\ scan'.exit \notin {0, 1}
    BY <1>5 DEF Supported, Concluded, Done, Early, Scanning, Reporting
<1>6. CASE scan.at \in Early \union Scanning
    <2>1. ASSUME NEW W, Witness(W, scan, Repository, command, baselineBeing)
          PROVE  Onward(W)
        BY <1>1, <1>4, <1>6, <2>1, FollowScanStep DEF Following
    <2>2. PICK W : /\ AtomicDecision(scan.request, W) \in answers
                   /\ Witness(W, scan, Repository, command, baselineBeing)
        BY <1>4, <1>6 DEF Supported
    <2>3. Onward(W)
        BY <2>1, <2>2
    <2>4. CASE scan'.at = "deadline" /\ Justified(scan', {AtomicDecision(scan.request, W)})
        <3>1. Justified(scan', answers)
            BY <2>2, <2>4, StillJustified
        <3>. QED  BY <1>2, <2>4, <3>1 DEF Supported, Concluded, Done, Early, Scanning, Reporting
    <2>5. CASE /\ scan'.at \in Early \union Scanning
               /\ \E V \in {W, Repository} : Witness(V, scan', Repository, command, baselineBeing)
        <3>1. scan'.at \notin Reporting \union {"deadline", "done"}
            BY <2>5 DEF Early, Scanning, Reporting
        <3>2. edits = 0 => Witness(Repository, scan', Repository, command, baselineBeing)
            <4>1. ASSUME edits = 0 PROVE Onward(Repository)
                BY <1>4, <1>6, <2>1, <4>1 DEF Supported
            <4>. QED  BY <3>1, <4>1 DEF Onward
        <3>3. \E V : /\ AtomicDecision(scan.request, V) \in answers
                     /\ Witness(V, scan', Repository, command, baselineBeing)
            BY <1>4, <2>2, <2>5
        <3>. QED  BY <1>1, <1>2, <1>3, <3>1, <3>2, <3>3 DEF Supported, Concluded, Done
    <2>. QED  BY <1>5, <2>3, <2>4, <2>5 DEF Onward
<1>7. CASE scan.at \in Reporting \union {"deadline"} /\ ~(scan'.at = "done" /\ scan'.exit \notin {0, 1})
    <2>1. /\ scan'.at \in Reporting \union {"done"} /\ scan'.decision = scan.decision
          /\ scan.at = "deadline" => scan'.report.decision = scan.decision
          /\ scan.at \in Reporting => scan'.report.decision = scan.report.decision
        BY <1>7, DecisionStays
    <2>2. Justified(scan, answers) /\ (scan.at \in Reporting => scan.report.decision = scan.decision)
        BY <1>4, <1>7 DEF Supported
    <2>3. Justified(scan', answers) /\ scan'.report.decision = scan'.decision
        BY <1>7, <2>1, <2>2 DEF Justified
    <2>4. scan'.at \notin Early \union Scanning
        BY <2>1 DEF Early, Scanning, Reporting
    <2>. QED  BY <1>2, <2>3, <2>4 DEF Supported
<1>. QED  BY <1>5, <1>6, <1>7, StepsStart

\* A deadline that passes changes neither what was read nor what was decided.
LEMMA DeadlineSupported ==
    ASSUME Verdict(scan), NoLaxer, DeadlinePasses, edits <= 1, ~scan'.raced, ~scan'.cut
    PROVE  Supported'
<1>1. /\ scan'.request = scan.request /\ scan'.at = scan.at /\ scan'.cut = scan.cut
      /\ scan'.policy = scan.policy /\ scan'.fingerprints = scan.fingerprints
      /\ scan'.risks = scan.risks /\ scan'.plan = scan.plan /\ scan'.decision = scan.decision
      /\ scan'.report = scan.report /\ scan'.exit = scan.exit
      /\ scan'.raced = scan.raced /\ scan'.findings = scan.findings
    BY LateScan, LateRaces DEF Verdict
<1>2. UNCHANGED <<repositoryVars, edits, answers>>
    BY DEF DeadlinePasses
<1>3. Repository' = Repository /\ command' = command /\ baselineBeing' = baselineBeing
    BY <1>2, RepositoryStays DEF repositoryVars, storeVars
<1>4. Supported
    BY <1>1 DEF NoLaxer
<1>5. ASSUME NEW W, Witness(W, scan, Repository, command, baselineBeing)
      PROVE  Witness(W, scan', Repository, command, baselineBeing)
    BY <1>1, <1>5, LateWitness
<1>6. Justified(scan, answers) => Justified(scan', answers)
    BY <1>1 DEF Justified
<1>7. Concluded' <=> Concluded
    BY <1>1 DEF Concluded, Done
<1>8. scan.at \in Early \union Scanning =>
          /\ edits = 0 => Witness(Repository, scan', Repository, command, baselineBeing)
          /\ \E W : /\ AtomicDecision(scan'.request, W) \in answers
                    /\ Witness(W, scan', Repository, command, baselineBeing)
    BY <1>1, <1>4, <1>5 DEF Supported
<1>. QED  BY <1>1, <1>2, <1>3, <1>4, <1>6, <1>7, <1>8 DEF Supported

\* What is noticed is remembered with the rest.
LEMMA NoticedAnswers ==
    ASSUME Noticed
    PROVE  /\ scan' = scan /\ answers \subseteq answers'
           /\ AtomicDecision(scan.request, Repository') \in answers'
    BY DEF Noticed, Request

\* Whatever happens around the scan is an edit, or what an edit began.
LEMMA AroundNoticed ==
    ASSUME [Next]_vars, ~ScanStep, ~DeadlinePasses, ~UNCHANGED vars
    PROVE  /\ Noticed
           /\ \/ /\ edits' = edits + 1
                 /\ \/ \E file \in DOMAIN plans, s \in Sites, risk \in Risks : EditPlan(file, s, risk)
                    \/ \E p \in Policies : EditPolicy(p)
                    \/ \E file \in DOMAIN plans : TruncateBaseline(file)
                    \/ StartsInStore
              \/ edits' = edits /\ (WriteBaseline \/ GoesOnInStore)
    BY DEF Next, EditPlan, EditPolicy, TruncateBaseline, StartsInStore, WriteBaseline, GoesOnInStore, Edited

\* The files stay what files are.
LEMMA SoundStays ==
    ASSUME Verdict(scan), NoLaxer, [Next]_vars, StoreTypeOK'
    PROVE  Sound(Repository)' /\ baselineBeing'.expires \in Nat
<1>1. waiverFile'.records \subseteq Waiver /\ now' \in Days
    BY DEF StoreTypeOK, File
<1>2. baseline' \in {baseline, NoBaseline, baselineBeing}
    <2>1. CASE ScanStep \/ DeadlinePasses \/ UNCHANGED vars
        BY <2>1, RequestStays DEF DeadlinePasses, vars, repositoryVars
    <2>2. CASE ~(ScanStep \/ DeadlinePasses \/ UNCHANGED vars)
        BY <2>2 DEF Next, EditPlan, EditPolicy, TruncateBaseline, StartsInStore, WriteBaseline, GoesOnInStore
    <2>. QED  BY <2>1, <2>2
<1>3. baselineBeing' \in {baselineBeing, NoBaseline} \/ baselineBeing'.expires = 0
    <2>1. CASE ScanStep \/ DeadlinePasses \/ UNCHANGED vars
        BY <2>1, RequestStays DEF DeadlinePasses, vars, repositoryVars
    <2>2. CASE \E file \in DOMAIN plans : TruncateBaseline(file)
        <3>1. PICK entries : baselineBeing' = [written |-> TRUE, expires |-> 0, entries |-> entries]
            BY <2>2 DEF TruncateBaseline
        <3>. QED  BY <3>1
    <2>3. CASE ~(ScanStep \/ DeadlinePasses \/ UNCHANGED vars \/ \E file \in DOMAIN plans : TruncateBaseline(file))
        BY <2>3 DEF Next, EditPlan, EditPolicy, StartsInStore, WriteBaseline, GoesOnInStore
    <2>. QED  BY <2>1, <2>2, <2>3
<1>4. baseline.expires \in Nat /\ baselineBeing.expires \in Nat /\ NoBaseline.expires \in Nat
    BY AsItIs DEF NoLaxer, Sound, NoBaseline
<1>5. baseline'.expires \in Nat /\ baselineBeing'.expires \in Nat
    BY <1>2, <1>3, <1>4
<1>. QED  BY <1>1, <1>5, AsItWillBe DEF Sound

\* An edit, and what it began, leave a scan its witness and its decision.
LEMMA AroundSupported ==
    ASSUME Verdict(scan), Surroundings, Surroundings', Undisturbed, StoreTypeOK, NoLaxer,
           Sound(Repository)', [Next]_vars, ~ScanStep, ~DeadlinePasses, ~UNCHANGED vars,
           edits' <= 1, ~scan'.raced, ~scan'.cut
    PROVE  Supported'
<1>1. /\ scan' = scan /\ answers \subseteq answers'
      /\ AtomicDecision(scan.request, Repository') \in answers'
    BY AroundNoticed, NoticedAnswers
<1>2. edits \in Nat /\ edits' \in Nat \ {0} /\ edits <= 1
    BY AroundNoticed, FirstEdit DEF Undisturbed
<1>3. Supported /\ OneEdit(command, baselineBeing) /\ Sound(Repository)
    BY <1>1, <1>2 DEF NoLaxer
<1>4. Concluded' <=> Concluded
    BY <1>1 DEF Concluded, Done
<1>5. ASSUME scan.at \in Early \union Scanning
      PROVE  \E V : AtomicDecision(scan.request, V) \in answers' /\ Follows(V)
    <2>1. Around
        <3>1. scan.decision \in Decisions
            BY <1>5 DEF Verdict, Verdicts, Decisions
        <3>. QED  BY <1>1, <1>3, <1>5, <3>1 DEF Around
    <2>2. PICK W : /\ AtomicDecision(scan.request, W) \in answers
                   /\ Witness(W, scan, Repository, command, baselineBeing)
        BY <1>3, <1>5 DEF Supported
    <2>3. CASE WriteBaseline \/ GoesOnInStore
        <3>1. PICK V \in {W, Repository'} : Follows(V)
            BY <2>1, <2>2, <2>3, GoingOnKeepsWitness
        <3>. QED  BY <1>1, <2>2, <3>1
    <2>4. CASE ~(WriteBaseline \/ GoesOnInStore)
        <3>1. edits = 0
            BY <1>2, <2>4, AroundNoticed
        <3>2. Untouched /\ Witness(Repository, scan, Repository, command, baselineBeing)
            BY <1>3, <1>5, <3>1 DEF Undisturbed, Supported
        <3>3. PICK V \in {Repository, Repository'} : Follows(V)
            BY <2>1, <2>4, <3>2, AroundNoticed, FirstEditKeepsWitness
        <3>4. AtomicDecision(scan.request, Repository) \in answers
            BY DEF NoLaxer
        <3>. QED  BY <1>1, <3>3, <3>4
    <2>. QED  BY <2>3, <2>4
<1>6. Justified(scan, answers) => Justified(scan, answers')
    BY <1>1, StillJustified
<1>. QED  BY <1>1, <1>2, <1>3, <1>4, <1>5, <1>6 DEF Supported, Follows

\* Every step keeps the invariant.
LEMMA NoLaxerStays ==
    ASSUME Verdict(scan), Surroundings, Surroundings', Undisturbed, StoreTypeOK, StoreTypeOK',
           NoLaxer, [Next]_vars
    PROVE  NoLaxer'
<1>1. Sound(Repository)' /\ baselineBeing'.expires \in Nat
    BY SoundStays
<1>2. edits' <= 1 => edits <= 1 /\ edits \in Nat
    <2>1. edits \in Nat
        BY DEF Undisturbed
    <2>2. edits' = edits \/ edits' = edits + 1
        <3>1. CASE ScanStep \/ DeadlinePasses \/ UNCHANGED vars
            BY <3>1, RequestStays DEF DeadlinePasses, vars
        <3>2. CASE ~(ScanStep \/ DeadlinePasses \/ UNCHANGED vars)
            BY <3>2, AroundNoticed
        <3>. QED  BY <3>1, <3>2
    <2>. QED  BY <2>1, <2>2
<1>3. edits' <= 1 => OneEdit(command', baselineBeing')
    BY <1>2, OneEditStays DEF NoLaxer, Undisturbed
<1>4. CASE ScanStep
    <2>1. /\ scan'.request = scan.request /\ UNCHANGED <<repositoryVars, edits>> /\ answers' = answers
        BY <1>4, RequestStays DEF ScanStep, ReadPolicy, ReadPolicyBaseline, ValidateWaivers, ReadBaseline,
               ReadContext, ReadPlan, EvaluateRules, ApplyAndEvaluate, LimitFindings, AuditPolicy,
               AuditPlans, AuditWaivers, AuditBaseline, WriteBundle, WriteReport, Fail, Step
    <2>2. Repository' = Repository
        BY <2>1, RepositoryStays
    <2>3. edits' <= 1 /\ ~scan'.raced /\ ~scan'.cut => Supported'
        BY <1>4, <2>1, ScanStepSupported
    <2>. QED  BY <1>1, <1>3, <2>1, <2>2, <2>3 DEF NoLaxer
<1>5. CASE DeadlinePasses
    <2>1. /\ scan'.request = scan.request /\ UNCHANGED <<repositoryVars, edits, answers>>
        BY <1>5, LateScan DEF DeadlinePasses, Verdict
    <2>2. Repository' = Repository
        BY <2>1, RepositoryStays
    <2>3. edits' <= 1 /\ ~scan'.raced /\ ~scan'.cut => Supported'
        BY <1>5, <2>1, DeadlineSupported
    <2>. QED  BY <1>1, <1>3, <2>1, <2>2, <2>3 DEF NoLaxer
<1>6. CASE UNCHANGED vars
    <2>1. UNCHANGED <<repositoryVars, scan, edits, answers>>
        BY <1>6 DEF vars
    <2>2. Repository' = Repository /\ command' = command /\ baselineBeing' = baselineBeing
        BY <2>1, RepositoryStays DEF repositoryVars, storeVars
    <2>3. Supported => Supported'
        BY <2>1, <2>2 DEF Supported, Concluded, Done
    <2>. QED  BY <1>1, <1>3, <2>1, <2>2, <2>3 DEF NoLaxer
<1>7. CASE ~ScanStep /\ ~DeadlinePasses /\ ~UNCHANGED vars
    <2>1. scan' = scan /\ AtomicDecision(scan.request, Repository') \in answers'
        BY <1>7, AroundNoticed, NoticedAnswers
    <2>2. edits' <= 1 /\ ~scan'.raced /\ ~scan'.cut => Supported'
        BY <1>1, <1>7, AroundSupported
    <2>. QED  BY <1>1, <1>3, <2>1, <2>2 DEF NoLaxer
<1>. QED  BY <1>4, <1>5, <1>6, <1>7

(***************************************************************************)
(* Throughout a scan that is disturbed once there is a repository, of the  *)
(* moments there have been, whose scan it will be no laxer than.           *)
(***************************************************************************)
THEOREM WitnessInvariance == Spec => []NoLaxer
<1>1. Init /\ StoreTypeOK /\ Surroundings => NoLaxer
    BY NewScanHasWitness
<1>2. /\ Verdict(scan) /\ Surroundings /\ Surroundings' /\ Undisturbed /\ StoreTypeOK /\ StoreTypeOK'
      /\ NoLaxer /\ [Next]_vars
      => NoLaxer'
    BY NoLaxerStays
<1>. QED
    BY <1>1, <1>2, VerdictInvariance, SurroundingsInvariance, UndisturbedInvariance, StoreTypesHold, PTL
    DEF Spec

(***************************************************************************)
(* An edit during a scan does not open the gate (buildScanReport and the   *)
(* reads it makes one after the other): with the repository changed once,  *)
(* by anyone and at any moment, a waiver or baseline command half way      *)
(* included, the scan decides no laxer than some scan of a single moment.  *)
(***************************************************************************)
THEOREM DisturbedScans == Spec => []DisturbedScanIsNoLaxer
<1>1. ASSUME Verdict(scan), NoLaxer PROVE DisturbedScanIsNoLaxer
    <2>1. SUFFICES ASSUME Concluded, edits <= 1, ~scan.raced
                   PROVE  \E answer \in answers :
                              answer # "error" /\ DecisionRank(answer) <= DecisionRank(scan.report.decision)
        BY DEF DisturbedScanIsNoLaxer
    <2>2. ~scan.cut
        BY <1>1, <2>1 DEF Verdict, Concluded, Done
    <2>3. Justified(scan, answers) /\ scan.report.decision = scan.decision
        BY <1>1, <2>1, <2>2 DEF NoLaxer, Supported
    <2>. QED  BY <2>3 DEF Justified
<1>. QED  BY <1>1, VerdictInvariance, WitnessInvariance, PTL
=============================================================================
