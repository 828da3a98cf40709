-------------------------- MODULE GovernanceProofs --------------------------
(***************************************************************************)
(* What the gate and its files keep to for any findings, risks, policies,  *)
(* waivers, baselines and number of days.                                  *)
(***************************************************************************)
EXTENDS Governance, GateProofs

-----------------------------------------------------------------------------
(***************************************************************************)
(* The inductive invariant.  A scan is sound in any state of the files, so *)
(* only the files are constrained.                                         *)
(***************************************************************************)
FilesOK ==
    /\ DOMAIN plan \subseteq Sites
    /\ \A s \in DOMAIN plan : plan[s] \in Risks
    /\ policy \in Policies
    /\ waivers \subseteq Waiver
    /\ baseline.written \in BOOLEAN
    /\ baseline.expires \in Nat
    /\ baseline.entries \subseteq Entry
    /\ now \in Days

OneEntryPerSite == \A e, d \in baseline.entries : e.site = d.site => e = d

OneRecordPerID == \A v, w \in waivers : v.id = w.id => v = w

IInv ==
    /\ FilesOK
    /\ OneEntryPerSite
    /\ OneRecordPerID

\* What a scan reads of well-typed files is well typed.
LEMMA FilesMakeARepository ==
    ASSUME FilesOK
    PROVE  IsRepository(Repository)
    BY GovernanceAssumption DEF FilesOK, IsRepository, Repository

\* An empty repository satisfies the invariant.
LEMMA InitEstablishes == Init => IInv
<1>. SUFFICES ASSUME Init PROVE IInv
    OBVIOUS
<1>1. FilesOK
    BY WaiverAssumption DEF Init, FilesOK, NoBaseline, Days
<1>2. OneEntryPerSite /\ OneRecordPerID
    BY DEF Init, OneEntryPerSite, OneRecordPerID, NoBaseline
<1>. QED  BY <1>1, <1>2 DEF IInv

\* A plan changes one site at a time.
LEMMA DevelopPreserves ==
    ASSUME IInv, NEW s \in Sites, NEW risk \in Risks, Develop(s, risk)
    PROVE  IInv'
<1>1. FilesOK'
    BY DEF IInv, FilesOK, Develop
<1>2. OneEntryPerSite' /\ OneRecordPerID'
    BY DEF IInv, Develop, OneEntryPerSite, OneRecordPerID
<1>. QED  BY <1>1, <1>2 DEF IInv

\* A resolved finding leaves the files alone.
LEMMA ResolvePreserves ==
    ASSUME IInv, NEW s \in Sites, Resolve(s)
    PROVE  IInv'
<1>1. FilesOK'
    BY DEF IInv, FilesOK, Resolve
<1>2. OneEntryPerSite' /\ OneRecordPerID'
    BY DEF IInv, Resolve, OneEntryPerSite, OneRecordPerID
<1>. QED  BY <1>1, <1>2 DEF IInv

\* A record is added under a number no record has: Validate refuses a duplicate.
LEMMA AddWaiverPreserves ==
    ASSUME IInv, NEW scope \in Scopes, NEW expires \in Days, AddWaiver(scope, expires)
    PROVE  IInv'
<1>. DEFINE id == NextID(waivers)
            record == [id |-> id, scope |-> scope, created |-> now, expires |-> expires]
<1>1. /\ id \in WaiverNumbers
      /\ ValidWaivers(waivers \union {record}, 0)
      /\ waivers' = waivers \union {record}
      /\ UNCHANGED <<plan, policy, baseline, now>>
    BY DEF AddWaiver
<1>2. record \in Waiver
    BY <1>1 DEF Waiver, IInv, FilesOK
<1>. HIDE DEF id, record
<1>3. FilesOK'
    BY <1>1, <1>2 DEF IInv, FilesOK
<1>4. OneRecordPerID'
    BY <1>1 DEF OneRecordPerID, ValidWaivers
<1>5. OneEntryPerSite'
    BY <1>1 DEF IInv, OneEntryPerSite
<1>. QED  BY <1>3, <1>4, <1>5 DEF IInv

\* Pruning takes a subset of the records.
LEMMA PruneWaiversPreserves ==
    ASSUME IInv, PruneWaivers
    PROVE  IInv'
<1>1. waivers' \subseteq waivers /\ UNCHANGED <<plan, policy, baseline, now>>
    BY DEF PruneWaivers, PruneExpired
<1>2. FilesOK' /\ OneEntryPerSite' /\ OneRecordPerID'
    BY <1>1 DEF IInv, FilesOK, OneEntryPerSite, OneRecordPerID
<1>. QED  BY <1>2 DEF IInv

\* A baseline is taken of one scan.
LEMMA CreateBaselinePreserves ==
    ASSUME IInv, NEW term \in BaselineTerms, CreateBaseline(term)
    PROVE  IInv'
<1>1. /\ baseline'.written = TRUE
      /\ baseline'.expires = IF term = 0 THEN 0 ELSE now + term
      /\ baseline'.entries = EntriesFromFindings(Scan(PlainScan, Repository).findings)
      /\ UNCHANGED <<plan, policy, waivers, now>>
    BY DEF CreateBaseline, BaselineOf, Repository
<1>2. IsRepository(Repository)
    BY FilesMakeARepository DEF IInv
<1>3. baseline'.entries \subseteq Entry /\ \A e, d \in baseline'.entries : e.site = d.site => e = d
    BY <1>1, <1>2, EntriesOfScan
<1>4. baseline'.expires \in Nat
    BY <1>1, GovernanceAssumption, WaiverAssumption DEF IInv, FilesOK, Days
<1>5. FilesOK'
    BY <1>1, <1>3, <1>4 DEF IInv, FilesOK
<1>6. OneEntryPerSite'
    BY <1>3 DEF OneEntryPerSite
<1>7. OneRecordPerID'
    BY <1>1 DEF IInv, OneRecordPerID
<1>. QED  BY <1>5, <1>6, <1>7 DEF IInv

\* Every step keeps the invariant.
LEMMA NextPreserves == IInv /\ [Next]_vars => IInv'
<1>. SUFFICES ASSUME IInv, [Next]_vars PROVE IInv'
    OBVIOUS
<1>1. CASE \E s \in Sites, risk \in Risks : Develop(s, risk)
    BY <1>1, DevelopPreserves
<1>2. CASE \E s \in Sites : Resolve(s)
    BY <1>2, ResolvePreserves
<1>3. CASE \E p \in Policies : ChangePolicy(p)
    BY <1>3 DEF IInv, ChangePolicy, FilesOK, OneEntryPerSite, OneRecordPerID
<1>4. CASE \E scope \in Scopes, expires \in Days : AddWaiver(scope, expires)
    BY <1>4, AddWaiverPreserves
<1>5. CASE PruneWaivers
    BY <1>5, PruneWaiversPreserves
<1>6. CASE \E term \in BaselineTerms : CreateBaseline(term)
    BY <1>6, CreateBaselinePreserves
<1>7. CASE Tick
    <2>1. now' \in Days /\ UNCHANGED <<plan, policy, waivers, baseline>>
        BY <1>7, WaiverAssumption DEF IInv, Tick, Days, FilesOK
    <2>. QED  BY <2>1 DEF IInv, FilesOK, OneEntryPerSite, OneRecordPerID
<1>8. CASE UNCHANGED vars
    BY <1>8 DEF IInv, vars, FilesOK, OneEntryPerSite, OneRecordPerID
<1>. QED  BY <1>1, <1>2, <1>3, <1>4, <1>5, <1>6, <1>7, <1>8 DEF Next

\* The inductive invariant of the repository's files: their types, one baseline
\* entry per fingerprint, one waiver per ID.
THEOREM Invariance == Spec => []IInv
<1>1. Init => IInv
    BY InitEstablishes
<1>2. IInv /\ [Next]_vars => IInv'
    BY NextPreserves
<1>. QED  BY <1>1, <1>2, PTL DEF Spec

\* Every file keeps its type and every scan of it, however it is asked, reaches
\* a decision (TypeOK).
THEOREM TypeCorrectness == Spec => []TypeOK
<1>1. IInv => TypeOK
    <2>1. \A opts : Gate(opts).decision \in Decisions \ {"none"}
        BY ScanDecides DEF Gate
    <2>. QED  BY <2>1 DEF IInv, FilesOK, TypeOK
<1>. QED  BY <1>1, Invariance, PTL

\* No two records of the file have one ID, and `waiver add` hands out an ID no record has,
\* unless the file holds WVR-999 and WVR-1000 at once (NextID, Validate).
THEOREM WaiverIDs == Spec => []WaiverIDsAreUnique
<1>1. IInv => WaiverIDsAreUnique
    <2>. SUFFICES ASSUME IInv PROVE WaiverIDsAreUnique
        OBVIOUS
    <2>1. ASSUME NEW w \in waivers, w.id = NextID(waivers)
          PROVE  NextID(waivers) = MaxReadID + 1 /\ \E v \in waivers : v.id = MaxReadID
        <3>1. waivers \subseteq Waiver
            BY DEF IInv, FilesOK
        <3>2. \A v \in waivers : v.id \in Nat
            BY <3>1, WaiverAssumption DEF Waiver
        <3>3. PICK id : id = NextID(waivers)
            OBVIOUS
        <3>4. /\ id \in 1..(MaxReadID + 1) /\ \A v \in waivers : ReadID(v.id) < id
              /\ id = 1 \/ \E v \in waivers : id = ReadID(v.id) + 1
            BY <3>1, <3>3, NextIDIsAboveReads
        <3>5. ReadID(id) < id
            BY <2>1, <3>3, <3>4
        <3>6. id = MaxReadID + 1
            BY <3>4, <3>5, WaiverAssumption DEF ReadID
        <3>7. PICK v \in waivers : id = ReadID(v.id) + 1
            BY <3>4, <3>6, WaiverAssumption
        <3>8. PICK n \in Nat : n = v.id
            BY <3>2
        <3>9. ReadID(n) \in 0..MaxReadID
            BY ReadIDs
        <3>10. ReadID(n) = MaxReadID
            BY <3>6, <3>7, <3>8, <3>9, WaiverAssumption
        <3>11. n = MaxReadID
            BY <3>8, <3>10, WaiverAssumption DEF ReadID
        <3>. QED  BY <3>3, <3>6, <3>8, <3>11
    <2>2. NextID(waivers) \in {w.id : w \in waivers} =>
              NextID(waivers) = MaxReadID + 1 /\ MaxReadID \in {w.id : w \in waivers}
        BY <2>1
    <2>. QED  BY <2>2 DEF IInv, OneRecordPerID, WaiverIDsAreUnique
<1>. QED  BY <1>1, Invariance, PTL

-----------------------------------------------------------------------------
(***************************************************************************)
(* Pruning.                                                                *)
(***************************************************************************)
\* What is pruned matches nothing.
LEMMA PrunedReview ==
    ASSUME NEW file, NEW findings, NEW day
    PROVE  ApplyWaivers(PruneExpired(file, day), findings, day) = ApplyWaivers(file, findings, day)
<1>1. \A f : (\E w \in PruneExpired(file, day) : Matches(w, f, day))
                <=> (\E w \in file : Matches(w, f, day))
    BY DEF PruneExpired, Matches
<1>. QED  BY <1>1 DEF ApplyWaivers

\* A scan that is not refused decides the same of the pruned waiver file, and
\* reports the same findings (PruneExpired, Matches and Validate).
LEMMA PrunedScan == PruningIsNeutral
<1>. DEFINE repo == Repository
            pruned == [Repository EXCEPT !.waivers = PruneExpired(waivers, now)]
<1>. SUFFICES ASSUME NEW opts \in Scans, ~Refused(opts, repo)
              PROVE  Scan(opts, pruned) = Scan(opts, repo)
    BY DEF PruningIsNeutral, Gate
<1>1. /\ pruned.plan = repo.plan /\ pruned.policy = repo.policy
      /\ pruned.baseline = repo.baseline /\ pruned.now = repo.now
      /\ pruned.waivers = PruneExpired(repo.waivers, repo.now)
    BY DEF Repository
<1>. HIDE DEF repo, pruned
<1>2. RawFindings(opts, pruned) = RawFindings(opts, repo)
    BY <1>1 DEF RawFindings
<1>3. Reviewed(RawFindings(opts, repo), pruned) = Reviewed(RawFindings(opts, repo), repo)
    BY <1>1, PrunedReview DEF Reviewed
<1>4. LoadedEntries(opts, pruned) = LoadedEntries(opts, repo)
    BY <1>1 DEF LoadedEntries
<1>5. PolicyConfig(opts, pruned) = PolicyConfig(opts, repo)
    BY <1>1, <1>4 DEF PolicyConfig
<1>6. ~Refused(opts, pruned)
    <2>1. PruneExpired(repo.waivers, repo.now) \subseteq repo.waivers
        BY DEF PruneExpired
    <2>2. \A max : ValidWaivers(repo.waivers, max) => ValidWaivers(pruned.waivers, max)
        BY <1>1, <2>1 DEF ValidWaivers
    <2>. QED  BY <1>1, <2>1, <2>2 DEF Refused
<1>. QED  BY <1>2, <1>3, <1>5, <1>6 DEF Scan, Judge

\* Whatever the files hold, `waiver prune` changes no scan that is not refused.
THEOREM PruningChangesNoScan == Spec => []PruningIsNeutral
    BY PrunedScan, PTL DEF Spec

-----------------------------------------------------------------------------
(***************************************************************************)
(* Existing risk.                                                          *)
(***************************************************************************)

(***************************************************************************)
(* A finding a scan suppresses as existing risk was, in scope, compared    *)
(* with the one entry the baseline has of it, and found no worse.          *)
(***************************************************************************)
LEMMA ComparedWithItsEntry ==
    ASSUME IInv, NEW opts, NEW f \in Gate(opts).findings, "existing_risk" \in f.suppressions,
           NEW e \in LoadedEntries(opts, Repository), e.site = f.site
    PROVE  \E g \in Finding :
              /\ Arrives(g, Repository)
              /\ g.site = f.site
              /\ e.context \in RiskContext
              /\ ~RiskContextWorsened(
                     RiskContextFromFinding(InScope(g, PolicyConfig(opts, Repository))), e.context)
<1>. DEFINE config == PolicyConfig(opts, Repository)
            entries == LoadedEntries(opts, Repository)
<1>1. IsRepository(Repository)
    BY FilesMakeARepository DEF IInv
<1>2. PICK g \in Reviewed(RawFindings(opts, Repository), Repository) :
          /\ f.site = g.site
          /\ ~ExistingWorsened(InScope(g, config), config)
    BY <1>1, ReportedFinding DEF Gate
<1>3. Arrives(g, Repository) /\ g \in Finding
    BY <1>1, ArrivingFinding
<1>4. entries \subseteq baseline.entries
    BY DEF LoadedEntries, Repository
<1>5. {d \in entries : d.site = e.site} = {e}
    BY <1>4 DEF IInv, OneEntryPerSite
<1>6. e \in Entry /\ e.context \in RiskContext
    BY <1>4 DEF IInv, FilesOK, Entry
<1>7. e.site \in DOMAIN config.risks /\ config.risks[e.site] = e.context
    <2>1. config.risks = Contexts(entries)
        BY DEF PolicyConfig, ConfigWith
    <2>2. e.site \in Fingerprints(entries)
        BY DEF Fingerprints
    <2>3. Contexts(entries)[e.site] = LastEntry({d \in entries : d.site = e.site}).context
        BY <2>2 DEF Contexts
    <2>4. DOMAIN Contexts(entries) = Fingerprints(entries)
        BY DEF Contexts
    <2>. QED  BY <1>5, <1>6, <2>1, <2>2, <2>3, <2>4, LastOfOne
<1>8. InScope(g, config).site = e.site
    BY <1>2, <1>3, ScopedFinding
<1>. HIDE DEF config, entries
<1>9. ~RiskContextWorsened(RiskContextFromFinding(InScope(g, config)), e.context)
    BY <1>2, <1>7, <1>8 DEF ExistingWorsened
<1>. QED  BY <1>2, <1>3, <1>6, <1>9 DEF config

\* A finding suppressed as existing risk is no severer, no surer and no nearer
\* to sensitive data than its baseline entry (applyContext, RiskContextWorsened).
THEOREM ExistingRisk == Spec => []ExistingRiskIsNoWorse
<1>1. IInv => ExistingRiskIsNoWorse
    <2>. SUFFICES ASSUME IInv, NEW opts \in Scans, NEW f \in Gate(opts).findings,
                         "existing_risk" \in f.suppressions,
                         NEW e \in LoadedEntries(opts, Repository), e.site = f.site
                  PROVE  /\ plan[f.site].severity <= e.context.severity
                         /\ plan[f.site].confidence = HighConfidence
                                => e.context.confidence = HighConfidence
                         /\ plan[f.site].sensitive => e.context.sensitive
        BY DEF ExistingRiskIsNoWorse
    <2>. DEFINE config == PolicyConfig(opts, Repository)
    <2>1. PICK g \in Finding :
              /\ Arrives(g, Repository) /\ g.site = f.site /\ e.context \in RiskContext
              /\ ~RiskContextWorsened(RiskContextFromFinding(InScope(g, config)), e.context)
        BY ComparedWithItsEntry
    <2>2. /\ g.severity = plan[f.site].severity /\ g.confidence = plan[f.site].confidence
          /\ g.sensitive = plan[f.site].sensitive
        BY <2>1 DEF Arrives, Repository
    <2>3. LET current == RiskContextFromFinding(InScope(g, config))
          IN  /\ current.severity = g.severity /\ current.confidence = g.confidence
              /\ current.sensitive = g.sensitive
        BY <2>1, ScopedFinding DEF RiskContextFromFinding
    <2>4. g.severity \in Severities /\ e.context.severity \in Severities
        BY <2>1 DEF Finding, RiskContext
    <2>. HIDE DEF config
    <2>. QED  BY <2>1, <2>2, <2>3, <2>4 DEF RiskContextWorsened, Severities
<1>. QED  BY <1>1, Invariance, PTL

\* A baseline entry recorded under a waiver suppresses nothing once no waiver of
\* the finding is in force (RiskContextWorsened's ActiveWaiver clause).
THEOREM LapsedWaivers == Spec => []LapsedWaiverIsEnforced
<1>1. IInv => LapsedWaiverIsEnforced
    <2>. SUFFICES ASSUME IInv, NEW opts \in Scans, NEW f \in Gate(opts).findings,
                         "existing_risk" \in f.suppressions,
                         NEW e \in LoadedEntries(opts, Repository), e.site = f.site, e.context.waived
                  PROVE  HasActiveWaiver(f)
        BY DEF LapsedWaiverIsEnforced
    <2>. DEFINE config == PolicyConfig(opts, Repository)
    <2>1. PICK g \in Finding :
              /\ Arrives(g, Repository) /\ g.site = f.site /\ e.context \in RiskContext
              /\ ~RiskContextWorsened(RiskContextFromFinding(InScope(g, config)), e.context)
        BY ComparedWithItsEntry
    <2>2. "waiver" \in InScope(g, config).suppressions
        BY <2>1 DEF RiskContextWorsened, RiskContextFromFinding
    <2>3. "waiver" \in g.suppressions
        BY <2>2, ScopedFinding
    <2>4. policy.waiverFile /\ \E w \in waivers : ~Expired(w, now) /\ g.site \in w.scope
        BY <2>1, <2>3 DEF Arrives, Repository
    <2>5. \A w \in waivers : ~Expired(w, now) => now <= w.expires
        BY WaiverAssumption DEF IInv, FilesOK, Waiver, Days, Expired
    <2>. QED  BY <2>1, <2>4, <2>5 DEF HasActiveWaiver
<1>. QED  BY <1>1, Invariance, PTL

-----------------------------------------------------------------------------
(***************************************************************************)
(* No risk passes unaccounted.                                             *)
(***************************************************************************)
\* Every suppression of a judged finding is one of the excuses of what was raised.
LEMMA SuppressedIsExcused ==
    ASSUME IInv, NEW opts, NEW y \in ArrivedAt(opts, Repository),
           Suppressed(ApplyContext(y, PolicyConfig(opts, Repository)))
    PROVE  Excused(FindingAt(y.site, plan[y.site]), opts)
<1>. DEFINE config == PolicyConfig(opts, Repository)
            h == ApplyContext(y, config)
            g == FindingAt(y.site, plan[y.site])
            entries == LoadedEntries(opts, Repository)
<1>1. IsRepository(Repository) /\ IsConfig(config)
    BY FilesMakeARepository, ConfigOfPolicy DEF IInv
<1>2. /\ y \in Finding /\ y.site \in DOMAIN plan /\ y.impact = "allow"
      /\ y.severity = plan[y.site].severity /\ y.confidence = plan[y.site].confidence
      /\ y.sensitive = plan[y.site].sensitive /\ y.touched = plan[y.site].touched
      /\ y.suppressions \subseteq {"experimental", "waiver"}
      /\ "experimental" \in y.suppressions => plan[y.site].experimental
      /\ "waiver" \in y.suppressions =>
            policy.waiverFile /\ \E w \in waivers : ~Expired(w, now) /\ y.site \in w.scope
    BY <1>1, Arrived DEF Repository
<1>3. /\ g.site = y.site /\ g.severity = y.severity /\ g.confidence = y.confidence
      /\ g.sensitive = y.sensitive /\ g.touched = y.touched
    BY <1>2 DEF FindingAt
<1>4. h.suppressions = y.suppressions
          \union (IF config.changedOnly /\ ~y.touched THEN {"changed_resource_only"} ELSE {})
          \union (IF config.newRiskOnly /\ y.site \in config.existing /\ ~Worsened(y, config)
                  THEN {"existing_risk"} ELSE {})
    BY <1>1, <1>2, Applied
<1>5. PICK kind : kind \in h.suppressions
    BY DEF Suppressed
<1>6. /\ config.changedOnly = (policy.changedOnly \/ opts.changedOnly)
      /\ config.newRiskOnly = (policy.newRiskOnly \/ opts.newOnly)
      /\ config.existing = policy.inline \union Fingerprints(entries)
    BY DEF PolicyConfig, ConfigWith, Repository
<1>. HIDE DEF config, h, g, entries
<1>7. CASE "experimental" \in y.suppressions
    BY <1>2, <1>3, <1>7 DEF Excused, g
<1>8. CASE "waiver" \in y.suppressions
    <2>1. \A w \in waivers : ~Expired(w, now) => now <= w.expires
        BY WaiverAssumption DEF IInv, FilesOK, Waiver, Days, Expired
    <2>2. HasActiveWaiver(g)
        BY <1>2, <1>3, <1>8, <2>1 DEF HasActiveWaiver
    <2>. QED  BY <2>2 DEF Excused, g
<1>9. CASE config.changedOnly /\ ~y.touched
    BY <1>3, <1>6, <1>9 DEF Excused, g
<1>10. CASE config.newRiskOnly /\ y.site \in config.existing /\ ~Worsened(y, config)
    <2>1. CASE \E e \in entries : e.site = y.site
        <3>1. PICK e \in entries : e.site = y.site
            BY <2>1
        <3>2. OneEntryEach(Repository)
            BY DEF IInv, FilesOK, OneEntryPerSite, OneEntryEach, Repository
        <3>3. e \in Entry /\ e.site \in DOMAIN config.risks /\ config.risks[e.site] = e.context
            BY <3>1, <3>2, RiskOfEntry DEF config, entries
        <3>4. ~RiskContextWorsened(RiskContextFromFinding(y), e.context)
            BY <1>10, <3>1, <3>3 DEF Worsened, ExistingWorsened
        <3>5. y.severity <= e.context.severity /\ (y.sensitive => e.context.sensitive)
            <4>1. y.severity \in Nat /\ e.context.severity \in Nat
                BY <1>2, <3>3 DEF Finding, Entry, RiskContext, Severities
            <4>. QED  BY <3>4, <4>1 DEF RiskContextWorsened, RiskContextFromFinding
        <3>6. RecordedRisk(g, opts)
            BY <1>3, <3>1, <3>5 DEF RecordedRisk, entries
        <3>. QED  BY <1>6, <1>10, <3>6 DEF Excused, g
    <2>2. CASE ~ \E e \in entries : e.site = y.site
        <3>1. y.site \in policy.inline
            BY <1>6, <1>10, <2>2 DEF Fingerprints
        <3>2. RecordedRisk(g, opts)
            BY <1>3, <2>2, <3>1 DEF RecordedRisk, entries
        <3>. QED  BY <1>6, <1>10, <3>2 DEF Excused, g
    <2>. QED  BY <2>1, <2>2
<1>11. kind \in y.suppressions => kind \in {"experimental", "waiver"}
    BY <1>2
<1>. QED  BY <1>4, <1>5, <1>7, <1>8, <1>9, <1>10, <1>11 DEF g

\* Every scan of the properties enforces.
LEMMA ScansEnforce ==
    ASSUME NEW opts \in Scans
    PROVE  opts.mode = "block"
<1>1. CASE opts = PlainScan
    BY <1>1 DEF PlainScan
<1>2. CASE opts = BaselineScan
    BY <1>2 DEF PlainScan, BaselineScan
<1>3. CASE opts = NewOnlyScan
    BY <1>3 DEF PlainScan, BaselineScan, NewOnlyScan
<1>4. CASE opts = [PlainScan EXCEPT !.changedOnly = TRUE]
    BY <1>4 DEF PlainScan
<1>5. CASE opts = [NewOnlyScan EXCEPT !.cloudContext = TRUE]
    BY <1>5 DEF PlainScan, BaselineScan, NewOnlyScan
<1>. QED  BY <1>1, <1>2, <1>3, <1>4, <1>5 DEF Scans

\* Every risk that meets the blocking threshold and passes the gate in block
\* mode, or a finding it duplicates, is waived, accepted, out of scope,
\* experimental or outranked by what is not certain enough to block.
THEOREM RisksAreAccountedFor == Spec => []NoRiskPassesUnaccounted
<1>1. IInv => NoRiskPassesUnaccounted
    <2>. SUFFICES ASSUME IInv, NEW opts \in Scans, Gate(opts).decision \in {"allow", "warn"},
                         NEW f \in RawFindings(opts, Repository),
                         MeetsThreshold(f, PolicyConfig(opts, Repository).blockOn)
                  PROVE  \E g \in RawFindings(opts, Repository) :
                            /\ SameKey(f, g)
                            /\ \/ Excused(g, opts)
                               \/ /\ ~MeetsThreshold(g, PolicyConfig(opts, Repository).blockOn)
                                  /\ \/ g.severity > f.severity
                                     \/ /\ Worsened(f, PolicyConfig(opts, Repository))
                                        /\ UpgradeForEnvironment(g, PolicyConfig(opts, Repository)).severity
                                               > f.severity
        BY DEF NoRiskPassesUnaccounted
    <2>. DEFINE config == PolicyConfig(opts, Repository)
                A == Judged(opts, Repository)
                Raised(y) == FindingAt(y.site, plan[y.site])
    <2>1. IsRepository(Repository) /\ IsConfig(config) /\ opts.mode = "block"
        <3>1. IsRepository(Repository) /\ IsConfig(config)
            BY FilesMakeARepository, ConfigOfPolicy DEF IInv
        <3>2. opts.mode = "block"
            BY ScansEnforce
        <3>. QED  BY <3>1, <3>2
    <2>2. config.blockOn.severity \in Nat /\ config.blockOn.confidence \in Nat
        <3>1. config.blockOn = ScanThreshold(policy, "blockOn", opts.branch)
            BY DEF PolicyConfig, ConfigWith, Repository
        <3>2. IsPolicy(policy)
            BY GovernanceAssumption DEF IInv, FilesOK
        <3>. QED  BY <3>1, <3>2, ThresholdOfPolicy
    <2>3. PICK x \in ArrivedAt(opts, Repository) : x.site = f.site
        BY <2>1, RaisedArrives
    <2>4. /\ x \in Finding /\ x.impact = "allow"
          /\ f = Raised(x) /\ x.severity = f.severity /\ x.confidence = f.confidence
        <3>1. f = FindingAt(f.site, plan[f.site])
            BY <2>1, RawFinding DEF Repository
        <3>2. f.severity = plan[f.site].severity /\ f.confidence = plan[f.site].confidence
            BY <3>1 DEF FindingAt
        <3>. QED  BY <2>1, <2>3, <3>1, <3>2, Arrived DEF Repository
    <2>5. ApplyContext(x, config) \in A
        BY DEF Judged
    <2>6. A \subseteq Finding /\ OnePerSite(A)
        BY <2>1, JudgedFindings
    <2>7. PICK n \in DeduplicateFindings(A) : n \in A /\ SameKey(ApplyContext(x, config), n)
        BY <2>5, <2>6, FirstOfKey
    <2>8. PICK y \in ArrivedAt(opts, Repository) : n = ApplyContext(y, config)
        BY <2>7 DEF Judged
    <2>9. /\ y \in Finding /\ y.impact = "allow"
          /\ Raised(y) \in RawFindings(opts, Repository)
          /\ Raised(y).site = y.site /\ Raised(y).severity = y.severity /\ Raised(y).confidence = y.confidence
        BY <2>1, Arrived DEF Repository, FindingAt
    <2>10. SameKey(x, y) /\ SameKey(f, Raised(y))
        <3>1. ApplyContext(x, config).site = x.site /\ n.site = y.site
            BY <2>1, <2>4, <2>8, <2>9, Applied
        <3>. QED  BY <2>3, <2>7, <2>9, <3>1 DEF SameKey
    <2>11. CASE Suppressed(n)
        <3>1. Excused(Raised(y), opts)
            BY <2>8, <2>11, SuppressedIsExcused
        <3>. QED  BY <2>9, <2>10, <3>1
    <2>12. CASE ~Suppressed(n)
        <3>1. ~MeetsThreshold(n, config.blockOn)
            BY <2>1, <2>12, LetThrough DEF Gate
        <3>2. MeetsThreshold(x, config.blockOn)
            BY <2>4 DEF MeetsThreshold
        <3>3. n # ApplyContext(x, config)
            <4>. DEFINE a == ApplyContext(x, config)
            <4>1. /\ a.severity \in Nat /\ a.confidence \in Nat
                  /\ a.severity >= x.severity /\ a.confidence >= x.confidence
                BY <2>1, <2>4, Applied, RaisedFields DEF Finding, Severities, Confidences
            <4>2. MeetsThreshold(a, config.blockOn)
                BY <2>2, <2>4, <3>2, <4>1 DEF MeetsThreshold, Finding, Severities, Confidences
            <4>. QED  BY <3>1, <4>2
        <3>4. SortsBefore(n, ApplyContext(x, config))
            BY <2>5, <2>7, <3>3 DEF DeduplicateFindings, SameKey
        <3>5. /\ ~MeetsThreshold(y, config.blockOn)
              /\ \/ y.severity > x.severity
                 \/ Worsened(x, config) /\ UpgradeForEnvironment(y, config).severity > x.severity
            BY <2>1, <2>2, <2>4, <2>8, <2>9, <2>10, <3>1, <3>2, <3>4, FirstOutranks
        <3>6. ~MeetsThreshold(Raised(y), config.blockOn)
            BY <2>9, <3>5 DEF MeetsThreshold
        <3>7. CASE "waiver" \in x.suppressions
            <4>1. Suppressed(ApplyContext(x, config))
                BY <2>1, <2>4, <3>7, Applied DEF Suppressed
            <4>2. Excused(f, opts)
                BY <2>4, <4>1, SuppressedIsExcused
            <4>. QED  BY <4>2 DEF SameKey
        <3>8. CASE "waiver" \notin x.suppressions
            <4>1. x = f
                BY <2>1, <2>4, <3>8, Arrived DEF Repository
            <4>2. UpgradeForEnvironment(Raised(y), config).severity = UpgradeForEnvironment(y, config).severity
                <5>1. Raised(y) \in Finding
                    BY <2>1, <2>9, RawFinding
                <5>. QED  BY <2>1, <2>9, <5>1, RaisedAlike
            <4>. QED  BY <2>9, <2>10, <3>5, <3>6, <4>1, <4>2
        <3>. QED  BY <3>7, <3>8
    <2>. QED  BY <2>11, <2>12
<1>. QED  BY <1>1, Invariance, PTL

-----------------------------------------------------------------------------
(***************************************************************************)
(* The gate and the report, and the passing of time.                       *)
(***************************************************************************)
\* Whatever a new-risk-only scan enforces of what the baseline holds, the
\* diff of the same scan lists as worsened.
THEOREM WorsenedIsReported == Spec => []WorsenedRiskIsReported
<1>1. IInv => WorsenedRiskIsReported
    <2>. SUFFICES ASSUME IInv, NEW f \in Gate(NewOnlyScan).findings,
                         f.site \in Fingerprints(baseline.entries), "existing_risk" \notin f.suppressions
                  PROVE  \E c \in BaselineDiff(NewOnlyScan).existingWorsened : c.site = f.site
        BY DEF WorsenedRiskIsReported
    <2>. DEFINE config == PolicyConfig(NewOnlyScan, Repository)
                entries == baseline.entries
                c == [site |-> f.site, context |-> BaselineEntryContext(f)]
    <2>1. IsRepository(Repository) /\ IsConfig(config) /\ OneEntryEach(Repository)
        BY FilesMakeARepository, ConfigOfPolicy
           DEF IInv, FilesOK, OneEntryPerSite, OneEntryEach, Repository
    <2>2. /\ LoadedEntries(NewOnlyScan, Repository) = entries /\ config.newRiskOnly
          /\ f.site \in config.existing
        <3>1. Repository.baseline.entries = entries
            BY DEF Repository
        <3>. QED  BY <3>1, NewOnlyConfig
    <2>3. PICK g \in ArrivedAt(NewOnlyScan, Repository) :
              f = WithImpact(ApplyContext(g, config), config) /\ f \in Finding /\ f.site = g.site
        BY <2>1, ReportedFinding DEF ArrivedAt, Gate
    <2>. DEFINE h == ApplyContext(g, config)
    <2>4. g \in Finding /\ g.impact = "allow"
        BY <2>1, Arrived
    <2>5. /\ h \in Finding /\ h.site = g.site /\ h.impact = "allow" /\ h.sensitive = g.sensitive
          /\ Worsened(g, config) => h.severity = g.severity /\ h.confidence = g.confidence
          /\ h.suppressions = g.suppressions
                \union (IF config.changedOnly /\ ~g.touched THEN {"changed_resource_only"} ELSE {})
                \union (IF (config.newRiskOnly /\ g.site \in config.existing) /\ ~Worsened(g, config)
                        THEN {"existing_risk"} ELSE {})
        BY <2>1, <2>4, Applied
    <2>. HIDE DEF h, config
    <2>6. /\ f.suppressions = h.suppressions /\ f.severity = h.severity
          /\ f.confidence = h.confidence /\ f.sensitive = h.sensitive
          /\ f.impact \in {"allow", "warn", "block"}
        <3>1. f = WithImpact(h, config)
            BY <2>3 DEF h
        <3>2. LET k == WithImpact(h, config)
              IN  /\ k.suppressions = h.suppressions
                  /\ k.severity = h.severity /\ k.confidence = h.confidence /\ k.sensitive = h.sensitive
                  /\ k.impact = IF Suppressed(h) THEN "allow"
                                ELSE IF MeetsThreshold(h, config.blockOn) THEN "block"
                                ELSE IF MeetsThreshold(h, config.warnOn) THEN "warn" ELSE "allow"
            BY <2>5, ImpactOf
        <3>. QED  BY <3>1, <3>2
    <2>7. Worsened(g, config)
        BY <2>2, <2>3, <2>5, <2>6
    <2>8. PICK e \in entries : e.site = f.site
        BY DEF Fingerprints
    <2>9. e \in Entry /\ config.risks[e.site] = e.context
        BY <2>1, <2>2, <2>8, RiskOfEntry DEF config
    <2>10. RiskContextWorsened(RiskContextFromFinding(g), e.context)
        BY <2>3, <2>7, <2>8, <2>9 DEF Worsened, ExistingWorsened
    <2>11. RiskContextWorsened(RiskContextFromFinding(f), e.context)
        <3>1. f.severity = g.severity /\ f.confidence = g.confidence /\ f.sensitive = g.sensitive
            BY <2>5, <2>6, <2>7
        <3>2. "waiver" \in f.suppressions <=> "waiver" \in g.suppressions
            BY <2>5, <2>6
        <3>. QED  BY <2>3, <2>4, <2>6, <2>10, <3>1, <3>2, WorsenedAsReported
    <2>12. c.context = RiskContextFromFinding(f) /\ c.site = e.site
        BY <2>3, <2>8, RecordedAsItIs
    <2>13. Counterpart(entries, c) = {e}
        BY <2>8, <2>9, <2>12, CounterpartByFingerprint DEF IInv, OneEntryPerSite
    <2>14. c \in EntriesFromFindings(Gate(NewOnlyScan).findings)
        BY DEF EntriesFromFindings
    <2>15. (CHOOSE d \in Counterpart(entries, c) : TRUE).context = e.context
        BY <2>13
    <2>. HIDE DEF c, entries
    <2>16. c \in Diff(entries, Gate(NewOnlyScan).findings).existingWorsened
        BY <2>11, <2>12, <2>13, <2>14, <2>15 DEF Diff
    <2>17. c.site = f.site
        BY DEF c
    <2>. QED  BY <2>16, <2>17 DEF BaselineDiff, entries
<1>. QED  BY <1>1, Invariance, PTL

\* With the files untouched, no scan's decision moves towards allow as days pass.
THEOREM TimeOnlyTightens == Spec => []TimeNeverRelaxes
<1>1. IInv => TimeNeverRelaxes
    <2>. SUFFICES ASSUME IInv, NEW opts \in Scans, NEW days \in 1..(LastDay + 1)
                  PROVE  DecisionRank(Gate(opts).decision)
                            <= DecisionRank(Scan(opts, [Repository EXCEPT !.now = @ + days]).decision)
        BY DEF TimeNeverRelaxes
    <2>. DEFINE later == [Repository EXCEPT !.now = @ + days]
    <2>1. now \in Nat /\ days \in Nat /\ now <= now + days
        BY WaiverAssumption DEF IInv, FilesOK, Days
    <2>2. /\ later.plan = plan /\ later.policy = policy /\ later.waivers = waivers
          /\ later.baseline = baseline /\ later.now = now + days
        BY DEF Repository
    <2>3. /\ Repository.plan = plan /\ Repository.policy = policy /\ Repository.waivers = waivers
          /\ Repository.baseline = baseline /\ Repository.now = now
        BY DEF Repository
    <2>4. IsRepository(Repository) /\ baseline.expires \in Nat
        BY FilesMakeARepository DEF IInv, FilesOK
    <2>5. IsLater(Repository, later)
        <3>1. ASSUME NEW w \in waivers, Expired(w, now)
              PROVE  Expired(w, now + days)
            <4>1. w.expires \in Nat
                BY WaiverAssumption DEF IInv, FilesOK, Waiver, Days
            <4>. QED  BY <2>1, <3>1, <4>1 DEF Expired
        <3>. QED  BY <2>2, <2>3, <3>1 DEF IsLater
    <2>. HIDE DEF later
    <2>6. /\ opts.mode = "block"
          /\ DecisionRank("error") = 4
          /\ \A d \in Decisions : DecisionRank(d) \in 0..4
        BY ScansEnforce DEF DecisionRank, Decisions
    <2>7. CASE Refused(opts, later)
        <3>1. Scan(opts, later).decision = "error"
            BY <2>7 DEF Scan, Judge
        <3>2. Gate(opts).decision \in Decisions
            BY ScanDecides DEF Gate
        <3>. QED  BY <2>6, <3>1, <3>2 DEF later
    <2>8. CASE ~Refused(opts, later)
        <3>1. ~Refused(opts, Repository)
            BY <2>1, <2>2, <2>3, <2>4, <2>5, <2>8, RefusalStays
        <3>. DEFINE config == PolicyConfig(opts, Repository)
                    kept == {WithImpact(h, config) : h \in DeduplicateFindings(Judged(opts, Repository))}
                    more == {WithImpact(h, config) : h \in DeduplicateFindings(Judged(opts, later))}
        <3>2. Gate(opts).decision = DecisionFor(kept, "block")
            <4>1. Scan(opts, Repository) = [decision |-> DecisionFor(kept, opts.mode), findings |-> kept]
                BY <3>1, ScanJudges
            <4>. HIDE DEF kept
            <4>. QED  BY <2>6, <4>1 DEF Gate
        <3>3. Scan(opts, later).decision = DecisionFor(more, "block")
            <4>1. PolicyConfig(opts, later) = config
                BY <2>5, LaterConfig
            <4>. DEFINE its == PolicyConfig(opts, later)
                        all == {WithImpact(h, its) : h \in DeduplicateFindings(Judged(opts, later))}
            <4>2. Scan(opts, later) = [decision |-> DecisionFor(all, opts.mode), findings |-> all]
                BY <2>8, ScanJudges
            <4>3. all = more
                BY <4>1
            <4>4. Scan(opts, later).decision = DecisionFor(all, opts.mode)
                <5>. HIDE DEF all
                <5>. QED  BY <4>2
            <4>. HIDE DEF more, all
            <4>. QED  BY <2>6, <4>3, <4>4
        <3>4. ASSUME NEW f \in kept, f.impact \in {"block", "warn"}
              PROVE  f \in more
            <4>1. PICK h \in DeduplicateFindings(Judged(opts, Repository)) : f = WithImpact(h, config)
                OBVIOUS
            <4>2. h \in Finding /\ h.impact = "allow"
                <5>1. PICK g \in ArrivedAt(opts, Repository) : h = ApplyContext(g, config)
                    BY DEF DeduplicateFindings, Judged
                <5>2. g \in Finding /\ g.impact = "allow" /\ IsConfig(config)
                    BY <2>4, Arrived, ConfigOfPolicy
                <5>. QED  BY <5>1, <5>2, Applied
            <4>3. ~Suppressed(h)
                BY <3>4, <4>1, <4>2 DEF WithImpact
            <4>4. h \in DeduplicateFindings(Judged(opts, later))
                BY <2>4, <2>5, <4>3, EnforcedStays
            <4>. QED  BY <4>1, <4>4
        <3>. HIDE DEF kept, more
        <3>. QED  BY <3>2, <3>3, <3>4, DecisionOfImpacts DEF later
    <2>. QED  BY <2>7, <2>8
<1>. QED  BY <1>1, Invariance, PTL

-----------------------------------------------------------------------------
(***************************************************************************)
(* A fresh baseline accepts what it was taken of.                          *)
(***************************************************************************)
\* The repository once `baseline create` has run.
Rebaselined(repo, term) == [repo EXCEPT !.baseline = BaselineOf(repo, term)]

\* It differs in the baseline alone: the same findings arrive, and meet the same thresholds.
LEMMA RebaselinedScan ==
    ASSUME NEW term
    PROVE  LET next == Rebaselined(Repository, term)
               before == PolicyConfig(PlainScan, Repository)
               after == PolicyConfig(NewOnlyScan, next)
           IN  /\ IsRepository(Repository) => IsRepository(next)
               /\ next.baseline = BaselineOf(Repository, term)
               /\ ArrivedAt(NewOnlyScan, next) = ArrivedAt(PlainScan, Repository)
               /\ \A f : UpgradeForEnvironment(f, after) = UpgradeForEnvironment(f, before)
<1>. DEFINE next == Rebaselined(Repository, term)
<1>1. /\ next.plan = plan /\ next.policy = policy /\ next.waivers = waivers /\ next.now = now
      /\ next.baseline = BaselineOf(Repository, term)
    BY DEF Rebaselined, Repository
<1>2. /\ Repository.plan = plan /\ Repository.policy = policy /\ Repository.waivers = waivers
      /\ Repository.now = now
    BY DEF Repository
<1>3. NewOnlyScan.cloudContext = PlainScan.cloudContext
    BY DEF NewOnlyScan, BaselineScan, PlainScan
<1>. HIDE DEF next
<1>4. ArrivedAt(NewOnlyScan, next) = ArrivedAt(PlainScan, Repository)
    BY <1>1, <1>2, <1>3 DEF ArrivedAt, Reviewed, RawFindings
<1>5. /\ PolicyConfig(NewOnlyScan, next).environments = policy.environments
      /\ PolicyConfig(PlainScan, Repository).environments = policy.environments
    BY <1>1, <1>2 DEF PolicyConfig, ConfigWith
<1>6. IsRepository(Repository) => IsRepository(next)
    BY <1>1, <1>2 DEF IsRepository
<1>. QED  BY <1>1, <1>4, <1>5, <1>6 DEF UpgradeForEnvironment, next

\* What a scan of the plan alone keeps, the baseline taken of it lets pass.
LEMMA KeptIsAccepted ==
    ASSUME IInv, ~Refused(PlainScan, Repository), NEW term,
           NEW x \in ArrivedAt(PlainScan, Repository),
           ApplyContext(x, PolicyConfig(PlainScan, Repository))
               \in DeduplicateFindings(Judged(PlainScan, Repository))
    PROVE  LET after == PolicyConfig(NewOnlyScan, Rebaselined(Repository, term))
           IN  after.newRiskOnly /\ x.site \in after.existing /\ ~Worsened(x, after)
<1>. DEFINE before == PolicyConfig(PlainScan, Repository)
            next == Rebaselined(Repository, term)
            after == PolicyConfig(NewOnlyScan, next)
            k == ApplyContext(x, before)
            f == WithImpact(k, before)
            e == [site |-> f.site, context |-> BaselineEntryContext(f)]
            reported == Scan(PlainScan, Repository).findings
            entries == EntriesFromFindings(reported)
<1>1. IsRepository(Repository) /\ IsConfig(before) /\ IsRepository(next)
    BY FilesMakeARepository, ConfigOfPolicy, RebaselinedScan DEF IInv
<1>2. next.baseline.entries = entries
    <2>1. next.baseline = BaselineOf(Repository, term)
        BY RebaselinedScan
    <2>. HIDE DEF next
    <2>. QED  BY <2>1 DEF BaselineOf
<1>3. x \in Finding /\ x.impact = "allow" /\ x.suppressions \subseteq {"experimental", "waiver"}
    BY <1>1, Arrived
<1>4. /\ k \in Finding /\ k.site = x.site /\ k.impact = "allow" /\ k.sensitive = x.sensitive
      /\ k.severity >= x.severity /\ k.confidence >= x.confidence
      /\ "waiver" \in k.suppressions => "waiver" \in x.suppressions
    <2>. DEFINE u == UpgradeForEnvironment(x, before)
    <2>1. /\ k \in Finding /\ k.site = x.site /\ k.impact = "allow" /\ k.sensitive = x.sensitive
          /\ Worsened(x, before) => k.severity = x.severity /\ k.confidence = x.confidence
          /\ ~Worsened(x, before) => k.severity = u.severity /\ k.confidence = u.confidence
          /\ "waiver" \in k.suppressions => "waiver" \in x.suppressions
        BY <1>1, <1>3, Applied
    <2>2. /\ MinSeverity(x, before) \in 0..5 /\ MinConfidence(x, before) \in 0..4
          /\ u.severity = IF x.severity < MinSeverity(x, before) THEN MinSeverity(x, before) ELSE x.severity
          /\ u.confidence = IF x.confidence < MinConfidence(x, before) THEN MinConfidence(x, before) ELSE x.confidence
        BY <1>1, <1>3, RaisedFields
    <2>3. x.severity \in 1..5 /\ x.confidence \in 1..4
        BY <1>3 DEF Finding, Severities, Confidences
    <2>. HIDE DEF k, u
    <2>. QED  BY <2>1, <2>2, <2>3
<1>5. f \in reported
    <2>. DEFINE kept == {WithImpact(h, before) : h \in DeduplicateFindings(Judged(PlainScan, Repository))}
    <2>1. Scan(PlainScan, Repository) = [decision |-> DecisionFor(kept, PlainScan.mode), findings |-> kept]
        BY ScanJudges
    <2>2. f \in kept
        OBVIOUS
    <2>. HIDE DEF kept, f
    <2>. QED  BY <2>1, <2>2
<1>6. f.site = x.site
    BY <1>4, ImpactFinding
<1>7. e \in entries /\ e.site = x.site
    BY <1>5, <1>6 DEF EntriesFromFindings
<1>8. OneEntryEach(next)
    <2>1. entries \subseteq Entry /\ \A d, c \in entries : d.site = c.site => d = c
        BY <1>1, EntriesOfScan
    <2>. HIDE DEF entries, next
    <2>. QED  BY <1>2, <2>1 DEF OneEntryEach
<1>. HIDE DEF next, entries, e, f, k
<1>9. /\ LoadedEntries(NewOnlyScan, next) = entries /\ after.newRiskOnly
      /\ x.site \in after.existing
    BY <1>2, <1>7, NewOnlyConfig DEF Fingerprints
<1>10. x.site \in DOMAIN after.risks /\ after.risks[x.site] = BaselineEntryContext(f)
    <2>1. e.site \in DOMAIN after.risks /\ after.risks[e.site] = e.context
        BY <1>7, <1>8, <1>9, RiskOfEntry
    <2>. QED  BY <1>7, <2>1 DEF e
<1>11. ~RiskContextWorsened(RiskContextFromFinding(x), BaselineEntryContext(f))
    BY <1>3, <1>4, NoWorseThanWritten DEF f
<1>. QED  BY <1>9, <1>10, <1>11 DEF Worsened, ExistingWorsened, next

\* A --new-only scan is not blocked by what a baseline taken now would
\* record, unless a worsened risk was held back from its environment's threshold.
THEOREM FreshBaselinesAccept == Spec => []FreshBaselineAccepts
<1>1. IInv => FreshBaselineAccepts
    <2>. DEFINE before == PolicyConfig(PlainScan, Repository)
                arrived == ArrivedAt(PlainScan, Repository)
                HeldBack(f) == Worsened(f, before) /\ UpgradeForEnvironment(f, before) # f
    <2>. SUFFICES ASSUME IInv, NEW term \in BaselineTerms, ~Refused(PlainScan, Repository),
                         \A f \in arrived : ~HeldBack(f),
                         Scan(NewOnlyScan, Rebaselined(Repository, term)).decision = "block"
                  PROVE  FALSE
        BY DEF FreshBaselineAccepts, Rebaselined, ArrivedAt
    <2>. DEFINE next == Rebaselined(Repository, term)
                after == PolicyConfig(NewOnlyScan, next)
                A == Judged(PlainScan, Repository)
                B == Judged(NewOnlyScan, next)
    <2>1. /\ IsRepository(Repository) /\ IsRepository(next) /\ IsConfig(before) /\ IsConfig(after)
          /\ ArrivedAt(NewOnlyScan, next) = arrived
          /\ \A f : UpgradeForEnvironment(f, after) = UpgradeForEnvironment(f, before)
        BY FilesMakeARepository, ConfigOfPolicy, RebaselinedScan DEF IInv
    <2>. HIDE DEF next, before, after
    <2>2. PICK n \in DeduplicateFindings(B) : ~Suppressed(n)
        <3>. DEFINE kept == {WithImpact(h, after) : h \in DeduplicateFindings(B)}
        <3>1. ~Refused(NewOnlyScan, next)
            BY DEF Scan, Judge, next
        <3>2. Scan(NewOnlyScan, next) = [decision |-> DecisionFor(kept, NewOnlyScan.mode), findings |-> kept]
            BY <3>1, ScanJudges DEF after
        <3>3. DecisionFor(kept, NewOnlyScan.mode) = "block"
            <4>. HIDE DEF kept
            <4>. QED  BY <3>2 DEF next
        <3>4. \E f \in kept : f.impact = "block"
            BY <3>3 DEF DecisionFor
        <3>5. PICK h \in DeduplicateFindings(B) : WithImpact(h, after).impact = "block"
            BY <3>4
        <3>6. PICK y \in ArrivedAt(NewOnlyScan, next) : h = ApplyContext(y, after)
            BY DEF DeduplicateFindings, Judged, after
        <3>7. h.impact = "allow"
            BY <2>1, <3>6, Arrived, Applied
        <3>. QED  BY <3>5, <3>7 DEF WithImpact
    <2>3. PICK y \in arrived : n = ApplyContext(y, after) /\ n \in B
        BY <2>1 DEF DeduplicateFindings, Judged, after
    <2>. DEFINE a == ApplyContext(y, before)
    <2>4. a \in A /\ A \subseteq Finding /\ OnePerSite(A) /\ B \subseteq Finding
        BY <2>1, JudgedFindings DEF Judged, before
    <2>5. PICK k \in DeduplicateFindings(A) : k \in A /\ SameKey(a, k)
        BY <2>4, FirstOfKey
    <2>6. PICK x \in arrived : k = ApplyContext(x, before)
        BY <2>5 DEF Judged, before
    <2>. DEFINE h == ApplyContext(x, after)
    <2>7. after.newRiskOnly /\ x.site \in after.existing /\ ~Worsened(x, after)
        BY <2>5, <2>6, KeptIsAccepted DEF after, before, next
    <2>8. /\ x \in Finding /\ x.impact = "allow" /\ y \in Finding /\ y.impact = "allow"
        BY <2>1, Arrived
    <2>. DEFINE ux == UpgradeForEnvironment(x, before)
                uy == UpgradeForEnvironment(y, before)
    <2>9. /\ h \in Finding /\ h.site = x.site /\ "existing_risk" \in h.suppressions
          /\ h.severity = ux.severity /\ h.confidence = ux.confidence
        BY <2>1, <2>7, <2>8, Applied
    <2>10. /\ k.site = x.site /\ k.severity = ux.severity /\ k.confidence = ux.confidence
           /\ a.site = y.site /\ a.severity = uy.severity /\ a.confidence = uy.confidence
        <3>1. ASSUME NEW z \in arrived
              PROVE  LET u == UpgradeForEnvironment(z, before)
                         j == ApplyContext(z, before)
                     IN  j.site = z.site /\ j.severity = u.severity /\ j.confidence = u.confidence
            <4>. DEFINE u == UpgradeForEnvironment(z, before)
                        j == ApplyContext(z, before)
            <4>1. /\ j.site = z.site
                  /\ Worsened(z, before) => j.severity = z.severity /\ j.confidence = z.confidence
                  /\ ~Worsened(z, before) => j.severity = u.severity /\ j.confidence = u.confidence
                BY <2>1, Arrived, Applied
            <4>2. Worsened(z, before) => u = z
                OBVIOUS
            <4>. HIDE DEF u, j
            <4>. QED  BY <4>1, <4>2 DEF u, j
        <3>. QED  BY <2>6, <3>1
    <2>11. /\ n.site = y.site /\ n.severity <= uy.severity /\ n.confidence <= uy.confidence
        <3>1. /\ n.site = y.site
              /\ Worsened(y, after) => n.severity = y.severity /\ n.confidence = y.confidence
              /\ ~Worsened(y, after) => n.severity = uy.severity /\ n.confidence = uy.confidence
            BY <2>1, <2>3, <2>8, Applied
        <3>2. /\ MinSeverity(y, before) \in 0..5 /\ MinConfidence(y, before) \in 0..4
              /\ uy.severity = IF y.severity < MinSeverity(y, before) THEN MinSeverity(y, before) ELSE y.severity
              /\ uy.confidence = IF y.confidence < MinConfidence(y, before) THEN MinConfidence(y, before) ELSE y.confidence
            BY <2>1, <2>8, RaisedFields
        <3>3. y.severity \in 1..5 /\ y.confidence \in 1..4
            BY <2>8 DEF Finding, Severities, Confidences
        <3>. HIDE DEF uy
        <3>. QED  BY <3>1, <3>2, <3>3
    <2>. HIDE DEF a, h, ux, uy
    <2>12. SortsBefore(n, h)
        <3>1. h \in B
            BY <2>1, <2>6 DEF Judged, h, after
        <3>2. n # h
            BY <2>2, <2>9 DEF Suppressed
        <3>3. SameKey(n, h)
            BY <2>5, <2>9, <2>10, <2>11 DEF SameKey
        <3>. QED  BY <2>2, <3>1, <3>2, <3>3 DEF DeduplicateFindings
    <2>13. SortsBefore(k, a)
        <3>1. k # a
            <4>. SUFFICES ASSUME k = a PROVE FALSE
                OBVIOUS
            <4>1. x.site = y.site
                BY <2>10
            <4>2. x = y
                BY <2>1, <4>1, ArrivingIsUnique DEF ArrivedAt
            <4>. QED  BY <2>2, <2>3, <2>9, <4>2 DEF Suppressed, h
        <3>. QED  BY <2>4, <2>5, <3>1 DEF DeduplicateFindings, SameKey
    <2>14. ~SortsBefore(n, h)
        BY <2>3, <2>4, <2>5, <2>9, <2>10, <2>11, <2>13, SortsOneWay
    <2>. QED  BY <2>12, <2>14
<1>. QED  BY <1>1, Invariance, PTL
=============================================================================
