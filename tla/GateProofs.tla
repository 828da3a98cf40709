----------------------------- MODULE GateProofs -----------------------------
(***************************************************************************)
(* Lemmas about a scan as a function of what it reads: what applyContext,  *)
(* deduplication, the thresholds, waivers and baselines do to findings,    *)
(* for any findings, policies, waivers, baselines and flags.               *)
(***************************************************************************)
EXTENDS ScanGate, TLAPS, NaturalsInduction, WellFoundedInduction

-----------------------------------------------------------------------------
(***************************************************************************)
(* The decision model.                                                     *)
(***************************************************************************)

\* A configuration as far as it shapes findings.
IsConfig(config) == config.environments \in [EnvironmentNames -> Thresholds]

\* What a rule raises is a finding, and the only suppression it has is being experimental.
LEMMA RaisedFinding ==
    ASSUME NEW s \in Sites, NEW risk \in RiskAttributes
    PROVE  /\ FindingAt(s, risk) \in Finding
           /\ FindingAt(s, risk).site = s
           /\ FindingAt(s, risk).severity = risk.severity
           /\ FindingAt(s, risk).confidence = risk.confidence
           /\ FindingAt(s, risk).sensitive = risk.sensitive
           /\ FindingAt(s, risk).suppressions \subseteq {"experimental"}
<1>1. IF risk.experimental THEN {"experimental"} \in SUBSET SuppressionKinds
      ELSE {} \in SUBSET SuppressionKinds
    BY DEF SuppressionKinds
<1>2. "allow" \in Decisions
    BY DEF Decisions
<1>. QED  BY <1>1, <1>2 DEF FindingAt, Finding, RiskAttributes

\* A suppression adds its kind and changes nothing else.
LEMMA SuppressedFinding ==
    ASSUME NEW f \in Finding, NEW kind \in SuppressionKinds
    PROVE  /\ Suppress(f, kind) \in Finding
           /\ Suppress(f, kind) = [f EXCEPT !.suppressions = f.suppressions \union {kind}]
           /\ Suppress(f, kind).suppressions = f.suppressions \union {kind}
           /\ Suppress(f, kind).site = f.site
           /\ Suppress(f, kind).severity = f.severity
           /\ Suppress(f, kind).confidence = f.confidence
           /\ Suppress(f, kind).sensitive = f.sensitive
    BY DEF Suppress, Finding

\* An environment raises severity and confidence and touches nothing else.
LEMMA UpgradedFinding ==
    ASSUME NEW f \in Finding, NEW config, IsConfig(config)
    PROVE  /\ UpgradeForEnvironment(f, config) \in Finding
           /\ UpgradeForEnvironment(f, config).site = f.site
           /\ UpgradeForEnvironment(f, config).suppressions = f.suppressions
<1>1. Environment[f.site] \in EnvironmentNames
    BY DEF Finding, EnvironmentNames
<1>2. config.environments[Environment[f.site]] \in Thresholds
    BY <1>1 DEF IsConfig
<1>3. config.environments[Environment[f.site]].blockOn \in Threshold
    BY <1>2 DEF Thresholds
<1>. DEFINE scoped == config.environments[Environment[f.site]].blockOn
            severity == IF f.severity < scoped.severity THEN scoped.severity ELSE f.severity
            confidence == IF f.confidence < scoped.confidence THEN scoped.confidence ELSE f.confidence
<1>4. severity \in Severities /\ confidence \in Confidences
    BY <1>3 DEF Threshold, Finding, Severities, Confidences
<1>5. UpgradeForEnvironment(f, config)
          = [f EXCEPT !.severity = severity, !.confidence = confidence]
    BY DEF UpgradeForEnvironment
<1>. HIDE DEF severity, confidence
<1>. QED  BY <1>4, <1>5 DEF Finding

(***************************************************************************)
(* The three ways out of applyContext, for the finding as the scope of     *)
(* changed resources leaves it.                                            *)
(***************************************************************************)
InScope(finding, config) ==
    IF config.changedOnly /\ ~finding.touched
    THEN Suppress(finding, "changed_resource_only") ELSE finding

\* applyContext scopes a finding, and suppresses or raises what it leaves in scope.
LEMMA ContextCases ==
    ASSUME NEW finding, NEW config
    PROVE  LET f == InScope(finding, config)
               existing == config.newRiskOnly /\ f.site \in config.existing
           IN  \/ ApplyContext(finding, config) = f
               \/ /\ existing /\ ~ExistingWorsened(f, config)
                  /\ ApplyContext(finding, config)
                        = UpgradeForEnvironment(Suppress(f, "existing_risk"), config)
               \/ ApplyContext(finding, config) = UpgradeForEnvironment(f, config)
    BY DEF ApplyContext, InScope

\* The scope of changed resources adds at most its suppression.
LEMMA ScopedFinding ==
    ASSUME NEW finding \in Finding, NEW config
    PROVE  LET f == InScope(finding, config)
           IN  /\ f \in Finding
               /\ f.site = finding.site /\ f.severity = finding.severity
               /\ f.confidence = finding.confidence /\ f.sensitive = finding.sensitive
               /\ f.suppressions \subseteq finding.suppressions \union {"changed_resource_only"}
               /\ finding.suppressions \subseteq f.suppressions
<1>1. "changed_resource_only" \in SuppressionKinds
    BY DEF SuppressionKinds
<1>2. CASE config.changedOnly /\ ~finding.touched
    BY <1>1, <1>2, SuppressedFinding DEF InScope
<1>3. CASE ~(config.changedOnly /\ ~finding.touched)
    BY <1>3 DEF InScope
<1>. QED  BY <1>2, <1>3

(***************************************************************************)
(* applyContext keeps the site, and suppresses as existing risk only what  *)
(* the baseline knows and what is, in scope, no worse.                     *)
(***************************************************************************)
LEMMA ContextFinding ==
    ASSUME NEW finding \in Finding, NEW config, IsConfig(config)
    PROVE  /\ ApplyContext(finding, config) \in Finding
           /\ ApplyContext(finding, config).site = finding.site
           /\ "existing_risk" \notin finding.suppressions
              /\ "existing_risk" \in ApplyContext(finding, config).suppressions =>
                    ~ExistingWorsened(InScope(finding, config), config)
<1>. DEFINE f == InScope(finding, config)
<1>1. /\ f \in Finding /\ f.site = finding.site
      /\ f.suppressions \subseteq finding.suppressions \union {"changed_resource_only"}
    BY ScopedFinding
<1>2. "existing_risk" \in SuppressionKinds
    BY DEF SuppressionKinds
<1>. HIDE DEF f
<1>3. /\ Suppress(f, "existing_risk") \in Finding
      /\ Suppress(f, "existing_risk").site = finding.site
    BY <1>1, <1>2, SuppressedFinding
<1>4. CASE ApplyContext(finding, config) = f
    BY <1>1, <1>4
<1>5. CASE /\ ~ExistingWorsened(f, config)
           /\ ApplyContext(finding, config)
                 = UpgradeForEnvironment(Suppress(f, "existing_risk"), config)
    BY <1>3, <1>5, UpgradedFinding DEF f
<1>6. CASE ApplyContext(finding, config) = UpgradeForEnvironment(f, config)
    BY <1>1, <1>6, UpgradedFinding
<1>. QED  BY <1>4, <1>5, <1>6, ContextCases DEF f

\* The summary counts a finding on one side of the thresholds and changes nothing else.
LEMMA ImpactFinding ==
    ASSUME NEW f \in Finding, NEW config
    PROVE  /\ WithImpact(f, config) \in Finding
           /\ WithImpact(f, config).site = f.site
           /\ WithImpact(f, config).suppressions = f.suppressions
<1>. DEFINE impact ==
            CASE MeetsThreshold(f, config.blockOn) -> "block"
              [] ~MeetsThreshold(f, config.blockOn) /\ MeetsThreshold(f, config.warnOn) -> "warn"
              [] OTHER -> f.impact
<1>1. impact \in Decisions
    BY DEF Decisions, Finding
<1>2. WithImpact(f, config) = IF Suppressed(f) THEN f ELSE [f EXCEPT !.impact = impact]
    BY DEF WithImpact
<1>. HIDE DEF impact
<1>. QED  BY <1>1, <1>2 DEF Finding

\* Every finding of a decision comes from one that went into it.
LEMMA Origin ==
    ASSUME NEW findings, NEW config, NEW f \in EvaluatePolicy(findings, config).findings
    PROVE  \E g \in findings : f = WithImpact(ApplyContext(g, config), config)
    BY DEF EvaluatePolicy, DeduplicateFindings

-----------------------------------------------------------------------------
(***************************************************************************)
(* A scan.                                                                 *)
(***************************************************************************)
IsRepository(repo) ==
    /\ DOMAIN repo.plan \subseteq Sites
    /\ \A s \in DOMAIN repo.plan : repo.plan[s] \in RiskAttributes
    /\ IsPolicy(repo.policy)

\* A finding as it reaches EvaluatePolicy: raised at a site, and waived or not.
Arrives(g, repo) ==
    /\ g \in Finding
    /\ g.site \in DOMAIN repo.plan
    /\ g.severity = repo.plan[g.site].severity
    /\ g.confidence = repo.plan[g.site].confidence
    /\ g.sensitive = repo.plan[g.site].sensitive
    /\ g.suppressions \subseteq {"experimental", "waiver"}
    /\ "waiver" \in g.suppressions =>
          /\ repo.policy.waiverFile
          /\ \E w \in repo.waivers : ~Expired(w, repo.now) /\ g.site \in w.scope

\* Rules raise findings at the sites of the plan, unsuppressed unless experimental.
LEMMA RawFinding ==
    ASSUME NEW repo, IsRepository(repo), NEW opts, NEW g \in RawFindings(opts, repo)
    PROVE  /\ g.site \in DOMAIN repo.plan
           /\ g = FindingAt(g.site, repo.plan[g.site])
           /\ g \in Finding
           /\ Arrives(g, repo)
           /\ g.suppressions \subseteq {"experimental"}
<1>1. PICK s \in DOMAIN repo.plan : g = FindingAt(s, repo.plan[s])
    BY DEF RawFindings
<1>2. s \in Sites /\ repo.plan[s] \in RiskAttributes
    BY DEF IsRepository
<1>3. g.site = s
    BY <1>1, <1>2, RaisedFinding
<1>. QED  BY <1>1, <1>2, <1>3, RaisedFinding DEF Arrives

\* Waivers suppress some of what was raised: those findings a waiver in force matches.
LEMMA ArrivingFinding ==
    ASSUME NEW repo, IsRepository(repo), NEW opts, NEW g \in Reviewed(RawFindings(opts, repo), repo)
    PROVE  /\ Arrives(g, repo)
           /\ g \in Finding
           /\ \E raw \in RawFindings(opts, repo) :
                 /\ raw.site = g.site
                 /\ \/ g = raw /\ (repo.policy.waiverFile => ~ \E w \in repo.waivers : Matches(w, raw, repo.now))
                    \/ /\ g = Suppress(raw, "waiver") /\ repo.policy.waiverFile
                       /\ \E w \in repo.waivers : Matches(w, raw, repo.now)
<1>1. CASE repo.policy.waiverFile
    <2>1. PICK raw \in RawFindings(opts, repo) :
              g = IF \E w \in repo.waivers : Matches(w, raw, repo.now) THEN Suppress(raw, "waiver") ELSE raw
        BY <1>1 DEF Reviewed, ApplyWaivers
    <2>2. Arrives(raw, repo) /\ raw \in Finding /\ raw.suppressions \subseteq {"experimental"}
        BY RawFinding
    <2>3. CASE \E w \in repo.waivers : Matches(w, raw, repo.now)
        <3>1. g = Suppress(raw, "waiver")
            BY <2>1, <2>3
        <3>2. "waiver" \in SuppressionKinds
            BY DEF SuppressionKinds
        <3>3. /\ g \in Finding /\ g.site = raw.site /\ g.severity = raw.severity
              /\ g.confidence = raw.confidence /\ g.sensitive = raw.sensitive
              /\ g.suppressions = raw.suppressions \union {"waiver"}
            BY <2>2, <3>1, <3>2, SuppressedFinding
        <3>. QED  BY <1>1, <2>2, <2>3, <3>1, <3>3 DEF Arrives, Matches
    <2>4. CASE ~ \E w \in repo.waivers : Matches(w, raw, repo.now)
        BY <2>1, <2>2, <2>4
    <2>. QED  BY <2>3, <2>4
<1>2. CASE ~repo.policy.waiverFile
    <2>1. g \in RawFindings(opts, repo)
        BY <1>2 DEF Reviewed
    <2>. QED  BY <1>2, <2>1, RawFinding
<1>. QED  BY <1>1, <1>2

\* One finding arrives at a site.
LEMMA ArrivingIsUnique ==
    ASSUME NEW repo, IsRepository(repo), NEW opts,
           NEW g \in Reviewed(RawFindings(opts, repo), repo),
           NEW h \in Reviewed(RawFindings(opts, repo), repo), g.site = h.site
    PROVE  g = h
<1>1. PICK r \in RawFindings(opts, repo) :
          /\ r.site = g.site
          /\ \/ g = r /\ (repo.policy.waiverFile => ~ \E w \in repo.waivers : Matches(w, r, repo.now))
             \/ /\ g = Suppress(r, "waiver") /\ repo.policy.waiverFile
                /\ \E w \in repo.waivers : Matches(w, r, repo.now)
    BY ArrivingFinding
<1>2. PICK q \in RawFindings(opts, repo) :
          /\ q.site = h.site
          /\ \/ h = q /\ (repo.policy.waiverFile => ~ \E w \in repo.waivers : Matches(w, q, repo.now))
             \/ /\ h = Suppress(q, "waiver") /\ repo.policy.waiverFile
                /\ \E w \in repo.waivers : Matches(w, q, repo.now)
    BY ArrivingFinding
<1>3. r = q
    BY <1>1, <1>2, RawFinding
<1>. QED  BY <1>1, <1>2, <1>3

\* A scan's configuration has thresholds for every environment.
LEMMA ConfigOfPolicy ==
    ASSUME NEW repo, IsRepository(repo), NEW opts
    PROVE  IsConfig(PolicyConfig(opts, repo))
    BY DEF IsRepository, IsPolicy, IsConfig, PolicyConfig, ConfigWith

\* What a scan reports is what arrived, through applyContext and the summary.
LEMMA ReportedFinding ==
    ASSUME NEW repo, IsRepository(repo), NEW opts, NEW f \in Scan(opts, repo).findings
    PROVE  \E g \in Reviewed(RawFindings(opts, repo), repo) :
              LET config == PolicyConfig(opts, repo)
              IN  /\ f = WithImpact(ApplyContext(g, config), config)
                  /\ f \in Finding /\ f.site = g.site
                  /\ "existing_risk" \in f.suppressions =>
                        ~ExistingWorsened(InScope(g, config), config)
<1>. DEFINE config == PolicyConfig(opts, repo)
            arrived == Reviewed(RawFindings(opts, repo), repo)
<1>1. f \in EvaluatePolicy(arrived, config).findings
    BY DEF Scan, Judge
<1>2. IsConfig(config)
    BY ConfigOfPolicy
<1>3. \A g \in arrived : g \in Finding /\ "existing_risk" \notin g.suppressions
    BY ArrivingFinding DEF Arrives
<1>. HIDE DEF config, arrived
<1>4. PICK g \in arrived : f = WithImpact(ApplyContext(g, config), config)
    BY <1>1, Origin
<1>5. g \in Finding /\ "existing_risk" \notin g.suppressions
    BY <1>3
<1>6. /\ ApplyContext(g, config) \in Finding
      /\ ApplyContext(g, config).site = g.site
      /\ "existing_risk" \in ApplyContext(g, config).suppressions =>
            ~ExistingWorsened(InScope(g, config), config)
    BY <1>2, <1>5, ContextFinding
<1>7. /\ f \in Finding
      /\ f.site = ApplyContext(g, config).site
      /\ f.suppressions = ApplyContext(g, config).suppressions
    BY <1>4, <1>6, ImpactFinding
<1>8. /\ f = WithImpact(ApplyContext(g, config), config)
      /\ f \in Finding /\ f.site = g.site
      /\ "existing_risk" \in f.suppressions => ~ExistingWorsened(InScope(g, config), config)
    BY <1>4, <1>6, <1>7
<1>. QED  BY <1>8 DEF config, arrived

\* A scan reports at most one finding of a fingerprint.
LEMMA ReportedIsUnique ==
    ASSUME NEW repo, IsRepository(repo), NEW opts,
           NEW f \in Scan(opts, repo).findings, NEW h \in Scan(opts, repo).findings, f.site = h.site
    PROVE  f = h
<1>. DEFINE config == PolicyConfig(opts, repo)
            arrived == Reviewed(RawFindings(opts, repo), repo)
<1>1. PICK g \in arrived : f = WithImpact(ApplyContext(g, config), config) /\ f.site = g.site
    BY ReportedFinding
<1>2. PICK q \in arrived : h = WithImpact(ApplyContext(q, config), config) /\ h.site = q.site
    BY ReportedFinding
<1>3. g = q
    BY <1>1, <1>2, ArrivingIsUnique
<1>. QED  BY <1>1, <1>2, <1>3

\* EvaluatePolicy always decides.
LEMMA ScanDecides ==
    ASSUME NEW opts, NEW repo
    PROVE  Scan(opts, repo).decision \in Decisions \ {"none"}
<1>1. \A findings, mode : DecisionFor(findings, mode) \in {"allow", "warn", "block"}
    BY DEF DecisionFor
<1>. QED  BY <1>1 DEF Scan, Judge, EvaluatePolicy, Decisions

-----------------------------------------------------------------------------
(***************************************************************************)
(* Baseline entries.                                                       *)
(***************************************************************************)
LEMMA EntryOfFinding ==
    ASSUME NEW f \in Finding
    PROVE  [site |-> f.site, context |-> BaselineEntryContext(f)] \in Entry
<1>. DEFINE stripped == [f EXCEPT !.suppressions = f.suppressions \ {"existing_risk"}]
            context == RiskContextFromFinding(stripped)
<1>1. stripped \in Finding
    BY DEF Finding
<1>2. context \in RiskContext
    <2>1. /\ stripped.severity \in Severities /\ stripped.confidence \in Confidences
          /\ stripped.impact \in Decisions /\ stripped.sensitive \in BOOLEAN
        BY <1>1 DEF Finding
    <2>2. /\ (stripped.site \in CloudEvidence) \in BOOLEAN
          /\ ("waiver" \in stripped.suppressions) \in BOOLEAN
          /\ Suppressed(stripped) \in BOOLEAN
        BY DEF Suppressed
    <2>. HIDE DEF stripped
    <2>. QED  BY <2>1, <2>2 DEF RiskContextFromFinding, RiskContext
<1>3. \A severity : DecisionFromSeverity(severity) \in Decisions
    BY DEF DecisionFromSeverity, Decisions
<1>4. BaselineEntryContext(f) =
          IF "existing_risk" \in f.suppressions /\ context.decision = "allow"
          THEN [context EXCEPT !.decision = DecisionFromSeverity(f.severity)]
          ELSE context
    BY DEF BaselineEntryContext
<1>. HIDE DEF context
<1>5. BaselineEntryContext(f) \in RiskContext
    BY <1>2, <1>3, <1>4 DEF RiskContext
<1>6. f.site \in Sites
    BY DEF Finding
<1>. QED  BY <1>5, <1>6 DEF Entry

\* A baseline holds one entry of a fingerprint, because a scan reports one finding of it.
LEMMA EntriesOfScan ==
    ASSUME NEW repo, IsRepository(repo), NEW opts
    PROVE  LET entries == EntriesFromFindings(Scan(opts, repo).findings)
           IN  /\ entries \subseteq Entry
               /\ \A e, d \in entries : e.site = d.site => e = d
<1>1. \A f \in Scan(opts, repo).findings : f \in Finding
    BY ReportedFinding
<1>2. \A f, h \in Scan(opts, repo).findings : f.site = h.site => f = h
    BY ReportedIsUnique
<1>. DEFINE findings == Scan(opts, repo).findings
<1>. HIDE DEF findings
<1>3. EntriesFromFindings(findings) \subseteq Entry
    BY <1>1, EntryOfFinding DEF EntriesFromFindings, findings
<1>4. ASSUME NEW e \in EntriesFromFindings(findings), NEW d \in EntriesFromFindings(findings),
             e.site = d.site
      PROVE  e = d
    <2>1. PICK f \in findings : e = [site |-> f.site, context |-> BaselineEntryContext(f)]
        BY DEF EntriesFromFindings
    <2>2. PICK h \in findings : d = [site |-> h.site, context |-> BaselineEntryContext(h)]
        BY DEF EntriesFromFindings
    <2>3. f = h
        BY <1>2, <1>4, <2>1, <2>2 DEF findings
    <2>. QED  BY <2>1, <2>2, <2>3
<1>. QED  BY <1>3, <1>4 DEF findings

\* Of one entry, the last is that entry.
LEMMA LastOfOne ==
    ASSUME NEW e \in Entry
    PROVE  LastEntry({e}) = e
<1>1. e.site \in Nat
    BY DecisionAssumption DEF Entry
<1>2. SortsAfter(e, e)
    BY <1>1 DEF SortsAfter
<1>. QED  BY <1>2 DEF LastEntry


-----------------------------------------------------------------------------
(***************************************************************************)
(* Deduplication.  Severities and confidences are bounded and sites are    *)
(* natural numbers, so SortFindings' order has a first element in every    *)
(* nonempty set of findings.                                               *)
(***************************************************************************)
LEMMA SmallestOf ==
    ASSUME NEW S \in SUBSET Nat, S # {}
    PROVE  \E m \in S : \A n \in S : m <= n
<1>1. PICK m \in S : \A n \in S : <<n, m>> \notin OpToRel(<, Nat)
    BY NatLessThanWellFounded, WFMin
<1>2. OpToRel(<, Nat) = {ss \in Nat \X Nat : ss[1] < ss[2]}
    BY DEF OpToRel
<1>3. \A n \in S : m <= n
    <2>. SUFFICES ASSUME NEW n \in S, n < m PROVE FALSE
        OBVIOUS
    <2>1. <<n, m>> \in OpToRel(<, Nat)
        BY <1>2
    <2>. QED  BY <1>1, <2>1
<1>. QED  BY <1>3

\* A set of numbers under a bound has a greatest.
LEMMA GreatestOf ==
    ASSUME NEW N \in Nat, NEW S, S # {}, \A n \in S : n \in 0..N
    PROVE  Max(S) \in S /\ Max(S) \in 0..N /\ \A n \in S : Max(S) >= n
<1>. DEFINE below == {N - n : n \in S}
<1>1. below \in SUBSET Nat /\ below # {}
    OBVIOUS
<1>. HIDE DEF below
<1>2. PICK least \in below : \A m \in below : least <= m
    BY <1>1, SmallestOf
<1>. USE DEF below
<1>3. PICK top \in S : least = N - top
    BY <1>2
<1>4. ASSUME NEW n \in S
      PROVE  top >= n
    <2>1. N - n \in below
        OBVIOUS
    <2>2. N - top <= N - n
        BY <1>2, <1>3, <2>1
    <2>3. n \in 0..N /\ top \in 0..N
        OBVIOUS
    <2>. HIDE DEF below
    <2>. QED  BY <2>2, <2>3
<1>5. Max(S) \in S /\ \A n \in S : Max(S) >= n
    BY <1>3, <1>4 DEF Max
<1>. QED  BY <1>5

\* What an ID reads back as is a number the format can hold.
LEMMA ReadIDs ==
    ASSUME NEW number \in Nat
    PROVE  ReadID(number) \in 0..MaxReadID
    BY WaiverAssumption DEF ReadID

\* The next ID is above what every ID of the file reads back as, and one above one of them.
LEMMA NextIDIsAboveReads ==
    ASSUME NEW file, file \subseteq Waiver
    PROVE  /\ NextID(file) \in 1..(MaxReadID + 1)
           /\ \A w \in file : ReadID(w.id) < NextID(file)
           /\ NextID(file) = 1 \/ \E w \in file : NextID(file) = ReadID(w.id) + 1
<1>. DEFINE numbers == {ReadID(w.id) : w \in file} \union {0}
            top == Max(numbers)
<1>1. \A n \in numbers : n \in 0..MaxReadID
    <2>1. \A w \in file : w.id \in Nat
        BY WaiverAssumption DEF Waiver
    <2>2. 0 \in 0..MaxReadID
        BY WaiverAssumption
    <2>. QED  BY <2>1, <2>2, ReadIDs
<1>2. MaxReadID \in Nat /\ numbers # {}
    BY WaiverAssumption
<1>3. \A w \in file : ReadID(w.id) \in numbers
    OBVIOUS
<1>4. \A n \in numbers : n = 0 \/ \E w \in file : n = ReadID(w.id)
    OBVIOUS
<1>5. NextID(file) = top + 1
    BY DEF NextID
<1>. HIDE DEF numbers
<1>6. top \in numbers /\ top \in 0..MaxReadID /\ \A n \in numbers : top >= n
    BY <1>1, <1>2, GreatestOf
<1>. HIDE DEF top
<1>7. NextID(file) \in 1..(MaxReadID + 1)
    BY <1>2, <1>5, <1>6
<1>8. \A w \in file : ReadID(w.id) < NextID(file)
    <2>1. ASSUME NEW w \in file
          PROVE  ReadID(w.id) < NextID(file)
        <3>1. PICK n : n = ReadID(w.id)
            OBVIOUS
        <3>2. n \in 0..MaxReadID /\ n <= top
            BY <1>1, <1>3, <1>6, <3>1
        <3>3. n < top + 1
            BY <1>2, <1>6, <3>2
        <3>. QED  BY <1>5, <3>1, <3>3
    <2>. QED  BY <2>1
<1>9. NextID(file) = 1 \/ \E w \in file : NextID(file) = ReadID(w.id) + 1
    BY <1>4, <1>5, <1>6
<1>. QED  BY <1>7, <1>8, <1>9

\* No two findings of a set share their fingerprint.
OnePerSite(A) == \A f, g \in A : f.site = g.site => f = g

\* Of the findings with one key, deduplication keeps one.
LEMMA FirstOfKey ==
    ASSUME NEW A, A \subseteq Finding, OnePerSite(A), NEW f \in A
    PROVE  \E n \in DeduplicateFindings(A) : n \in A /\ SameKey(f, n)
<1>. DEFINE K == {g \in A : SameKey(f, g)}
            Severity == {5 - g.severity : g \in K}
            Confidence(s) == {4 - g.confidence : g \in {h \in K : h.severity = s}}
            Site(s, c) == {g.site : g \in {h \in K : h.severity = s /\ h.confidence = c}}
<1>1. f \in K /\ \A g \in K : /\ g \in A /\ SameKey(f, g) /\ g.site \in Nat
                              /\ g.severity \in 1..5 /\ g.confidence \in 1..4
    BY DecisionAssumption DEF SameKey, Finding, Severities, Confidences
<1>2. PICK a \in K : \A g \in K : g.severity <= a.severity
    <2>1. Severity \subseteq Nat /\ Severity # {}
        BY <1>1
    <2>2. PICK m \in Severity : \A n \in Severity : m <= n
        BY <2>1, SmallestOf
    <2>3. PICK a \in K : m = 5 - a.severity
        BY <2>2
    <2>4. \A g \in K : 5 - a.severity <= 5 - g.severity
        BY <2>2, <2>3
    <2>. QED  BY <1>1, <2>3, <2>4
<1>3. PICK b \in K : /\ b.severity = a.severity
                     /\ \A g \in K : g.severity = a.severity => g.confidence <= b.confidence
    <2>1. Confidence(a.severity) \subseteq Nat /\ Confidence(a.severity) # {}
        BY <1>1, <1>2
    <2>2. PICK m \in Confidence(a.severity) : \A n \in Confidence(a.severity) : m <= n
        BY <2>1, SmallestOf
    <2>3. PICK b \in K : b.severity = a.severity /\ m = 4 - b.confidence
        BY <2>2
    <2>4. \A g \in K : g.severity = a.severity => 4 - b.confidence <= 4 - g.confidence
        BY <2>2, <2>3
    <2>. QED  BY <1>1, <2>3, <2>4
<1>4. PICK c \in K : /\ c.severity = a.severity /\ c.confidence = b.confidence
                     /\ \A g \in K : g.severity = a.severity /\ g.confidence = b.confidence
                                        => c.site <= g.site
    <2>1. Site(a.severity, b.confidence) \subseteq Nat /\ Site(a.severity, b.confidence) # {}
        BY <1>1, <1>3
    <2>2. PICK m \in Site(a.severity, b.confidence) : \A n \in Site(a.severity, b.confidence) : m <= n
        BY <2>1, SmallestOf
    <2>3. PICK c \in K : c.severity = a.severity /\ c.confidence = b.confidence /\ m = c.site
        BY <2>2
    <2>. QED  BY <2>2, <2>3
<1>5. ASSUME NEW g \in A \ {c}, SameKey(c, g)
      PROVE  SortsBefore(c, g)
    <2>1. g \in K
        BY <1>1, <1>5 DEF SameKey
    <2>2. g.site # c.site
        BY <1>1, <1>5 DEF OnePerSite
    <2>. HIDE DEF K
    <2>. QED  BY <1>1, <1>2, <1>3, <1>4, <2>1, <2>2 DEF SortsBefore
<1>6. c \in DeduplicateFindings(A)
    BY <1>1, <1>5 DEF DeduplicateFindings
<1>. QED  BY <1>1, <1>6

-----------------------------------------------------------------------------
(***************************************************************************)
(* applyContext, field by field.                                           *)
(***************************************************************************)
MinSeverity(f, config) == config.environments[Environment[f.site]].blockOn.severity
MinConfidence(f, config) == config.environments[Environment[f.site]].blockOn.confidence

\* An environment raises severity and confidence to its own.
LEMMA RaisedFields ==
    ASSUME NEW f \in Finding, NEW config, IsConfig(config)
    PROVE  LET u == UpgradeForEnvironment(f, config)
               severity == MinSeverity(f, config)
               confidence == MinConfidence(f, config)
           IN  /\ severity \in 0..5 /\ confidence \in 0..4
               /\ u \in Finding
               /\ u.severity = IF f.severity < severity THEN severity ELSE f.severity
               /\ u.confidence = IF f.confidence < confidence THEN confidence ELSE f.confidence
               /\ u.site = f.site /\ u.suppressions = f.suppressions /\ u.impact = f.impact
               /\ u.sensitive = f.sensitive /\ u.touched = f.touched
<1>1. Environment[f.site] \in EnvironmentNames
    BY DEF Finding, EnvironmentNames
<1>2. config.environments[Environment[f.site]] \in Thresholds
    BY <1>1 DEF IsConfig
<1>3. config.environments[Environment[f.site]].blockOn \in Threshold
    BY <1>2 DEF Thresholds
<1>4. MinSeverity(f, config) \in 0..5 /\ MinConfidence(f, config) \in 0..4
    BY <1>3 DEF Threshold, MinSeverity, MinConfidence
<1>. DEFINE severity == IF f.severity < MinSeverity(f, config) THEN MinSeverity(f, config) ELSE f.severity
            confidence == IF f.confidence < MinConfidence(f, config) THEN MinConfidence(f, config) ELSE f.confidence
<1>5. UpgradeForEnvironment(f, config) = [f EXCEPT !.severity = severity, !.confidence = confidence]
    BY DEF UpgradeForEnvironment, MinSeverity, MinConfidence
<1>6. UpgradeForEnvironment(f, config) \in Finding
    BY UpgradedFinding
<1>7. /\ UpgradeForEnvironment(f, config).severity = severity
      /\ UpgradeForEnvironment(f, config).confidence = confidence
      /\ UpgradeForEnvironment(f, config).site = f.site
      /\ UpgradeForEnvironment(f, config).suppressions = f.suppressions
      /\ UpgradeForEnvironment(f, config).impact = f.impact
      /\ UpgradeForEnvironment(f, config).sensitive = f.sensitive
      /\ UpgradeForEnvironment(f, config).touched = f.touched
    <2>. HIDE DEF severity, confidence
    <2>. QED  BY <1>5 DEF Finding
<1>. QED  BY <1>4, <1>6, <1>7

\* What is alike is raised alike.
LEMMA RaisedAlike ==
    ASSUME NEW f \in Finding, NEW g \in Finding, NEW config, IsConfig(config),
           f.site = g.site, f.severity = g.severity, f.confidence = g.confidence
    PROVE  /\ UpgradeForEnvironment(f, config).severity = UpgradeForEnvironment(g, config).severity
           /\ UpgradeForEnvironment(f, config).confidence = UpgradeForEnvironment(g, config).confidence
    BY DEF UpgradeForEnvironment, Finding

\* What a suppression keeps.
LEMMA SuppressedFields ==
    ASSUME NEW f \in Finding, NEW kind \in SuppressionKinds
    PROVE  LET s == Suppress(f, kind)
           IN  /\ s \in Finding
               /\ s.site = f.site /\ s.severity = f.severity /\ s.confidence = f.confidence
               /\ s.sensitive = f.sensitive /\ s.touched = f.touched /\ s.impact = f.impact
               /\ s.suppressions = f.suppressions \union {kind}
<1>1. Suppress(f, kind) \in Finding /\ Suppress(f, kind) = [f EXCEPT !.suppressions = f.suppressions \union {kind}]
    BY SuppressedFinding
<1>. QED  BY <1>1 DEF Finding

\* The scope of changed resources keeps all but the suppressions.
LEMMA ScopedFields ==
    ASSUME NEW g \in Finding, NEW config
    PROVE  LET f == InScope(g, config)
           IN  /\ f \in Finding
               /\ f.site = g.site /\ f.severity = g.severity /\ f.confidence = g.confidence
               /\ f.sensitive = g.sensitive /\ f.touched = g.touched /\ f.impact = g.impact
               /\ f.suppressions = g.suppressions \union
                     IF config.changedOnly /\ ~g.touched THEN {"changed_resource_only"} ELSE {}
<1>1. "changed_resource_only" \in SuppressionKinds
    BY DEF SuppressionKinds
<1>. QED  BY <1>1, SuppressedFields DEF InScope

(***************************************************************************)
(* As findings arrive with impact "allow", being out of scope does not     *)
(* change whether a finding has worsened.                                  *)
(***************************************************************************)
LEMMA WorsenedInScope ==
    ASSUME NEW g \in Finding, g.impact = "allow", NEW config
    PROVE  ExistingWorsened(InScope(g, config), config) <=> ExistingWorsened(g, config)
<1>. DEFINE f == InScope(g, config)
<1>1. /\ f.site = g.site /\ f.severity = g.severity /\ f.confidence = g.confidence
      /\ f.sensitive = g.sensitive /\ f.impact = "allow"
      /\ ("waiver" \in f.suppressions <=> "waiver" \in g.suppressions)
    <2>1. /\ f.site = g.site /\ f.severity = g.severity /\ f.confidence = g.confidence
          /\ f.sensitive = g.sensitive /\ f.impact = g.impact
          /\ f.suppressions = g.suppressions \union
                IF config.changedOnly /\ ~g.touched THEN {"changed_resource_only"} ELSE {}
        BY ScopedFields
    <2>. HIDE DEF f
    <2>. QED  BY <2>1
<1>2. ~(DecisionRank("allow") > DecisionRank("allow"))
    BY DEF DecisionRank
<1>. HIDE DEF f
<1>3. ASSUME NEW risk
      PROVE  RiskContextWorsened(RiskContextFromFinding(f), risk) <=>
                 RiskContextWorsened(RiskContextFromFinding(g), risk)
    BY <1>1, <1>2 DEF RiskContextWorsened, RiskContextFromFinding
<1>. QED  BY <1>1, <1>3 DEF ExistingWorsened, f

(***************************************************************************)
(* A finding after applyContext: a worsened existing risk is held as it    *)
(* is, and everything else is raised to its environment's threshold.       *)
(***************************************************************************)
LEMMA Applied ==
    ASSUME NEW g \in Finding, g.impact = "allow", NEW config, IsConfig(config)
    PROVE  LET h == ApplyContext(g, config)
               u == UpgradeForEnvironment(g, config)
               known == config.newRiskOnly /\ g.site \in config.existing
           IN  /\ h \in Finding /\ h.site = g.site /\ h.impact = "allow"
               /\ h.sensitive = g.sensitive
               /\ Worsened(g, config) => h.severity = g.severity /\ h.confidence = g.confidence
               /\ ~Worsened(g, config) => h.severity = u.severity /\ h.confidence = u.confidence
               /\ h.suppressions = g.suppressions
                     \union (IF config.changedOnly /\ ~g.touched THEN {"changed_resource_only"} ELSE {})
                     \union (IF known /\ ~Worsened(g, config) THEN {"existing_risk"} ELSE {})
<1>. DEFINE f == InScope(g, config)
            existing == config.newRiskOnly /\ f.site \in config.existing
<1>1. /\ f \in Finding
      /\ f.site = g.site /\ f.severity = g.severity /\ f.confidence = g.confidence
      /\ f.sensitive = g.sensitive /\ f.touched = g.touched /\ f.impact = g.impact
      /\ f.suppressions = g.suppressions \union
            IF config.changedOnly /\ ~g.touched THEN {"changed_resource_only"} ELSE {}
    BY ScopedFields
<1>2. existing /\ ExistingWorsened(f, config) <=> Worsened(g, config)
    BY <1>1, WorsenedInScope DEF Worsened
<1>3. ApplyContext(g, config) =
          CASE existing /\ ExistingWorsened(f, config) -> f
            [] existing /\ ~ExistingWorsened(f, config) ->
                  UpgradeForEnvironment(Suppress(f, "existing_risk"), config)
            [] OTHER -> UpgradeForEnvironment(f, config)
    BY DEF ApplyContext, InScope
<1>4. "existing_risk" \in SuppressionKinds
    BY DEF SuppressionKinds
<1>. HIDE DEF f
<1>5. CASE Worsened(g, config)
    BY <1>1, <1>2, <1>3, <1>5
<1>6. CASE ~Worsened(g, config) /\ existing
    <2>. DEFINE s == Suppress(f, "existing_risk")
    <2>1. /\ s \in Finding
          /\ s.site = f.site /\ s.severity = f.severity /\ s.confidence = f.confidence
          /\ s.sensitive = f.sensitive /\ s.impact = f.impact
          /\ s.suppressions = f.suppressions \union {"existing_risk"}
        BY <1>1, <1>4, SuppressedFields
    <2>2. ApplyContext(g, config) = UpgradeForEnvironment(s, config)
        BY <1>2, <1>3, <1>6
    <2>. HIDE DEF s, existing
    <2>3. /\ UpgradeForEnvironment(s, config) \in Finding
          /\ UpgradeForEnvironment(s, config).site = s.site
          /\ UpgradeForEnvironment(s, config).suppressions = s.suppressions
          /\ UpgradeForEnvironment(s, config).impact = s.impact
          /\ UpgradeForEnvironment(s, config).sensitive = s.sensitive
        BY <2>1, RaisedFields
    <2>4. /\ UpgradeForEnvironment(s, config).severity = UpgradeForEnvironment(g, config).severity
          /\ UpgradeForEnvironment(s, config).confidence = UpgradeForEnvironment(g, config).confidence
        BY <1>1, <2>1, RaisedAlike
    <2>. QED  BY <1>1, <1>6, <2>1, <2>2, <2>3, <2>4 DEF existing
<1>7. CASE ~existing
    <2>1. ApplyContext(g, config) = UpgradeForEnvironment(f, config)
        BY <1>3, <1>7
    <2>2. ~Worsened(g, config)
        BY <1>2, <1>7
    <2>3. /\ UpgradeForEnvironment(f, config) \in Finding
          /\ UpgradeForEnvironment(f, config).site = f.site
          /\ UpgradeForEnvironment(f, config).suppressions = f.suppressions
          /\ UpgradeForEnvironment(f, config).impact = f.impact
          /\ UpgradeForEnvironment(f, config).sensitive = f.sensitive
        BY <1>1, RaisedFields
    <2>4. /\ UpgradeForEnvironment(f, config).severity = UpgradeForEnvironment(g, config).severity
          /\ UpgradeForEnvironment(f, config).confidence = UpgradeForEnvironment(g, config).confidence
        BY <1>1, RaisedAlike
    <2>. QED  BY <1>1, <1>7, <2>1, <2>2, <2>3, <2>4
<1>. QED  BY <1>5, <1>6, <1>7

\* A scan's configuration has well-typed thresholds for what it blocks and warns on.
LEMMA ThresholdOfPolicy ==
    ASSUME NEW p, IsPolicy(p), NEW side \in {"blockOn", "warnOn"}, NEW branch
    PROVE  ScanThreshold(p, side, branch).severity \in Nat /\ ScanThreshold(p, side, branch).confidence \in Nat
<1>. DEFINE scoped == IF branch \in DOMAIN p.branches THEN <<p.branches[branch]>> ELSE << >>
            layers == ThresholdLayers(p, branch)
            sided == [i \in DOMAIN layers |-> layers[i][side]]
            n == Len(layers)
<1>1. /\ DefaultThresholds \in Thresholds /\ p.decision \in Thresholds
      /\ p.environments["default"] \in Thresholds /\ p.environments["*"] \in Thresholds
    BY DEF IsPolicy, EnvironmentNames, DefaultThresholds, Thresholds, Threshold,
           HighSeverity, HighConfidence, MediumSeverity, MediumConfidence
<1>2. scoped \in Seq(Thresholds) /\ Len(scoped) \in {0, 1}
    BY DEF IsPolicy
<1>3. layers \in Seq(Thresholds) /\ n \in {4, 5} /\ layers[1] = DefaultThresholds
    <2>1. layers = <<DefaultThresholds, p.decision, p.environments["default"], p.environments["*"]>> \o scoped
        BY DEF ThresholdLayers
    <2>. HIDE DEF scoped, layers
    <2>. QED  BY <1>1, <1>2, <2>1
<1>4. DOMAIN sided = 1..n /\ \A i \in 1..n : sided[i] \in Threshold
    <2>1. \A i \in 1..n : layers[i] \in Thresholds
        BY <1>3
    <2>. HIDE DEF layers
    <2>. QED  BY <1>3, <2>1 DEF Thresholds
<1>5. sided[1] = DefaultThresholds[side]
    BY <1>3
<1>. HIDE DEF sided, layers
<1>6. ASSUME NEW field \in {"severity", "confidence"}
      PROVE  LET given == {i \in DOMAIN sided : sided[i][field] # 0}
             IN  sided[CHOOSE i \in given : \A j \in given : j <= i][field] \in Nat
    <2>. DEFINE given == {i \in DOMAIN sided : sided[i][field] # 0}
    <2>1. 1 \in given
        BY <1>3, <1>4, <1>5 DEF DefaultThresholds, HighSeverity, HighConfidence, MediumSeverity, MediumConfidence
    <2>2. given \subseteq 1..5
        <3>1. given \subseteq DOMAIN sided
            BY Zenon
        <3>2. n = 4 \/ n = 5
            BY <1>3
        <3>. HIDE DEF given, n
        <3>3. 1..n \subseteq 1..5
            BY <3>2
        <3>. QED  BY <1>4, <3>1, <3>3
    <2>3. \E i \in given : \A j \in given : j <= i
        <3>. HIDE DEF given
        <3>1. CASE 5 \in given
            BY <2>2, <3>1
        <3>2. CASE 5 \notin given /\ 4 \in given
            BY <2>2, <3>2
        <3>3. CASE 5 \notin given /\ 4 \notin given /\ 3 \in given
            BY <2>2, <3>3
        <3>4. CASE 5 \notin given /\ 4 \notin given /\ 3 \notin given /\ 2 \in given
            BY <2>2, <3>4
        <3>5. CASE 5 \notin given /\ 4 \notin given /\ 3 \notin given /\ 2 \notin given
            BY <2>1, <2>2, <3>5
        <3>. QED  BY <3>1, <3>2, <3>3, <3>4, <3>5
    <2>4. PICK k \in given : k = CHOOSE i \in given : \A j \in given : j <= i
        BY <2>3
    <2>. QED  BY <1>4, <2>4 DEF Threshold
<1>. QED  BY <1>6 DEF ScanThreshold, MergeThreshold, sided, layers

-----------------------------------------------------------------------------
(***************************************************************************)
(* What arrives at EvaluatePolicy, and what it makes of it.                *)
(***************************************************************************)
ArrivedAt(opts, repo) == Reviewed(RawFindings(opts, repo), repo)

Judged(opts, repo) == {ApplyContext(g, PolicyConfig(opts, repo)) : g \in ArrivedAt(opts, repo)}

\* A finding arrives as the plan has it, with at most the suppressions its rule and waivers give it.
LEMMA Arrived ==
    ASSUME NEW repo, IsRepository(repo), NEW opts, NEW g \in ArrivedAt(opts, repo)
    PROVE  /\ g \in Finding /\ g.site \in DOMAIN repo.plan /\ g.impact = "allow"
           /\ FindingAt(g.site, repo.plan[g.site]) \in RawFindings(opts, repo)
           /\ g.severity = repo.plan[g.site].severity /\ g.confidence = repo.plan[g.site].confidence
           /\ g.sensitive = repo.plan[g.site].sensitive /\ g.touched = repo.plan[g.site].touched
           /\ g.suppressions \subseteq {"experimental", "waiver"}
           /\ "experimental" \in g.suppressions => repo.plan[g.site].experimental
           /\ "waiver" \in g.suppressions =>
                 repo.policy.waiverFile /\ \E w \in repo.waivers : ~Expired(w, repo.now) /\ g.site \in w.scope
           /\ "waiver" \notin g.suppressions => g = FindingAt(g.site, repo.plan[g.site])
<1>1. Arrives(g, repo) /\ g \in Finding
    BY ArrivingFinding DEF ArrivedAt
<1>2. PICK raw \in RawFindings(opts, repo) :
          /\ raw.site = g.site
          /\ g = raw \/ g = Suppress(raw, "waiver")
    BY ArrivingFinding DEF ArrivedAt
<1>3. /\ raw \in Finding /\ g.site \in DOMAIN repo.plan
      /\ raw = FindingAt(g.site, repo.plan[g.site])
    BY <1>2, RawFinding
<1>4. "waiver" \in SuppressionKinds
    BY DEF SuppressionKinds
<1>5. /\ raw.impact = "allow" /\ raw.touched = repo.plan[g.site].touched
      /\ "experimental" \in raw.suppressions => repo.plan[g.site].experimental
    BY <1>3 DEF FindingAt
<1>6. CASE g = raw
    BY <1>1, <1>2, <1>3, <1>5, <1>6 DEF Arrives
<1>7. CASE g = Suppress(raw, "waiver")
    <2>1. /\ g.impact = raw.impact /\ g.touched = raw.touched
          /\ g.suppressions = raw.suppressions \union {"waiver"}
        <3>. DEFINE s == Suppress(raw, "waiver")
        <3>1. raw \in Finding
            BY <1>3
        <3>2. /\ s.impact = raw.impact /\ s.touched = raw.touched
              /\ s.suppressions = raw.suppressions \union {"waiver"}
            BY <1>4, <3>1, SuppressedFields
        <3>3. g = s
            BY <1>7
        <3>. HIDE DEF s
        <3>. QED  BY <3>2, <3>3
    <2>2. "waiver" \in g.suppressions /\ ("experimental" \in g.suppressions => "experimental" \in raw.suppressions)
        BY <2>1
    <2>. QED  BY <1>1, <1>2, <1>3, <1>5, <2>1, <2>2 DEF Arrives
<1>. QED  BY <1>2, <1>6, <1>7

\* Whatever a rule raises arrives, waived or not.
LEMMA RaisedArrives ==
    ASSUME NEW repo, IsRepository(repo), NEW opts, NEW f \in RawFindings(opts, repo)
    PROVE  \E g \in ArrivedAt(opts, repo) : g.site = f.site
<1>1. f \in Finding
    BY RawFinding
<1>2. "waiver" \in SuppressionKinds
    BY DEF SuppressionKinds
<1>3. Suppress(f, "waiver").site = f.site
    BY <1>1, <1>2, SuppressedFields
<1>. QED  BY <1>3 DEF ArrivedAt, Reviewed, ApplyWaivers

\* applyContext keeps findings findings, and fingerprints apart.
LEMMA JudgedFindings ==
    ASSUME NEW repo, IsRepository(repo), NEW opts
    PROVE  Judged(opts, repo) \subseteq Finding /\ OnePerSite(Judged(opts, repo))
<1>. DEFINE config == PolicyConfig(opts, repo)
<1>1. IsConfig(config)
    BY ConfigOfPolicy
<1>. HIDE DEF config
<1>2. \A g \in ArrivedAt(opts, repo) :
          ApplyContext(g, config) \in Finding /\ ApplyContext(g, config).site = g.site
    BY <1>1, Arrived, Applied
<1>3. \A g, h \in ArrivedAt(opts, repo) : g.site = h.site => g = h
    BY ArrivingIsUnique DEF ArrivedAt
<1>. QED  BY <1>2, <1>3 DEF Judged, OnePerSite, config

\* A scan that is not refused in terms of what EvaluatePolicy judges.
LEMMA ScanJudges ==
    ASSUME NEW opts, NEW repo, ~Refused(opts, repo)
    PROVE  LET config == PolicyConfig(opts, repo)
               kept == {WithImpact(h, config) : h \in DeduplicateFindings(Judged(opts, repo))}
           IN  Scan(opts, repo) = [decision |-> DecisionFor(kept, opts.mode), findings |-> kept]
    BY DEF Scan, Judge, EvaluatePolicy, Judged, ArrivedAt, PolicyConfig, ConfigWith, ConfigMode

\* What a scan in block mode lets through is suppressed or below the threshold.
LEMMA LetThrough ==
    ASSUME NEW repo, NEW opts, IsRepository(repo), opts.mode = "block",
           Scan(opts, repo).decision \in {"allow", "warn"},
           NEW h \in DeduplicateFindings(Judged(opts, repo))
    PROVE  Suppressed(h) \/ ~MeetsThreshold(h, PolicyConfig(opts, repo).blockOn)
<1>. DEFINE config == PolicyConfig(opts, repo)
            kept == {WithImpact(k, config) : k \in DeduplicateFindings(Judged(opts, repo))}
<1>1. ~Refused(opts, repo)
    BY DEF Scan, Judge
<1>2. DecisionFor(kept, "block") \in {"allow", "warn"}
    <2>1. Scan(opts, repo) = [decision |-> DecisionFor(kept, opts.mode), findings |-> kept]
        BY <1>1, ScanJudges
    <2>. HIDE DEF kept
    <2>2. Scan(opts, repo).decision = DecisionFor(kept, opts.mode)
        BY <2>1
    <2>. QED  BY <2>2
<1>3. h \in Finding
    BY JudgedFindings DEF DeduplicateFindings
<1>4. WithImpact(h, config) \in kept
    OBVIOUS
<1>. HIDE DEF kept
<1>5. WithImpact(h, config).impact # "block"
    BY <1>2, <1>4 DEF DecisionFor
<1>6. ASSUME ~Suppressed(h), MeetsThreshold(h, config.blockOn)
      PROVE  WithImpact(h, config).impact = "block"
    BY <1>3, <1>6 DEF WithImpact, Finding
<1>. QED  BY <1>5, <1>6

\* The gate compares a finding with the entry the baseline has of it.
OneEntryEach(repo) ==
    /\ repo.baseline.entries \subseteq Entry
    /\ \A e, d \in repo.baseline.entries : e.site = d.site => e = d

\* A configuration holds the risk of every entry a scan loads, under its fingerprint.
LEMMA RiskOfEntry ==
    ASSUME NEW repo, OneEntryEach(repo), NEW opts, NEW e \in LoadedEntries(opts, repo)
    PROVE  LET risks == PolicyConfig(opts, repo).risks
           IN  e \in Entry /\ e.site \in DOMAIN risks /\ risks[e.site] = e.context
<1>. DEFINE entries == LoadedEntries(opts, repo)
<1>1. entries \subseteq repo.baseline.entries
    BY DEF LoadedEntries
<1>2. e \in Entry /\ {d \in entries : d.site = e.site} = {e}
    BY <1>1 DEF OneEntryEach
<1>3. PolicyConfig(opts, repo).risks = Contexts(entries)
    BY DEF PolicyConfig, ConfigWith
<1>. HIDE DEF entries
<1>4. e.site \in Fingerprints(entries)
    BY DEF Fingerprints, entries
<1>5. /\ DOMAIN Contexts(entries) = Fingerprints(entries)
      /\ Contexts(entries)[e.site] = LastEntry({d \in entries : d.site = e.site}).context
    BY <1>4 DEF Contexts
<1>. QED  BY <1>2, <1>3, <1>4, <1>5, LastOfOne

-----------------------------------------------------------------------------
(***************************************************************************)
(* A judged finding that comes before a blocking one of its key without    *)
(* blocking is severer than it, and less certain.                          *)
(***************************************************************************)
LEMMA FirstOutranks ==
    ASSUME NEW config, IsConfig(config), config.blockOn.severity \in Nat, config.blockOn.confidence \in Nat,
           NEW x \in Finding, NEW y \in Finding, x.impact = "allow", y.impact = "allow",
           SameKey(x, y), MeetsThreshold(x, config.blockOn),
           ~MeetsThreshold(ApplyContext(y, config), config.blockOn),
           SortsBefore(ApplyContext(y, config), ApplyContext(x, config))
    PROVE  /\ ~MeetsThreshold(y, config.blockOn)
           /\ \/ y.severity > x.severity
              \/ Worsened(x, config) /\ UpgradeForEnvironment(y, config).severity > x.severity
<1>. DEFINE a == ApplyContext(x, config)
            n == ApplyContext(y, config)
            ux == UpgradeForEnvironment(x, config)
            uy == UpgradeForEnvironment(y, config)
<1>1. /\ a \in Finding /\ n \in Finding
      /\ Worsened(x, config) => a.severity = x.severity /\ a.confidence = x.confidence
      /\ ~Worsened(x, config) => a.severity = ux.severity /\ a.confidence = ux.confidence
      /\ Worsened(y, config) => n.severity = y.severity /\ n.confidence = y.confidence
      /\ ~Worsened(y, config) => n.severity = uy.severity /\ n.confidence = uy.confidence
    BY Applied
<1>2. MinSeverity(x, config) = MinSeverity(y, config) /\ MinConfidence(x, config) = MinConfidence(y, config)
    <2>1. Environment[x.site] = Environment[y.site]
        BY DecisionAssumption DEF SameKey, Finding
    <2>. QED  BY <2>1 DEF MinSeverity, MinConfidence
<1>3. /\ MinSeverity(x, config) \in 0..5 /\ MinConfidence(x, config) \in 0..4
      /\ ux.severity = IF x.severity < MinSeverity(x, config) THEN MinSeverity(x, config) ELSE x.severity
      /\ ux.confidence = IF x.confidence < MinConfidence(x, config) THEN MinConfidence(x, config) ELSE x.confidence
      /\ uy.severity = IF y.severity < MinSeverity(y, config) THEN MinSeverity(y, config) ELSE y.severity
      /\ uy.confidence = IF y.confidence < MinConfidence(y, config) THEN MinConfidence(y, config) ELSE y.confidence
    BY RaisedFields
<1>4. /\ x.severity \in Nat /\ x.confidence \in Nat /\ y.severity \in Nat /\ y.confidence \in Nat
      /\ a.severity \in Nat /\ a.confidence \in Nat /\ n.severity \in Nat /\ n.confidence \in Nat
    BY <1>1 DEF Finding, Severities, Confidences
<1>. HIDE DEF a, n, ux, uy
<1>5. /\ a.severity >= x.severity /\ a.confidence >= x.confidence
      /\ n.severity >= y.severity /\ n.confidence >= y.confidence
    BY <1>1, <1>2, <1>3, <1>4
<1>6. /\ n.severity > a.severity /\ n.confidence < config.blockOn.confidence
    BY <1>4, <1>5 DEF SortsBefore, MeetsThreshold, a, n
<1>7. ~MeetsThreshold(y, config.blockOn)
    BY <1>4, <1>5, <1>6 DEF MeetsThreshold
<1>8. y.severity > x.severity \/ (Worsened(x, config) /\ uy.severity > x.severity)
    BY <1>1, <1>2, <1>3, <1>4, <1>6
<1>. QED  BY <1>7, <1>8 DEF uy

-----------------------------------------------------------------------------
(***************************************************************************)
(* The gate and the report agree on what has worsened.                     *)
(***************************************************************************)
\* An entry with the fingerprint is what the diff compares a finding with.
LEMMA CounterpartByFingerprint ==
    ASSUME NEW entries, NEW e \in entries, e \in Entry, NEW c, c.site = e.site,
           \A d \in entries : d.site = e.site => d = e
    PROVE  Counterpart(entries, c) = {e} /\ SameFingerprint(entries, c) = {e}
<1>. DEFINE lookups == <<SameFingerprint(entries, c), SameDeduplicationKey(entries, c), SameRenameKey(entries, c)>>
            hits == {i \in 1..3 : lookups[i] # {}}
<1>1. SameFingerprint(entries, c) = {e}
    BY DEF SameFingerprint
<1>2. lookups[1] = {e}
    BY <1>1
<1>3. 1 \in hits /\ hits \subseteq 1..3
    BY <1>2
<1>4. Counterpart(entries, c) = IF hits = {} THEN {} ELSE {LastEntry(lookups[Min(hits)])}
    BY DEF Counterpart
<1>. HIDE DEF hits, lookups
<1>5. Min(hits) = 1
    <2>1. \A x \in hits : (\A y \in hits : x <= y) <=> x = 1
        BY <1>3
    <2>. QED  BY <1>3, <2>1 DEF Min
<1>6. LastEntry({e}) = e
    BY LastOfOne
<1>. QED  BY <1>1, <1>2, <1>3, <1>4, <1>5, <1>6

\* A finding that no baseline suppresses is recorded as it is.
LEMMA RecordedAsItIs ==
    ASSUME NEW f \in Finding, "existing_risk" \notin f.suppressions
    PROVE  BaselineEntryContext(f) = RiskContextFromFinding(f)
<1>. DEFINE stripped == [f EXCEPT !.suppressions = @ \ {"existing_risk"}]
<1>1. stripped = f
    <2>1. f.suppressions \ {"existing_risk"} = f.suppressions
        OBVIOUS
    <2>2. [f EXCEPT !.suppressions = f.suppressions] = f
        BY DEF Finding
    <2>. QED  BY <2>1, <2>2
<1>2. BaselineEntryContext(f) = RiskContextFromFinding(stripped)
    BY DEF BaselineEntryContext
<1>. QED  BY <1>1, <1>2

(***************************************************************************)
(* The impact a threshold gives and the scope of changed resources never   *)
(* hide that a finding has worsened.                                       *)
(***************************************************************************)
LEMMA WorsenedAsReported ==
    ASSUME NEW f \in Finding, NEW g \in Finding, NEW risk, g.impact = "allow",
           f.site = g.site, f.severity = g.severity, f.confidence = g.confidence,
           f.sensitive = g.sensitive, f.impact \in {"allow", "warn", "block"},
           "waiver" \in f.suppressions <=> "waiver" \in g.suppressions,
           RiskContextWorsened(RiskContextFromFinding(g), risk)
    PROVE  RiskContextWorsened(RiskContextFromFinding(f), risk)
<1>. DEFINE a == RiskContextFromFinding(f)
            b == RiskContextFromFinding(g)
<1>1. /\ a.severity = b.severity /\ a.confidence = b.confidence /\ a.sensitive = b.sensitive
      /\ a.cloud = b.cloud /\ a.waived = b.waived /\ b.decision = "allow" /\ a.decision = f.impact
    BY DEF RiskContextFromFinding
<1>2. /\ DecisionRank(a.decision) \in Nat /\ DecisionRank(a.decision) >= DecisionRank(b.decision)
      /\ DecisionRank(b.decision) = 1 /\ DecisionRank("allow") = 1 /\ DecisionRank(risk.decision) \in Nat
    BY <1>1 DEF DecisionRank
<1>. HIDE DEF a, b
<1>. QED  BY <1>1, <1>2 DEF RiskContextWorsened, a, b

\* The impact of a judged finding.
LEMMA ImpactOf ==
    ASSUME NEW h \in Finding, h.impact = "allow", NEW config
    PROVE  LET f == WithImpact(h, config)
           IN  /\ f \in Finding /\ f.site = h.site /\ f.suppressions = h.suppressions
               /\ f.severity = h.severity /\ f.confidence = h.confidence /\ f.sensitive = h.sensitive
               /\ f.impact = IF Suppressed(h) THEN "allow"
                             ELSE IF MeetsThreshold(h, config.blockOn) THEN "block"
                             ELSE IF MeetsThreshold(h, config.warnOn) THEN "warn" ELSE "allow"
<1>. DEFINE impact == IF MeetsThreshold(h, config.blockOn) THEN "block"
                      ELSE IF MeetsThreshold(h, config.warnOn) THEN "warn" ELSE "allow"
<1>1. impact \in Decisions
    BY DEF Decisions
<1>2. WithImpact(h, config) = IF Suppressed(h) THEN h ELSE [h EXCEPT !.impact = impact]
    BY DEF WithImpact
<1>. HIDE DEF impact
<1>3. WithImpact(h, config).impact = IF Suppressed(h) THEN "allow" ELSE impact
    BY <1>1, <1>2 DEF Finding
<1>4. /\ WithImpact(h, config) \in Finding /\ WithImpact(h, config).site = h.site
      /\ WithImpact(h, config).suppressions = h.suppressions
      /\ WithImpact(h, config).severity = h.severity /\ WithImpact(h, config).confidence = h.confidence
      /\ WithImpact(h, config).sensitive = h.sensitive
    BY <1>1, <1>2 DEF Finding
<1>. QED  BY <1>3, <1>4 DEF impact

\* A new-risk-only scan measures against every entry of the baseline file.
LEMMA NewOnlyConfig ==
    ASSUME NEW repo
    PROVE  LET config == PolicyConfig(NewOnlyScan, repo)
           IN  /\ LoadedEntries(NewOnlyScan, repo) = repo.baseline.entries
               /\ config.newRiskOnly /\ config.mode = "block"
               /\ config.existing = repo.policy.inline \union Fingerprints(repo.baseline.entries)
               /\ config.changedOnly <=> repo.policy.changedOnly
<1>1. /\ NewOnlyScan.baseline = TRUE /\ NewOnlyScan.newOnly = TRUE /\ NewOnlyScan.mode = "block"
      /\ NewOnlyScan.changedOnly = FALSE
    BY DEF NewOnlyScan, BaselineScan, PlainScan
<1>2. LoadedEntries(NewOnlyScan, repo) = repo.baseline.entries
    BY <1>1 DEF LoadedEntries
<1>. QED  BY <1>1, <1>2 DEF PolicyConfig, ConfigWith, ConfigMode

-----------------------------------------------------------------------------
(***************************************************************************)
(* Time alone never relaxes the gate.  A day later the files are the same  *)
(* and no expired waiver is active again.                                  *)
(***************************************************************************)
IsLater(repo, later) ==
    /\ later.plan = repo.plan /\ later.policy = repo.policy
    /\ later.baseline = repo.baseline /\ later.waivers = repo.waivers
    /\ \A w \in repo.waivers : Expired(w, repo.now) => Expired(w, later.now)

\* The policy in force does not depend on the day.
LEMMA LaterConfig ==
    ASSUME NEW repo, NEW later, IsLater(repo, later), NEW opts
    PROVE  /\ PolicyConfig(opts, later) = PolicyConfig(opts, repo)
           /\ RawFindings(opts, later) = RawFindings(opts, repo)
           /\ IsRepository(repo) => IsRepository(later)
    BY DEF IsLater, PolicyConfig, LoadedEntries, RawFindings, IsRepository

\* What arrives unwaived still does.
LEMMA UnwaivedStays ==
    ASSUME NEW repo, IsRepository(repo), NEW later, IsLater(repo, later), NEW opts,
           NEW y \in ArrivedAt(opts, repo), "waiver" \notin y.suppressions
    PROVE  y \in ArrivedAt(opts, later)
<1>1. PICK raw \in RawFindings(opts, repo) :
          \/ y = raw /\ (repo.policy.waiverFile => ~ \E w \in repo.waivers : Matches(w, raw, repo.now))
          \/ y = Suppress(raw, "waiver")
    BY ArrivingFinding DEF ArrivedAt
<1>2. y # Suppress(raw, "waiver")
    <2>1. raw \in Finding /\ "waiver" \in SuppressionKinds
        BY RawFinding DEF SuppressionKinds
    <2>2. "waiver" \in Suppress(raw, "waiver").suppressions
        BY <2>1, SuppressedFields
    <2>. QED  BY <2>2
<1>3. y = raw /\ raw \in RawFindings(opts, later)
    BY <1>1, <1>2, LaterConfig
<1>4. CASE ~later.policy.waiverFile
    BY <1>3, <1>4 DEF ArrivedAt, Reviewed
<1>5. CASE later.policy.waiverFile
    <2>1. ~ \E w \in later.waivers : Matches(w, raw, later.now)
        BY <1>1, <1>2, <1>5 DEF IsLater, Matches
    <2>. QED  BY <1>3, <1>5, <2>1 DEF ArrivedAt, Reviewed, ApplyWaivers
<1>. QED  BY <1>4, <1>5

\* What arrives waived was waived before.
LEMMA WaivedWas ==
    ASSUME NEW repo, IsRepository(repo), NEW later, IsLater(repo, later), NEW opts,
           NEW y \in ArrivedAt(opts, repo), NEW z \in ArrivedAt(opts, later), y.site = z.site,
           "waiver" \in z.suppressions
    PROVE  "waiver" \in y.suppressions
<1>1. IsRepository(later)
    BY LaterConfig
<1>2. later.policy.waiverFile /\ \E w \in later.waivers : ~Expired(w, later.now) /\ z.site \in w.scope
    BY <1>1, Arrived
<1>3. PICK raw \in RawFindings(opts, repo) :
          /\ raw.site = y.site
          /\ \/ y = raw /\ (repo.policy.waiverFile => ~ \E w \in repo.waivers : Matches(w, raw, repo.now))
             \/ y = Suppress(raw, "waiver")
    BY ArrivingFinding DEF ArrivedAt
<1>4. y = Suppress(raw, "waiver")
    BY <1>2, <1>3 DEF IsLater, Matches
<1>5. raw \in Finding /\ "waiver" \in SuppressionKinds
    BY RawFinding DEF SuppressionKinds
<1>. QED  BY <1>4, <1>5, SuppressedFields

(***************************************************************************)
(* A finding that may have lost its waiver is judged no higher: either it  *)
(* is now held as it is, as a risk that has worsened, or raised as before. *)
(***************************************************************************)
LEMMA JudgedNoHigher ==
    ASSUME NEW y \in Finding, NEW z \in Finding, y.impact = "allow", z.impact = "allow",
           y.site = z.site, y.severity = z.severity, y.confidence = z.confidence,
           y.sensitive = z.sensitive,
           "waiver" \in z.suppressions => "waiver" \in y.suppressions,
           NEW config, IsConfig(config)
    PROVE  LET before == ApplyContext(y, config)
               after == ApplyContext(z, config)
           IN  /\ before \in Finding /\ after \in Finding
               /\ before.site = y.site /\ after.site = y.site
               /\ after.severity <= before.severity /\ after.confidence <= before.confidence
<1>. DEFINE before == ApplyContext(y, config)
            after == ApplyContext(z, config)
            uy == UpgradeForEnvironment(y, config)
            uz == UpgradeForEnvironment(z, config)
<1>1. /\ before \in Finding /\ before.site = y.site
      /\ Worsened(y, config) => before.severity = y.severity /\ before.confidence = y.confidence
      /\ ~Worsened(y, config) => before.severity = uy.severity /\ before.confidence = uy.confidence
    BY Applied
<1>2. /\ after \in Finding /\ after.site = z.site
      /\ Worsened(z, config) => after.severity = z.severity /\ after.confidence = z.confidence
      /\ ~Worsened(z, config) => after.severity = uz.severity /\ after.confidence = uz.confidence
    BY Applied
<1>3. Worsened(y, config) => Worsened(z, config)
    <2>1. ~(DecisionRank("allow") > DecisionRank("allow"))
        BY DEF DecisionRank
    <2>2. ASSUME NEW risk, RiskContextWorsened(RiskContextFromFinding(y), risk)
          PROVE  RiskContextWorsened(RiskContextFromFinding(z), risk)
        BY <2>1, <2>2 DEF RiskContextWorsened, RiskContextFromFinding
    <2>. QED  BY <2>2 DEF Worsened, ExistingWorsened
<1>4. uy.severity = uz.severity /\ uy.confidence = uz.confidence
    BY RaisedAlike
<1>5. /\ uy.severity \in Nat /\ uy.confidence \in Nat
      /\ y.severity <= uy.severity /\ y.confidence <= uy.confidence
      /\ y.severity \in Nat /\ y.confidence \in Nat
    <2>1. y.severity \in 1..5 /\ y.confidence \in 1..4
        BY DEF Finding, Severities, Confidences
    <2>2. /\ MinSeverity(y, config) \in 0..5 /\ MinConfidence(y, config) \in 0..4
          /\ uy.severity = IF y.severity < MinSeverity(y, config) THEN MinSeverity(y, config) ELSE y.severity
          /\ uy.confidence = IF y.confidence < MinConfidence(y, config) THEN MinConfidence(y, config) ELSE y.confidence
        BY RaisedFields
    <2>. HIDE DEF uy
    <2>. QED  BY <2>1, <2>2
<1>. HIDE DEF before, after, uy, uz
<1>. QED  BY <1>1, <1>2, <1>3, <1>4, <1>5 DEF before, after

\* A finding that is kept and not suppressed is kept a day later.
LEMMA EnforcedStays ==
    ASSUME NEW repo, IsRepository(repo), NEW later, IsLater(repo, later), NEW opts,
           NEW n \in DeduplicateFindings(Judged(opts, repo)), ~Suppressed(n)
    PROVE  n \in DeduplicateFindings(Judged(opts, later))
<1>. DEFINE config == PolicyConfig(opts, repo)
<1>1. IsConfig(config) /\ IsRepository(later) /\ PolicyConfig(opts, later) = config
    BY ConfigOfPolicy, LaterConfig
<1>. HIDE DEF config
<1>2. PICK y \in ArrivedAt(opts, repo) : n = ApplyContext(y, config)
    BY DEF DeduplicateFindings, Judged, config
<1>3. y \in Finding /\ y.impact = "allow"
    BY Arrived
<1>4. "waiver" \notin y.suppressions
    BY <1>1, <1>2, <1>3, Applied DEF Suppressed
<1>5. n \in Judged(opts, later)
    BY <1>1, <1>2, <1>4, UnwaivedStays DEF Judged
<1>6. ASSUME NEW m \in Judged(opts, later) \ {n}, SameKey(n, m)
      PROVE  SortsBefore(n, m)
    <2>1. PICK z \in ArrivedAt(opts, later) : m = ApplyContext(z, config)
        BY <1>1 DEF Judged
    <2>2. /\ z \in Finding /\ z.impact = "allow" /\ z.severity = repo.plan[z.site].severity
          /\ z.confidence = repo.plan[z.site].confidence /\ z.sensitive = repo.plan[z.site].sensitive
          /\ FindingAt(z.site, repo.plan[z.site]) \in RawFindings(opts, repo)
        <3>1. later.plan = repo.plan
            BY DEF IsLater
        <3>. QED  BY <1>1, <3>1, Arrived, LaterConfig
    <2>3. PICK x \in ArrivedAt(opts, repo) : x.site = z.site
        <3>1. FindingAt(z.site, repo.plan[z.site]).site = z.site
            BY DEF FindingAt
        <3>. QED  BY <2>2, <3>1, RaisedArrives
    <2>4. /\ x \in Finding /\ x.impact = "allow" /\ x.severity = z.severity
          /\ x.confidence = z.confidence /\ x.sensitive = z.sensitive
        BY <2>2, <2>3, Arrived
    <2>5. "waiver" \in z.suppressions => "waiver" \in x.suppressions
        BY <2>3, WaivedWas
    <2>. DEFINE was == ApplyContext(x, config)
    <2>6. /\ was \in Finding /\ m \in Finding /\ was.site = m.site
          /\ m.severity <= was.severity /\ m.confidence <= was.confidence
        BY <1>1, <2>1, <2>2, <2>3, <2>4, <2>5, JudgedNoHigher
    <2>7. n \in Finding /\ n.site # m.site
        BY <1>1, <1>5, JudgedFindings DEF OnePerSite
    <2>8. was \in Judged(opts, repo)
        BY <2>3 DEF Judged, config
    <2>. HIDE DEF was
    <2>9. SortsBefore(n, was)
        BY <1>6, <2>6, <2>7, <2>8 DEF DeduplicateFindings, SameKey
    <2>. QED  BY <2>6, <2>7, <2>9 DEF SortsBefore, Finding, Severities, Confidences
<1>. QED  BY <1>5, <1>6 DEF DeduplicateFindings

\* What refuses to scan today refuses tomorrow.
LEMMA RefusalStays ==
    ASSUME NEW repo, NEW later, IsLater(repo, later), NEW opts,
           repo.now \in Nat, later.now \in Nat, repo.now <= later.now, repo.baseline.expires \in Nat,
           Refused(opts, repo)
    PROVE  Refused(opts, later)
    BY DEF Refused, IsLater

\* A decision is read off the impacts of what is kept.
LEMMA DecisionOfImpacts ==
    ASSUME NEW kept, NEW more,
           \A f \in kept : f.impact \in {"block", "warn"} => f \in more
    PROVE  DecisionRank(DecisionFor(kept, "block")) <= DecisionRank(DecisionFor(more, "block"))
<1>. DEFINE I == {f.impact : f \in kept}
            J == {f.impact : f \in more}
<1>1. ("block" \in I => "block" \in J) /\ ("warn" \in I => "warn" \in J)
    OBVIOUS
<1>2. DecisionFor(kept, "block") = IF "block" \in I THEN "block" ELSE IF "warn" \in I THEN "warn" ELSE "allow"
    BY DEF DecisionFor
<1>3. DecisionFor(more, "block") = IF "block" \in J THEN "block" ELSE IF "warn" \in J THEN "warn" ELSE "allow"
    BY DEF DecisionFor
<1>4. DecisionRank("block") = 3 /\ DecisionRank("warn") = 2 /\ DecisionRank("allow") = 1
    BY DEF DecisionRank
<1>. HIDE DEF I, J
<1>. QED  BY <1>1, <1>2, <1>3, <1>4

-----------------------------------------------------------------------------
(***************************************************************************)
(* A fresh baseline accepts what it was taken of.                          *)
(***************************************************************************)
\* No finding is worse than the entry a scan would write of it.
LEMMA NoWorseThanWritten ==
    ASSUME NEW x \in Finding, NEW k \in Finding, NEW config, x.impact = "allow", k.impact = "allow",
           k.site = x.site, k.severity >= x.severity, k.confidence >= x.confidence,
           k.sensitive = x.sensitive, "waiver" \in k.suppressions => "waiver" \in x.suppressions
    PROVE  ~RiskContextWorsened(RiskContextFromFinding(x), BaselineEntryContext(WithImpact(k, config)))
<1>. DEFINE f == WithImpact(k, config)
            stripped == [f EXCEPT !.suppressions = @ \ {"existing_risk"}]
            r == RiskContextFromFinding(stripped)
            b == BaselineEntryContext(f)
            a == RiskContextFromFinding(x)
<1>1. /\ f \in Finding /\ f.site = k.site /\ f.suppressions = k.suppressions
      /\ f.severity = k.severity /\ f.confidence = k.confidence /\ f.sensitive = k.sensitive
      /\ f.impact \in {"allow", "warn", "block"}
    <2>1. LET w == WithImpact(k, config)
          IN  /\ w \in Finding /\ w.site = k.site /\ w.suppressions = k.suppressions
              /\ w.severity = k.severity /\ w.confidence = k.confidence /\ w.sensitive = k.sensitive
              /\ w.impact = IF Suppressed(k) THEN "allow"
                            ELSE IF MeetsThreshold(k, config.blockOn) THEN "block"
                            ELSE IF MeetsThreshold(k, config.warnOn) THEN "warn" ELSE "allow"
        BY ImpactOf
    <2>. QED  BY <2>1
<1>. HIDE DEF f
<1>2. /\ stripped.severity = k.severity /\ stripped.confidence = k.confidence
      /\ stripped.sensitive = k.sensitive /\ stripped.site = k.site /\ stripped.impact = f.impact
      /\ "waiver" \in stripped.suppressions => "waiver" \in x.suppressions
    BY <1>1 DEF Finding
<1>. HIDE DEF stripped
<1>3. /\ r.severity = k.severity /\ r.confidence = k.confidence /\ r.sensitive = k.sensitive
      /\ r.cloud = (k.site \in CloudEvidence) /\ r.decision = f.impact
      /\ r.waived => "waiver" \in x.suppressions
    BY <1>2 DEF RiskContextFromFinding
<1>4. r = [severity |-> r.severity, confidence |-> r.confidence, decision |-> r.decision,
           sensitive |-> r.sensitive, cloud |-> r.cloud, waived |-> r.waived, suppressed |-> r.suppressed]
    BY DEF RiskContextFromFinding
<1>. HIDE DEF r
<1>5. /\ b.severity = k.severity /\ b.confidence = k.confidence /\ b.sensitive = k.sensitive
      /\ b.cloud = (k.site \in CloudEvidence) /\ b.decision \in {"allow", "warn", "block"}
      /\ b.waived => "waiver" \in x.suppressions
    <2>1. DecisionFromSeverity(f.severity) \in {"allow", "warn", "block"}
        <3>1. f.severity \in Nat
            BY <1>1 DEF Finding, Severities
        <3>. QED  BY <3>1 DEF DecisionFromSeverity, HighSeverity, MediumSeverity
    <2>. DEFINE guess == DecisionFromSeverity(f.severity)
    <2>2. b = r \/ b = [r EXCEPT !.decision = guess]
        BY DEF BaselineEntryContext, r, stripped
    <2>. HIDE DEF b, guess
    <2>3. CASE b = r
        BY <1>1, <1>3, <2>3
    <2>4. CASE b = [r EXCEPT !.decision = guess]
        <3>1. /\ b.severity = r.severity /\ b.confidence = r.confidence /\ b.sensitive = r.sensitive
              /\ b.cloud = r.cloud /\ b.waived = r.waived /\ b.decision = guess
            BY <1>4, <2>4
        <3>. QED  BY <1>3, <2>1, <3>1 DEF guess
    <2>. QED  BY <2>2, <2>3, <2>4
<1>6. /\ a.severity = x.severity /\ a.confidence = x.confidence /\ a.sensitive = x.sensitive
      /\ a.cloud = (x.site \in CloudEvidence) /\ a.decision = "allow"
      /\ a.waived = ("waiver" \in x.suppressions)
    BY DEF RiskContextFromFinding
<1>7. /\ x.severity \in 1..5 /\ k.severity \in 1..5 /\ x.confidence \in 1..4 /\ k.confidence \in 1..4
    BY DEF Finding, Severities, Confidences
<1>8. /\ DecisionRank("allow") = 1 /\ DecisionRank(b.decision) \in 1..3
    BY <1>5 DEF DecisionRank
<1>. HIDE DEF a, b
<1>9. ~RiskContextWorsened(a, b)
    <2>1. ~(a.severity > b.severity) /\ ~(a.confidence = HighConfidence /\ b.confidence # HighConfidence)
        BY <1>5, <1>6, <1>7 DEF HighConfidence
    <2>2. /\ ~(DecisionRank(a.decision) > DecisionRank(b.decision))
          /\ ~(DecisionRank(a.decision) > DecisionRank("allow"))
        BY <1>6, <1>8
    <2>3. ~(a.sensitive /\ ~b.sensitive) /\ ~(a.cloud /\ ~b.cloud) /\ ~(b.waived /\ ~a.waived)
        BY Zenon, <1>5, <1>6
    <2>. QED  BY <2>1, <2>2, <2>3 DEF RiskContextWorsened
<1>. QED  BY <1>9 DEF a, b, f

\* An order, on the fields it compares.
LEMMA SortsOneWay ==
    ASSUME NEW k \in Finding, NEW a \in Finding, NEW h \in Finding, NEW n \in Finding,
           SortsBefore(k, a), h.severity = k.severity, h.confidence = k.confidence, h.site = k.site,
           n.severity <= a.severity, n.confidence <= a.confidence, n.site = a.site
    PROVE  ~SortsBefore(n, h)
<1>1. \A f \in Finding : f.severity \in 1..5 /\ f.confidence \in 1..4 /\ f.site \in Nat
    BY DecisionAssumption DEF Finding, Severities, Confidences
<1>. QED  BY <1>1 DEF SortsBefore
=============================================================================
