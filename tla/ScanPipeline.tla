---------------------------- MODULE ScanPipeline ----------------------------
(***************************************************************************)
(* One `changegate scan` as a process (src/internal/cli/scan.go): it reads *)
(* the policy, the baseline, the waiver file and the plans one after the   *)
(* other, and several of them again, while the repository around it is     *)
(* edited, waiver commands rewrite their file and the day turns.           *)
(***************************************************************************)
EXTENDS ScanGate, WaiverStore, ScannerImports, Functions

CONSTANTS
    Requests,      \* the command lines: what ScanGate needs of the flags, and
                   \* plans, imports, context, timeout, maxFindings, bundle
    Repositories,  \* what the repository may hold at the start
    Risks, Policies,
    MaxEdits       \* how often the repository changes during the scan

\* Of imports with one fingerprint Merge retains the first: one that ties with an
\* earlier one of its file is never used, and is left out.
Ranked(imports) ==
    \A i, j \in imports : i # j /\ i.file = j.file /\ i.site = j.site =>
        LET a == NormalizeImported(i)
            b == NormalizeImported(j)
        IN  SortsBefore(a, b) \/ SortsBefore(b, a)

CommandLine(files) ==
    [mode: {"block", "warn", "audit"}, branch: STRING, baseline: BOOLEAN, newOnly: BOOLEAN,
     changedOnly: BOOLEAN, cloudContext: BOOLEAN,
     plans: Seq(files) \ {<< >>}, imports: {I \in SUBSET Import : Ranked(I)},
     context: {"none", "file", "cache", "missing"}, timeout: BOOLEAN, maxFindings: Nat,
     bundle: BOOLEAN]

\* The sites of imported findings; rules raise findings at the others.
ExternalSites == UNION {{i.site : i \in r.imports} : r \in Requests}

IsPlan(plan) ==
    /\ DOMAIN plan \subseteq Sites \ ExternalSites
    /\ \A s \in DOMAIN plan : plan[s] \in RiskAttributes

ASSUME PipelineAssumption ==
    /\ \A repo \in Repositories :
          /\ Requests \subseteq CommandLine(DOMAIN repo.plans)
          /\ \A file \in DOMAIN repo.plans : IsPlan(repo.plans[file])
          /\ IsPolicy(repo.policy)
          /\ repo.waivers \subseteq Waiver
          /\ repo.baseline.expires \in Nat
    /\ Risks \subseteq RiskAttributes
    /\ \A p \in Policies : IsPolicy(p)
    /\ MaxEdits \in Nat
    /\ \A s \in Sites \ ExternalSites, t \in ExternalSites :   \* the key names the rule
          DeduplicationKey[s] # DeduplicationKey[t]

VARIABLES
    plans,         \* plan file -> the findings rules raise on it
    policy,        \* the policy file
    baseline,      \* the baseline file
    baselineBeing, \* what a `baseline create` has truncated the file to write
    scan,          \* the process: see NewScan
    edits,         \* how often the repository has changed
    answers        \* history: what a scan of each single moment would have decided

repositoryVars == <<plans, policy, baseline, baselineBeing, storeVars>>
vars == <<repositoryVars, scan, edits, answers>>

-----------------------------------------------------------------------------
(***************************************************************************)
(* A scan that reads everything at one moment.                             *)
(***************************************************************************)
Repository ==
    [plans |-> plans, policy |-> policy, baseline |-> baseline,
     waiverFile |-> waiverFile, now |-> now]

\* What ScanGate asks for, for one of the plans.
WithPlan(repo, file) ==
    [plan |-> repo.plans[file], policy |-> repo.policy, waivers |-> repo.waiverFile.records,
     baseline |-> repo.baseline, now |-> repo.now]

\* With --context-file or a cached snapshot, findings with cloud evidence are raised.
Options(r) == [r EXCEPT !.cloudContext = r.context = "file"]

Native(r, repo, file) == RawFindings(Options(r), WithPlan(repo, file))

Atomic(r, repo) ==
    [i \in DOMAIN r.plans |->
        LET file == r.plans[i]
        IN  Judge(Options(r), WithPlan(repo, file), Merge(Native(r, repo, file), r.imports))]

Strongest(decisions) ==
    CHOOSE d \in decisions : \A e \in decisions : DecisionRank(e) <= DecisionRank(d)

AtomicDecision(r, repo) ==
    IF repo.policy.waiverFile /\ repo.waiverFile.state # "whole" THEN "error"
    ELSE Strongest({outcome.decision : outcome \in Range(Atomic(r, repo))})

\* The findings of several plans are told apart by the plan they are of.
Tagged(i, findings) == {[plan |-> i, finding |-> f] : f \in findings}

AtomicFindings(r, repo) ==
    UNION {Tagged(i, Atomic(r, repo)[i].findings) : i \in DOMAIN r.plans}

-----------------------------------------------------------------------------
(***************************************************************************)
(* The report.                                                             *)
(***************************************************************************)
Precedes(f, g) ==
    \/ f.plan < g.plan
    \/ f.plan = g.plan /\ SortsBefore(f.finding, g.finding)

\* limitReportFindings: the first findings of the report; 0 is no limit.
Limit(findings, max) ==
    IF max = 0 THEN findings
    ELSE {f \in findings : Cardinality({g \in findings : Precedes(g, f)}) < max}

RiskSummary(findings) ==
    LET Number(P(_)) == Cardinality({f \in findings : P(f.finding)})
    IN  [total      |-> Cardinality(findings),
         suppressed |-> Number(LAMBDA f : Suppressed(f)),
         blocking   |-> Number(LAMBDA f : ~Suppressed(f) /\ f.impact = "block"),
         warnings   |-> Number(LAMBDA f : ~Suppressed(f) /\ f.impact = "warn")]

NoReport ==
    [decision |-> "none", findings |-> {}, summary |-> RiskSummary({}), audit |-> << >>]

\* What the scan read last of each file, what it has made of it, and what it left.
NewScan(r) ==
    [request |-> r, at |-> "policy", late |-> FALSE, cut |-> FALSE, raced |-> FALSE,
     policy |-> policy, fingerprints |-> {}, risks |-> Contexts({}),
     plan |-> 1, findings |-> {}, evaluated |-> {}, decision |-> "none",
     report |-> NoReport, output |-> "previous", exit |-> -1]

Step(from, to, update) ==
    /\ scan.at = from
    /\ scan' = [update EXCEPT !.at = to]
    /\ UNCHANGED <<repositoryVars, edits, answers>>

\* Exit codes: 0 allowed, 1 blocked, 2 usage, 3 input, 4 policy, 6 internal.
Fail(from, code) == Step(from, "done", [scan EXCEPT !.exit = code])

Request == scan.request

-----------------------------------------------------------------------------
(***************************************************************************)
(* loadPolicyForScan.                                                      *)
(***************************************************************************)
ReadPolicy == Step("policy", "policy_baseline", [scan EXCEPT !.policy = policy])

WithBaseline(entries) ==
    [scan EXCEPT
        !.fingerprints = @ \union Fingerprints(entries),
        !.risks = [s \in DOMAIN @ \union Fingerprints(entries) |->
                      IF s \in Fingerprints(entries) THEN Contexts(entries)[s] ELSE @[s]]]

Stale(p) == p.requireExpiration /\ (baseline.expires = 0 \/ ~(now < baseline.expires))

ReadPolicyBaseline ==
    LET p == scan.policy
    IN  \/ ~p.baselineFile /\ Step("policy_baseline", "waivers", scan)
        \/ p.baselineFile /\ (~baseline.written \/ Stale(p)) /\ Fail("policy_baseline", 4)
        \/ /\ p.baselineFile /\ baseline.written /\ ~Stale(p)
           /\ Step("policy_baseline", "waivers", WithBaseline(baseline.entries))

ValidateWaivers ==
    LET p == scan.policy
        records == waiverFile.records
        bad == \/ waiverFile.state # "whole"
               \/ ~ValidWaivers(records, p.maxWaiverDays)
               \/ p.failExpired /\ \E w \in records : Expired(w, now)
    IN  \/ p.waiverFile /\ bad /\ Fail("waivers", 4)
        \/ ~(p.waiverFile /\ bad) /\ Step("waivers", "baseline", scan)

\* applyBaselineOptions.  A baseline the policy names is read for the second time.
ReadBaseline ==
    LET twice == /\ scan.policy.baselineFile
                 /\ \/ scan.fingerprints # Fingerprints(baseline.entries)
                    \/ scan.risks # Contexts(baseline.entries) /\ Stale(scan.policy)
    IN  \/ Request.newOnly /\ ~Request.baseline /\ Fail("baseline", 2)
        \/ Request.baseline /\ ~baseline.written /\ Fail("baseline", 3)
        \/ ~Request.newOnly /\ ~Request.baseline /\ Step("baseline", "context", scan)
        \/ /\ Request.baseline /\ baseline.written
           /\ Step("baseline", "context",
                   [WithBaseline(baseline.entries) EXCEPT
                       !.raced = @ \/ twice])

(***************************************************************************)
(* loadCloudContext: a file that is named must be there; a cache that is   *)
(* not leaves the scan to the plan alone, with a warning.  scanPlans then  *)
(* refuses imports for several plans.                                      *)
(***************************************************************************)
ReadContext ==
    LET several == Len(Request.plans) > 1 /\ Request.imports # {}
    IN  \/ Request.context = "missing" /\ Fail("context", 3)
        \/ Request.context # "missing" /\ several /\ Fail("context", 2)
        \/ Request.context # "missing" /\ ~several /\ Step("context", "plan", scan)

-----------------------------------------------------------------------------
(***************************************************************************)
(* scanOnePlan, for each plan in turn.  A deadline that has passed stops   *)
(* loadPlan; the rule runner then leaves out any of the rules.             *)
(***************************************************************************)
CurrentPlan == Request.plans[scan.plan]

ReadPlan ==
    \/ scan.late /\ Fail("plan", 3)
    \/ /\ ~scan.late
       /\ Step("plan", "rules", [scan EXCEPT !.findings = Native(Request, Repository, CurrentPlan)])

EvaluateRules ==
    \E some \in IF scan.late THEN SUBSET scan.findings ELSE {scan.findings} :
        Step("rules", "apply_waivers",
             [scan EXCEPT !.findings = Merge(some, Request.imports),
                          !.cut = @ \/ some # scan.findings])

\* waiver.Apply reports an expired waiver it meets before one that matches.
MeetsExpired(findings) ==
    \E f \in findings, w \in waiverFile.records :
        /\ Expired(w, now)
        /\ \A v \in waiverFile.records : Matches(v, f, now) => w.id < v.id

\* Mutant: the last plan decides.
LastDecision(a, b) == b

StrongestDecision(a, b) == Strongest({a, b})

\* EvaluatePolicy, and the report of this plan joined to those before it.
Evaluated(findings) ==
    LET config == ConfigWith(Options(Request), scan.policy, scan.fingerprints, scan.risks)
        outcome == EvaluatePolicy(findings, config)
    IN  [scan EXCEPT
            !.evaluated = @ \union Tagged(scan.plan, outcome.findings),
            !.decision = StrongestDecision(@, outcome.decision),
            !.raced = @ \/ (/\ scan.policy.waiverFile
                           /\ ~ValidWaivers(waiverFile.records, scan.policy.maxWaiverDays)),
            !.plan = @ + 1,
            !.findings = {}]

\* Mutant: the last of several plans is not scanned.
AfterAllButOne == IF scan.plan + 1 < Len(Request.plans) THEN "plan" ELSE "deadline"

AfterPlan == IF scan.plan < Len(Request.plans) THEN "plan" ELSE "deadline"

ApplyAndEvaluate ==
    LET p == scan.policy
        applied == ApplyWaivers(waiverFile.records, scan.findings, now)
        lapsed == p.failExpired /\ MeetsExpired(scan.findings)
    IN  \/ ~p.waiverFile /\ Step("apply_waivers", AfterPlan, Evaluated(scan.findings))
        \/ p.waiverFile /\ waiverFile.state # "whole" /\ Fail("apply_waivers", 3)
        \/ p.waiverFile /\ waiverFile.state = "whole" /\ lapsed /\ Fail("apply_waivers", 4)
        \/ /\ p.waiverFile /\ waiverFile.state = "whole" /\ ~lapsed
           /\ Step("apply_waivers", AfterPlan, Evaluated(applied))

\* Mutant: the deadline is not looked at again.
DeadlineIgnored == FALSE

DeadlinePassed == Request.timeout /\ scan.late

\* limitReportFindings counts the risk summary anew from what it leaves.
LimitFindings ==
    LET kept == Limit(scan.evaluated, Request.maxFindings)
    IN  \/ DeadlinePassed /\ Fail("deadline", 3)
        \/ /\ ~DeadlinePassed
           /\ Step("deadline", "audit_policy",
                   [scan EXCEPT !.report =
                       [NoReport EXCEPT !.decision = scan.decision, !.findings = kept,
                                        !.summary = RiskSummary(kept)]])

-----------------------------------------------------------------------------
(***************************************************************************)
(* attachAuditEvidence reads the policy and the plans again for their      *)
(* digests, and what the policy then names for the reviews.                *)
(***************************************************************************)
Noted(evidence) == [scan EXCEPT !.report.audit = @ \o <<evidence>>]

AuditPolicy == Step("audit_policy", "audit_plans", Noted(policy))

AuditPlans ==
    Step("audit_plans", "audit_waivers", Noted([i \in DOMAIN Request.plans |-> plans[Request.plans[i]]]))

Reported == {f.finding : f \in scan.report.findings}

AuditWaivers ==
    LET p == scan.report.audit[1]
        waived == {f.site : f \in {g \in Reported : \E w \in waiverFile.records : Matches(w, g, now)}}
    IN  /\ scan.at = "audit_waivers"
        /\ \/ ~p.waiverFile /\ Step("audit_waivers", "audit_baseline", Noted({}))
           \/ p.waiverFile /\ waiverFile.state # "whole" /\ Fail("audit_waivers", 3)
           \/ /\ p.waiverFile /\ waiverFile.state = "whole"
              /\ Step("audit_waivers", "audit_baseline", Noted(waived))

AuditBaseline ==
    LET wanted == scan.report.audit[1].baselineFile \/ Request.baseline
        next == IF Request.bundle THEN "bundle" ELSE "report"
    IN  /\ scan.at = "audit_baseline"
        /\ \/ ~wanted /\ Step("audit_baseline", next, Noted(<< >>))
           \/ wanted /\ ~baseline.written /\ Fail("audit_baseline", 3)
           \/ /\ wanted /\ baseline.written
              /\ Step("audit_baseline", next, Noted(Diff(baseline.entries, Reported)))

WriteBundle ==
    \/ Step("bundle", "report", scan)
    \/ Fail("bundle", 6)

ExitCode(decision) == IF decision = "block" THEN 1 ELSE 0

\* Mutant: an output that cannot be written leaves the exit code as it was.
ExitCodeChosen(decision) == ExitCode(decision)

ExitCodeOnError(decision) == 6

\* The exit code is chosen before the output is written; an error overrides it.
WriteReport ==
    LET decision == scan.report.decision
    IN  \/ Step("report", "done",
                [scan EXCEPT !.output = "whole", !.exit = ExitCode(decision)])
        \/ Step("report", "done",
                [scan EXCEPT !.output = "torn", !.exit = ExitCodeOnError(decision)])

ScanStep ==
    \/ ReadPolicy \/ ReadPolicyBaseline \/ ValidateWaivers \/ ReadBaseline \/ ReadContext
    \/ ReadPlan \/ EvaluateRules \/ ApplyAndEvaluate \/ LimitFindings
    \/ AuditPolicy \/ AuditPlans \/ AuditWaivers \/ AuditBaseline
    \/ WriteBundle \/ WriteReport

-----------------------------------------------------------------------------
(***************************************************************************)
(* What happens around it.                                                 *)
(***************************************************************************)
DeadlinePasses ==
    /\ Request.timeout /\ ~scan.late /\ scan.at # "done"
    /\ scan' = [scan EXCEPT !.late = TRUE]
    /\ UNCHANGED <<repositoryVars, edits, answers>>

\* Whatever changes, the history notes what a scan would now decide.
Noticed ==
    /\ UNCHANGED scan
    /\ \E repo \in {Repository'} :
           answers' = answers \union {AtomicDecision(Request, repo)}

Edited ==
    /\ scan.at # "done" /\ edits < MaxEdits
    /\ edits' = edits + 1
    /\ Noticed

EditPlan(file, s, risk) ==
    /\ s \notin ExternalSites
    /\ plans' = [plans EXCEPT ![file] =
                    [x \in DOMAIN @ \union {s} |-> IF x = s THEN risk ELSE @[x]]]
    /\ UNCHANGED <<policy, baseline, baselineBeing, storeVars>>
    /\ Edited

EditPolicy(p) ==
    /\ p # policy
    /\ policy' = p
    /\ UNCHANGED <<plans, baseline, baselineBeing, storeVars>>
    /\ Edited

\* baseline create scans as without a baseline or imports; it truncates the
\* file and then writes it.
PlainRequest(file) ==
    [Request EXCEPT !.plans = <<file>>, !.baseline = FALSE, !.newOnly = FALSE, !.changedOnly = FALSE,
                    !.imports = {}, !.context = "none", !.branch = ""]

TruncateBaseline(file) ==
    /\ ~baselineBeing.written
    /\ AtomicDecision(PlainRequest(file), Repository) # "error"
    /\ baselineBeing' = [written |-> TRUE, expires |-> 0,
                         entries |-> EntriesFromFindings(
                             {f.finding : f \in AtomicFindings(PlainRequest(file), Repository)})]
    /\ baseline' = NoBaseline
    /\ UNCHANGED <<plans, policy, storeVars>>
    /\ Edited

WriteBaseline ==
    /\ baselineBeing.written
    /\ baseline' = baselineBeing
    /\ baselineBeing' = NoBaseline
    /\ UNCHANGED <<plans, policy, storeVars, edits>>
    /\ Noticed

\* A waiver command starts, or the day turns; the rest of a command follows.
StartsInStore ==
    /\ \/ \E c \in Commands, scope \in Scopes, expires \in Days : LoadToAdd(c, scope, expires)
       \/ \E c \in Commands : LoadToPrune(c)
       \/ NextDay
    /\ UNCHANGED <<plans, policy, baseline, baselineBeing>>
    /\ Edited

GoesOnInStore ==
    /\ \E c \in Commands : Truncate(c) \/ Write(c) \/ CutShort(c)
    /\ UNCHANGED <<plans, policy, baseline, baselineBeing, edits>>
    /\ Noticed

Init ==
    /\ \E repo \in Repositories :
           /\ plans = repo.plans
           /\ policy = repo.policy
           /\ baseline = repo.baseline
           /\ waiverFile = Whole(repo.waivers)
    /\ baselineBeing = NoBaseline
    /\ command = [c \in Commands |-> Idle]
    /\ reported = {} /\ disturbed = FALSE /\ now = 0
    /\ \E r \in Requests : scan = NewScan(r)
    /\ edits = 0
    /\ answers = {AtomicDecision(Request, Repository)}

Next ==
    \/ ScanStep
    \/ DeadlinePasses
    \/ \E file \in DOMAIN plans, s \in Sites, risk \in Risks : EditPlan(file, s, risk)
    \/ \E p \in Policies : EditPolicy(p)
    \/ \E file \in DOMAIN plans : TruncateBaseline(file)
    \/ WriteBaseline
    \/ StartsInStore
    \/ GoesOnInStore

Spec == Init /\ [][Next]_vars

-----------------------------------------------------------------------------
(***************************************************************************)
(* Properties.                                                             *)
(***************************************************************************)
Done == scan.at = "done"
Concluded == Done /\ scan.exit \in {0, 1}

(***************************************************************************)
(* Left alone, a scan is one look at the repository: its many reads, plan  *)
(* by plan, decide and report what a scan of a single moment would; its    *)
(* audit evidence is of the very files that were evaluated; and it refuses *)
(* only what a scan of a single moment refuses (buildScanReport).          *)
(***************************************************************************)
UndisturbedScanIsAtomic ==
    edits = 0 =>
        /\ Concluded /\ ~scan.late =>
              /\ scan.report.decision = AtomicDecision(Request, Repository)
              /\ scan.evaluated = AtomicFindings(Request, Repository)
              /\ scan.report.audit[1] = policy
              /\ \A i \in DOMAIN Request.plans : scan.report.audit[2][i] = plans[Request.plans[i]]
              /\ scan.report.audit[3] = {f.site : f \in {g \in Reported : "waiver" \in g.suppressions}}
        /\ Done /\ scan.exit \in {2, 3, 4} =>
              \/ AtomicDecision(Request, Repository) = "error"
              \/ scan.late
              \/ Request.context = "missing"
              \/ Len(Request.plans) > 1 /\ Request.imports # {}

(***************************************************************************)
(* The exit code tells the truth: 0 and 1 come with a whole report that    *)
(* says so, whichever output could not be written, and a blocked scan never*)
(* exits with 0 (newScanCommand chooses the code before it writes).        *)
(***************************************************************************)
ExitTellsTheVerdict ==
    Concluded =>
        /\ scan.output = "whole"
        /\ scan.exit = 1 <=> scan.report.decision = "block"
        /\ scan.report.decision \in {"allow", "warn", "block"}

(***************************************************************************)
(* No verdict rests on part of the rules: whenever the deadline passes,    *)
(* before a plan is read or while any of several plans is evaluated, a scan*)
(* that left out a finding does not conclude (scanContext, loadPlan and the*)
(* one test of the context in buildScanReport).                            *)
(***************************************************************************)
VerdictIsOfWholePlans == Concluded => ~scan.cut

(***************************************************************************)
(* An edit during a scan does not open the gate: with the repository       *)
(* changed once, at any moment and by anyone, a waiver or baseline command *)
(* half way included, the scan decides no laxer than some scan of a single *)
(* moment would have.  Two races are excepted (raced): a baseline named by *)
(* both policy and flag that changes in between has its versions united,   *)
(* the second of them not held to its expiration, and a waiver the policy  *)
(* finds too long is applied if it is added after the waiver file was      *)
(* validated.                                                              *)
(***************************************************************************)
DisturbedScanIsNoLaxer ==
    Concluded /\ edits <= 1 /\ ~scan.raced =>
        \E answer \in answers :
            answer # "error" /\ DecisionRank(answer) <= DecisionRank(scan.report.decision)

(***************************************************************************)
(* Other scanners only add evidence: leaving every import out never makes  *)
(* the decision stricter, and under a policy that blocks from high on what *)
(* no import ties to a changed resource cannot block, unless the policy    *)
(* raises the environment of imports as high (adapters.Merge).             *)
(***************************************************************************)
WithoutImports(imports) == [Request EXCEPT !.imports = @ \ imports]

ImportsOnlyAdd ==
    LET unresolved == {i \in Request.imports :
                          \A j \in Request.imports : j.site = i.site => j.node = "none"}
        blocksFromHigh ==
            /\ ScanThreshold(policy, "blockOn", Request.branch).severity >= HighSeverity
            /\ \A i \in Request.imports :
                  policy.environments[Environment[i.site]].blockOn.severity < HighSeverity
        decides(imports) == AtomicDecision(WithoutImports(imports), Repository)
    IN  /\ DecisionRank(decides(Request.imports)) <= DecisionRank(AtomicDecision(Request, Repository))
        /\ blocksFromHigh /\ AtomicDecision(Request, Repository) = "block" => decides(unresolved) = "block"
=============================================================================
