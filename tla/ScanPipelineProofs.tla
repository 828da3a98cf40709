------------------------- MODULE ScanPipelineProofs -------------------------
(***************************************************************************)
(* Theorems about `changegate scan` as a process.                          *)
(***************************************************************************)
EXTENDS ScanPipeline, GateProofs, SequenceTheorems

(***************************************************************************)
(* The strongest of several decisions.                                     *)
(***************************************************************************)
LEMMA Ranks ==
    /\ DecisionRank("error") = 4 /\ DecisionRank("block") = 3 /\ DecisionRank("warn") = 2
    /\ DecisionRank("allow") = 1 /\ DecisionRank("none") = 0
    /\ \A d \in Decisions : DecisionRank(d) \in Nat
    /\ \A d, e \in Decisions : DecisionRank(d) = DecisionRank(e) => d = e
<1>1. /\ DecisionRank("error") = 4 /\ DecisionRank("block") = 3 /\ DecisionRank("warn") = 2
      /\ DecisionRank("allow") = 1 /\ DecisionRank("none") = 0
    BY DEF DecisionRank
<1>. QED  BY <1>1 DEF Decisions

\* Decisions are told apart by their rank, so there is one strongest.
LEMMA StrongestIs ==
    ASSUME NEW D \in SUBSET Decisions, NEW d \in D,
           \A e \in D : DecisionRank(e) <= DecisionRank(d)
    PROVE  Strongest(D) = d
<1>1. ASSUME NEW s \in D, \A e \in D : DecisionRank(e) <= DecisionRank(s)
      PROVE  s = d
    <2>1. s \in Decisions /\ d \in Decisions
        OBVIOUS
    <2>2. DecisionRank(s) \in Nat /\ DecisionRank(d) \in Nat
        BY <2>1, Ranks
    <2>3. DecisionRank(s) = DecisionRank(d)
        BY <1>1, <2>2
    <2>. QED  BY <2>1, <2>3, Ranks
<1>. QED  BY <1>1 DEF Strongest

\* Whatever decisions there are, one of them is the strongest.
LEMMA HasStrongest ==
    ASSUME NEW D \in SUBSET Decisions, D # {}
    PROVE  Strongest(D) \in D /\ \A e \in D : DecisionRank(e) <= DecisionRank(Strongest(D))
<1>1. \E d \in D : \A e \in D : DecisionRank(e) <= DecisionRank(d)
    <2>1. CASE "error" \in D
        BY <2>1, Ranks DEF Decisions
    <2>2. CASE "error" \notin D /\ "block" \in D
        BY <2>2, Ranks DEF Decisions
    <2>3. CASE D \subseteq {"warn", "allow", "none"} /\ "warn" \in D
        BY <2>3, Ranks DEF Decisions
    <2>4. CASE D \subseteq {"allow", "none"} /\ "allow" \in D
        BY <2>4, Ranks DEF Decisions
    <2>5. CASE D = {"none"}
        BY <2>5, Ranks DEF Decisions
    <2>6. D \subseteq {"error", "block", "warn", "allow", "none"}
        BY DEF Decisions
    <2>. QED  BY <2>1, <2>2, <2>3, <2>4, <2>5, <2>6
<1>2. PICK d \in D : \A e \in D : DecisionRank(e) <= DecisionRank(d)
    BY <1>1
<1>3. Strongest(D) = d
    BY <1>2, StrongestIs
<1>. QED  BY <1>2, <1>3

\* Taking the strongest one by one comes to the strongest of all.
LEMMA StrongestJoins ==
    ASSUME NEW D \in SUBSET Decisions, D # {}, NEW d \in Decisions
    PROVE  Strongest({Strongest(D), d}) = Strongest(D \union {d})
<1>. DEFINE s == Strongest(D)
            t == Strongest({s, d})
<1>1. s \in D /\ \A e \in D : DecisionRank(e) <= DecisionRank(s)
    BY HasStrongest
<1>2. {s, d} \in SUBSET Decisions
    BY <1>1
<1>. HIDE DEF s
<1>3. t \in {s, d} /\ DecisionRank(s) <= DecisionRank(t) /\ DecisionRank(d) <= DecisionRank(t)
    <2>. HIDE DEF t
    <2>. QED  BY <1>2, HasStrongest DEF t
<1>. HIDE DEF t
<1>4. t \in D \union {d} /\ D \union {d} \in SUBSET Decisions
    BY <1>1, <1>3
<1>5. \A e \in D \union {d} : DecisionRank(e) <= DecisionRank(t)
    <2>1. /\ \A e \in D \union {d} : DecisionRank(e) \in Nat
          /\ DecisionRank(s) \in Nat /\ DecisionRank(t) \in Nat
        BY <1>1, <1>4, Ranks
    <2>. QED  BY <1>1, <1>3, <2>1
<1>6. Strongest(D \union {d}) = t
    BY <1>4, <1>5, StrongestIs
<1>. QED  BY <1>6 DEF t, s

\* Before the first plan the decision is "none", which any other outranks.
LEMMA StrongestSoFar ==
    ASSUME NEW D \in SUBSET Decisions, D # {}
    PROVE  Strongest({"none"} \union D) = Strongest(D)
<1>1. Strongest(D) \in D /\ \A e \in D : DecisionRank(e) <= DecisionRank(Strongest(D))
    BY HasStrongest
<1>2. {"none"} \union D \in SUBSET Decisions
    BY DEF Decisions
<1>3. DecisionRank("none") <= DecisionRank(Strongest(D))
    BY <1>1, Ranks
<1>. QED  BY <1>1, <1>2, <1>3, StrongestIs

\* Where each decision is matched by one as strong, so is the strongest.
LEMMA StrongestGrows ==
    ASSUME NEW D \in SUBSET Decisions, D # {}, NEW E \in SUBSET Decisions,
           \A d \in D : \E e \in E : DecisionRank(d) <= DecisionRank(e)
    PROVE  DecisionRank(Strongest(D)) <= DecisionRank(Strongest(E))
<1>1. Strongest(D) \in D
    BY HasStrongest
<1>2. PICK e \in E : DecisionRank(Strongest(D)) <= DecisionRank(e)
    BY <1>1
<1>3. Strongest(E) \in E /\ DecisionRank(e) <= DecisionRank(Strongest(E))
    BY <1>2, HasStrongest
<1>. QED
    <2>1. /\ DecisionRank(Strongest(D)) \in Nat /\ DecisionRank(e) \in Nat
          /\ DecisionRank(Strongest(E)) \in Nat
        BY <1>1, <1>3, Ranks
    <2>. QED  BY <1>2, <1>3, <2>1

-----------------------------------------------------------------------------
(***************************************************************************)
(* The steps of a scan.                                                    *)
(***************************************************************************)
IsReport(r) ==
    r = [decision |-> r.decision, findings |-> r.findings, summary |-> r.summary, audit |-> r.audit]

IsScan(s) ==
    /\ s = [request |-> s.request, at |-> s.at, late |-> s.late, cut |-> s.cut, raced |-> s.raced,
            policy |-> s.policy, fingerprints |-> s.fingerprints, risks |-> s.risks,
            plan |-> s.plan, findings |-> s.findings, evaluated |-> s.evaluated,
            decision |-> s.decision, report |-> s.report, output |-> s.output, exit |-> s.exit]
    /\ IsReport(s.report)

\* What a step makes of the scan.
LEMMA Stepped ==
    ASSUME NEW from, NEW to, NEW update, IsScan(update), Step(from, to, update)
    PROVE  /\ scan.at = from /\ IsScan(scan') /\ scan'.at = to
           /\ scan'.request = update.request /\ scan'.late = update.late /\ scan'.cut = update.cut
           /\ scan'.policy = update.policy /\ scan'.fingerprints = update.fingerprints
           /\ scan'.risks = update.risks /\ scan'.plan = update.plan
           /\ scan'.findings = update.findings /\ scan'.evaluated = update.evaluated
           /\ scan'.decision = update.decision /\ scan'.report = update.report
           /\ scan'.output = update.output /\ scan'.exit = update.exit
<1>1. scan.at = from /\ scan' = [update EXCEPT !.at = to]
    BY DEF Step
<1>. QED  BY <1>1 DEF IsScan

\* What a failure makes of it.
LEMMA Failed ==
    ASSUME NEW from, NEW code, IsScan(scan), Fail(from, code)
    PROVE  /\ scan.at = from /\ IsScan(scan') /\ scan'.at = "done" /\ scan'.exit = code
           /\ scan'.request = scan.request /\ scan'.late = scan.late /\ scan'.cut = scan.cut
<1>. DEFINE update == [scan EXCEPT !.exit = code]
<1>1. /\ IsScan(update) /\ update.exit = code /\ update.request = scan.request
      /\ update.late = scan.late /\ update.cut = scan.cut
    BY DEF IsScan
<1>. HIDE DEF update
<1>2. Step(from, "done", update)
    BY DEF Fail, update
<1>. QED  BY <1>1, <1>2, Stepped

Early == {"policy", "policy_baseline", "waivers", "baseline", "context"}
Scanning == {"plan", "rules", "apply_waivers"}
Reporting == {"audit_policy", "audit_plans", "audit_waivers", "audit_baseline", "bundle", "report"}
Verdicts == {"allow", "warn", "block"}

(***************************************************************************)
(* The inductive invariant behind the exit code: until a scan is done it   *)
(* has none; only a deadline leaves findings out, and the scans that go on *)
(* to report have looked at it since.                                      *)
(***************************************************************************)
Verdict(s) ==
    /\ IsScan(s)
    /\ s.at \in Early \union Scanning \union Reporting \union {"deadline", "done"}
    /\ s.cut => s.late
    /\ s.late => s.request.timeout
    /\ s.at # "done" => s.exit = -1
    /\ s.at \in Early \union Scanning => s.decision \in Verdicts \union {"none"}
    /\ s.at = "deadline" => s.decision \in Verdicts
    /\ s.at \in Reporting => s.report.decision \in Verdicts /\ ~s.cut
    /\ s.at = "done" /\ s.exit \in {0, 1} =>
          /\ s.output = "whole" /\ ~s.cut
          /\ s.exit = 1 <=> s.report.decision = "block"
          /\ s.report.decision \in Verdicts

\* A failed scan has its exit code from the failure.
LEMMA FailureIsNoVerdict ==
    ASSUME Verdict(scan), NEW from, NEW code \in {2, 3, 4, 6}, Fail(from, code)
    PROVE  Verdict(scan)'
<1>1. /\ IsScan(scan') /\ scan'.at = "done" /\ scan'.exit = code
      /\ scan'.request = scan.request /\ scan'.late = scan.late /\ scan'.cut = scan.cut
    BY Failed DEF Verdict
<1>. QED  BY <1>1 DEF Verdict, Early, Scanning, Reporting

\* Reading a file changes what was read, and nothing else.
LEMMA ReadingKeepsVerdict ==
    ASSUME Verdict(scan), NEW from \in Early, NEW to \in Early \union {"plan"},
           NEW update, IsScan(update), update.request = scan.request, update.late = scan.late,
           update.cut = scan.cut, update.decision = scan.decision, update.exit = scan.exit,
           Step(from, to, update)
    PROVE  Verdict(scan)'
<1>1. /\ scan.at = from /\ IsScan(scan') /\ scan'.at = to /\ scan'.request = scan.request
      /\ scan'.late = scan.late /\ scan'.cut = scan.cut
      /\ scan'.decision = scan.decision /\ scan'.exit = scan.exit
    BY Stepped
<1>. QED  BY <1>1 DEF Verdict, Early, Scanning, Reporting

\* What a scan is once it has read the entries of a baseline.
LEMMA WithBaselineScan ==
    ASSUME IsScan(scan), NEW entries
    PROVE  LET s == WithBaseline(entries)
           IN  /\ IsScan(s) /\ s.request = scan.request /\ s.at = scan.at /\ s.late = scan.late
               /\ s.cut = scan.cut /\ s.raced = scan.raced /\ s.policy = scan.policy
               /\ s.fingerprints = scan.fingerprints \union Fingerprints(entries)
               /\ s.risks = [x \in DOMAIN scan.risks \union Fingerprints(entries) |->
                                IF x \in Fingerprints(entries) THEN Contexts(entries)[x]
                                ELSE scan.risks[x]]
               /\ s.plan = scan.plan /\ s.findings = scan.findings /\ s.evaluated = scan.evaluated
               /\ s.decision = scan.decision /\ s.report = scan.report
               /\ s.output = scan.output /\ s.exit = scan.exit
<1>. DEFINE fingerprints == scan.fingerprints \union Fingerprints(entries)
            risks == [x \in DOMAIN scan.risks \union Fingerprints(entries) |->
                         IF x \in Fingerprints(entries) THEN Contexts(entries)[x] ELSE scan.risks[x]]
<1>1. WithBaseline(entries) = [scan EXCEPT !.fingerprints = fingerprints, !.risks = risks]
    BY DEF WithBaseline
<1>. HIDE DEF fingerprints, risks
<1>2. LET s == WithBaseline(entries)
      IN  /\ IsScan(s) /\ s.request = scan.request /\ s.at = scan.at /\ s.late = scan.late
          /\ s.cut = scan.cut /\ s.raced = scan.raced /\ s.policy = scan.policy
          /\ s.fingerprints = fingerprints /\ s.risks = risks
          /\ s.plan = scan.plan /\ s.findings = scan.findings /\ s.evaluated = scan.evaluated
          /\ s.decision = scan.decision /\ s.report = scan.report
          /\ s.output = scan.output /\ s.exit = scan.exit
    BY <1>1 DEF IsScan
<1>. QED  BY <1>2 DEF fingerprints, risks

\* One lemma per step of the scan, in the order of the code: no step decides early.
LEMMA ReadPolicyKeepsVerdict ==
    ASSUME Verdict(scan), ReadPolicy
    PROVE  Verdict(scan)'
<1>. DEFINE update == [scan EXCEPT !.policy = policy]
<1>1. /\ IsScan(update) /\ update.request = scan.request /\ update.late = scan.late
      /\ update.cut = scan.cut /\ update.decision = scan.decision /\ update.exit = scan.exit
    BY DEF Verdict, IsScan
<1>. HIDE DEF update
<1>2. Step("policy", "policy_baseline", update)
    BY DEF ReadPolicy, update
<1>. QED  BY <1>1, <1>2, ReadingKeepsVerdict DEF Early

\* The baseline the policy names is read, or the scan fails.
LEMMA ReadPolicyBaselineKeepsVerdict ==
    ASSUME Verdict(scan), ReadPolicyBaseline
    PROVE  Verdict(scan)'
<1>1. \/ Fail("policy_baseline", 4)
      \/ Step("policy_baseline", "waivers", scan)
      \/ Step("policy_baseline", "waivers", WithBaseline(baseline.entries))
    BY DEF ReadPolicyBaseline
<1>2. CASE Fail("policy_baseline", 4)
    BY <1>2, FailureIsNoVerdict
<1>3. CASE Step("policy_baseline", "waivers", scan)
    BY <1>3, ReadingKeepsVerdict DEF Verdict, Early
<1>4. CASE Step("policy_baseline", "waivers", WithBaseline(baseline.entries))
    <2>. DEFINE update == WithBaseline(baseline.entries)
    <2>1. /\ IsScan(update) /\ update.request = scan.request /\ update.late = scan.late
          /\ update.cut = scan.cut /\ update.decision = scan.decision /\ update.exit = scan.exit
        BY WithBaselineScan DEF Verdict
    <2>2. Step("policy_baseline", "waivers", update)
        BY <1>4
    <2>. HIDE DEF update
    <2>. QED  BY <2>1, <2>2, ReadingKeepsVerdict DEF Early
<1>. QED  BY <1>1, <1>2, <1>3, <1>4

\* The waivers are valid, or the scan fails.
LEMMA ValidateWaiversKeepsVerdict ==
    ASSUME Verdict(scan), ValidateWaivers
    PROVE  Verdict(scan)'
<1>1. Fail("waivers", 4) \/ Step("waivers", "baseline", scan)
    BY DEF ValidateWaivers
<1>2. CASE Fail("waivers", 4)
    BY <1>2, FailureIsNoVerdict
<1>3. CASE Step("waivers", "baseline", scan)
    BY <1>3, ReadingKeepsVerdict DEF Verdict, Early
<1>. QED  BY <1>1, <1>2, <1>3

\* The baseline the flag names is read, or the scan fails.
LEMMA ReadBaselineKeepsVerdict ==
    ASSUME Verdict(scan), ReadBaseline
    PROVE  Verdict(scan)'
<1>1. \/ Fail("baseline", 2) \/ Fail("baseline", 3)
      \/ Step("baseline", "context", scan)
      \/ \E raced : Step("baseline", "context", [WithBaseline(baseline.entries) EXCEPT !.raced = raced])
    BY DEF ReadBaseline
<1>2. CASE Fail("baseline", 2) \/ Fail("baseline", 3)
    BY <1>2, FailureIsNoVerdict
<1>3. CASE Step("baseline", "context", scan)
    BY <1>3, ReadingKeepsVerdict DEF Verdict, Early
<1>4. ASSUME NEW raced,
             Step("baseline", "context", [WithBaseline(baseline.entries) EXCEPT !.raced = raced])
      PROVE  Verdict(scan)'
    <2>. DEFINE read == WithBaseline(baseline.entries)
                update == [read EXCEPT !.raced = raced]
    <2>1. /\ IsScan(read) /\ read.request = scan.request /\ read.late = scan.late
          /\ read.cut = scan.cut /\ read.decision = scan.decision /\ read.exit = scan.exit
        BY WithBaselineScan DEF Verdict
    <2>2. Step("baseline", "context", update)
        BY <1>4
    <2>. HIDE DEF read
    <2>3. /\ IsScan(update) /\ update.request = scan.request /\ update.late = scan.late
          /\ update.cut = scan.cut /\ update.decision = scan.decision /\ update.exit = scan.exit
        BY <2>1 DEF IsScan
    <2>. HIDE DEF update
    <2>. QED  BY <2>2, <2>3, ReadingKeepsVerdict DEF Early
<1>. QED  BY <1>1, <1>2, <1>3, <1>4

\* The context is read, or the scan fails.
LEMMA ReadContextKeepsVerdict ==
    ASSUME Verdict(scan), ReadContext
    PROVE  Verdict(scan)'
<1>1. Fail("context", 3) \/ Fail("context", 2) \/ Step("context", "plan", scan)
    BY DEF ReadContext
<1>2. CASE Fail("context", 3) \/ Fail("context", 2)
    BY <1>2, FailureIsNoVerdict
<1>3. CASE Step("context", "plan", scan)
    BY <1>3, ReadingKeepsVerdict DEF Verdict, Early
<1>. QED  BY <1>1, <1>2, <1>3

\* A plan that is read decides nothing yet.
LEMMA ReadPlanKeepsVerdict ==
    ASSUME Verdict(scan), ReadPlan
    PROVE  Verdict(scan)'
<1>1. Fail("plan", 3) \/ \E f : Step("plan", "rules", [scan EXCEPT !.findings = f])
    BY DEF ReadPlan
<1>2. CASE Fail("plan", 3)
    BY <1>2, FailureIsNoVerdict
<1>3. ASSUME NEW f, Step("plan", "rules", [scan EXCEPT !.findings = f])
      PROVE  Verdict(scan)'
    <2>. DEFINE update == [scan EXCEPT !.findings = f]
    <2>1. /\ IsScan(update) /\ update.request = scan.request /\ update.late = scan.late
          /\ update.cut = scan.cut /\ update.decision = scan.decision /\ update.exit = scan.exit
        BY DEF Verdict, IsScan
    <2>2. Step("plan", "rules", update)
        BY <1>3
    <2>. HIDE DEF update
    <2>3. /\ scan.at = "plan" /\ IsScan(scan') /\ scan'.at = "rules" /\ scan'.request = scan.request
          /\ scan'.late = scan.late /\ scan'.cut = scan.cut
          /\ scan'.decision = scan.decision /\ scan'.exit = scan.exit
        BY <2>1, <2>2, Stepped
    <2>. QED  BY <2>3 DEF Verdict, Early, Scanning, Reporting
<1>. QED  BY <1>1, <1>2, <1>3

\* Only a deadline makes the rule runner leave findings out.
LEMMA EvaluateRulesKeepsVerdict ==
    ASSUME Verdict(scan), EvaluateRules
    PROVE  Verdict(scan)'
<1>1. PICK some \in IF scan.late THEN SUBSET scan.findings ELSE {scan.findings} :
          Step("rules", "apply_waivers",
               [scan EXCEPT !.findings = Merge(some, Request.imports),
                            !.cut = @ \/ some # scan.findings])
    BY DEF EvaluateRules
<1>. DEFINE merged == Merge(some, Request.imports)
            cut == scan.cut \/ some # scan.findings
            update == [scan EXCEPT !.findings = merged, !.cut = cut]
<1>2. Step("rules", "apply_waivers", update)
    BY <1>1
<1>3. cut => scan.late
    BY DEF Verdict
<1>. HIDE DEF merged, cut
<1>4. /\ IsScan(update) /\ update.request = scan.request /\ update.late = scan.late
      /\ update.cut = cut /\ update.decision = scan.decision /\ update.exit = scan.exit
    <2>1. IsScan(scan) /\ update = [scan EXCEPT !.findings = merged, !.cut = cut]
        BY DEF Verdict
    <2>. HIDE DEF update
    <2>. QED  BY <2>1 DEF IsScan
<1>. HIDE DEF update
<1>5. /\ scan.at = "rules" /\ IsScan(scan') /\ scan'.at = "apply_waivers"
      /\ scan'.request = scan.request /\ scan'.late = scan.late /\ scan'.cut = cut
      /\ scan'.decision = scan.decision /\ scan'.exit = scan.exit
    BY <1>2, <1>4, Stepped
<1>. QED  BY <1>3, <1>5 DEF Verdict, Early, Scanning, Reporting

\* Whatever is evaluated is decided.
LEMMA Decided ==
    ASSUME NEW findings, NEW config
    PROVE  EvaluatePolicy(findings, config).decision \in Verdicts
<1>1. \A kept, mode : DecisionFor(kept, mode) \in Verdicts
    BY DEF DecisionFor, Verdicts
<1>. QED  BY <1>1 DEF EvaluatePolicy

\* What a scan is once one more plan has been evaluated.
LEMMA EvaluatedScan ==
    ASSUME IsScan(scan), NEW findings
    PROVE  LET s == Evaluated(findings)
               config == ConfigWith(Options(Request), scan.policy, scan.fingerprints, scan.risks)
               outcome == EvaluatePolicy(findings, config)
           IN  /\ IsScan(s) /\ s.request = scan.request /\ s.at = scan.at /\ s.late = scan.late
               /\ s.cut = scan.cut /\ s.policy = scan.policy
               /\ s.fingerprints = scan.fingerprints /\ s.risks = scan.risks
               /\ s.plan = scan.plan + 1
               /\ s.evaluated = scan.evaluated \union Tagged(scan.plan, outcome.findings)
               /\ s.decision = Strongest({scan.decision, outcome.decision})
               /\ s.report = scan.report /\ s.output = scan.output /\ s.exit = scan.exit
<1>. DEFINE outcome == EvaluatePolicy(findings,
                           ConfigWith(Options(Request), scan.policy, scan.fingerprints, scan.risks))
            evaluated == scan.evaluated \union Tagged(scan.plan, outcome.findings)
            decision == StrongestDecision(scan.decision, outcome.decision)
            raced == scan.raced \/ (/\ scan.policy.waiverFile
                                    /\ ~ValidWaivers(waiverFile.records, scan.policy.maxWaiverDays))
            plan == scan.plan + 1
<1>1. Evaluated(findings) = [scan EXCEPT !.evaluated = evaluated, !.decision = decision,
                                         !.raced = raced, !.plan = plan, !.findings = {}]
    BY DEF Evaluated
<1>2. decision = Strongest({scan.decision, outcome.decision})
    BY DEF StrongestDecision
<1>. HIDE DEF evaluated, decision, raced, plan
<1>3. LET s == Evaluated(findings)
      IN  /\ IsScan(s) /\ s.request = scan.request /\ s.at = scan.at /\ s.late = scan.late
          /\ s.cut = scan.cut /\ s.policy = scan.policy
          /\ s.fingerprints = scan.fingerprints /\ s.risks = scan.risks
          /\ s.plan = plan /\ s.evaluated = evaluated /\ s.decision = decision
          /\ s.report = scan.report /\ s.output = scan.output /\ s.exit = scan.exit
    BY <1>1 DEF IsScan
<1>. QED  BY <1>2, <1>3 DEF evaluated, plan

\* A plan that is evaluated strengthens the decision or keeps it.
LEMMA ApplyAndEvaluateKeepsVerdict ==
    ASSUME Verdict(scan), ApplyAndEvaluate
    PROVE  Verdict(scan)'
<1>1. \/ Fail("apply_waivers", 3) \/ Fail("apply_waivers", 4)
      \/ \E findings : Step("apply_waivers", AfterPlan, Evaluated(findings))
    BY DEF ApplyAndEvaluate
<1>2. CASE Fail("apply_waivers", 3) \/ Fail("apply_waivers", 4)
    BY <1>2, FailureIsNoVerdict
<1>3. ASSUME NEW findings, Step("apply_waivers", AfterPlan, Evaluated(findings))
      PROVE  Verdict(scan)'
    <2>. DEFINE update == Evaluated(findings)
                decision == EvaluatePolicy(findings,
                                ConfigWith(Options(Request), scan.policy, scan.fingerprints, scan.risks)).decision
                next == AfterPlan
    <2>1. /\ IsScan(update) /\ update.request = scan.request /\ update.late = scan.late
          /\ update.cut = scan.cut /\ update.exit = scan.exit
          /\ update.decision = Strongest({scan.decision, decision})
        BY EvaluatedScan DEF Verdict
    <2>2. Step("apply_waivers", next, update) /\ next \in {"plan", "deadline"}
        BY <1>3 DEF AfterPlan
    <2>3. decision \in Verdicts
        BY Decided
    <2>. HIDE DEF update, decision, next
    <2>4. /\ scan.at = "apply_waivers" /\ IsScan(scan') /\ scan'.at = next
          /\ scan'.request = scan.request /\ scan'.late = scan.late /\ scan'.cut = scan.cut
          /\ scan'.exit = scan.exit /\ scan'.decision = Strongest({scan.decision, decision})
        BY <2>1, <2>2, Stepped
    <2>5. scan.decision \in Verdicts \union {"none"}
        BY <2>4 DEF Verdict, Scanning
    <2>6. Strongest({scan.decision, decision}) \in Verdicts
        <3>. DEFINE D == {scan.decision, decision}
        <3>1. D \in SUBSET Decisions /\ D # {} /\ decision \in D
            BY <2>3, <2>5 DEF Verdicts, Decisions
        <3>2. Strongest(D) \in D /\ DecisionRank(decision) <= DecisionRank(Strongest(D))
            BY <3>1, HasStrongest
        <3>3. DecisionRank(decision) \in {1, 2, 3} /\ DecisionRank("none") = 0
            BY <2>3, Ranks DEF Verdicts
        <3>. QED  BY <2>3, <2>5, <3>2, <3>3 DEF Verdicts
    <2>. QED  BY <2>2, <2>4, <2>6 DEF Verdict, Early, Scanning, Reporting
<1>. QED  BY <1>1, <1>2, <1>3

\* The report as it is first made, before any audit evidence.
LEMMA LimitedReport ==
    ASSUME NEW kept
    PROVE  LET report == [NoReport EXCEPT !.decision = scan.decision, !.findings = kept,
                                          !.summary = RiskSummary(kept)]
           IN  /\ IsReport(report) /\ report.decision = scan.decision /\ report.findings = kept
               /\ report.audit = << >>
<1>. DEFINE summary == RiskSummary(kept)
            report == [NoReport EXCEPT !.decision = scan.decision, !.findings = kept, !.summary = summary]
<1>1. PICK none : NoReport = [decision |-> "none", findings |-> {}, summary |-> none, audit |-> << >>]
    BY Zenon DEF NoReport
<1>. HIDE DEF summary
<1>2. report = [decision |-> scan.decision, findings |-> kept, summary |-> summary, audit |-> << >>]
    <2>1. report = [NoReport EXCEPT !.decision = scan.decision, !.findings = kept, !.summary = summary]
        OBVIOUS
    <2>. HIDE DEF report
    <2>. QED  BY <1>1, <2>1
<1>. HIDE DEF report
<1>3. /\ IsReport(report) /\ report.decision = scan.decision /\ report.findings = kept
      /\ report.audit = << >>
    BY <1>2 DEF IsReport
<1>. QED  BY <1>3 DEF report, summary

\* The deadline is looked at once more, and everything after it is a report.
LEMMA LimitFindingsKeepsVerdict ==
    ASSUME Verdict(scan), LimitFindings
    PROVE  Verdict(scan)'
<1>. DEFINE kept == Limit(scan.evaluated, Request.maxFindings)
            summary == RiskSummary(kept)
            report == [NoReport EXCEPT !.decision = scan.decision, !.findings = kept,
                                       !.summary = summary]
            update == [scan EXCEPT !.report = report]
<1>1. Fail("deadline", 3) \/ (~DeadlinePassed /\ Step("deadline", "audit_policy", update))
    BY DEF LimitFindings
<1>. HIDE DEF kept, summary
<1>2. CASE Fail("deadline", 3)
    BY <1>2, FailureIsNoVerdict
<1>3. CASE ~DeadlinePassed /\ Step("deadline", "audit_policy", update)
    <2>1. IsReport(report) /\ report.decision = scan.decision
        BY LimitedReport DEF kept, summary
    <2>2. Step("deadline", "audit_policy", update)
        BY <1>3
    <2>. HIDE DEF report
    <2>3. /\ IsScan(update) /\ update.request = scan.request /\ update.late = scan.late
          /\ update.cut = scan.cut /\ update.report = report /\ update.exit = scan.exit
        BY <2>1 DEF Verdict, IsScan
    <2>. HIDE DEF update
    <2>4. /\ scan.at = "deadline" /\ IsScan(scan') /\ scan'.at = "audit_policy"
          /\ scan'.request = scan.request /\ scan'.late = scan.late /\ scan'.cut = scan.cut
          /\ scan'.exit = scan.exit /\ scan'.report = report
        BY <2>2, <2>3, Stepped
    <2>5. ~scan.cut
        BY <1>3 DEF Verdict, DeadlinePassed, Request
    <2>. QED  BY <2>1, <2>4, <2>5 DEF Verdict, Early, Scanning, Reporting
<1>. QED  BY <1>1, <1>2, <1>3

\* What a scan is once one more piece of audit evidence is attached.
LEMMA NotedScan ==
    ASSUME IsScan(scan), NEW evidence
    PROVE  LET s == Noted(evidence)
           IN  /\ IsScan(s) /\ s.request = scan.request /\ s.late = scan.late /\ s.cut = scan.cut
               /\ s.evaluated = scan.evaluated /\ s.exit = scan.exit
               /\ s.report.decision = scan.report.decision
               /\ s.report.findings = scan.report.findings
               /\ s.report.audit = scan.report.audit \o <<evidence>>
<1>. DEFINE audit == scan.report.audit \o <<evidence>>
            report == [scan.report EXCEPT !.audit = audit]
<1>1. Noted(evidence) = [scan EXCEPT !.report = report]
    BY DEF Noted
<1>. HIDE DEF audit
<1>2. /\ IsReport(report) /\ report.audit = audit /\ report.decision = scan.report.decision
      /\ report.findings = scan.report.findings
    BY DEF IsReport, IsScan
<1>. HIDE DEF report
<1>3. LET s == Noted(evidence)
      IN  /\ IsScan(s) /\ s.request = scan.request /\ s.late = scan.late /\ s.cut = scan.cut
          /\ s.evaluated = scan.evaluated /\ s.exit = scan.exit /\ s.report = report
    BY <1>1, <1>2 DEF IsScan
<1>. QED  BY <1>2, <1>3 DEF audit

\* Audit evidence is added to the report; the decision stays.
LEMMA ReportingKeepsVerdict ==
    ASSUME Verdict(scan), NEW from \in Reporting, NEW to \in Reporting,
           NEW update, IsScan(update), update.request = scan.request, update.late = scan.late,
           update.cut = scan.cut, update.exit = scan.exit,
           update.report.decision = scan.report.decision, Step(from, to, update)
    PROVE  Verdict(scan)'
<1>1. /\ scan.at = from /\ IsScan(scan') /\ scan'.at = to /\ scan'.request = scan.request
      /\ scan'.late = scan.late /\ scan'.cut = scan.cut /\ scan'.exit = scan.exit
      /\ scan'.report.decision = scan.report.decision
    BY Stepped
<1>. QED  BY <1>1 DEF Verdict, Early, Scanning, Reporting

\* Attaching a piece of audit evidence is a step of that kind.
LEMMA NotingKeepsVerdict ==
    ASSUME Verdict(scan), NEW from \in Reporting, NEW to \in Reporting, NEW evidence,
           Step(from, to, Noted(evidence))
    PROVE  Verdict(scan)'
<1>1. /\ IsScan(Noted(evidence)) /\ Noted(evidence).request = scan.request
      /\ Noted(evidence).late = scan.late /\ Noted(evidence).cut = scan.cut
      /\ Noted(evidence).exit = scan.exit
      /\ Noted(evidence).report.decision = scan.report.decision
    BY NotedScan DEF Verdict
<1>. QED  BY <1>1, ReportingKeepsVerdict

\* So are the four steps that read files again for the audit evidence.
LEMMA AuditKeepsVerdict ==
    ASSUME Verdict(scan), AuditPolicy \/ AuditPlans \/ AuditWaivers \/ AuditBaseline
    PROVE  Verdict(scan)'
<1>1. \/ Fail("audit_waivers", 3) \/ Fail("audit_baseline", 3)
      \/ \E from \in Reporting, to \in Reporting : \E evidence : Step(from, to, Noted(evidence))
    BY DEF AuditPolicy, AuditPlans, AuditWaivers, AuditBaseline, Reporting
<1>2. CASE Fail("audit_waivers", 3) \/ Fail("audit_baseline", 3)
    BY <1>2, FailureIsNoVerdict
<1>. QED  BY <1>1, <1>2, NotingKeepsVerdict

\* A bundle that cannot be written is an internal error, not a verdict.
LEMMA WriteBundleKeepsVerdict ==
    ASSUME Verdict(scan), WriteBundle
    PROVE  Verdict(scan)'
<1>1. Step("bundle", "report", scan) \/ Fail("bundle", 6)
    BY DEF WriteBundle
<1>2. CASE Step("bundle", "report", scan)
    BY <1>2, ReportingKeepsVerdict DEF Verdict, Reporting
<1>3. CASE Fail("bundle", 6)
    BY <1>3, FailureIsNoVerdict
<1>. QED  BY <1>1, <1>2, <1>3

\* The one step that concludes.
LEMMA WriteReportKeepsVerdict ==
    ASSUME Verdict(scan), WriteReport
    PROVE  Verdict(scan)'
<1>1. \E output, code :
          /\ (output = "whole" /\ code = ExitCode(scan.report.decision)) \/ code = 6
          /\ Step("report", "done", [scan EXCEPT !.output = output, !.exit = code])
    BY DEF WriteReport, ExitCodeOnError
<1>2. PICK output, code :
          /\ (output = "whole" /\ code = ExitCode(scan.report.decision)) \/ code = 6
          /\ Step("report", "done", [scan EXCEPT !.output = output, !.exit = code])
    BY <1>1
<1>. DEFINE update == [scan EXCEPT !.output = output, !.exit = code]
<1>3. /\ IsScan(update) /\ update.request = scan.request /\ update.late = scan.late
      /\ update.cut = scan.cut /\ update.output = output /\ update.exit = code
      /\ update.report = scan.report
    <2>1. IsScan(scan) /\ update = [scan EXCEPT !.output = output, !.exit = code]
        BY DEF Verdict
    <2>. HIDE DEF update
    <2>. QED  BY <2>1 DEF IsScan
<1>4. Step("report", "done", update)
    BY <1>2
<1>. HIDE DEF update
<1>5. /\ scan.at = "report" /\ IsScan(scan') /\ scan'.at = "done" /\ scan'.request = scan.request
      /\ scan'.late = scan.late /\ scan'.cut = scan.cut /\ scan'.output = output
      /\ scan'.exit = code /\ scan'.report = scan.report
    BY <1>3, <1>4, Stepped
<1>6. scan.report.decision \in Verdicts /\ ~scan.cut
    BY <1>5 DEF Verdict, Reporting
<1>7. code \in {0, 1} => output = "whole" /\ (code = 1 <=> scan.report.decision = "block")
    BY <1>2, <1>6 DEF ExitCode
<1>. QED  BY <1>5, <1>6, <1>7 DEF Verdict, Early, Scanning, Reporting

\* All steps of the scan together.
LEMMA ScanStepKeepsVerdict ==
    ASSUME Verdict(scan), ScanStep
    PROVE  Verdict(scan)'
    BY ReadPolicyKeepsVerdict, ReadPolicyBaselineKeepsVerdict, ValidateWaiversKeepsVerdict,
       ReadBaselineKeepsVerdict, ReadContextKeepsVerdict, ReadPlanKeepsVerdict,
       EvaluateRulesKeepsVerdict, ApplyAndEvaluateKeepsVerdict, LimitFindingsKeepsVerdict,
       AuditKeepsVerdict, WriteBundleKeepsVerdict, WriteReportKeepsVerdict
    DEF ScanStep

\* What the scan is once its deadline has passed.
LEMMA LateScan ==
    ASSUME IsScan(scan), DeadlinePasses
    PROVE  /\ IsScan(scan') /\ scan'.late = TRUE /\ scan.at # "done" /\ scan.request.timeout
           /\ scan'.request = scan.request /\ scan'.at = scan.at /\ scan'.cut = scan.cut
           /\ scan'.policy = scan.policy /\ scan'.fingerprints = scan.fingerprints
           /\ scan'.risks = scan.risks /\ scan'.plan = scan.plan
           /\ scan'.decision = scan.decision /\ scan'.report = scan.report
           /\ scan'.output = scan.output /\ scan'.exit = scan.exit
<1>1. scan' = [scan EXCEPT !.late = TRUE] /\ scan.at # "done" /\ scan.request.timeout
    BY DEF DeadlinePasses, Request
<1>. QED  BY <1>1 DEF IsScan

\* A deadline that passes decides nothing by itself.
LEMMA DeadlineKeepsVerdict ==
    ASSUME Verdict(scan), DeadlinePasses
    PROVE  Verdict(scan)'
<1>1. /\ IsScan(scan') /\ scan'.late = TRUE /\ scan.at # "done" /\ scan.request.timeout
      /\ scan'.request = scan.request /\ scan'.at = scan.at /\ scan'.cut = scan.cut
      /\ scan'.decision = scan.decision /\ scan'.report = scan.report
      /\ scan'.output = scan.output /\ scan'.exit = scan.exit
    BY LateScan DEF Verdict
<1>. QED  BY <1>1 DEF Verdict

\* What happens around the scan leaves it alone.
LEMMA AroundTheScan ==
    ASSUME [Next]_vars
    PROVE  ScanStep \/ DeadlinePasses \/ UNCHANGED scan
    BY DEF Next, EditPlan, EditPolicy, TruncateBaseline, WriteBaseline, StartsInStore, GoesOnInStore,
           Edited, Noticed, vars

\* A scan that has not begun has no verdict.
LEMMA NewVerdict ==
    ASSUME NEW r, scan = NewScan(r)
    PROVE  Verdict(scan)
<1>1. PICK none : NoReport = [decision |-> "none", findings |-> {}, summary |-> none, audit |-> << >>]
    BY Zenon DEF NoReport
<1>2. IsReport(NoReport)
    BY <1>1 DEF IsReport
<1>3. /\ IsScan(scan) /\ scan.at = "policy" /\ scan.cut = FALSE /\ scan.late = FALSE
      /\ scan.exit = -1 /\ scan.decision = "none"
    BY <1>2 DEF NewScan, IsScan
<1>. QED  BY <1>3 DEF Verdict, Early, Scanning, Reporting

(***************************************************************************)
(* Every reachable scan has the verdict it has come to, however the        *)
(* repository is edited meanwhile and whenever the deadline passes.        *)
(***************************************************************************)
THEOREM VerdictInvariance == Spec => []Verdict(scan)
<1>1. Init => Verdict(scan)
    BY NewVerdict DEF Init
<1>2. Verdict(scan) /\ [Next]_vars => Verdict(scan)'
    <2>. SUFFICES ASSUME Verdict(scan), [Next]_vars PROVE Verdict(scan)'
        OBVIOUS
    <2>1. CASE ScanStep
        BY <2>1, ScanStepKeepsVerdict
    <2>2. CASE DeadlinePasses
        BY <2>2, DeadlineKeepsVerdict
    <2>3. CASE UNCHANGED scan
        BY <2>3
    <2>. QED  BY <2>1, <2>2, <2>3, AroundTheScan
<1>. QED  BY <1>1, <1>2, PTL DEF Spec

(***************************************************************************)
(* The exit code tells the verdict of the report that was written whole    *)
(* (newScanCommand, writeScanReport).                                      *)
(***************************************************************************)
THEOREM ExitCodes == Spec => []ExitTellsTheVerdict
<1>1. Verdict(scan) => ExitTellsTheVerdict
    BY DEF Verdict, ExitTellsTheVerdict, Concluded, Done, Verdicts
<1>. QED  BY <1>1, VerdictInvariance, PTL

(***************************************************************************)
(* A scan that left out a finding when its deadline passed never concludes *)
(* (scanContext, loadPlan, buildScanReport).                               *)
(***************************************************************************)
THEOREM WholePlans == Spec => []VerdictIsOfWholePlans
<1>1. Verdict(scan) => VerdictIsOfWholePlans
    BY DEF Verdict, VerdictIsOfWholePlans, Concluded, Done
<1>. QED  BY <1>1, VerdictInvariance, PTL

-----------------------------------------------------------------------------
(***************************************************************************)
(* What a scan of a single moment decides.                                 *)
(***************************************************************************)
MayScan(r, repo) ==
    /\ r \in Requests /\ r \in CommandLine(DOMAIN repo.plans)
    /\ \A file \in DOMAIN repo.plans : IsPlan(repo.plans[file])
    /\ IsPolicy(repo.policy)

\* The command line names one plan or more, all of them in the repository.
LEMMA RequestFields ==
    ASSUME NEW r, NEW repo, MayScan(r, repo)
    PROVE  /\ Len(r.plans) \in Nat \ {0} /\ DOMAIN r.plans = 1..Len(r.plans)
           /\ \A i \in DOMAIN r.plans : r.plans[i] \in DOMAIN repo.plans
           /\ r.imports \subseteq Import
<1>1. r.plans \in Seq(DOMAIN repo.plans) \ {<< >>} /\ r.imports \in SUBSET Import
    BY DEF MayScan, CommandLine
<1>. QED  BY <1>1

\* What ScanGate is told of the command line.
LEMMA OptionFields ==
    ASSUME NEW r, NEW repo, MayScan(r, repo)
    PROVE  LET opts == Options(r)
           IN  /\ opts.mode = r.mode /\ opts.branch = r.branch /\ opts.baseline = r.baseline
               /\ opts.newOnly = r.newOnly /\ opts.changedOnly = r.changedOnly
               /\ opts.cloudContext = (r.context = "file")
<1>. DEFINE cloud == r.context = "file"
<1>1. r \in CommandLine(DOMAIN repo.plans) /\ Options(r) = [r EXCEPT !.cloudContext = cloud]
    BY DEF MayScan, Options
<1>. HIDE DEF cloud
<1>2. LET opts == Options(r)
      IN  /\ opts.mode = r.mode /\ opts.branch = r.branch /\ opts.baseline = r.baseline
          /\ opts.newOnly = r.newOnly /\ opts.changedOnly = r.changedOnly
          /\ opts.cloudContext = cloud
    BY <1>1 DEF CommandLine
<1>. QED  BY <1>2 DEF cloud

\* Each plan is a repository that ScanGate can scan.
LEMMA PlanOfRepository ==
    ASSUME NEW r, NEW repo, MayScan(r, repo), NEW file \in DOMAIN repo.plans
    PROVE  /\ IsRepository(WithPlan(repo, file)) /\ WithPlan(repo, file).policy = repo.policy
           /\ \A f \in Native(r, repo, file) :
                 /\ f \in Finding /\ f.site \notin ExternalSites /\ f.impact = "allow"
                 /\ "waiver" \notin f.suppressions
<1>1. IsPlan(repo.plans[file]) /\ IsPolicy(repo.policy)
    BY DEF MayScan
<1>2. /\ IsRepository(WithPlan(repo, file)) /\ WithPlan(repo, file).policy = repo.policy
      /\ WithPlan(repo, file).plan = repo.plans[file]
    BY <1>1 DEF WithPlan, IsRepository, IsPlan
<1>3. ASSUME NEW f \in Native(r, repo, file)
      PROVE  /\ f \in Finding /\ f.site \notin ExternalSites /\ f.impact = "allow"
             /\ "waiver" \notin f.suppressions
    <2>1. f \in RawFindings(Options(r), WithPlan(repo, file))
        BY <1>3 DEF Native
    <2>2. /\ f.site \in DOMAIN repo.plans[file] /\ f \in Finding
          /\ f = FindingAt(f.site, repo.plans[file][f.site]) /\ f.suppressions \subseteq {"experimental"}
        BY <1>2, <2>1, RawFinding
    <2>3. f.impact = "allow"
        BY <2>2 DEF FindingAt
    <2>. QED  BY <1>1, <2>2, <2>3 DEF IsPlan
<1>. QED  BY <1>2, <1>3

\* What a scan makes of one of its plans.
AtPlan(r, repo, i) ==
    Judge(Options(r), WithPlan(repo, r.plans[i]), Merge(Native(r, repo, r.plans[i]), r.imports))

\* A scan of a single moment decides the strongest of its plans.
LEMMA AtomicOutcomes ==
    ASSUME NEW r, NEW repo
    PROVE  /\ DOMAIN Atomic(r, repo) = DOMAIN r.plans
           /\ \A i \in DOMAIN r.plans : Atomic(r, repo)[i] = AtPlan(r, repo, i)
           /\ ~(repo.policy.waiverFile /\ repo.waiverFile.state # "whole") =>
                 AtomicDecision(r, repo) = Strongest({AtPlan(r, repo, i).decision : i \in DOMAIN r.plans})
<1>1. Atomic(r, repo) = [i \in DOMAIN r.plans |-> AtPlan(r, repo, i)]
    BY DEF Atomic, AtPlan
<1>2. {outcome.decision : outcome \in Range(Atomic(r, repo))}
        = {AtPlan(r, repo, i).decision : i \in DOMAIN r.plans}
    BY <1>1 DEF Range
<1>. QED  BY <1>1, <1>2 DEF AtomicDecision

\* A plan is refused, or has a verdict.
LEMMA JudgeDecides ==
    ASSUME NEW opts, NEW repo, NEW findings
    PROVE  IF Refused(opts, repo) THEN Judge(opts, repo, findings).decision = "error"
           ELSE /\ Judge(opts, repo, findings) = EvaluatePolicy(Reviewed(findings, repo), PolicyConfig(opts, repo))
                /\ Judge(opts, repo, findings).decision \in Verdicts
    BY Decided DEF Judge

\* The decisions about the plans: there is at least one.
LEMMA AtomicDecisions ==
    ASSUME NEW r, NEW repo, MayScan(r, repo)
    PROVE  LET D == {AtPlan(r, repo, i).decision : i \in DOMAIN r.plans}
           IN  D \in SUBSET Decisions /\ D # {}
<1>1. 1 \in DOMAIN r.plans
    BY RequestFields
<1>2. \A i \in DOMAIN r.plans : AtPlan(r, repo, i).decision \in Verdicts \union {"error"}
    BY JudgeDecides DEF AtPlan
<1>. QED  BY <1>1, <1>2 DEF Verdicts, Decisions

-----------------------------------------------------------------------------
(***************************************************************************)
(* Imports.                                                                *)
(***************************************************************************)
FindingOf(u) == ImportedFinding(CorrelateImported(NormalizeImported(u)))

\* An import becomes a finding; of an unknown resource, it is medium at most.
LEMMA ImportFinding ==
    ASSUME NEW i \in Import
    PROVE  LET n == NormalizeImported(i)
               f == FindingOf(i)
           IN  /\ n \in Import /\ n.site = i.site /\ n.node = i.node
               /\ f \in Finding /\ f.site = i.site /\ f.impact = "allow" /\ f.suppressions = {}
               /\ i.node = "none" => f.severity <= MediumSeverity
<1>. DEFINE n == NormalizeImported(i)
            c == CorrelateImported(n)
<1>1. /\ n \in Import /\ n.site = i.site /\ n.node = i.node
      /\ n.severity \in Severities /\ n.confidence \in Confidences
    <2>. DEFINE severity == IF i.severity = 0 THEN MediumSeverity ELSE i.severity
                confidence == IF i.confidence = 0 THEN MediumConfidence ELSE i.confidence
    <2>1. n = [i EXCEPT !.severity = severity, !.confidence = confidence]
        BY DEF NormalizeImported
    <2>2. severity \in 1..5 /\ confidence \in 1..4
        BY DEF Import, MediumSeverity, MediumConfidence
    <2>. HIDE DEF severity, confidence, n
    <2>3. severity \in 0..5 /\ confidence \in 0..4
        BY <2>2
    <2>. QED  BY <2>1, <2>2, <2>3 DEF Import, Severities, Confidences
<1>. HIDE DEF n
<1>2. c = Downgrade(n) \/ c = Upgrade(n) \/ c = n
    BY <1>1 DEF CorrelateImported, Import, Nodes
<1>3. n.node = "none" => c = Downgrade(n)
    BY DEF CorrelateImported
<1>4. /\ Downgrade(n).site = n.site /\ Downgrade(n).touched = n.touched
      /\ Downgrade(n).severity \in Severities /\ Downgrade(n).confidence \in Confidences
      /\ Downgrade(n).severity <= MediumSeverity
    BY <1>1 DEF Downgrade, Import, Severities, Confidences, MediumSeverity, MediumConfidence, HighSeverity
<1>5. /\ Upgrade(n).site = n.site /\ Upgrade(n).touched = n.touched
      /\ Upgrade(n).severity \in Severities /\ Upgrade(n).confidence \in Confidences
    BY <1>1 DEF Upgrade, Import, Severities, Confidences, MediumSeverity, MediumConfidence,
                HighSeverity, HighConfidence
<1>6. /\ c.site = i.site /\ c.touched \in BOOLEAN /\ c.site \in Sites
      /\ c.severity \in Severities /\ c.confidence \in Confidences
    <2>1. n.touched \in BOOLEAN /\ n.site \in Sites
        BY <1>1 DEF Import
    <2>. HIDE DEF c
    <2>. QED  BY <1>1, <1>2, <1>4, <1>5, <2>1
<1>. HIDE DEF c
<1>7. LET f == ImportedFinding(c)
      IN  /\ f \in Finding /\ f.site = i.site /\ f.impact = "allow" /\ f.suppressions = {}
          /\ f.severity = c.severity
    BY <1>6 DEF ImportedFinding, Finding, Decisions
<1>. QED  BY <1>1, <1>3, <1>4, <1>7 DEF n, c, FindingOf

(***************************************************************************)
(* Imports whose sites no others have add findings of their own and change *)
(* nothing else.                                                           *)
(***************************************************************************)
Apart(J, U) == \A i \in J, u \in U : i.site # u.site

AddedBy(native, U, imports) ==
    LET normal == {NormalizeImported(i) : i \in imports}
        Superseded(i) == \E f \in native : CategoryKey[i.site] = CategoryKey[f.site]
        First(i) == \A j \in normal \ {i} : j.site = i.site => ComesBefore(i, j)
    IN  {ImportedFinding(CorrelateImported(i)) :
            i \in {j \in {NormalizeImported(u) : u \in U} : ~Superseded(j) /\ First(j)}}

\* What Merge makes of two sets of imports without a site in common.
LEMMA MergeSplits ==
    ASSUME NEW native, NEW J \in SUBSET Import, NEW U \in SUBSET Import,
           Apart(J, U)
    PROVE  /\ Merge(native, J \union U) = Merge(native, J) \union AddedBy(native, U, J \union U)
           /\ \A b \in AddedBy(native, U, J \union U) : \E u \in U : b = FindingOf(u)
<1>. DEFINE Normal(I) == {NormalizeImported(i) : i \in I}
            Superseded(i) == \E f \in native : CategoryKey[i.site] = CategoryKey[f.site]
            First(i, I) == \A j \in Normal(I) \ {i} : j.site = i.site => ComesBefore(i, j)
            Kept(i, I) == ~Superseded(i) /\ First(i, I)
            External(i) == ImportedFinding(CorrelateImported(i))
            B == AddedBy(native, U, J \union U)
<1>1. \A I : Merge(native, I) = native \union {External(i) : i \in {j \in Normal(I) : Kept(j, I)}}
    BY DEF Merge
<1>2. Normal(J \union U) = Normal(J) \union Normal(U)
    OBVIOUS
<1>3. \A i \in J \union U : NormalizeImported(i).site = i.site
    BY ImportFinding
<1>4. \A i \in Normal(J), u \in Normal(U) : i.site # u.site
    BY <1>3 DEF Apart
<1>5. ASSUME NEW i \in Normal(J)
      PROVE  Kept(i, J \union U) <=> Kept(i, J)
    <2>. HIDE DEF Normal, Superseded
    <2>. QED  BY <1>2, <1>4
<1>6. {j \in Normal(J \union U) : Kept(j, J \union U)}
         = {j \in Normal(J) : Kept(j, J)} \union {j \in Normal(U) : Kept(j, J \union U)}
    <2>. HIDE DEF Normal, Kept
    <2>. QED  BY <1>2, <1>5
<1>7. Merge(native, J \union U) = Merge(native, J) \union B
    <2>. DEFINE P == {j \in Normal(J) : Kept(j, J)}
                Q == {j \in Normal(U) : Kept(j, J \union U)}
    <2>1. Merge(native, J \union U)
            = native \union {External(i) : i \in {j \in Normal(J \union U) : Kept(j, J \union U)}}
        BY <1>1
    <2>2. Merge(native, J) = native \union {External(i) : i \in P}
        BY <1>1
    <2>3. {j \in Normal(J \union U) : Kept(j, J \union U)} = P \union Q
        BY <1>6
    <2>4. B = {External(i) : i \in Q}
        BY DEF AddedBy
    <2>. HIDE DEF Normal, Kept, External, P, Q, B
    <2>. QED  BY <2>1, <2>2, <2>3, <2>4
<1>8. \A b \in B : \E u \in U : b = FindingOf(u)
    BY DEF AddedBy, FindingOf
<1>. QED  BY <1>7, <1>8

-----------------------------------------------------------------------------
(***************************************************************************)
(* Findings added to those of a plan.                                      *)
(***************************************************************************)
Arrivable(F) == \A f \in F : f \in Finding /\ f.impact = "allow"

\* Waivers change nothing of a finding but its suppressions.
LEMMA ReviewedFindings ==
    ASSUME NEW F, Arrivable(F), NEW repo, NEW g \in Reviewed(F, repo)
    PROVE  /\ g \in Finding /\ g.impact = "allow"
           /\ \E f \in F :
                 /\ g.site = f.site /\ g.severity = f.severity /\ g.confidence = f.confidence
                 /\ "waiver" \in g.suppressions <=>
                       \/ "waiver" \in f.suppressions
                       \/ repo.policy.waiverFile /\ \E w \in repo.waivers : Matches(w, f, repo.now)
<1>1. "waiver" \in SuppressionKinds
    BY DEF SuppressionKinds
<1>2. PICK f \in F :
          \/ /\ g = f
             /\ ~(repo.policy.waiverFile /\ \E w \in repo.waivers : Matches(w, f, repo.now))
          \/ /\ g = Suppress(f, "waiver") /\ repo.policy.waiverFile
             /\ \E w \in repo.waivers : Matches(w, f, repo.now)
    BY DEF Reviewed, ApplyWaivers
<1>3. f \in Finding /\ f.impact = "allow"
    BY DEF Arrivable
<1>4. LET s == Suppress(f, "waiver")
      IN  /\ s \in Finding /\ s.site = f.site /\ s.severity = f.severity
          /\ s.confidence = f.confidence /\ s.impact = f.impact
          /\ s.suppressions = f.suppressions \union {"waiver"}
    BY <1>1, <1>3, SuppressedFields
<1>. QED  BY <1>2, <1>3, <1>4

\* So what was reviewed can still be evaluated.
LEMMA ReviewedArrivable ==
    ASSUME NEW F, Arrivable(F), NEW repo
    PROVE  /\ Arrivable(Reviewed(F, repo))
           /\ \A g \in Reviewed(F, repo) : \E f \in F : g.site = f.site /\ g.severity = f.severity
<1>1. ASSUME NEW g \in Reviewed(F, repo)
      PROVE  /\ g \in Finding /\ g.impact = "allow"
             /\ \E f \in F : g.site = f.site /\ g.severity = f.severity
    BY ReviewedFindings
<1>. QED  BY <1>1 DEF Arrivable

\* Each finding is reviewed by itself.
LEMMA ReviewedJoin ==
    ASSUME NEW A, NEW B, NEW repo
    PROVE  Reviewed(A \union B, repo) = Reviewed(A, repo) \union Reviewed(B, repo)
<1>. DEFINE waived(f) == IF \E w \in repo.waivers : Matches(w, f, repo.now) THEN Suppress(f, "waiver") ELSE f
<1>1. \A F : Reviewed(F, repo) = IF repo.policy.waiverFile THEN {waived(f) : f \in F} ELSE F
    BY DEF Reviewed, ApplyWaivers
<1>. HIDE DEF waived
<1>2. {waived(f) : f \in A \union B} = {waived(f) : f \in A} \union {waived(f) : f \in B}
    OBVIOUS
<1>3. /\ Reviewed(A \union B, repo) = IF repo.policy.waiverFile THEN {waived(f) : f \in A \union B} ELSE A \union B
      /\ Reviewed(A, repo) = IF repo.policy.waiverFile THEN {waived(f) : f \in A} ELSE A
      /\ Reviewed(B, repo) = IF repo.policy.waiverFile THEN {waived(f) : f \in B} ELSE B
    BY <1>1
<1>. QED  BY <1>2, <1>3

\* What is evaluated when findings are added to a plan.
LEMMA JudgedJoin ==
    ASSUME NEW opts, NEW repo, ~Refused(opts, repo), NEW A, NEW B
    PROVE  LET config == PolicyConfig(opts, repo)
           IN  /\ Judge(opts, repo, A) = EvaluatePolicy(Reviewed(A, repo), config)
               /\ Judge(opts, repo, A \union B)
                      = EvaluatePolicy(Reviewed(A, repo) \union Reviewed(B, repo), config)
<1>1. \A F : Judge(opts, repo, F) = EvaluatePolicy(Reviewed(F, repo), PolicyConfig(opts, repo))
    BY DEF Judge
<1>2. Judge(opts, repo, A \union B)
          = EvaluatePolicy(Reviewed(A \union B, repo), PolicyConfig(opts, repo))
    BY <1>1
<1>. QED  BY <1>1, <1>2, ReviewedJoin

InContext(F, config) == {ApplyContext(g, config) : g \in F}
KeptOf(F, config) == {WithImpact(h, config) : h \in DeduplicateFindings(InContext(F, config))}

\* EvaluatePolicy by its parts.
LEMMA Evaluation ==
    ASSUME NEW F, NEW config
    PROVE  EvaluatePolicy(F, config) = [decision |-> DecisionFor(KeptOf(F, config), config.mode),
                                        findings |-> KeptOf(F, config)]
    BY Zenon DEF EvaluatePolicy, KeptOf, InContext

\* Each finding is put in context by itself.
LEMMA ContextJoin ==
    ASSUME NEW A, NEW B, NEW config
    PROVE  InContext(A \union B, config) = InContext(A, config) \union InContext(B, config)
    BY DEF InContext

\* More findings never make for a weaker decision.
LEMMA DecisionsGrow ==
    ASSUME NEW kept, NEW more, kept \subseteq more, NEW mode
    PROVE  DecisionRank(DecisionFor(kept, mode)) <= DecisionRank(DecisionFor(more, mode))
<1>. DEFINE I == {f.impact : f \in kept}
            J == {f.impact : f \in more}
            blocked == IF mode = "block" THEN "block" ELSE "warn"
<1>1. ("block" \in I => "block" \in J) /\ ("warn" \in I => "warn" \in J)
    OBVIOUS
<1>2. DecisionFor(kept, mode) = IF "block" \in I THEN blocked ELSE IF "warn" \in I THEN "warn" ELSE "allow"
    BY DEF DecisionFor
<1>3. DecisionFor(more, mode) = IF "block" \in J THEN blocked ELSE IF "warn" \in J THEN "warn" ELSE "allow"
    BY DEF DecisionFor
<1>4. blocked \in {"block", "warn"}
    OBVIOUS
<1>. HIDE DEF I, J, blocked
<1>. QED  BY <1>1, <1>2, <1>3, <1>4, Ranks

\* Findings with keys of their own leave every other one where it was.
LEMMA MoreFindings ==
    ASSUME NEW A, Arrivable(A), NEW B, Arrivable(B), NEW config, IsConfig(config),
           \A a \in A, b \in B : DeduplicationKey[a.site] # DeduplicationKey[b.site]
    PROVE  DecisionRank(EvaluatePolicy(A, config).decision)
              <= DecisionRank(EvaluatePolicy(A \union B, config).decision)
<1>1. \A g \in A \union B : ApplyContext(g, config).site = g.site
    BY ContextFinding DEF Arrivable
<1>2. \A h \in InContext(A, config), k \in InContext(B, config) : ~SameKey(h, k)
    BY <1>1 DEF InContext, SameKey
<1>3. DeduplicateFindings(InContext(A, config)) \subseteq DeduplicateFindings(InContext(A \union B, config))
    <2>1. InContext(A \union B, config) = InContext(A, config) \union InContext(B, config)
        BY ContextJoin
    <2>. QED  BY <1>2, <2>1 DEF DeduplicateFindings
<1>4. KeptOf(A, config) \subseteq KeptOf(A \union B, config)
    BY <1>3 DEF KeptOf
<1>. QED  BY <1>4, DecisionsGrow, Evaluation

(***************************************************************************)
(* Findings that stay below the severity that blocks never block.          *)
(***************************************************************************)
LEMMA BelowTheThreshold ==
    ASSUME NEW A, Arrivable(A), NEW B, Arrivable(B), NEW config, IsConfig(config),
           \A b \in B : ~(ApplyContext(b, config).severity >= config.blockOn.severity),
           EvaluatePolicy(A \union B, config).decision = "block"
    PROVE  EvaluatePolicy(A, config).decision = "block"
<1>1. DecisionFor(KeptOf(A \union B, config), config.mode) = "block"
    BY Evaluation
<1>2. config.mode = "block" /\ \E f \in KeptOf(A \union B, config) : f.impact = "block"
    BY <1>1 DEF DecisionFor
<1>3. PICK h \in DeduplicateFindings(InContext(A \union B, config)) : WithImpact(h, config).impact = "block"
    BY <1>2 DEF KeptOf
<1>4. h \in InContext(A, config) \union InContext(B, config)
    BY <1>3, ContextJoin DEF DeduplicateFindings
<1>5. h \in Finding /\ h.impact = "allow"
    BY <1>4, Applied DEF InContext, Arrivable
<1>6. MeetsThreshold(h, config.blockOn)
    BY <1>3, <1>5, ImpactOf
<1>7. h \notin InContext(B, config)
    BY <1>6 DEF InContext, MeetsThreshold
<1>8. h \in DeduplicateFindings(InContext(A, config))
    <2>1. InContext(A, config) \subseteq InContext(A \union B, config)
        BY ContextJoin
    <2>. QED  BY <1>3, <1>4, <1>7, <2>1 DEF DeduplicateFindings
<1>9. \E f \in KeptOf(A, config) : f.impact = "block"
    BY <1>3, <1>8 DEF KeptOf
<1>10. DecisionFor(KeptOf(A, config), config.mode) = "block"
    BY <1>2, <1>9 DEF DecisionFor
<1>. QED  BY <1>10, Evaluation

\* An import the graph knows nothing of stays below high.
LEMMA UnresolvedStaysLow ==
    ASSUME NEW i \in Import, i.node = "none", NEW g \in Finding, g.impact = "allow", g.site = i.site,
           g.severity <= MediumSeverity, NEW config, IsConfig(config),
           config.environments[Environment[i.site]].blockOn.severity < HighSeverity
    PROVE  ApplyContext(g, config).severity < HighSeverity
<1>1. \/ ApplyContext(g, config).severity = g.severity
      \/ ApplyContext(g, config).severity = UpgradeForEnvironment(g, config).severity
    BY Applied
<1>2. UpgradeForEnvironment(g, config).severity
          = IF g.severity < MinSeverity(g, config) THEN MinSeverity(g, config) ELSE g.severity
    BY RaisedFields
<1>3. MinSeverity(g, config) < HighSeverity /\ MinSeverity(g, config) \in 0..5
    BY RaisedFields DEF MinSeverity
<1>4. g.severity \in 1..5
    BY DEF Finding, Severities
<1>. QED  BY <1>1, <1>2, <1>3, <1>4 DEF MediumSeverity, HighSeverity

-----------------------------------------------------------------------------
(***************************************************************************)
(* A scan with some of its imports left out.                               *)
(***************************************************************************)
Leaving(r, U) == [r EXCEPT !.imports = @ \ U]

\* Leaving imports out changes nothing else of a scan.
LEMMA LeavingFields ==
    ASSUME NEW r, NEW repo, MayScan(r, repo), NEW U
    PROVE  LET q == Leaving(r, U)
           IN  /\ q.plans = r.plans /\ q.imports = r.imports \ U
               /\ \A file : Native(q, repo, file) = Native(r, repo, file)
               /\ \A plan, findings :
                     Judge(Options(q), plan, findings) = Judge(Options(r), plan, findings)
<1>. DEFINE left == r.imports \ U
            cloud == r.context = "file"
            q == Leaving(r, U)
<1>1. r \in CommandLine(DOMAIN repo.plans) /\ q = [r EXCEPT !.imports = left]
    BY DEF MayScan, Leaving
<1>. HIDE DEF left, q
<1>2. /\ q.plans = r.plans /\ q.imports = left /\ q.mode = r.mode /\ q.branch = r.branch
      /\ q.baseline = r.baseline /\ q.newOnly = r.newOnly /\ q.changedOnly = r.changedOnly
      /\ q.context = r.context
      /\ q = [mode |-> q.mode, branch |-> q.branch, baseline |-> q.baseline, newOnly |-> q.newOnly,
              changedOnly |-> q.changedOnly, cloudContext |-> q.cloudContext, plans |-> q.plans,
              imports |-> q.imports, context |-> q.context, timeout |-> q.timeout,
              maxFindings |-> q.maxFindings, bundle |-> q.bundle]
    BY <1>1 DEF CommandLine
<1>3. Options(q) = [q EXCEPT !.cloudContext = cloud]
    BY <1>2 DEF Options
<1>. HIDE DEF cloud
<1>4. LET o == Options(q)
      IN  /\ o.mode = r.mode /\ o.branch = r.branch /\ o.baseline = r.baseline
          /\ o.newOnly = r.newOnly /\ o.changedOnly = r.changedOnly /\ o.cloudContext = cloud
    BY <1>2, <1>3
<1>5. LET o == Options(r)
      IN  /\ o.mode = r.mode /\ o.branch = r.branch /\ o.baseline = r.baseline
          /\ o.newOnly = r.newOnly /\ o.changedOnly = r.changedOnly /\ o.cloudContext = cloud
    BY OptionFields DEF cloud
<1>6. \A file : Native(q, repo, file) = Native(r, repo, file)
    BY <1>4, <1>5 DEF Native, RawFindings
<1>7. \A plan : Refused(Options(q), plan) <=> Refused(Options(r), plan)
    BY <1>4, <1>5 DEF Refused
<1>8. \A plan : PolicyConfig(Options(q), plan) = PolicyConfig(Options(r), plan)
    BY <1>4, <1>5 DEF PolicyConfig, LoadedEntries, ConfigWith, ConfigMode
<1>9. \A plan, findings : Judge(Options(q), plan, findings) = Judge(Options(r), plan, findings)
    BY <1>7, <1>8 DEF Judge
<1>. QED  BY <1>2, <1>6, <1>9 DEF left, q

\* A plan is refused with its imports or without them.
LEMMA LeavingDecides ==
    ASSUME NEW r, NEW repo, MayScan(r, repo), NEW U
    PROVE  \A i \in DOMAIN r.plans :
               LET decision == AtPlan(Leaving(r, U), repo, i).decision
               IN  /\ decision \in Decisions
                   /\ decision = "error" <=> AtPlan(r, repo, i).decision = "error"
<1>. SUFFICES ASSUME NEW i \in DOMAIN r.plans
              PROVE  LET decision == AtPlan(Leaving(r, U), repo, i).decision
                     IN  /\ decision \in Decisions
                         /\ decision = "error" <=> AtPlan(r, repo, i).decision = "error"
    OBVIOUS
<1>. DEFINE q == Leaving(r, U)
            plan == WithPlan(repo, r.plans[i])
<1>1. /\ q.plans = r.plans
      /\ \A findings : Judge(Options(q), plan, findings) = Judge(Options(r), plan, findings)
    BY LeavingFields
<1>2. \E findings : AtPlan(q, repo, i) = Judge(Options(r), plan, findings)
    BY <1>1 DEF AtPlan
<1>3. \E findings : AtPlan(r, repo, i) = Judge(Options(r), plan, findings)
    BY DEF AtPlan
<1>. HIDE DEF q, plan
<1>4. \A findings : /\ Judge(Options(r), plan, findings).decision \in Decisions
                    /\ Judge(Options(r), plan, findings).decision = "error" <=> Refused(Options(r), plan)
    BY JudgeDecides DEF Verdicts, Decisions
<1>5. /\ AtPlan(q, repo, i).decision \in Decisions
      /\ AtPlan(q, repo, i).decision = "error" <=> AtPlan(r, repo, i).decision = "error"
    BY <1>2, <1>3, <1>4
<1>. QED  BY <1>5 DEF q

ImportsAdd(r, repo, i, U) ==
    LET native == Native(r, repo, r.plans[i])
        added == AddedBy(native, U, r.imports)
        judge(findings) == Judge(Options(r), WithPlan(repo, r.plans[i]), findings)
    IN  /\ AtPlan(r, repo, i) = judge(Merge(native, r.imports \ U) \union added)
        /\ AtPlan(Leaving(r, U), repo, i) = judge(Merge(native, r.imports \ U))
        /\ \A b \in added : \E u \in U : b = FindingOf(u)

(***************************************************************************)
(* What imports left out had added to one plan, where no others have their *)
(* sites.                                                                  *)
(***************************************************************************)
LEMMA WhatImportsAdd ==
    ASSUME NEW r, NEW repo, MayScan(r, repo), NEW i \in DOMAIN r.plans,
           NEW U, U \subseteq r.imports, Apart(r.imports \ U, U)
    PROVE  ImportsAdd(r, repo, i, U)
<1>. DEFINE plan == WithPlan(repo, r.plans[i])
            opts == Options(r)
            native == Native(r, repo, r.plans[i])
            J == r.imports \ U
            q == Leaving(r, U)
            added == AddedBy(native, U, J \union U)
<1>1. J \in SUBSET Import /\ U \in SUBSET Import /\ J \union U = r.imports
    BY RequestFields
<1>2. Apart(J, U)
    OBVIOUS
<1>. HIDE DEF J
<1>3. /\ Merge(native, J \union U) = Merge(native, J) \union added
      /\ \A b \in added : \E u \in U : b = FindingOf(u)
    BY <1>1, <1>2, MergeSplits
<1>4. AtPlan(r, repo, i) = Judge(opts, plan, Merge(native, J) \union added)
    BY <1>1, <1>3 DEF AtPlan
<1>5. /\ q.plans = r.plans /\ q.imports = J
      /\ Native(q, repo, r.plans[i]) = native
      /\ \A findings : Judge(Options(q), plan, findings) = Judge(opts, plan, findings)
    BY LeavingFields DEF J
<1>6. AtPlan(q, repo, i) = Judge(opts, plan, Merge(native, J))
    <2>. HIDE DEF q, native, opts, plan
    <2>1. AtPlan(q, repo, i) = Judge(Options(q), plan, Merge(native, J))
        BY <1>5 DEF AtPlan, plan
    <2>. QED  BY <1>5, <2>1
<1>7. added = AddedBy(native, U, r.imports)
    BY <1>1
<1>. QED  BY <1>3, <1>4, <1>6, <1>7 DEF J, ImportsAdd

\* What a plan and its imports raise can be evaluated.
LEMMA MergedArrivable ==
    ASSUME NEW r, NEW repo, MayScan(r, repo), NEW i \in DOMAIN r.plans, NEW I \in SUBSET r.imports
    PROVE  Arrivable(Merge(Native(r, repo, r.plans[i]), I))
<1>1. Arrivable(Native(r, repo, r.plans[i]))
    BY RequestFields, PlanOfRepository DEF Arrivable
<1>2. \A f \in Merge(Native(r, repo, r.plans[i]), I) :
          \/ f \in Native(r, repo, r.plans[i])
          \/ \E u \in I : f = FindingOf(u)
    BY DEF Merge, FindingOf
<1>3. \A u \in I : LET f == FindingOf(u)
                   IN  f \in Finding /\ f.impact = "allow"
    BY RequestFields, ImportFinding
<1>. QED  BY <1>1, <1>2, <1>3 DEF Arrivable

\* Leaving every import out makes no plan stricter.
LEMMA PlanWithoutImports ==
    ASSUME NEW r, NEW repo, MayScan(r, repo), NEW i \in DOMAIN r.plans
    PROVE  DecisionRank(AtPlan(Leaving(r, r.imports), repo, i).decision)
              <= DecisionRank(AtPlan(r, repo, i).decision)
<1>. DEFINE plan == WithPlan(repo, r.plans[i])
            opts == Options(r)
            config == PolicyConfig(opts, plan)
            native == Native(r, repo, r.plans[i])
<1>1. Merge(native, r.imports \ r.imports) = native
    BY DEF Merge
<1>. DEFINE B == AddedBy(native, r.imports, r.imports)
<1>2. /\ AtPlan(r, repo, i) = Judge(opts, plan, native \union B)
      /\ AtPlan(Leaving(r, r.imports), repo, i) = Judge(opts, plan, native)
      /\ \A b \in B : \E u \in r.imports : b = FindingOf(u)
    <2>1. Apart(r.imports \ r.imports, r.imports)
        BY DEF Apart
    <2>2. r.imports \in SUBSET r.imports
        OBVIOUS
    <2>3. ImportsAdd(r, repo, i, r.imports)
        BY <2>1, <2>2, WhatImportsAdd
    <2>. QED  BY <1>1, <2>3 DEF ImportsAdd
<1>. HIDE DEF B
<1>3. r.plans[i] \in DOMAIN repo.plans /\ r.imports \in SUBSET Import
    BY RequestFields
<1>4. Arrivable(native) /\ \A f \in native : f.site \notin ExternalSites /\ f.site \in Sites
    BY <1>3, PlanOfRepository DEF Arrivable, Finding
<1>5. Arrivable(B) /\ \A b \in B : b.site \in ExternalSites
    <2>1. \A u \in r.imports : u.site \in ExternalSites
        BY DEF MayScan, ExternalSites
    <2>. QED  BY <1>2, <1>3, <2>1, ImportFinding DEF Arrivable
<1>6. IsConfig(config)
    BY <1>3, PlanOfRepository, ConfigOfPolicy
<1>. HIDE DEF native, opts, config, plan
<1>7. CASE Refused(opts, plan)
    <2>1. AtPlan(Leaving(r, r.imports), repo, i) = AtPlan(r, repo, i)
        BY <1>2, <1>7 DEF Judge
    <2>2. AtPlan(r, repo, i).decision = "error"
        BY <1>2, <1>7 DEF Judge
    <2>. QED  BY <2>1, <2>2, Ranks
<1>8. CASE ~Refused(opts, plan)
    <2>. DEFINE A == Reviewed(native, plan)
                C == Reviewed(B, plan)
    <2>1. AtPlan(Leaving(r, r.imports), repo, i).decision = EvaluatePolicy(A, config).decision
        BY <1>2, <1>8, JudgedJoin DEF config
    <2>2. AtPlan(r, repo, i).decision = EvaluatePolicy(A \union C, config).decision
        BY <1>2, <1>8, JudgedJoin DEF config
    <2>3. Arrivable(A) /\ \A a \in A : a.site \notin ExternalSites /\ a.site \in Sites
        BY <1>4, ReviewedArrivable
    <2>4. Arrivable(C) /\ \A c \in C : c.site \in ExternalSites
        BY <1>5, ReviewedArrivable
    <2>5. \A a \in A, c \in C : DeduplicationKey[a.site] # DeduplicationKey[c.site]
        BY <2>3, <2>4, PipelineAssumption
    <2>. HIDE DEF A, C
    <2>. QED  BY <1>6, <2>1, <2>2, <2>3, <2>4, <2>5, MoreFindings
<1>. QED  BY <1>7, <1>8

\* What blocks a plan under a policy that blocks from high on is not an import the graph knows nothing of.
LEMMA PlanWithoutUnresolved ==
    ASSUME NEW r, NEW repo, MayScan(r, repo), NEW i \in DOMAIN r.plans, NEW U \in SUBSET r.imports,
           Apart(r.imports \ U, U),
           \A u \in U : u.node = "none",
           ScanThreshold(repo.policy, "blockOn", r.branch).severity >= HighSeverity,
           \A u \in r.imports : repo.policy.environments[Environment[u.site]].blockOn.severity < HighSeverity,
           AtPlan(r, repo, i).decision = "block"
    PROVE  AtPlan(Leaving(r, U), repo, i).decision = "block"
<1>. DEFINE plan == WithPlan(repo, r.plans[i])
            opts == Options(r)
            config == PolicyConfig(opts, plan)
            rest == Merge(Native(r, repo, r.plans[i]), r.imports \ U)
<1>. DEFINE B == AddedBy(Native(r, repo, r.plans[i]), U, r.imports)
<1>1. /\ AtPlan(r, repo, i) = Judge(opts, plan, rest \union B)
      /\ AtPlan(Leaving(r, U), repo, i) = Judge(opts, plan, rest)
      /\ \A b \in B : \E u \in U : b = FindingOf(u)
    <2>1. ImportsAdd(r, repo, i, U)
        BY WhatImportsAdd
    <2>. QED  BY <2>1 DEF ImportsAdd
<1>. HIDE DEF B
<1>2. r.plans[i] \in DOMAIN repo.plans /\ r.imports \in SUBSET Import
    BY RequestFields
<1>3. Arrivable(rest)
    BY MergedArrivable
<1>4. /\ Arrivable(B)
      /\ \A b \in B : b.severity <= MediumSeverity /\ \E u \in U : u.site = b.site
    BY <1>1, <1>2, ImportFinding DEF Arrivable
<1>5. /\ IsConfig(config) /\ config.environments = repo.policy.environments
      /\ config.blockOn = ScanThreshold(repo.policy, "blockOn", r.branch)
    <2>1. IsConfig(config) /\ plan.policy = repo.policy /\ opts.branch = r.branch
        BY <1>2, PlanOfRepository, ConfigOfPolicy, OptionFields
    <2>. QED  BY <2>1 DEF PolicyConfig, ConfigWith
<1>6. config.blockOn.severity \in Nat
    BY <1>5, ThresholdOfPolicy DEF MayScan
<1>. HIDE DEF rest, opts, config, plan
<1>7. ~Refused(opts, plan)
    BY <1>1 DEF Judge
<1>. DEFINE A == Reviewed(rest, plan)
            C == Reviewed(B, plan)
<1>8. /\ AtPlan(r, repo, i).decision = EvaluatePolicy(A \union C, config).decision
      /\ AtPlan(Leaving(r, U), repo, i).decision = EvaluatePolicy(A, config).decision
    BY <1>1, <1>7, JudgedJoin DEF config
<1>9. Arrivable(A) /\ Arrivable(C)
    BY <1>3, <1>4, ReviewedArrivable
<1>10. ASSUME NEW c \in C
       PROVE  ~(ApplyContext(c, config).severity >= config.blockOn.severity)
    <2>1. PICK b \in B : c.site = b.site /\ c.severity = b.severity
        BY <1>4, ReviewedArrivable
    <2>2. PICK u \in U : u.site = b.site
        BY <1>4
    <2>3. /\ u \in Import /\ u.node = "none" /\ c \in Finding /\ c.impact = "allow"
          /\ c.site = u.site /\ c.severity <= MediumSeverity
          /\ config.environments[Environment[u.site]].blockOn.severity < HighSeverity
        BY <1>2, <1>4, <1>5, <1>9, <2>1, <2>2 DEF Arrivable
    <2>4. ApplyContext(c, config).severity < HighSeverity
        BY <1>5, <2>3, UnresolvedStaysLow
    <2>5. ApplyContext(c, config).severity \in Nat
        BY <1>5, <2>3, Applied DEF Finding, Severities
    <2>. QED  BY <1>5, <1>6, <2>4, <2>5 DEF HighSeverity
<1>. HIDE DEF A, C
<1>. QED  BY <1>5, <1>8, <1>9, <1>10, BelowTheThreshold

-----------------------------------------------------------------------------
(***************************************************************************)
(* What a scan asks for, and that whatever is edited stays a repository.   *)
(***************************************************************************)
LEMMA RequestStays ==
    ASSUME Verdict(scan), ScanStep
    PROVE  scan'.request = scan.request /\ scan'.late = scan.late /\ UNCHANGED <<repositoryVars, edits>>
<1>1. UNCHANGED <<repositoryVars, edits>>
    BY DEF ScanStep, ReadPolicy, ReadPolicyBaseline, ValidateWaivers, ReadBaseline, ReadContext, ReadPlan,
           EvaluateRules, ApplyAndEvaluate, LimitFindings, AuditPolicy, AuditPlans, AuditWaivers,
           AuditBaseline, WriteBundle, WriteReport, Fail, Step
<1>. SUFFICES scan'.request = scan.request /\ scan'.late = scan.late
    BY <1>1
<1>2. IsScan(scan)
    BY DEF Verdict
<1>3. ASSUME NEW from, NEW code, Fail(from, code)
      PROVE  scan'.request = scan.request /\ scan'.late = scan.late
    BY <1>2, <1>3, Failed
<1>4. ASSUME NEW from, NEW to, NEW update, IsScan(update), update.request = scan.request,
             update.late = scan.late, Step(from, to, update)
      PROVE  scan'.request = scan.request /\ scan'.late = scan.late
    BY <1>4, Stepped
<1>5. CASE ReadPolicy
    <2>1. LET u == [scan EXCEPT !.policy = policy]
          IN  IsScan(u) /\ u.request = scan.request /\ u.late = scan.late
        BY <1>2 DEF IsScan
    <2>. QED  BY <1>4, <1>5, <2>1 DEF ReadPolicy
<1>6. CASE ReadPolicyBaseline
    <2>1. LET u == WithBaseline(baseline.entries)
          IN  IsScan(u) /\ u.request = scan.request /\ u.late = scan.late
        BY <1>2, WithBaselineScan
    <2>. QED  BY <1>2, <1>3, <1>4, <1>6, <2>1 DEF ReadPolicyBaseline
<1>7. CASE ReadBaseline
    <2>. DEFINE read == WithBaseline(baseline.entries)
    <2>1. \A raced : LET u == [read EXCEPT !.raced = raced]
                     IN  IsScan(u) /\ u.request = scan.request /\ u.late = scan.late
        <3>1. IsScan(read) /\ read.request = scan.request /\ read.late = scan.late
            BY <1>2, WithBaselineScan
        <3>. HIDE DEF read
        <3>. QED  BY <3>1 DEF IsScan
    <2>2. \/ Fail("baseline", 2) \/ Fail("baseline", 3)
          \/ Step("baseline", "context", scan)
          \/ \E raced : Step("baseline", "context", [read EXCEPT !.raced = raced])
        BY <1>7 DEF ReadBaseline
    <2>. HIDE DEF read
    <2>. QED  BY <1>2, <1>3, <1>4, <2>1, <2>2
<1>8. CASE ReadPlan
    <2>1. \A f : LET u == [scan EXCEPT !.findings = f]
                 IN  IsScan(u) /\ u.request = scan.request /\ u.late = scan.late
        BY <1>2 DEF IsScan
    <2>2. Fail("plan", 3) \/ \E f : Step("plan", "rules", [scan EXCEPT !.findings = f])
        BY <1>8 DEF ReadPlan
    <2>. QED  BY <1>3, <1>4, <2>1, <2>2
<1>9. CASE EvaluateRules
    <2>1. ASSUME NEW f, NEW cut, NEW u, u = [scan EXCEPT !.findings = f, !.cut = cut]
          PROVE  IsScan(u) /\ u.request = scan.request /\ u.late = scan.late
        BY <1>2, <2>1 DEF IsScan
    <2>2. \E f, cut : Step("rules", "apply_waivers", [scan EXCEPT !.findings = f, !.cut = cut])
        BY <1>9 DEF EvaluateRules
    <2>. QED  BY <1>4, <2>1, <2>2
<1>10. CASE ApplyAndEvaluate
    <2>1. \A f : IsScan(Evaluated(f)) /\ Evaluated(f).request = scan.request /\ Evaluated(f).late = scan.late
        BY <1>2, EvaluatedScan
    <2>2. \/ Fail("apply_waivers", 3) \/ Fail("apply_waivers", 4)
          \/ \E f : Step("apply_waivers", AfterPlan, Evaluated(f))
        BY <1>10 DEF ApplyAndEvaluate
    <2>. QED  BY <1>3, <1>4, <2>1, <2>2
<1>11. CASE LimitFindings
    <2>. DEFINE kept == Limit(scan.evaluated, Request.maxFindings)
                report == [NoReport EXCEPT !.decision = scan.decision, !.findings = kept,
                                           !.summary = RiskSummary(kept)]
    <2>1. IsReport(report)
        BY LimitedReport
    <2>2. Fail("deadline", 3) \/ Step("deadline", "audit_policy", [scan EXCEPT !.report = report])
        BY <1>11 DEF LimitFindings
    <2>. HIDE DEF report
    <2>3. LET u == [scan EXCEPT !.report = report]
          IN  IsScan(u) /\ u.request = scan.request /\ u.late = scan.late
        BY <1>2, <2>1 DEF IsScan
    <2>. QED  BY <1>3, <1>4, <2>2, <2>3
<1>12. CASE AuditPolicy \/ AuditPlans \/ AuditWaivers \/ AuditBaseline
    <2>1. \A e : IsScan(Noted(e)) /\ Noted(e).request = scan.request /\ Noted(e).late = scan.late
        BY <1>2, NotedScan
    <2>2. \/ Fail("audit_waivers", 3) \/ Fail("audit_baseline", 3)
          \/ \E from, to, e : Step(from, to, Noted(e))
        BY <1>12 DEF AuditPolicy, AuditPlans, AuditWaivers, AuditBaseline
    <2>. QED  BY <1>3, <1>4, <2>1, <2>2
<1>13. CASE WriteReport
    <2>1. ASSUME NEW output, NEW code, NEW u, u = [scan EXCEPT !.output = output, !.exit = code]
          PROVE  IsScan(u) /\ u.request = scan.request /\ u.late = scan.late
        BY <1>2, <2>1 DEF IsScan
    <2>2. \E output, code : Step("report", "done", [scan EXCEPT !.output = output, !.exit = code])
        BY <1>13 DEF WriteReport
    <2>. QED  BY <1>4, <2>1, <2>2
<1>14. CASE ValidateWaivers \/ ReadContext \/ WriteBundle
    BY <1>2, <1>3, <1>4, <1>14 DEF ValidateWaivers, ReadContext, WriteBundle
<1>. QED
    BY <1>1, <1>5, <1>6, <1>7, <1>8, <1>9, <1>10, <1>11, <1>12, <1>13, <1>14 DEF ScanStep

Surroundings == MayScan(scan.request, Repository)

\* An edited plan is a plan.
LEMMA EditedPlan ==
    ASSUME Surroundings, NEW file \in DOMAIN plans, NEW s \in Sites, NEW risk \in Risks,
           EditPlan(file, s, risk)
    PROVE  Surroundings'
<1>1. /\ scan' = scan /\ policy' = policy /\ s \notin ExternalSites
      /\ plans' = [plans EXCEPT ![file] = [x \in DOMAIN plans[file] \union {s} |->
                                              IF x = s THEN risk ELSE plans[file][x]]]
    BY DEF EditPlan, Edited, Noticed
<1>2. DOMAIN plans' = DOMAIN plans
    BY <1>1
<1>3. ASSUME NEW g \in DOMAIN plans
      PROVE  IsPlan(plans'[g])
    <2>1. IsPlan(plans[g]) /\ IsPlan(plans[file])
        BY DEF Surroundings, MayScan, Repository
    <2>2. risk \in RiskAttributes
        BY PipelineAssumption
    <2>3. CASE g = file
        BY <1>1, <2>1, <2>2, <2>3 DEF IsPlan
    <2>4. CASE g # file
        BY <1>1, <2>1, <2>4
    <2>. QED  BY <2>3, <2>4
<1>. QED  BY <1>1, <1>2, <1>3 DEF Surroundings, MayScan, Repository

\* No step takes the scan out of the repository.
LEMMA SurroundingsStay ==
    ASSUME Verdict(scan), Surroundings, [Next]_vars
    PROVE  Surroundings'
<1>1. CASE scan'.request = scan.request /\ plans' = plans /\ policy' = policy
    BY <1>1 DEF Surroundings, MayScan, Repository
<1>2. CASE ScanStep
    BY <1>1, <1>2, RequestStays DEF repositoryVars
<1>3. CASE DeadlinePasses
    <2>1. scan'.request = scan.request
        BY <1>3, LateScan DEF Verdict
    <2>. QED  BY <1>1, <1>3, <2>1 DEF DeadlinePasses, repositoryVars
<1>4. CASE \E file \in DOMAIN plans, s \in Sites, risk \in Risks : EditPlan(file, s, risk)
    BY <1>4, EditedPlan
<1>5. CASE \E p \in Policies : EditPolicy(p)
    <2>1. scan' = scan /\ plans' = plans /\ policy' \in Policies
        BY <1>5 DEF EditPolicy, Edited, Noticed
    <2>2. IsPolicy(policy')
        BY <2>1, PipelineAssumption
    <2>. QED  BY <2>1, <2>2 DEF Surroundings, MayScan, Repository
<1>6. CASE (\E file \in DOMAIN plans : TruncateBaseline(file)) \/ WriteBaseline
    BY <1>1, <1>6 DEF TruncateBaseline, WriteBaseline, Edited, Noticed
<1>7. CASE StartsInStore \/ GoesOnInStore
    BY <1>1, <1>7 DEF StartsInStore, GoesOnInStore, Edited, Noticed
<1>8. CASE UNCHANGED vars
    BY <1>1, <1>8 DEF vars, repositoryVars
<1>. QED  BY <1>2, <1>3, <1>4, <1>5, <1>6, <1>7, <1>8 DEF Next

(***************************************************************************)
(* Whatever is edited, the scan is of a repository that can be scanned.    *)
(***************************************************************************)
THEOREM SurroundingsInvariance == Spec => []Surroundings
<1>1. Init => Surroundings
    <2>. SUFFICES ASSUME Init PROVE Surroundings
        OBVIOUS
    <2>1. PICK repo \in Repositories : plans = repo.plans /\ policy = repo.policy
        BY DEF Init
    <2>2. PICK r \in Requests : scan = NewScan(r)
        BY DEF Init
    <2>3. scan.request = r
        BY <2>2 DEF NewScan
    <2>. QED  BY <2>1, <2>3, PipelineAssumption DEF Surroundings, MayScan, Repository
<1>2. Verdict(scan) /\ Surroundings /\ [Next]_vars => Surroundings'
    BY SurroundingsStay
<1>. QED  BY <1>1, <1>2, VerdictInvariance, PTL DEF Spec

\* Leaving every import out never makes the decision stricter.
LEMMA ScanWithoutImports ==
    ASSUME NEW r, NEW repo, MayScan(r, repo)
    PROVE  DecisionRank(AtomicDecision(Leaving(r, r.imports), repo)) <= DecisionRank(AtomicDecision(r, repo))
<1>. DEFINE q == Leaving(r, r.imports)
            D == {AtPlan(q, repo, i).decision : i \in DOMAIN q.plans}
            E == {AtPlan(r, repo, i).decision : i \in DOMAIN r.plans}
<1>1. q.plans = r.plans
    BY LeavingFields
<1>2. CASE repo.policy.waiverFile /\ repo.waiverFile.state # "whole"
    BY <1>2, Ranks DEF AtomicDecision
<1>3. CASE ~(repo.policy.waiverFile /\ repo.waiverFile.state # "whole")
    <2>1. AtomicDecision(q, repo) = Strongest(D) /\ AtomicDecision(r, repo) = Strongest(E)
        BY <1>3, AtomicOutcomes
    <2>2. E \in SUBSET Decisions /\ E # {}
        BY AtomicDecisions
    <2>3. \A d \in D : \E e \in E : DecisionRank(d) <= DecisionRank(e)
        BY <1>1, PlanWithoutImports
    <2>4. D \in SUBSET Decisions /\ D # {}
        BY <1>1, AtomicDecisions, LeavingDecides
    <2>. HIDE DEF D, E
    <2>. QED  BY <2>1, <2>2, <2>3, <2>4, StrongestGrows
<1>. QED  BY <1>2, <1>3

\* A scan that blocks still blocks without what the graph knows nothing of.
LEMMA ScanWithoutUnresolved ==
    ASSUME NEW r, NEW repo, MayScan(r, repo), NEW U \in SUBSET r.imports,
           Apart(r.imports \ U, U),
           \A u \in U : u.node = "none",
           ScanThreshold(repo.policy, "blockOn", r.branch).severity >= HighSeverity,
           \A u \in r.imports : repo.policy.environments[Environment[u.site]].blockOn.severity < HighSeverity,
           AtomicDecision(r, repo) = "block"
    PROVE  AtomicDecision(Leaving(r, U), repo) = "block"
<1>. DEFINE q == Leaving(r, U)
            D == {AtPlan(q, repo, i).decision : i \in DOMAIN q.plans}
            E == {AtPlan(r, repo, i).decision : i \in DOMAIN r.plans}
<1>1. q.plans = r.plans
    BY LeavingFields
<1>2. ~(repo.policy.waiverFile /\ repo.waiverFile.state # "whole")
    BY DEF AtomicDecision
<1>3. AtomicDecision(q, repo) = Strongest(D) /\ Strongest(E) = "block"
    BY <1>2, AtomicOutcomes
<1>4. E \in SUBSET Decisions /\ "block" \in E /\ "error" \notin E
    <2>1. E \in SUBSET Decisions /\ E # {}
        BY AtomicDecisions
    <2>2. "block" \in E /\ \A e \in E : DecisionRank(e) <= DecisionRank("block")
        BY <1>3, <2>1, HasStrongest
    <2>3. DecisionRank("error") = 4 /\ DecisionRank("block") = 3
        BY Ranks
    <2>. HIDE DEF E
    <2>. QED  BY <2>1, <2>2, <2>3
<1>5. "block" \in D
    <2>1. PICK i \in DOMAIN r.plans : AtPlan(r, repo, i).decision = "block"
        BY <1>4
    <2>2. AtPlan(Leaving(r, U), repo, i).decision = "block"
        BY <2>1, PlanWithoutUnresolved
    <2>. QED  BY <1>1, <2>2
<1>6. D \in SUBSET Decisions /\ "error" \notin D
    <2>1. ASSUME NEW i \in DOMAIN r.plans
          PROVE  AtPlan(q, repo, i).decision \in Decisions \ {"error"}
        <3>1. AtPlan(r, repo, i).decision # "error"
            BY <1>4
        <3>. QED  BY <3>1, LeavingDecides
    <2>. QED  BY <1>1, <2>1
<1>7. \A d \in D : DecisionRank(d) <= DecisionRank("block")
    <2>1. \A d \in Decisions \ {"error"} : DecisionRank(d) <= DecisionRank("block")
        BY Ranks DEF Decisions
    <2>. HIDE DEF D
    <2>. QED  BY <1>6, <2>1
<1>. HIDE DEF D
<1>8. Strongest(D) = "block"
    BY <1>5, <1>6, <1>7, StrongestIs
<1>. QED  BY <1>3, <1>8

(***************************************************************************)
(* The findings of other scanners only add to a decision, and those of an  *)
(* unknown resource never block alone (adapters.Merge, CorrelateImported). *)
(***************************************************************************)
THEOREM ImportsAreAdded == Spec => []ImportsOnlyAdd
<1>1. ASSUME Surroundings PROVE ImportsOnlyAdd
    <2>. DEFINE unresolved == {i \in Request.imports :
                                 \A j \in Request.imports : j.site = i.site => j.node = "none"}
                high == /\ ScanThreshold(policy, "blockOn", Request.branch).severity >= HighSeverity
                        /\ \A i \in Request.imports :
                              policy.environments[Environment[i.site]].blockOn.severity < HighSeverity
                blocks == AtomicDecision(Request, Repository) = "block"
    <2>1. MayScan(Request, Repository) /\ Repository.policy = policy
        BY <1>1 DEF Surroundings, Request, Repository
    <2>2. \A U : WithoutImports(U) = Leaving(Request, U)
        BY DEF WithoutImports, Leaving
    <2>3. DecisionRank(AtomicDecision(Leaving(Request, Request.imports), Repository))
              <= DecisionRank(AtomicDecision(Request, Repository))
        BY <2>1, ScanWithoutImports
    <2>4. /\ unresolved \in SUBSET Request.imports
          /\ Apart(Request.imports \ unresolved, unresolved)
          /\ \A u \in unresolved : u.node = "none"
        BY DEF Apart
    <2>5. ASSUME high, blocks
          PROVE  AtomicDecision(Leaving(Request, unresolved), Repository) = "block"
        <3>. HIDE DEF unresolved
        <3>. QED  BY <2>1, <2>4, <2>5, ScanWithoutUnresolved
    <2>6. ImportsOnlyAdd <=>
            /\ DecisionRank(AtomicDecision(WithoutImports(Request.imports), Repository))
                  <= DecisionRank(AtomicDecision(Request, Repository))
            /\ high /\ blocks => AtomicDecision(WithoutImports(unresolved), Repository) = "block"
        BY Zenon DEF ImportsOnlyAdd
    <2>. HIDE DEF unresolved, high, blocks
    <2>. QED  BY <2>2, <2>3, <2>5, <2>6
<1>. QED  BY <1>1, SurroundingsInvariance, PTL

-----------------------------------------------------------------------------
(***************************************************************************)
(* A scan left alone.  Faithful says of every stage what a scan of a       *)
(* single moment (repo) makes of what was read so far.                     *)
(***************************************************************************)
Knows(s, entries) == s.fingerprints = Fingerprints(entries) /\ s.risks = Contexts(entries)

NamedByPolicy(repo) == IF repo.policy.baselineFile THEN repo.baseline.entries ELSE {}
NamedByEither(r, repo) ==
    IF repo.policy.baselineFile \/ r.baseline THEN repo.baseline.entries ELSE {}

BaselineFits(repo) ==
    LET p == repo.policy
    IN  p.baselineFile =>
            /\ repo.baseline.written
            /\ ~(p.requireExpiration /\ (repo.baseline.expires = 0 \/ ~(repo.now < repo.baseline.expires)))

WaiversFit(repo) ==
    LET p == repo.policy
        records == repo.waiverFile.records
    IN  p.waiverFile =>
            /\ ValidWaivers(records, p.maxWaiverDays)
            /\ ~(p.failExpired /\ \E w \in records : Expired(w, repo.now))

Accepted(r, repo) ==
    /\ BaselineFits(repo) /\ WaiversFit(repo)
    /\ r.newOnly => r.baseline
    /\ r.baseline => repo.baseline.written

Begun(s) == s.plan = 1 /\ s.evaluated = {} /\ s.decision = "none"

\* The plans before the current one.
SoFar(s, repo) ==
    /\ s.evaluated = UNION {Tagged(j, AtPlan(s.request, repo, j).findings) : j \in 1..(s.plan - 1)}
    /\ s.decision = Strongest({"none"} \union {AtPlan(s.request, repo, j).decision : j \in 1..(s.plan - 1)})

Midway(s, repo) ==
    /\ s.policy = repo.policy /\ Knows(s, NamedByEither(s.request, repo))
    /\ Accepted(s.request, repo)
    /\ s.plan \in DOMAIN s.request.plans
    /\ SoFar(s, repo)

NativeNow(s, repo) == Native(s.request, repo, s.request.plans[s.plan])

Finished(s, repo) ==
    Accepted(s.request, repo) /\ s.plan = Len(s.request.plans) + 1 /\ SoFar(s, repo)

Reports(s, repo) ==
    /\ Accepted(s.request, repo)
    /\ s.evaluated = AtomicFindings(s.request, repo)
    /\ s.report.decision = AtomicDecision(s.request, repo)
    /\ s.report.findings \subseteq s.evaluated

\* The audit evidence noted so far is of the files that were evaluated.
WaivedIn(findings) == {f.site : f \in {g \in findings : "waiver" \in g.suppressions}}

Evidence(s, repo) ==
    <<repo.policy,
      [i \in DOMAIN s.request.plans |-> repo.plans[s.request.plans[i]]],
      WaivedIn({f.finding : f \in s.report.findings})>>

\* audit_policy to audit_baseline: the first n pieces are there; later, another is.
Noting(s, repo, n) ==
    LET e == Evidence(s, repo)
    IN  /\ Reports(s, repo)
        /\ n = 0 => s.report.audit = << >>
        /\ n = 1 => s.report.audit = <<e[1]>>
        /\ n = 2 => s.report.audit = <<e[1], e[2]>>
        /\ n = 3 => s.report.audit = <<e[1], e[2], e[3]>>
        /\ n = 4 => \A i \in 1..3 : s.report.audit[i] = e[i]

\* Why a scan that is not late may fail.
HasCause(r, repo) ==
    \/ AtomicDecision(r, repo) = "error"
    \/ r.context = "missing"
    \/ Len(r.plans) > 1 /\ r.imports # {}

AtStage(s, repo) ==
    /\ s.at \in Early => Begun(s)
    /\ s.at \in {"policy", "policy_baseline"} => Knows(s, {})
    /\ s.at \in {"policy_baseline", "waivers", "baseline"} => s.policy = repo.policy
    /\ s.at \in {"waivers", "baseline"} => Knows(s, NamedByPolicy(repo)) /\ BaselineFits(repo)
    /\ s.at = "baseline" => WaiversFit(repo)
    /\ s.at \in {"context"} \union Scanning => Midway(s, repo)
    /\ s.at = "rules" => s.findings = NativeNow(s, repo)
    /\ s.at = "apply_waivers" => s.findings = Merge(NativeNow(s, repo), s.request.imports)
    /\ s.at = "deadline" => Finished(s, repo)
    /\ s.at = "audit_policy" => Noting(s, repo, 0)
    /\ s.at = "audit_plans" => Noting(s, repo, 1)
    /\ s.at = "audit_waivers" => Noting(s, repo, 2)
    /\ s.at = "audit_baseline" => Noting(s, repo, 3)
    /\ s.at \in {"bundle", "report"} => Noting(s, repo, 4)
    /\ s.at = "done" /\ s.exit \in {0, 1} => Noting(s, repo, 4)
    /\ s.at = "done" /\ s.exit \in {2, 3, 4} => HasCause(s.request, repo)

Faithful(s, repo) == s.late \/ AtStage(s, repo)

\* Nothing has been edited, and nothing that was started earlier is under way.
Untouched ==
    /\ waiverFile.state = "whole"
    /\ ~baselineBeing.written
    /\ \A c \in Commands : command[c].stage = "idle"

Undisturbed ==
    /\ edits \in Nat
    /\ edits = 0 => Untouched /\ Faithful(scan, Repository)

-----------------------------------------------------------------------------
(***************************************************************************)
(* What the scan of a single moment is made of.                            *)
(***************************************************************************)
LEMMA RefusedUnlessAccepted ==
    ASSUME NEW r, NEW repo, MayScan(r, repo), NEW file
    PROVE  Refused(Options(r), WithPlan(repo, file)) <=> ~Accepted(r, repo)
<1>1. LET plan == WithPlan(repo, file)
      IN  /\ plan.policy = repo.policy /\ plan.waivers = repo.waiverFile.records
          /\ plan.baseline = repo.baseline /\ plan.now = repo.now
    BY DEF WithPlan
<1>2. Options(r).newOnly = r.newOnly /\ Options(r).baseline = r.baseline
    BY OptionFields
<1>3. r.newOnly \in BOOLEAN /\ r.baseline \in BOOLEAN
    BY DEF MayScan, CommandLine
<1>. QED  BY <1>1, <1>2, <1>3 DEF Refused, Accepted, BaselineFits, WaiversFit

\* What one plan is refused for all of them are: the scan is an error.
LEMMA ErrorUnlessAccepted ==
    ASSUME NEW r, NEW repo, MayScan(r, repo), ~Accepted(r, repo)
    PROVE  HasCause(r, repo)
<1>. DEFINE D == {AtPlan(r, repo, i).decision : i \in DOMAIN r.plans}
<1>1. \A i \in DOMAIN r.plans : AtPlan(r, repo, i).decision = "error"
    BY RefusedUnlessAccepted, JudgeDecides DEF AtPlan
<1>2. D \in SUBSET Decisions /\ D # {}
    BY AtomicDecisions
<1>3. Strongest(D) \in D
    BY <1>2, HasStrongest
<1>4. Strongest(D) = "error"
    BY <1>1, <1>3
<1>5. AtomicDecision(r, repo) = "error"
    BY <1>4, AtomicOutcomes DEF AtomicDecision
<1>. QED  BY <1>5 DEF HasCause

\* Reading a baseline a second time changes nothing.
LEMMA BaselineKnown ==
    ASSUME IsScan(scan), NEW known, NEW entries, known = {} \/ known = entries, Knows(scan, known)
    PROVE  Knows(WithBaseline(entries), entries)
<1>1. Fingerprints({}) = {} /\ \A E : DOMAIN Contexts(E) = Fingerprints(E)
    BY DEF Fingerprints, Contexts
<1>2. /\ scan.fingerprints \union Fingerprints(entries) = Fingerprints(entries)
      /\ DOMAIN scan.risks \union Fingerprints(entries) = Fingerprints(entries)
    BY <1>1 DEF Knows
<1>3. /\ WithBaseline(entries).fingerprints = Fingerprints(entries)
      /\ WithBaseline(entries).risks = [x \in Fingerprints(entries) |-> Contexts(entries)[x]]
    BY <1>2, WithBaselineScan
<1>4. Contexts(entries) = [x \in Fingerprints(entries) |-> Contexts(entries)[x]]
    BY DEF Contexts
<1>. QED  BY <1>3, <1>4 DEF Knows

\* Before the first plan nothing has been evaluated.
LEMMA NothingYet ==
    ASSUME NEW s, Begun(s), NEW repo
    PROVE  SoFar(s, repo)
<1>1. 1..(s.plan - 1) = {}
    BY DEF Begun
<1>2. Strongest({"none"}) = "none"
    BY StrongestIs, Ranks DEF Decisions
<1>. QED  BY <1>1, <1>2 DEF Begun, SoFar

\* One more plan.
LEMMA OneMore ==
    ASSUME NEW s, NEW t, NEW repo, MayScan(s.request, repo), SoFar(s, repo),
           s.plan \in DOMAIN s.request.plans,
           t.request = s.request, t.plan = s.plan + 1,
           t.evaluated = s.evaluated \union Tagged(s.plan, AtPlan(s.request, repo, s.plan).findings),
           t.decision = Strongest({s.decision, AtPlan(s.request, repo, s.plan).decision})
    PROVE  SoFar(t, repo)
<1>. DEFINE outcome(j) == AtPlan(s.request, repo, j)
            D == {"none"} \union {outcome(j).decision : j \in 1..(s.plan - 1)}
<1>1. s.plan \in Nat \ {0} /\ 1..(t.plan - 1) = 1..(s.plan - 1) \union {s.plan}
      /\ \A j \in 1..s.plan : j \in DOMAIN s.request.plans
    BY RequestFields
<1>2. D \in SUBSET Decisions /\ D # {} /\ outcome(s.plan).decision \in Decisions
    <2>1. \A j \in DOMAIN s.request.plans : outcome(j).decision \in Decisions
        BY AtomicDecisions
    <2>2. "none" \in Decisions
        BY DEF Decisions
    <2>3. \A j \in 1..(s.plan - 1) : j \in DOMAIN s.request.plans
        BY <1>1
    <2>. HIDE DEF outcome
    <2>. QED  BY <2>1, <2>2, <2>3
<1>3. t.decision = Strongest(D \union {outcome(s.plan).decision})
    <2>1. s.decision = Strongest(D)
        BY DEF SoFar
    <2>. HIDE DEF D
    <2>. QED  BY <1>2, <2>1, StrongestJoins
<1>4. D \union {outcome(s.plan).decision} = {"none"} \union {outcome(j).decision : j \in 1..(t.plan - 1)}
    <2>. HIDE DEF outcome
    <2>. QED  BY <1>1
<1>5. t.evaluated = UNION {Tagged(j, outcome(j).findings) : j \in 1..(t.plan - 1)}
    <2>. DEFINE of(j) == Tagged(j, outcome(j).findings)
    <2>1. s.evaluated = UNION {of(j) : j \in 1..(s.plan - 1)}
        BY DEF SoFar
    <2>2. t.evaluated = s.evaluated \union of(s.plan)
        OBVIOUS
    <2>. HIDE DEF of
    <2>3. {of(j) : j \in 1..(t.plan - 1)} = {of(j) : j \in 1..(s.plan - 1)} \union {of(s.plan)}
        BY <1>1
    <2>4. t.evaluated = UNION {of(j) : j \in 1..(t.plan - 1)}
        BY <2>1, <2>2, <2>3
    <2>. QED  BY <2>4 DEF of
<1>6. t.decision = Strongest({"none"} \union {outcome(j).decision : j \in 1..(t.plan - 1)})
    BY <1>3, <1>4
<1>. QED  BY <1>5, <1>6, Zenon DEF SoFar

\* All plans.
LEMMA AllOfThem ==
    ASSUME NEW s, NEW repo, MayScan(s.request, repo), repo.waiverFile.state = "whole",
           SoFar(s, repo), s.plan = Len(s.request.plans) + 1
    PROVE  /\ s.evaluated = AtomicFindings(s.request, repo)
           /\ s.decision = AtomicDecision(s.request, repo)
<1>. DEFINE r == s.request
            D == {AtPlan(r, repo, j).decision : j \in DOMAIN r.plans}
<1>1. 1..(s.plan - 1) = DOMAIN r.plans
    BY RequestFields
<1>2. s.evaluated = AtomicFindings(r, repo)
    <2>1. /\ DOMAIN Atomic(r, repo) = DOMAIN r.plans
          /\ \A j \in DOMAIN r.plans : Atomic(r, repo)[j] = AtPlan(r, repo, j)
        BY AtomicOutcomes
    <2>2. AtomicFindings(r, repo) = UNION {Tagged(j, AtPlan(r, repo, j).findings) : j \in DOMAIN r.plans}
        BY <2>1 DEF AtomicFindings
    <2>. QED  BY <1>1, <2>2 DEF SoFar
<1>3. s.decision = Strongest({"none"} \union D)
    BY <1>1 DEF SoFar
<1>4. Strongest({"none"} \union D) = Strongest(D)
    BY AtomicDecisions, StrongestSoFar
<1>5. AtomicDecision(r, repo) = Strongest(D)
    BY AtomicOutcomes
<1>. QED  BY <1>2, <1>3, <1>4, <1>5

\* What is evaluated, and under which configuration.
LEMMA EvaluationNow ==
    ASSUME NEW s, NEW repo, MayScan(s.request, repo), Midway(s, repo),
           s.findings = Merge(NativeNow(s, repo), s.request.imports)
    PROVE  LET p == s.policy
               config == ConfigWith(Options(s.request), p, s.fingerprints, s.risks)
               findings == IF p.waiverFile THEN ApplyWaivers(repo.waiverFile.records, s.findings, repo.now)
                           ELSE s.findings
           IN  EvaluatePolicy(findings, config) = AtPlan(s.request, repo, s.plan)
<1>. DEFINE plan == WithPlan(repo, s.request.plans[s.plan])
            opts == Options(s.request)
            findings == IF s.policy.waiverFile THEN ApplyWaivers(repo.waiverFile.records, s.findings, repo.now)
                        ELSE s.findings
            config == ConfigWith(opts, s.policy, s.fingerprints, s.risks)
<1>1. /\ plan.policy = repo.policy /\ plan.waivers = repo.waiverFile.records
      /\ plan.baseline = repo.baseline /\ plan.now = repo.now
    BY DEF WithPlan
<1>2. s.policy = repo.policy /\ Accepted(s.request, repo) /\ Knows(s, NamedByEither(s.request, repo))
    BY DEF Midway
<1>3. ~Refused(opts, plan)
    BY <1>2, RefusedUnlessAccepted
<1>4. findings = Reviewed(s.findings, plan)
    BY <1>1, <1>2 DEF Reviewed
<1>5. config = PolicyConfig(opts, plan)
    <2>1. opts.baseline = s.request.baseline
        BY OptionFields
    <2>2. LoadedEntries(opts, plan) = NamedByEither(s.request, repo)
        BY <1>1, <2>1 DEF LoadedEntries, NamedByEither
    <2>. HIDE DEF opts, plan
    <2>. QED  BY <1>1, <1>2, <2>2 DEF PolicyConfig, Knows
<1>6. AtPlan(s.request, repo, s.plan) = Judge(opts, plan, s.findings)
    BY DEF AtPlan, NativeNow
<1>. HIDE DEF opts, plan, findings, config
<1>7. EvaluatePolicy(findings, config) = AtPlan(s.request, repo, s.plan)
    BY <1>3, <1>4, <1>5, <1>6 DEF Judge
<1>. QED  BY <1>7 DEF opts, plan, findings, config

-----------------------------------------------------------------------------
(***************************************************************************)
(* Each step of a scan that nobody disturbs and that is not late.          *)
(***************************************************************************)
Quietly == Surroundings /\ Untouched /\ IsScan(scan) /\ ~scan.late /\ AtStage(scan, Repository)

\* What the repository holds, by its files.
LEMMA QuietRepository ==
    ASSUME Quietly
    PROVE  /\ MayScan(scan.request, Repository)
           /\ Repository.policy = policy /\ Repository.baseline = baseline /\ Repository.now = now
           /\ Repository.plans = plans /\ Repository.waiverFile = waiverFile
           /\ waiverFile.state = "whole"
    BY DEF Quietly, Surroundings, Untouched, Repository

\* What is as it was is still so.
LEMMA AsItWas ==
    ASSUME NEW s, NEW t, t.request = s.request, t.plan = s.plan, t.evaluated = s.evaluated,
           t.decision = s.decision
    PROVE  /\ Begun(s) => Begun(t)
           /\ \A repo : SoFar(s, repo) => SoFar(t, repo)
           /\ \A repo : NativeNow(t, repo) = NativeNow(s, repo)
           /\ t.policy = s.policy /\ t.fingerprints = s.fingerprints /\ t.risks = s.risks =>
                 \A repo : Midway(s, repo) => Midway(t, repo)
<1>1. \A repo : SoFar(t, repo) <=> SoFar(s, repo)
    BY Zenon DEF SoFar
<1>. QED  BY <1>1 DEF Begun, NativeNow, Midway, Knows

\* A failure of the undisturbed scan is one of the scan of a single moment.
LEMMA FailsWithCause ==
    ASSUME IsScan(scan), NEW from, NEW code, Fail(from, code), NEW repo,
           code = 6 \/ (code \in {2, 3, 4} /\ HasCause(scan.request, repo))
    PROVE  AtStage(scan', repo)
<1>1. scan'.at = "done" /\ scan'.exit = code /\ scan'.request = scan.request
    BY Failed
<1>. QED  BY <1>1 DEF AtStage, Early, Scanning

\* One lemma per step: what it reads is what the scan of a single moment reads.
LEMMA QuietReadPolicy ==
    ASSUME Quietly, ReadPolicy
    PROVE  AtStage(scan', Repository)
<1>. DEFINE update == [scan EXCEPT !.policy = policy]
<1>1. /\ IsScan(update) /\ update.policy = policy /\ update.request = scan.request
      /\ update.plan = scan.plan /\ update.evaluated = scan.evaluated /\ update.decision = scan.decision
      /\ update.fingerprints = scan.fingerprints /\ update.risks = scan.risks
    BY DEF Quietly, IsScan
<1>2. Step("policy", "policy_baseline", update)
    BY DEF ReadPolicy
<1>. HIDE DEF update
<1>3. /\ scan.at = "policy" /\ scan'.at = "policy_baseline" /\ scan'.policy = policy
      /\ scan'.request = scan.request /\ scan'.plan = scan.plan
      /\ scan'.evaluated = scan.evaluated /\ scan'.decision = scan.decision
      /\ scan'.fingerprints = scan.fingerprints /\ scan'.risks = scan.risks
    BY <1>1, <1>2, Stepped
<1>4. Begun(scan) /\ Knows(scan, {})
    BY <1>3 DEF Quietly, AtStage, Early
<1>5. Begun(scan') /\ Knows(scan', {}) /\ scan'.policy = Repository.policy
    BY <1>3, <1>4, AsItWas, QuietRepository DEF Knows
<1>. QED  BY <1>3, <1>5 DEF AtStage, Early, Scanning

\* The baseline of the policy is stale or missing for both scans, or for neither.
LEMMA QuietReadPolicyBaseline ==
    ASSUME Quietly, ReadPolicyBaseline
    PROVE  AtStage(scan', Repository)
<1>1. IsScan(scan) /\ MayScan(scan.request, Repository)
      /\ Repository.policy = policy /\ Repository.baseline = baseline /\ Repository.now = now
    BY QuietRepository DEF Quietly
<1>2. scan.at = "policy_baseline"
    BY DEF ReadPolicyBaseline, Fail, Step
<1>3. Begun(scan) /\ Knows(scan, {}) /\ scan.policy = Repository.policy
    BY <1>2 DEF Quietly, AtStage, Early
<1>4. CASE BaselineFits(Repository)
    <2>2. \/ ~policy.baselineFile /\ Step("policy_baseline", "waivers", scan)
          \/ policy.baselineFile /\ Step("policy_baseline", "waivers", WithBaseline(baseline.entries))
        BY <1>1, <1>3, <1>4 DEF ReadPolicyBaseline, Stale, BaselineFits
    <2>3. CASE ~policy.baselineFile /\ Step("policy_baseline", "waivers", scan)
        <3>1. /\ scan'.at = "waivers" /\ scan'.policy = scan.policy
              /\ scan'.request = scan.request /\ scan'.plan = scan.plan
              /\ scan'.evaluated = scan.evaluated /\ scan'.decision = scan.decision
              /\ scan'.fingerprints = scan.fingerprints /\ scan'.risks = scan.risks
            BY <1>1, <2>3, Stepped
        <3>2. NamedByPolicy(Repository) = {}
            BY <1>1, <2>3 DEF NamedByPolicy
        <3>3. Begun(scan') /\ Knows(scan', NamedByPolicy(Repository)) /\ scan'.policy = Repository.policy
            BY <1>3, <3>1, <3>2, AsItWas DEF Knows
        <3>. QED  BY <1>4, <3>1, <3>3 DEF AtStage, Early, Scanning
    <2>4. CASE policy.baselineFile /\ Step("policy_baseline", "waivers", WithBaseline(baseline.entries))
        <3>. DEFINE update == WithBaseline(baseline.entries)
        <3>1. /\ IsScan(update) /\ update.policy = scan.policy
              /\ update.request = scan.request /\ update.plan = scan.plan
              /\ update.evaluated = scan.evaluated /\ update.decision = scan.decision
            BY <1>1, WithBaselineScan
        <3>2. Knows(update, baseline.entries)
            BY <1>1, <1>3, BaselineKnown
        <3>3. Step("policy_baseline", "waivers", update)
            BY <2>4
        <3>. HIDE DEF update
        <3>4. /\ scan'.at = "waivers" /\ scan'.policy = scan.policy
              /\ scan'.request = scan.request /\ scan'.plan = scan.plan
              /\ scan'.evaluated = scan.evaluated /\ scan'.decision = scan.decision
              /\ scan'.fingerprints = update.fingerprints /\ scan'.risks = update.risks
            BY <3>1, <3>3, Stepped
        <3>5. NamedByPolicy(Repository) = baseline.entries
            BY <1>1, <2>4 DEF NamedByPolicy
        <3>6. Begun(scan') /\ Knows(scan', NamedByPolicy(Repository)) /\ scan'.policy = Repository.policy
            BY <1>3, <3>2, <3>4, <3>5, AsItWas DEF Knows
        <3>. QED  BY <1>4, <3>4, <3>6 DEF AtStage, Early, Scanning
    <2>. QED  BY <2>2, <2>3, <2>4
<1>5. CASE ~BaselineFits(Repository)
    <2>1. Fail("policy_baseline", 4)
        BY <1>1, <1>3, <1>5 DEF ReadPolicyBaseline, Stale, BaselineFits
    <2>2. HasCause(scan.request, Repository)
        BY <1>1, <1>5, ErrorUnlessAccepted DEF Accepted
    <2>. QED  BY <1>1, <2>1, <2>2, FailsWithCause
<1>. QED  BY <1>4, <1>5

\* The waivers are invalid for both scans, or for neither.
LEMMA QuietValidateWaivers ==
    ASSUME Quietly, ValidateWaivers
    PROVE  AtStage(scan', Repository)
<1>1. /\ IsScan(scan) /\ MayScan(scan.request, Repository)
      /\ Repository.policy = policy /\ Repository.waiverFile = waiverFile /\ Repository.now = now
      /\ waiverFile.state = "whole"
    BY QuietRepository DEF Quietly
<1>2. scan.at = "waivers"
    BY DEF ValidateWaivers, Fail, Step
<1>3. /\ Begun(scan) /\ Knows(scan, NamedByPolicy(Repository)) /\ BaselineFits(Repository)
      /\ scan.policy = Repository.policy
    BY <1>2 DEF Quietly, AtStage, Early
<1>4. CASE WaiversFit(Repository)
    <2>1. Step("waivers", "baseline", scan)
        BY <1>1, <1>3, <1>4 DEF ValidateWaivers, WaiversFit
    <2>2. /\ scan'.at = "baseline" /\ scan'.policy = scan.policy
          /\ scan'.request = scan.request /\ scan'.plan = scan.plan
          /\ scan'.evaluated = scan.evaluated /\ scan'.decision = scan.decision
          /\ scan'.fingerprints = scan.fingerprints /\ scan'.risks = scan.risks
        BY <1>1, <2>1, Stepped
    <2>3. Begun(scan') /\ Knows(scan', NamedByPolicy(Repository)) /\ scan'.policy = Repository.policy
        BY <1>3, <2>2, AsItWas DEF Knows
    <2>. QED  BY <1>3, <1>4, <2>2, <2>3 DEF AtStage, Early, Scanning
<1>5. CASE ~WaiversFit(Repository)
    <2>1. Fail("waivers", 4)
        BY <1>1, <1>3, <1>5 DEF ValidateWaivers, WaiversFit
    <2>2. HasCause(scan.request, Repository)
        BY <1>1, <1>5, ErrorUnlessAccepted DEF Accepted
    <2>. QED  BY <1>1, <2>1, <2>2, FailsWithCause
<1>. QED  BY <1>4, <1>5

\* The entries of both baselines are those LoadedEntries names.
LEMMA QuietReadBaseline ==
    ASSUME Quietly, ReadBaseline
    PROVE  AtStage(scan', Repository)
<1>. DEFINE r == scan.request
<1>1. /\ IsScan(scan) /\ MayScan(r, Repository)
      /\ Repository.policy = policy /\ Repository.baseline = baseline
    BY QuietRepository DEF Quietly
<1>2. scan.at = "baseline"
    BY DEF ReadBaseline, Fail, Step
<1>3. /\ Begun(scan) /\ Knows(scan, NamedByPolicy(Repository)) /\ BaselineFits(Repository)
      /\ WaiversFit(Repository) /\ scan.policy = Repository.policy
    BY <1>2 DEF Quietly, AtStage, Early
<1>4. 1 \in DOMAIN r.plans
    BY <1>1, RequestFields
<1>5. CASE Fail("baseline", 2) /\ r.newOnly /\ ~r.baseline
    <2>1. HasCause(r, Repository)
        BY <1>1, <1>5, ErrorUnlessAccepted DEF Accepted
    <2>. QED  BY <1>1, <1>5, <2>1, FailsWithCause
<1>6. CASE Fail("baseline", 3) /\ r.baseline /\ ~baseline.written
    <2>1. HasCause(r, Repository)
        BY <1>1, <1>6, ErrorUnlessAccepted DEF Accepted
    <2>. QED  BY <1>1, <1>6, <2>1, FailsWithCause
<1>7. CASE Step("baseline", "context", scan) /\ ~r.newOnly /\ ~r.baseline
    <2>1. /\ scan'.at = "context" /\ scan'.policy = scan.policy
          /\ scan'.request = scan.request /\ scan'.plan = scan.plan
          /\ scan'.evaluated = scan.evaluated /\ scan'.decision = scan.decision
          /\ scan'.fingerprints = scan.fingerprints /\ scan'.risks = scan.risks
        BY <1>1, <1>7, Stepped
    <2>2. Accepted(r, Repository) /\ NamedByEither(r, Repository) = NamedByPolicy(Repository)
        BY <1>3, <1>7 DEF Accepted, NamedByEither, NamedByPolicy
    <2>3. Begun(scan') /\ SoFar(scan', Repository)
        BY <1>3, <2>1, AsItWas, NothingYet
    <2>4. Midway(scan', Repository)
        BY <1>3, <1>4, <2>1, <2>2, <2>3 DEF Midway, Begun, Knows
    <2>. QED  BY <2>1, <2>3, <2>4 DEF AtStage, Early, Scanning
<1>8. ASSUME r.baseline, baseline.written, NEW raced,
             Step("baseline", "context", [WithBaseline(baseline.entries) EXCEPT !.raced = raced])
      PROVE  AtStage(scan', Repository)
    <2>. DEFINE read == WithBaseline(baseline.entries)
                update == [read EXCEPT !.raced = raced]
    <2>1. /\ IsScan(read) /\ read.policy = scan.policy
          /\ read.request = scan.request /\ read.plan = scan.plan
          /\ read.evaluated = scan.evaluated /\ read.decision = scan.decision
        BY <1>1, WithBaselineScan
    <2>2. Knows(read, baseline.entries)
        <3>1. NamedByPolicy(Repository) = {} \/ NamedByPolicy(Repository) = baseline.entries
            BY <1>1 DEF NamedByPolicy
        <3>. QED  BY <1>1, <1>3, <3>1, BaselineKnown
    <2>3. Step("baseline", "context", update)
        BY <1>8
    <2>. HIDE DEF read
    <2>4. /\ IsScan(update) /\ update.policy = read.policy
          /\ update.request = read.request /\ update.plan = read.plan
          /\ update.evaluated = read.evaluated /\ update.decision = read.decision
          /\ update.fingerprints = read.fingerprints /\ update.risks = read.risks
        BY <2>1 DEF IsScan
    <2>. HIDE DEF update
    <2>5. /\ scan'.at = "context" /\ scan'.policy = scan.policy
          /\ scan'.request = scan.request /\ scan'.plan = scan.plan
          /\ scan'.evaluated = scan.evaluated /\ scan'.decision = scan.decision
          /\ scan'.fingerprints = read.fingerprints /\ scan'.risks = read.risks
        BY <2>1, <2>3, <2>4, Stepped
    <2>6. Accepted(r, Repository) /\ NamedByEither(r, Repository) = baseline.entries
        BY <1>1, <1>3, <1>8 DEF Accepted, NamedByEither
    <2>7. Begun(scan') /\ SoFar(scan', Repository)
        BY <1>3, <2>5, AsItWas, NothingYet
    <2>8. Midway(scan', Repository)
        BY <1>3, <1>4, <2>2, <2>5, <2>6, <2>7 DEF Midway, Begun, Knows
    <2>. QED  BY <2>5, <2>7, <2>8 DEF AtStage, Early, Scanning
<1>9. \/ Fail("baseline", 2) /\ r.newOnly /\ ~r.baseline
      \/ Fail("baseline", 3) /\ r.baseline /\ ~baseline.written
      \/ Step("baseline", "context", scan) /\ ~r.newOnly /\ ~r.baseline
      \/ /\ r.baseline /\ baseline.written
         /\ \E raced : Step("baseline", "context", [WithBaseline(baseline.entries) EXCEPT !.raced = raced])
    BY DEF ReadBaseline, Request
<1>. QED  BY <1>5, <1>6, <1>7, <1>8, <1>9

\* Context and imports are refused for the two causes the scan of a single moment leaves out.
LEMMA QuietReadContext ==
    ASSUME Quietly, ReadContext
    PROVE  AtStage(scan', Repository)
<1>1. IsScan(scan)
    BY DEF Quietly
<1>2. scan.at = "context"
    BY DEF ReadContext, Fail, Step
<1>3. Midway(scan, Repository)
    BY <1>2 DEF Quietly, AtStage
<1>4. CASE Step("context", "plan", scan)
    <2>1. /\ scan'.at = "plan" /\ scan'.policy = scan.policy
          /\ scan'.request = scan.request /\ scan'.plan = scan.plan
          /\ scan'.evaluated = scan.evaluated /\ scan'.decision = scan.decision
          /\ scan'.fingerprints = scan.fingerprints /\ scan'.risks = scan.risks
        BY <1>1, <1>4, Stepped
    <2>2. Midway(scan', Repository)
        BY <1>3, <2>1, AsItWas
    <2>. QED  BY <2>1, <2>2 DEF AtStage, Early
<1>5. CASE \E code \in {2, 3} : Fail("context", code) /\ HasCause(scan.request, Repository)
    BY <1>1, <1>5, FailsWithCause
<1>. QED  BY <1>4, <1>5 DEF ReadContext, Request, HasCause

\* The plan is the one the other scan reads.
LEMMA QuietReadPlan ==
    ASSUME Quietly, ReadPlan
    PROVE  AtStage(scan', Repository)
<1>. DEFINE native == Native(Request, Repository, CurrentPlan)
            update == [scan EXCEPT !.findings = native]
<1>1. IsScan(scan) /\ ~scan.late
    BY DEF Quietly
<1>2. Step("plan", "rules", update)
    BY <1>1 DEF ReadPlan
<1>3. native = NativeNow(scan, Repository)
    BY DEF NativeNow, Request, CurrentPlan
<1>. HIDE DEF native
<1>4. /\ IsScan(update) /\ update.policy = scan.policy
      /\ update.request = scan.request /\ update.plan = scan.plan
      /\ update.evaluated = scan.evaluated /\ update.decision = scan.decision
      /\ update.fingerprints = scan.fingerprints /\ update.risks = scan.risks
      /\ update.findings = native
    BY <1>1 DEF IsScan
<1>. HIDE DEF update
<1>5. /\ scan.at = "plan" /\ scan'.at = "rules" /\ scan'.policy = scan.policy
      /\ scan'.request = scan.request /\ scan'.plan = scan.plan
      /\ scan'.evaluated = scan.evaluated /\ scan'.decision = scan.decision
      /\ scan'.fingerprints = scan.fingerprints /\ scan'.risks = scan.risks
      /\ scan'.findings = native
    BY <1>2, <1>4, Stepped
<1>6. Midway(scan, Repository)
    BY <1>5 DEF Quietly, AtStage, Scanning
<1>7. Midway(scan', Repository) /\ scan'.findings = NativeNow(scan', Repository)
    BY <1>3, <1>5, <1>6, AsItWas
<1>. QED  BY <1>5, <1>7 DEF AtStage, Early, Scanning

\* No rule is left out of a scan that is not late.
LEMMA QuietEvaluateRules ==
    ASSUME Quietly, EvaluateRules
    PROVE  AtStage(scan', Repository)
<1>1. IsScan(scan) /\ ~scan.late
    BY DEF Quietly
<1>. DEFINE merged == Merge(scan.findings, scan.request.imports)
<1>2. PICK cut : Step("rules", "apply_waivers", [scan EXCEPT !.findings = merged, !.cut = cut])
    BY <1>1 DEF EvaluateRules, Request
<1>. DEFINE update == [scan EXCEPT !.findings = merged, !.cut = cut]
<1>. HIDE DEF merged
<1>4. /\ IsScan(update) /\ update.policy = scan.policy
      /\ update.request = scan.request /\ update.plan = scan.plan
      /\ update.evaluated = scan.evaluated /\ update.decision = scan.decision
      /\ update.fingerprints = scan.fingerprints /\ update.risks = scan.risks
      /\ update.findings = merged
    <2>1. update = [scan EXCEPT !.findings = merged, !.cut = cut]
        OBVIOUS
    <2>. HIDE DEF update
    <2>. QED  BY <1>1, <2>1 DEF IsScan
<1>3. Step("rules", "apply_waivers", update)
    BY <1>2
<1>. HIDE DEF update
<1>5. /\ scan.at = "rules" /\ scan'.at = "apply_waivers" /\ scan'.policy = scan.policy
      /\ scan'.request = scan.request /\ scan'.plan = scan.plan
      /\ scan'.evaluated = scan.evaluated /\ scan'.decision = scan.decision
      /\ scan'.fingerprints = scan.fingerprints /\ scan'.risks = scan.risks
      /\ scan'.findings = merged
    BY <1>3, <1>4, Stepped
<1>6. Midway(scan, Repository) /\ scan.findings = NativeNow(scan, Repository)
    BY <1>5 DEF Quietly, AtStage, Scanning
<1>7. /\ Midway(scan', Repository)
      /\ scan'.findings = Merge(NativeNow(scan', Repository), scan'.request.imports)
    BY <1>5, <1>6, AsItWas DEF merged
<1>. QED  BY <1>5, <1>7 DEF AtStage, Early, Scanning

\* The waiver file is still whole and unexpired, and the plan is decided alike.
LEMMA QuietApplyAndEvaluate ==
    ASSUME Quietly, ApplyAndEvaluate
    PROVE  AtStage(scan', Repository)
<1>1. /\ IsScan(scan) /\ MayScan(scan.request, Repository)
      /\ Repository.policy = policy /\ Repository.waiverFile = waiverFile /\ Repository.now = now
      /\ waiverFile.state = "whole"
    BY QuietRepository DEF Quietly
<1>2. scan.at = "apply_waivers"
    BY DEF ApplyAndEvaluate, Fail, Step
<1>3. /\ Midway(scan, Repository)
      /\ scan.findings = Merge(NativeNow(scan, Repository), scan.request.imports)
    BY <1>2 DEF Quietly, AtStage, Scanning
<1>. DEFINE findings == IF scan.policy.waiverFile
                        THEN ApplyWaivers(Repository.waiverFile.records, scan.findings, Repository.now)
                        ELSE scan.findings
            update == Evaluated(findings)
            outcome == AtPlan(scan.request, Repository, scan.plan)
            next == AfterPlan
<1>4. ~(scan.policy.failExpired /\ MeetsExpired(scan.findings)) \/ ~scan.policy.waiverFile
    BY <1>1, <1>3 DEF MeetsExpired, Midway, Accepted, WaiversFit
<1>5. Step("apply_waivers", next, update)
    BY <1>1, <1>4 DEF ApplyAndEvaluate
<1>6. /\ EvaluatePolicy(findings, ConfigWith(Options(scan.request), scan.policy, scan.fingerprints, scan.risks))
            = outcome
    BY <1>1, <1>3, EvaluationNow
<1>7. /\ IsScan(update) /\ update.policy = scan.policy /\ update.request = scan.request
      /\ update.fingerprints = scan.fingerprints /\ update.risks = scan.risks
      /\ update.plan = scan.plan + 1
      /\ update.evaluated = scan.evaluated \union Tagged(scan.plan, outcome.findings)
      /\ update.decision = Strongest({scan.decision, outcome.decision})
    <2>. HIDE DEF findings, outcome
    <2>. QED  BY <1>1, <1>6, EvaluatedScan DEF Request
<1>. HIDE DEF update, next
<1>8. /\ scan'.at = next /\ scan'.policy = scan.policy /\ scan'.request = scan.request
      /\ scan'.fingerprints = scan.fingerprints /\ scan'.risks = scan.risks
      /\ scan'.plan = scan.plan + 1
      /\ scan'.evaluated = scan.evaluated \union Tagged(scan.plan, outcome.findings)
      /\ scan'.decision = Strongest({scan.decision, outcome.decision})
    <2>. HIDE DEF outcome
    <2>. QED  BY <1>5, <1>7, Stepped
<1>9. SoFar(scan', Repository)
    <2>1. SoFar(scan, Repository) /\ scan.plan \in DOMAIN scan.request.plans
        BY <1>3 DEF Midway
    <2>. QED  BY <1>1, <1>8, <2>1, OneMore
<1>10. scan.plan \in 1..Len(scan.request.plans) /\ Len(scan.request.plans) \in Nat
       /\ DOMAIN scan.request.plans = 1..Len(scan.request.plans)
    BY <1>1, <1>3, RequestFields DEF Midway
<1>11. CASE scan.plan < Len(scan.request.plans)
    <2>1. next = "plan" /\ scan'.plan \in DOMAIN scan'.request.plans
        BY <1>8, <1>10, <1>11 DEF AfterPlan, Request, next
    <2>2. Midway(scan', Repository)
        BY <1>3, <1>8, <1>9, <2>1 DEF Midway, Knows
    <2>. QED  BY <1>8, <2>1, <2>2 DEF AtStage, Early
<1>12. CASE ~(scan.plan < Len(scan.request.plans))
    <2>1. next = "deadline" /\ scan'.plan = Len(scan'.request.plans) + 1
        BY <1>8, <1>10, <1>12 DEF AfterPlan, Request, next
    <2>2. Finished(scan', Repository)
        BY <1>3, <1>8, <1>9, <2>1 DEF Midway, Finished
    <2>. QED  BY <1>8, <2>1, <2>2 DEF AtStage, Early, Scanning
<1>. QED  BY <1>11, <1>12

\* All plans are decided: the report has the decision of the other scan.
LEMMA QuietLimitFindings ==
    ASSUME Quietly, LimitFindings
    PROVE  AtStage(scan', Repository)
<1>1. /\ IsScan(scan) /\ ~scan.late /\ MayScan(scan.request, Repository)
      /\ Repository.waiverFile.state = "whole"
    BY QuietRepository DEF Quietly
<1>. DEFINE kept == Limit(scan.evaluated, Request.maxFindings)
            report == [NoReport EXCEPT !.decision = scan.decision, !.findings = kept,
                                       !.summary = RiskSummary(kept)]
            update == [scan EXCEPT !.report = report]
<1>2. kept \subseteq scan.evaluated
    BY DEF Limit
<1>3. /\ IsReport(report) /\ report.decision = scan.decision /\ report.findings = kept
      /\ report.audit = << >>
    <2>. HIDE DEF kept
    <2>. QED  BY LimitedReport
<1>4. Step("deadline", "audit_policy", update)
    BY <1>1 DEF LimitFindings, DeadlinePassed
<1>. HIDE DEF kept, report
<1>5. /\ IsScan(update) /\ update.request = scan.request /\ update.plan = scan.plan
      /\ update.evaluated = scan.evaluated /\ update.decision = scan.decision
      /\ update.report = report
    BY <1>1, <1>3 DEF IsScan
<1>. HIDE DEF update
<1>6. /\ scan.at = "deadline" /\ scan'.at = "audit_policy"
      /\ scan'.request = scan.request /\ scan'.evaluated = scan.evaluated
      /\ scan'.report = report
    BY <1>4, <1>5, Stepped
<1>7. Finished(scan, Repository)
    BY <1>6 DEF Quietly, AtStage
<1>8. /\ scan.evaluated = AtomicFindings(scan.request, Repository)
      /\ scan.decision = AtomicDecision(scan.request, Repository)
    BY <1>1, <1>7, AllOfThem DEF Finished
<1>9. Noting(scan', Repository, 0)
    BY <1>2, <1>3, <1>6, <1>7, <1>8 DEF Finished, Noting, Reports
<1>. QED  BY <1>6, <1>9 DEF AtStage, Early, Scanning

\* A finding of the report is suppressed by a waiver when an active one matches it.
LEMMA WaivedFindings ==
    ASSUME NEW r, NEW repo, MayScan(r, repo), Accepted(r, repo),
           NEW f \in AtomicFindings(r, repo)
    PROVE  "waiver" \in f.finding.suppressions <=>
              repo.policy.waiverFile /\ \E w \in repo.waiverFile.records : Matches(w, f.finding, repo.now)
<1>1. PICK i \in DOMAIN r.plans : f \in Tagged(i, AtPlan(r, repo, i).findings)
    BY AtomicOutcomes DEF AtomicFindings
<1>. DEFINE plan == WithPlan(repo, r.plans[i])
            opts == Options(r)
            config == PolicyConfig(opts, plan)
            merged == Merge(Native(r, repo, r.plans[i]), r.imports)
            g == f.finding
<1>2. g \in AtPlan(r, repo, i).findings
    BY <1>1 DEF Tagged
<1>3. /\ plan.policy = repo.policy /\ plan.waivers = repo.waiverFile.records /\ plan.now = repo.now
      /\ IsConfig(config) /\ r.plans[i] \in DOMAIN repo.plans
    <2>1. r.plans[i] \in DOMAIN repo.plans
        BY RequestFields
    <2>. QED  BY <2>1, PlanOfRepository, ConfigOfPolicy DEF WithPlan
<1>4. Arrivable(merged)
    BY RequestFields, MergedArrivable
<1>5. \A k \in merged : "waiver" \notin k.suppressions
    <2>1. \A k \in merged : \/ k \in Native(r, repo, r.plans[i])
                            \/ \E u \in r.imports : k = FindingOf(u)
        BY DEF Merge, FindingOf
    <2>2. \A u \in r.imports : FindingOf(u).suppressions = {}
        BY RequestFields, ImportFinding
    <2>. HIDE DEF merged
    <2>. QED  BY <1>3, <2>1, <2>2, PlanOfRepository
<1>6. AtPlan(r, repo, i).findings = KeptOf(Reviewed(merged, plan), config)
    BY RefusedUnlessAccepted, Evaluation DEF AtPlan, Judge
<1>. HIDE DEF plan, opts, config, merged, g
<1>7. PICK h \in InContext(Reviewed(merged, plan), config) : g = WithImpact(h, config)
    BY <1>2, <1>6 DEF KeptOf, DeduplicateFindings
<1>8. PICK k \in Reviewed(merged, plan) : h = ApplyContext(k, config)
    BY <1>7 DEF InContext
<1>9. PICK a \in merged :
          /\ k \in Finding /\ k.impact = "allow" /\ k.site = a.site
          /\ "waiver" \in k.suppressions <=>
                \/ "waiver" \in a.suppressions
                \/ plan.policy.waiverFile /\ \E w \in plan.waivers : Matches(w, a, plan.now)
    BY <1>4, ReviewedFindings
<1>10. /\ h \in Finding /\ h.impact = "allow" /\ h.site = k.site
       /\ "waiver" \in h.suppressions <=> "waiver" \in k.suppressions
    BY <1>3, <1>8, <1>9, Applied
<1>11. g.site = a.site /\ ("waiver" \in g.suppressions <=> "waiver" \in k.suppressions)
    BY <1>7, <1>9, <1>10, ImpactOf
<1>12. \A w : Matches(w, g, repo.now) <=> Matches(w, a, repo.now)
    BY <1>11 DEF Matches
<1>13. "waiver" \in g.suppressions <=>
           repo.policy.waiverFile /\ \E w \in repo.waiverFile.records : Matches(w, g, repo.now)
    BY <1>3, <1>5, <1>9, <1>11, <1>12
<1>. QED  BY <1>13 DEF g

\* Pieces of audit evidence, one after the other.
LEMMA Joined ==
    /\ \A a : << >> \o <<a>> = <<a>>
    /\ \A a, b : <<a>> \o <<b>> = <<a, b>>
    /\ \A a, b, c : <<a, b>> \o <<c>> = <<a, b, c>>
    /\ \A a, b, c, d : \A i \in 1..3 : (<<a, b, c>> \o <<d>>)[i] = <<a, b, c>>[i]
<1>1. ASSUME NEW a, NEW b
      PROVE  <<a>> \o <<b>> = <<a, b>>
    <2>1. <<a>> \in Seq({a, b}) /\ <<b>> \in Seq({a, b}) /\ <<a, b>> \in Seq({a, b})
        OBVIOUS
    <2>2. <<a>> \o <<b>> \in Seq({a, b}) /\ Len(<<a>> \o <<b>>) = 2
        BY <2>1
    <2>3. \A i \in 1..2 : (<<a>> \o <<b>>)[i] = <<a, b>>[i]
        OBVIOUS
    <2>. QED  BY <2>1, <2>2, <2>3, SeqEqual
<1>2. ASSUME NEW a, NEW b, NEW c
      PROVE  <<a, b>> \o <<c>> = <<a, b, c>>
    <2>1. <<a, b>> \in Seq({a, b, c}) /\ <<c>> \in Seq({a, b, c}) /\ <<a, b, c>> \in Seq({a, b, c})
        OBVIOUS
    <2>2. <<a, b>> \o <<c>> \in Seq({a, b, c}) /\ Len(<<a, b>> \o <<c>>) = 3
        BY <2>1
    <2>3. \A i \in 1..3 : (<<a, b>> \o <<c>>)[i] = <<a, b, c>>[i]
        OBVIOUS
    <2>. QED  BY <2>1, <2>2, <2>3, SeqEqual
<1>3. \A a : << >> \o <<a>> = <<a>>
    OBVIOUS
<1>4. \A a, b, c, d : \A i \in 1..3 : (<<a, b, c>> \o <<d>>)[i] = <<a, b, c>>[i]
    OBVIOUS
<1>. QED  BY <1>1, <1>2, <1>3, <1>4

\* Attaching evidence changes nothing that was reported.
LEMMA QuietNoted ==
    ASSUME Quietly, NEW from, NEW to, NEW evidence, Step(from, to, Noted(evidence))
    PROVE  /\ scan.at = from /\ scan'.at = to /\ scan'.request = scan.request
           /\ scan'.report.audit = scan.report.audit \o <<evidence>>
           /\ Evidence(scan', Repository) = Evidence(scan, Repository)
           /\ Reports(scan, Repository) => Reports(scan', Repository)
<1>1. /\ IsScan(Noted(evidence)) /\ Noted(evidence).request = scan.request
      /\ Noted(evidence).evaluated = scan.evaluated
      /\ Noted(evidence).report.decision = scan.report.decision
      /\ Noted(evidence).report.findings = scan.report.findings
      /\ Noted(evidence).report.audit = scan.report.audit \o <<evidence>>
    BY NotedScan DEF Quietly
<1>2. /\ scan.at = from /\ scan'.at = to /\ scan'.request = scan.request
      /\ scan'.evaluated = scan.evaluated
      /\ scan'.report.decision = scan.report.decision
      /\ scan'.report.findings = scan.report.findings
      /\ scan'.report.audit = scan.report.audit \o <<evidence>>
    BY <1>1, Stepped
<1>3. Evidence(scan', Repository) = Evidence(scan, Repository)
    BY <1>2 DEF Evidence
<1>. QED  BY <1>2, <1>3 DEF Reports

\* The policy that is attached is the one that was applied.
LEMMA QuietAuditPolicy ==
    ASSUME Quietly, AuditPolicy
    PROVE  AtStage(scan', Repository)
<1>1. Step("audit_policy", "audit_plans", Noted(policy))
    BY DEF AuditPolicy
<1>2. /\ scan.at = "audit_policy" /\ scan'.at = "audit_plans"
      /\ scan'.report.audit = scan.report.audit \o <<policy>>
      /\ Evidence(scan', Repository) = Evidence(scan, Repository)
      /\ Reports(scan, Repository) => Reports(scan', Repository)
    BY <1>1, QuietNoted
<1>3. Noting(scan, Repository, 0) /\ Evidence(scan, Repository)[1] = policy
    BY <1>2, QuietRepository DEF Quietly, AtStage, Evidence
<1>4. Noting(scan', Repository, 1)
    <2>1. scan.report.audit = << >> /\ Reports(scan, Repository)
        BY <1>3 DEF Noting
    <2>2. << >> \o <<policy>> = <<policy>>
        BY Joined
    <2>3. scan'.report.audit = <<Evidence(scan', Repository)[1]>>
        BY <1>2, <1>3, <2>1, <2>2
    <2>. QED  BY <1>2, <2>1, <2>3 DEF Noting
<1>. QED  BY <1>2, <1>4 DEF AtStage, Early, Scanning

\* The plans that are attached are those that were evaluated.
LEMMA QuietAuditPlans ==
    ASSUME Quietly, AuditPlans
    PROVE  AtStage(scan', Repository)
<1>. DEFINE read == [i \in DOMAIN Request.plans |-> plans[Request.plans[i]]]
<1>1. Step("audit_plans", "audit_waivers", Noted(read))
    BY DEF AuditPlans
<1>2. Evidence(scan, Repository)[2] = read
    BY QuietRepository DEF Evidence, Request
<1>. HIDE DEF read
<1>3. /\ scan.at = "audit_plans" /\ scan'.at = "audit_waivers"
      /\ scan'.report.audit = scan.report.audit \o <<read>>
      /\ Evidence(scan', Repository) = Evidence(scan, Repository)
      /\ Reports(scan, Repository) => Reports(scan', Repository)
    BY <1>1, QuietNoted
<1>4. Noting(scan, Repository, 1)
    BY <1>3 DEF Quietly, AtStage
<1>5. Noting(scan', Repository, 2)
    BY <1>2, <1>3, <1>4, Joined DEF Noting
<1>. QED  BY <1>3, <1>5 DEF AtStage, Early, Scanning

\* The waivers that match now are those that were applied.
LEMMA QuietAuditWaivers ==
    ASSUME Quietly, AuditWaivers
    PROVE  AtStage(scan', Repository)
<1>. DEFINE waived == {f.site : f \in {g \in Reported : \E w \in waiverFile.records : Matches(w, g, now)}}
            evidence == IF policy.waiverFile THEN waived ELSE {}
            e == Evidence(scan, Repository)
<1>1. scan.at = "audit_waivers"
    BY DEF AuditWaivers
<1>2. Noting(scan, Repository, 2)
    BY <1>1 DEF Quietly, AtStage
<1>3. scan.report.audit[1] = policy
    BY <1>2, QuietRepository DEF Noting, Evidence
<1>4. Step("audit_waivers", "audit_baseline", Noted(evidence))
    BY <1>3, QuietRepository DEF AuditWaivers
<1>5. e[3] = evidence
    <2>1. /\ MayScan(scan.request, Repository) /\ Repository.policy = policy
          /\ Repository.waiverFile = waiverFile /\ Repository.now = now
        BY QuietRepository
    <2>2. Accepted(scan.request, Repository) /\ scan.report.findings \subseteq AtomicFindings(scan.request, Repository)
        BY <1>2 DEF Noting, Reports
    <2>3. \A g \in Reported : "waiver" \in g.suppressions <=>
              policy.waiverFile /\ \E w \in waiverFile.records : Matches(w, g, now)
        BY <2>1, <2>2, WaivedFindings DEF Reported
    <2>4. e[3] = {f.site : f \in {g \in Reported : "waiver" \in g.suppressions}}
        BY DEF Evidence, WaivedIn, Reported
    <2>5. {g \in Reported : "waiver" \in g.suppressions}
            = {g \in Reported : policy.waiverFile /\ \E w \in waiverFile.records : Matches(w, g, now)}
        BY <2>3
    <2>6. CASE policy.waiverFile
        BY <2>4, <2>5, <2>6
    <2>7. CASE ~policy.waiverFile
        BY <2>4, <2>5, <2>7
    <2>. QED  BY <2>6, <2>7
<1>. HIDE DEF evidence, e
<1>6. /\ scan'.at = "audit_baseline"
      /\ scan'.report.audit = scan.report.audit \o <<evidence>>
      /\ Evidence(scan', Repository) = e
      /\ Reports(scan, Repository) => Reports(scan', Repository)
    BY <1>4, QuietNoted DEF e
<1>7. Noting(scan', Repository, 3)
    <2>1. scan.report.audit = <<e[1], e[2]>> /\ Reports(scan, Repository)
        BY <1>2 DEF Noting, e
    <2>. QED  BY <1>5, <1>6, <2>1, Joined DEF Noting
<1>. QED  BY <1>6, <1>7 DEF AtStage, Early, Scanning

\* The baseline is still there to be compared with.
LEMMA QuietAuditBaseline ==
    ASSUME Quietly, AuditBaseline
    PROVE  AtStage(scan', Repository)
<1>. DEFINE next == IF Request.bundle THEN "bundle" ELSE "report"
            e == Evidence(scan, Repository)
<1>1. scan.at = "audit_baseline"
    BY DEF AuditBaseline
<1>2. Noting(scan, Repository, 3)
    BY <1>1 DEF Quietly, AtStage
<1>3. scan.report.audit[1] = policy /\ Accepted(scan.request, Repository)
    BY <1>2, QuietRepository DEF Noting, Evidence, Reports
<1>4. policy.baselineFile \/ Request.baseline => baseline.written
    BY <1>3, QuietRepository DEF Accepted, BaselineFits, Request
<1>5. next \in {"bundle", "report"}
    OBVIOUS
<1>6. \E evidence : Step("audit_baseline", next, Noted(evidence))
    BY <1>3, <1>4 DEF AuditBaseline
<1>. HIDE DEF next, e
<1>7. PICK evidence :
          /\ scan'.at = next
          /\ scan'.report.audit = scan.report.audit \o <<evidence>>
          /\ Evidence(scan', Repository) = e
          /\ Reports(scan, Repository) => Reports(scan', Repository)
    BY <1>6, QuietNoted DEF e
<1>8. Noting(scan', Repository, 4)
    <2>1. scan.report.audit = <<e[1], e[2], e[3]>> /\ Reports(scan, Repository)
        BY <1>2 DEF Noting, e
    <2>2. \A i \in 1..3 : scan'.report.audit[i] = e[i]
        BY <1>7, <2>1, Joined
    <2>. QED  BY <1>7, <2>1, <2>2 DEF Noting
<1>. QED  BY <1>5, <1>7, <1>8 DEF AtStage, Early, Scanning

\* An output that is written, or not, changes nothing that was decided.
LEMMA QuietWrites ==
    ASSUME Quietly, WriteBundle \/ WriteReport
    PROVE  AtStage(scan', Repository)
<1>1. IsScan(scan)
    BY DEF Quietly
<1>2. scan.at \in {"bundle", "report"}
    BY DEF WriteBundle, WriteReport, Fail, Step
<1>3. Noting(scan, Repository, 4)
    BY <1>2 DEF Quietly, AtStage
<1>4. ASSUME NEW from, NEW to \in {"report", "done"}, NEW update, IsScan(update),
             update.request = scan.request, update.evaluated = scan.evaluated,
             update.report = scan.report,
             to = "done" => update.exit \notin {2, 3, 4},
             Step(from, to, update)
      PROVE  AtStage(scan', Repository)
    <2>1. /\ scan'.at = to /\ scan'.request = scan.request /\ scan'.evaluated = scan.evaluated
          /\ scan'.report = scan.report /\ scan'.exit = update.exit
        BY <1>4, Stepped
    <2>2. Noting(scan', Repository, 4)
        BY <1>3, <2>1 DEF Noting, Reports, Evidence
    <2>. QED  BY <1>4, <2>1, <2>2 DEF AtStage, Early, Scanning
<1>5. CASE WriteBundle
    <2>1. CASE Step("bundle", "report", scan)
        BY <1>1, <1>4, <2>1
    <2>2. CASE Fail("bundle", 6)
        BY <1>1, <2>2, FailsWithCause
    <2>. QED  BY <1>5, <2>1, <2>2 DEF WriteBundle
<1>6. CASE WriteReport
    <2>1. PICK output, code :
              /\ code \in {0, 1, 6}
              /\ Step("report", "done", [scan EXCEPT !.output = output, !.exit = code])
        BY <1>6 DEF WriteReport, ExitCode, ExitCodeOnError
    <2>. DEFINE update == [scan EXCEPT !.output = output, !.exit = code]
    <2>2. /\ IsScan(update) /\ update.request = scan.request /\ update.evaluated = scan.evaluated
          /\ update.report = scan.report /\ update.exit = code
        <3>1. update = [scan EXCEPT !.output = output, !.exit = code]
            OBVIOUS
        <3>. HIDE DEF update
        <3>. QED  BY <1>1, <3>1 DEF IsScan
    <2>3. Step("report", "done", update)
        BY <2>1
    <2>. HIDE DEF update
    <2>4. update.exit \notin {2, 3, 4}
        BY <2>1, <2>2
    <2>. QED  BY <1>4, <2>2, <2>3, <2>4
<1>. QED  BY <1>5, <1>6

\* Every step of an undisturbed scan is faithful to the repository.
LEMMA QuietScanStep ==
    ASSUME Verdict(scan), Surroundings, Untouched, Faithful(scan, Repository), ScanStep
    PROVE  Faithful(scan', Repository)
<1>1. CASE scan.late
    BY <1>1, RequestStays DEF Faithful
<1>2. CASE ~scan.late
    <2>1. Quietly
        BY <1>2 DEF Quietly, Faithful, Verdict
    <2>2. AtStage(scan', Repository)
        BY <2>1, QuietReadPolicy, QuietReadPolicyBaseline, QuietValidateWaivers, QuietReadBaseline,
           QuietReadContext, QuietReadPlan, QuietEvaluateRules, QuietApplyAndEvaluate,
           QuietLimitFindings, QuietAuditPolicy, QuietAuditPlans, QuietAuditWaivers,
           QuietAuditBaseline, QuietWrites DEF ScanStep
    <2>. QED  BY <2>2 DEF Faithful
<1>. QED  BY <1>1, <1>2

\* A repository whose files stay is the same repository.
LEMMA RepositoryStays ==
    ASSUME UNCHANGED repositoryVars
    PROVE  Repository' = Repository /\ (Untouched => Untouched')
    BY DEF repositoryVars, storeVars, Repository, Untouched

\* Whatever is not a step of the scan edits the repository, or has been edited to go on.
LEMMA FirstEdit ==
    ASSUME edits \in Nat, edits = 0 => Untouched, [Next]_vars,
           ~ScanStep, ~DeadlinePasses, ~UNCHANGED vars
    PROVE  edits' \in Nat \ {0}
<1>1. CASE edits' = edits + 1
    BY <1>1
<1>2. CASE (\E file \in DOMAIN plans, s \in Sites, risk \in Risks : EditPlan(file, s, risk))
           \/ (\E p \in Policies : EditPolicy(p)) \/ (\E file \in DOMAIN plans : TruncateBaseline(file))
           \/ StartsInStore
    BY <1>1, <1>2 DEF EditPlan, EditPolicy, TruncateBaseline, StartsInStore, Edited
<1>3. CASE WriteBaseline
    BY <1>3 DEF WriteBaseline, Untouched
<1>4. CASE GoesOnInStore
    BY <1>4 DEF GoesOnInStore, Truncate, Write, CutShort, Running, Untouched
<1>. QED  BY <1>2, <1>3, <1>4 DEF Next

\* No step takes an undisturbed scan away from what it has read.
LEMMA UndisturbedStays ==
    ASSUME Verdict(scan), Surroundings, Undisturbed, [Next]_vars
    PROVE  Undisturbed'
<1>1. CASE ScanStep
    <2>1. UNCHANGED <<repositoryVars, edits>>
        BY <1>1, RequestStays
    <2>2. Repository' = Repository /\ (Untouched => Untouched')
        BY <2>1, RepositoryStays
    <2>3. edits = 0 => Faithful(scan', Repository)
        BY <1>1, QuietScanStep DEF Undisturbed
    <2>. QED  BY <2>1, <2>2, <2>3 DEF Undisturbed
<1>2. CASE DeadlinePasses
    <2>1. UNCHANGED <<repositoryVars, edits>> /\ scan'.late
        BY <1>2, LateScan DEF DeadlinePasses, Verdict
    <2>2. Repository' = Repository /\ (Untouched => Untouched')
        BY <2>1, RepositoryStays
    <2>. QED  BY <2>1, <2>2 DEF Undisturbed, Faithful
<1>3. CASE UNCHANGED vars
    <2>1. scan' = scan /\ edits' = edits /\ UNCHANGED repositoryVars
        BY <1>3 DEF vars
    <2>2. Repository' = Repository /\ (Untouched => Untouched')
        BY <2>1, RepositoryStays
    <2>. QED  BY <2>1, <2>2 DEF Undisturbed
<1>4. CASE ~ScanStep /\ ~DeadlinePasses /\ ~UNCHANGED vars
    BY <1>4, FirstEdit DEF Undisturbed
<1>. QED  BY <1>1, <1>2, <1>3, <1>4

\* A scan that has not begun has read nothing.
LEMMA NewScanIsFaithful ==
    ASSUME Init
    PROVE  Undisturbed
<1>1. PICK r \in Requests : scan = NewScan(r)
    BY DEF Init
<1>2. edits = 0 /\ Untouched
    BY DEF Init, Whole, NoBaseline, Idle, Untouched
<1>3. /\ scan.at = "policy" /\ scan.fingerprints = {} /\ scan.risks = Contexts({})
      /\ scan.plan = 1 /\ scan.evaluated = {} /\ scan.decision = "none"
    BY <1>1 DEF NewScan
<1>4. Begun(scan) /\ Knows(scan, {})
    BY <1>3 DEF Begun, Knows, Fingerprints
<1>5. Faithful(scan, Repository)
    BY <1>3, <1>4 DEF Faithful, AtStage, Early, Scanning
<1>. QED  BY <1>2, <1>5 DEF Undisturbed

(***************************************************************************)
(* As long as nothing is edited, every read of a scan finds what a scan of *)
(* a single moment finds, and every stage holds what that scan holds.      *)
(***************************************************************************)
THEOREM UndisturbedInvariance == Spec => []Undisturbed
<1>1. Init => Undisturbed
    BY NewScanIsFaithful
<1>2. Verdict(scan) /\ Surroundings /\ Undisturbed /\ [Next]_vars => Undisturbed'
    BY UndisturbedStays
<1>. QED  BY <1>1, <1>2, VerdictInvariance, SurroundingsInvariance, PTL DEF Spec

(***************************************************************************)
(* A scan that nobody disturbs is one look at the repository               *)
(* (buildScanReport): what it decides, reports and attaches is what a scan *)
(* of a single moment would, and it refuses only what that scan refuses.   *)
(***************************************************************************)
THEOREM UndisturbedScans == Spec => []UndisturbedScanIsAtomic
<1>1. ASSUME Undisturbed PROVE UndisturbedScanIsAtomic
    <2>1. CASE edits = 0 /\ ~scan.late
        <3>1. AtStage(scan, Repository)
            BY <1>1, <2>1 DEF Undisturbed, Faithful
        <3>2. ASSUME Concluded
              PROVE  /\ scan.report.decision = AtomicDecision(Request, Repository)
                     /\ scan.evaluated = AtomicFindings(Request, Repository)
                     /\ scan.report.audit[1] = policy
                     /\ \A i \in DOMAIN Request.plans : scan.report.audit[2][i] = plans[Request.plans[i]]
                     /\ scan.report.audit[3] = {f.site : f \in {g \in Reported : "waiver" \in g.suppressions}}
            <4>1. Noting(scan, Repository, 4)
                BY <3>1, <3>2 DEF AtStage, Concluded, Done
            <4>2. /\ scan.report.decision = AtomicDecision(Request, Repository)
                  /\ scan.evaluated = AtomicFindings(Request, Repository)
                BY <4>1 DEF Noting, Reports, Request
            <4>3. /\ scan.report.audit[1] = policy
                  /\ scan.report.audit[2] = [i \in DOMAIN Request.plans |-> plans[Request.plans[i]]]
                  /\ scan.report.audit[3] = {f.site : f \in {g \in Reported : "waiver" \in g.suppressions}}
                BY <4>1 DEF Noting, Evidence, Repository, Request, WaivedIn, Reported
            <4>. QED  BY <4>2, <4>3
        <3>3. ASSUME Done, scan.exit \in {2, 3, 4}
              PROVE  HasCause(Request, Repository)
            BY <3>1, <3>3 DEF AtStage, Done, Request
        <3>. QED  BY <2>1, <3>2, <3>3 DEF UndisturbedScanIsAtomic, HasCause
    <2>2. CASE ~(edits = 0 /\ ~scan.late)
        BY <2>2 DEF UndisturbedScanIsAtomic
    <2>. QED  BY <2>1, <2>2
<1>. QED  BY <1>1, UndisturbedInvariance, PTL
=============================================================================
