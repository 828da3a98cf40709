---------------------------- MODULE DecisionModel ----------------------------
(***************************************************************************)
(* The policy decision (src/internal/model/finding.go): how findings, with *)
(* the suppressions they arrive with, become one deployment decision.      *)
(*                                                                         *)
(* A finding is abstracted to the site it was raised at, which stands for  *)
(* everything its fingerprint hashes (rule, resource, environment, evidence*)
(* types and paths), and to the attributes that may change while the       *)
(* fingerprint does not.  Sites are numbered in the order in which         *)
(* SortFindings breaks ties (category, resource, rule, fingerprint).       *)
(***************************************************************************)
EXTENDS Naturals, FiniteSets

CONSTANTS
    Sites,             \* the fingerprints findings may have, in sort order
    DeduplicationKey,  \* site -> rule, resource, provider, category, environment
    RenameKey,         \* site -> what baseline.renameKey takes from a fingerprint
    Environment,       \* site -> Finding.Environment
    CloudEvidence      \* the sites whose evidence is of type cloud_context

EnvironmentNames == {Environment[s] : s \in Sites} \union {"default", "*"}

ASSUME DecisionAssumption ==
    /\ Sites \subseteq Nat
    /\ IsFiniteSet(Sites)
    /\ DOMAIN DeduplicationKey = Sites
    /\ DOMAIN RenameKey = Sites
    /\ DOMAIN Environment = Sites
    /\ \A s, t \in Sites :   \* the key names the environment
          DeduplicationKey[s] = DeduplicationKey[t] => Environment[s] = Environment[t]
    /\ CloudEvidence \subseteq Sites

(***************************************************************************)
(* Severities and confidences are their ranks; 0 is the empty string.      *)
(***************************************************************************)
Severities == 1..5     \* info, low, medium, high, critical
Confidences == 1..4    \* unknown, low, medium, high

MediumSeverity == 3
HighSeverity == 4
MediumConfidence == 3
HighConfidence == 4

Threshold == [severity: 0..5, confidence: 0..4]
NoThreshold == [severity |-> 0, confidence |-> 0]
Thresholds == [blockOn: Threshold, warnOn: Threshold]

Decisions == {"none", "allow", "warn", "block", "error"}

DecisionRank(decision) ==
    CASE decision = "error" -> 4
      [] decision = "block" -> 3
      [] decision = "warn"  -> 2
      [] decision = "allow" -> 1
      [] OTHER              -> 0

SuppressionKinds == {"experimental", "waiver", "changed_resource_only", "existing_risk"}

(***************************************************************************)
(* What a rule raises at a site: the attributes a plan can change without  *)
(* changing the fingerprint.                                               *)
(***************************************************************************)
RiskAttributes ==
    [severity: Severities, confidence: Confidences,
     sensitive: BOOLEAN,  \* graph evidence reaches sensitive data
     touched: BOOLEAN,    \* findingTouchesChangedResource
     experimental: BOOLEAN]

Finding ==
    [site: Sites, severity: Severities, confidence: Confidences,
     sensitive: BOOLEAN, touched: BOOLEAN,
     suppressions: SUBSET SuppressionKinds,
     impact: Decisions]  \* decisionImpact of its reason codes

FindingAt(s, risk) ==
    [site |-> s, severity |-> risk.severity, confidence |-> risk.confidence,
     sensitive |-> risk.sensitive, touched |-> risk.touched,
     suppressions |-> IF risk.experimental THEN {"experimental"} ELSE {},
     impact |-> "allow"]

Suppressed(f) == f.suppressions # {}

Suppress(f, kind) == [f EXCEPT !.suppressions = @ \union {kind}]

MeetsThreshold(f, threshold) ==
    /\ f.severity >= threshold.severity
    /\ f.confidence >= threshold.confidence

(***************************************************************************)
(* mergeThreshold, applied to layers of thresholds in order: a later layer *)
(* replaces what it gives and keeps what it does not.                      *)
(***************************************************************************)
MergeThreshold(layers) ==
    LET lastGiven(field) ==
            LET given == {i \in DOMAIN layers : layers[i][field] # 0}
            IN  layers[CHOOSE i \in given : \A j \in given : j <= i][field]
    IN  [severity |-> lastGiven("severity"), confidence |-> lastGiven("confidence")]

-----------------------------------------------------------------------------
(***************************************************************************)
(* Risk contexts: what a baseline entry remembers of a finding and what    *)
(* the gate compares it with.                                              *)
(***************************************************************************)
RiskContext ==
    [severity: Severities, confidence: Confidences, decision: Decisions,
     sensitive: BOOLEAN, cloud: BOOLEAN, waived: BOOLEAN, suppressed: BOOLEAN]

RiskContextFromFinding(f) ==
    [severity |-> f.severity, confidence |-> f.confidence, decision |-> f.impact,
     sensitive |-> f.sensitive, cloud |-> f.site \in CloudEvidence,
     waived |-> "waiver" \in f.suppressions, suppressed |-> Suppressed(f)]

\* Mutant: losing a waiver or reaching sensitive data is not movement.
WorsenedBySeverityOnly(current, baseline) ==
    current.severity > baseline.severity

RiskContextWorsened(current, baseline) ==
    \/ current.severity > baseline.severity
    \/ current.confidence = HighConfidence /\ baseline.confidence # HighConfidence
    \/ /\ baseline.decision # "none"
       /\ DecisionRank(current.decision) > DecisionRank(baseline.decision)
    \/ current.sensitive /\ ~baseline.sensitive
    \/ current.cloud /\ ~baseline.cloud
    \/ baseline.waived /\ ~current.waived
    \/ /\ baseline.suppressed /\ ~current.suppressed
       /\ DecisionRank(current.decision) > DecisionRank("allow")

RiskContextImproved(current, baseline) ==
    /\ ~RiskContextWorsened(current, baseline)
    /\ \/ current.severity < baseline.severity
       \/ current.confidence < baseline.confidence
       \/ /\ baseline.decision # "none"
          /\ DecisionRank(current.decision) < DecisionRank(baseline.decision)
       \/ ~current.sensitive /\ baseline.sensitive
       \/ ~current.cloud /\ baseline.cloud
       \/ ~baseline.waived /\ current.waived

-----------------------------------------------------------------------------
(***************************************************************************)
(* A PolicyConfig as EvaluatePolicy receives it:                           *)
(*   mode, blockOn, warnOn, environments (name -> Thresholds),             *)
(*   changedOnly, newRiskOnly, existing (the sites whose fingerprint is in *)
(*   ExistingFingerprints) and risks (site -> RiskContext, ExistingRisks). *)
(***************************************************************************)
UpgradeForEnvironment(f, config) ==
    LET scoped == config.environments[Environment[f.site]].blockOn
        AtLeast(value, minimum) == IF value < minimum THEN minimum ELSE value
    IN  [f EXCEPT !.severity = AtLeast(@, scoped.severity),
                  !.confidence = AtLeast(@, scoped.confidence)]

\* Mutant: the arguments of RiskContextWorsened swapped.
ExistingWorsenedSwapped(f, config) ==
    /\ f.site \in DOMAIN config.risks
    /\ RiskContextWorsened(config.risks[f.site], RiskContextFromFinding(f))

ExistingWorsened(f, config) ==
    /\ f.site \in DOMAIN config.risks
    /\ RiskContextWorsened(RiskContextFromFinding(f), config.risks[f.site])

\* Existing risk that has worsened: it is held as it is, whatever its environment asks for.
Worsened(f, config) ==
    config.newRiskOnly /\ f.site \in config.existing /\ ExistingWorsened(f, config)

\* Mutant: changed-resource-only suppresses what the plan does touch.
ApplyContextToChanges(finding, config) ==
    IF config.changedOnly THEN Suppress(finding, "changed_resource_only")
    ELSE UpgradeForEnvironment(finding, config)

(***************************************************************************)
(* applyContext.  A worsened existing risk returns early: it is neither    *)
(* suppressed nor raised to the threshold of its environment.              *)
(***************************************************************************)
ApplyContext(finding, config) ==
    LET f == IF config.changedOnly /\ ~finding.touched
                THEN Suppress(finding, "changed_resource_only") ELSE finding
        existing == config.newRiskOnly /\ f.site \in config.existing
    IN  CASE existing /\ ExistingWorsened(f, config) -> f
          [] existing /\ ~ExistingWorsened(f, config) ->
                UpgradeForEnvironment(Suppress(f, "existing_risk"), config)
          [] OTHER -> UpgradeForEnvironment(f, config)

(***************************************************************************)
(* DeduplicateFindings keeps, of the findings with one key, the first in   *)
(* SortFindings order.  Suppressions are not compared.                     *)
(***************************************************************************)
SortsBefore(f, g) ==
    \/ f.severity > g.severity
    \/ f.severity = g.severity /\ f.confidence > g.confidence
    \/ f.severity = g.severity /\ f.confidence = g.confidence /\ f.site < g.site

SameKey(f, g) == DeduplicationKey[f.site] = DeduplicationKey[g.site]

DeduplicateFindings(findings) ==
    {f \in findings :
        \A g \in findings \ {f} : SameKey(f, g) => SortsBefore(f, g)}

\* BuildRiskSummary: which side of the thresholds a finding counts on.
WithImpact(f, config) ==
    IF Suppressed(f) THEN f
    ELSE [f EXCEPT !.impact =
            CASE MeetsThreshold(f, config.blockOn) -> "block"
              [] ~MeetsThreshold(f, config.blockOn) /\ MeetsThreshold(f, config.warnOn) -> "warn"
              [] OTHER -> @]

DecisionFor(findings, mode) ==
    LET impacts == {f.impact : f \in findings}
    IN  CASE "block" \in impacts -> IF mode = "block" THEN "block" ELSE "warn"
          [] "block" \notin impacts /\ "warn" \in impacts -> "warn"
          [] OTHER -> "allow"

EvaluatePolicy(findings, config) ==
    LET normalized == DeduplicateFindings({ApplyContext(f, config) : f \in findings})
        judged == {WithImpact(f, config) : f \in normalized}
    IN  [decision |-> DecisionFor(judged, config.mode), findings |-> judged]
=============================================================================
