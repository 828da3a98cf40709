----------------------------- MODULE Governance -----------------------------
(***************************************************************************)
(* The governance lifecycle of a repository that uses ChangeGate: its plan *)
(* and policy change, waivers are added, expire and are pruned, and a      *)
(* baseline is taken now and again.  A scan reads all of these and decides;*)
(* it changes none of them, so it is a state function, asked for in every  *)
(* reachable state.                                                        *)
(*                                                                         *)
(* src/internal/cli/{scan,baseline,waiver}.go and policy/config.go.        *)
(***************************************************************************)
EXTENDS ScanGate

CONSTANTS
    Risks,         \* what a rule may raise at a site
    Policies,      \* the policy files the repository may have
    BaselineTerms  \* the values of --expires-in-days; 0 when it is not given

ASSUME GovernanceAssumption ==
    /\ Risks \subseteq RiskAttributes
    /\ \A p \in Policies : IsPolicy(p)
    /\ BaselineTerms \subseteq Nat

VARIABLES
    plan,      \* the findings rules raise on the current plan: site -> risk
    policy,    \* the policy file
    waivers,   \* the records of the waiver file
    baseline,  \* the baseline file
    now        \* the day

vars == <<plan, policy, waivers, baseline, now>>

\* A scan reads the repository as it is, and nothing else.
Repository ==
    [plan |-> plan, policy |-> policy, waivers |-> waivers, baseline |-> baseline, now |-> now]

-----------------------------------------------------------------------------
Init ==
    /\ plan = << >>
    /\ policy \in Policies
    /\ waivers = {}
    /\ baseline = NoBaseline
    /\ now = 0

\* The infrastructure code changes: a rule now raises risk at s, or nothing.
Develop(s, risk) ==
    /\ plan' = [x \in DOMAIN plan \union {s} |-> IF x = s THEN risk ELSE plan[x]]
    /\ UNCHANGED <<policy, waivers, baseline, now>>

Resolve(s) ==
    /\ s \in DOMAIN plan
    /\ plan' = [x \in DOMAIN plan \ {s} |-> plan[x]]
    /\ UNCHANGED <<policy, waivers, baseline, now>>

ChangePolicy(p) ==
    /\ policy' = p
    /\ UNCHANGED <<plan, waivers, baseline, now>>

\* changegate waiver add, for as long as it hands out WaiverNumbers.
AddWaiver(scope, expires) ==
    LET id == NextID(waivers)
        record == [id |-> id, scope |-> scope, created |-> now, expires |-> expires]
        next == waivers \union {record}
    IN  /\ id \in WaiverNumbers
        /\ record \notin waivers /\ ValidWaivers(next, 0)
        /\ waivers' = next
        /\ UNCHANGED <<plan, policy, baseline, now>>

\* changegate waiver prune.
PruneWaivers ==
    /\ waivers' = PruneExpired(waivers, now)
    /\ UNCHANGED <<plan, policy, baseline, now>>

\* changegate baseline create --expires-in-days term.
CreateBaseline(term) ==
    /\ ~Refused(PlainScan, Repository)
    /\ baseline' = BaselineOf(Repository, term)
    /\ UNCHANGED <<plan, policy, waivers, now>>

Tick ==
    /\ now < LastDay
    /\ now' = now + 1
    /\ UNCHANGED <<plan, policy, waivers, baseline>>

Next ==
    \/ \E s \in Sites, risk \in Risks : Develop(s, risk)
    \/ \E s \in Sites : Resolve(s)
    \/ \E p \in Policies : ChangePolicy(p)
    \/ \E scope \in Scopes, expires \in Days : AddWaiver(scope, expires)
    \/ PruneWaivers
    \/ \E term \in BaselineTerms : CreateBaseline(term)
    \/ Tick

Spec == Init /\ [][Next]_vars

-----------------------------------------------------------------------------
(***************************************************************************)
(* Properties.                                                             *)
(***************************************************************************)
Scans ==
    {PlainScan, BaselineScan, NewOnlyScan,
     [PlainScan EXCEPT !.changedOnly = TRUE],
     [NewOnlyScan EXCEPT !.cloudContext = TRUE]}

Gate(opts) == Scan(opts, Repository)

\* Every variable has its type, and a scan always reaches a decision.
TypeOK ==
    /\ DOMAIN plan \subseteq Sites
    /\ \A s \in DOMAIN plan : plan[s] \in Risks
    /\ policy \in Policies
    /\ waivers \subseteq Waiver
    /\ baseline.written \in BOOLEAN
    /\ baseline.expires \in Nat
    /\ baseline.entries \subseteq Entry
    /\ now \in Days
    /\ \A opts \in Scans : Gate(opts).decision \in Decisions \ {"none"}

(***************************************************************************)
(* No ID is ever shared by two records of the waiver file, whatever was    *)
(* added and pruned in between, and `waiver add` is not refused for a      *)
(* duplicate ID either.  The exception is the file that holds both the     *)
(* last number that reads back whole and the one after it, WVR-999 and     *)
(* WVR-1000: NextID reads the latter as WVR-100, hands WVR-1000 out again, *)
(* and every addition is refused until one of the two is pruned.           *)
(***************************************************************************)
WaiverIDsAreUnique ==
    /\ \A v, w \in waivers : v.id = w.id => v = w
    /\ NextID(waivers) \in {w.id : w \in waivers} =>
          /\ NextID(waivers) = MaxReadID + 1
          /\ MaxReadID \in {w.id : w \in waivers}

\* Every reason ChangeGate has for not enforcing a finding, in terms of the files.
HasActiveWaiver(f) ==
    policy.waiverFile /\ \E w \in waivers : f.site \in w.scope /\ now <= w.expires

RecordedRisk(f, opts) ==
    LET entries == {e \in LoadedEntries(opts, Repository) : e.site = f.site}
    IN  \/ f.site \in policy.inline /\ entries = {}
        \/ \E e \in entries :
                /\ f.severity <= e.context.severity
                /\ f.sensitive => e.context.sensitive

Excused(f, opts) ==
    \/ plan[f.site].experimental
    \/ HasActiveWaiver(f)
    \/ (policy.changedOnly \/ opts.changedOnly) /\ ~f.touched
    \/ (policy.newRiskOnly \/ opts.newOnly) /\ RecordedRisk(f, opts)

(***************************************************************************)
(* A risk that meets the blocking threshold passes the gate in block mode  *)
(* only if it, or a finding it duplicates, is excused by something a       *)
(* reviewer can point at: an unexpired waiver, a baseline entry at least as*)
(* bad, the changed-resource scope or an experimental rule; or if it       *)
(* duplicates a severer finding that is not certain enough to block        *)
(* (EvaluatePolicy, waiver.Apply and applyContext taken together).  For a  *)
(* worsened risk it is enough that the environment makes the other severer.*)
(***************************************************************************)
NoRiskPassesUnaccounted ==
    \A opts \in Scans :
        LET findings == RawFindings(opts, Repository)
            config == PolicyConfig(opts, Repository)
            Outranks(g, f) ==
                /\ ~MeetsThreshold(g, config.blockOn)
                /\ \/ g.severity > f.severity
                   \/ /\ Worsened(f, config)
                      /\ UpgradeForEnvironment(g, config).severity > f.severity
        IN  Gate(opts).decision \in {"allow", "warn"} =>
                \A f \in findings :
                    MeetsThreshold(f, config.blockOn) =>
                        \E g \in findings :
                            SameKey(f, g) /\ (Excused(g, opts) \/ Outranks(g, f))

(***************************************************************************)
(* A finding suppressed as existing risk is, on the plan as it is now, no  *)
(* worse than the baseline file says: neither severer, nor newly of high   *)
(* confidence, nor newly reaching sensitive data (applyContext compares    *)
(* with the entry before environment thresholds and deduplication act).    *)
(***************************************************************************)
ExistingRiskIsNoWorse ==
    \A opts \in Scans : \A f \in Gate(opts).findings :
        "existing_risk" \in f.suppressions =>
            \A e \in LoadedEntries(opts, Repository) :
                e.site = f.site =>
                    /\ plan[f.site].severity <= e.context.severity
                    /\ plan[f.site].confidence = HighConfidence
                        => e.context.confidence = HighConfidence
                    /\ plan[f.site].sensitive => e.context.sensitive

(***************************************************************************)
(* A baseline does not outlive the waiver it was taken under: when a       *)
(* finding was recorded as waived and its waivers have since expired, been *)
(* pruned or dropped out of the policy, the baseline no longer suppresses  *)
(* it (RiskContextWorsened's ActiveWaiver clause).                         *)
(***************************************************************************)
LapsedWaiverIsEnforced ==
    \A opts \in Scans : \A f \in Gate(opts).findings :
        (/\ "existing_risk" \in f.suppressions
         /\ \E e \in LoadedEntries(opts, Repository) : e.site = f.site /\ e.context.waived)
            => HasActiveWaiver(f)

(***************************************************************************)
(* The gate and the baseline report agree on what has worsened: a reported *)
(* finding whose fingerprint the baseline holds, and which new-risk-only   *)
(* still enforces, is listed under existing_worsened by the diff of the    *)
(* same scan (attachAuditEvidence).                                        *)
(***************************************************************************)
BaselineDiff(opts) == Diff(baseline.entries, Gate(opts).findings)

WorsenedRiskIsReported ==
    \A f \in Gate(NewOnlyScan).findings :
        (f.site \in Fingerprints(baseline.entries) /\ "existing_risk" \notin f.suppressions) =>
            \E c \in BaselineDiff(NewOnlyScan).existingWorsened : c.site = f.site

(***************************************************************************)
(* Pruning only tidies up: unless the scan is refused, `waiver prune` would*)
(* leave its decision and every finding as they are (PruneExpired, Matches *)
(* and Validate draw the line between active and expired at one instant).  *)
(***************************************************************************)
PruningIsNeutral ==
    LET pruned == [Repository EXCEPT !.waivers = PruneExpired(waivers, now)]
    IN  \A opts \in Scans :
            ~Refused(opts, Repository) => Scan(opts, pruned) = Gate(opts)

(***************************************************************************)
(* Time alone never relaxes the gate: as the days pass with the files      *)
(* untouched, no scan's decision moves towards allow (a refusal ranks as   *)
(* the strictest answer).                                                  *)
(***************************************************************************)
TimeNeverRelaxes ==
    \A opts \in Scans, days \in 1..(LastDay + 1) :
        DecisionRank(Gate(opts).decision)
            <= DecisionRank(Scan(opts, [Repository EXCEPT !.now = @ + days]).decision)

(***************************************************************************)
(* A fresh baseline accepts what it was taken of: were `baseline create` to*)
(* run now, a --new-only scan of the same plan under the same policy would *)
(* not be blocked by it, whichever baseline, waivers and suppressions are  *)
(* in force while it is taken.  The exception is a worsened risk that its  *)
(* environment would raise: held as it is, it can lose to a duplicate that *)
(* it beats once the new baseline no longer knows it.                      *)
(***************************************************************************)
FreshBaselineAccepts ==
    LET config == PolicyConfig(PlainScan, Repository)
        arrived == Reviewed(RawFindings(PlainScan, Repository), Repository)
        HeldBack(f) == Worsened(f, config) /\ UpgradeForEnvironment(f, config) # f
    IN  \A term \in BaselineTerms :
            ~Refused(PlainScan, Repository) /\ (\A f \in arrived : ~HeldBack(f)) =>
                Scan(NewOnlyScan, [Repository EXCEPT !.baseline = BaselineOf(Repository, term)]).decision
                    # "block"
=============================================================================
