------------------------------- MODULE ScanGate -------------------------------
(***************************************************************************)
(* One scan as a function of what it reads: the policy, the baseline, the  *)
(* waivers, the plan and the day (src/internal/cli/{scan,baseline}.go and  *)
(* policy/config.go).                                                      *)
(***************************************************************************)
EXTENDS WaiverFile, BaselineFile, Sequences

(***************************************************************************)
(* A policy file.  A threshold of 0, a limit of 0 or an empty set is a key *)
(* that is not given; the file's environments and branches map a name to   *)
(* the thresholds scoped to it.                                            *)
(***************************************************************************)
IsPolicy(p) ==
    /\ p.mode \in {"block", "warn", "audit"}
    /\ p.decision \in Thresholds
    /\ p.environments \in [EnvironmentNames -> Thresholds]
    /\ p.branches \in [DOMAIN p.branches -> Thresholds]
    /\ p.inline \subseteq Sites                     \* baseline.fingerprints
    /\ p.maxWaiverDays \in Nat
    /\ {p.changedOnly, p.newRiskOnly, p.baselineFile, p.requireExpiration,
        p.waiverFile, p.failExpired} \subseteq BOOLEAN

NoBaseline == [written |-> FALSE, expires |-> 0, entries |-> {}]

-----------------------------------------------------------------------------
(***************************************************************************)
(* repo is a record [plan, policy, waivers, baseline, now].  opts are the  *)
(* command's flags: mode, branch, baseline (--baseline names the file),    *)
(* newOnly, changedOnly and cloudContext.                                  *)
(***************************************************************************)
DefaultThresholds ==
    [blockOn |-> [severity |-> HighSeverity, confidence |-> HighConfidence],
     warnOn  |-> [severity |-> MediumSeverity, confidence |-> MediumConfidence]]

\* ModelConfig is asked for environment "default"; normalizePolicyConfig adds "*".
ThresholdLayers(p, branch) ==
    <<DefaultThresholds, p.decision, p.environments["default"], p.environments["*"]>>
    \o IF branch \in DOMAIN p.branches THEN <<p.branches[branch]>> ELSE << >>

ScanThreshold(p, side, branch) ==
    LET layers == ThresholdLayers(p, branch)
    IN  MergeThreshold([i \in DOMAIN layers |-> layers[i][side]])

LoadedEntries(opts, repo) ==
    IF repo.policy.baselineFile \/ opts.baseline THEN repo.baseline.entries ELSE {}

\* scanOnePlan takes the mode from the flag, never from the policy file.
ConfigMode(opts, p) == opts.mode

\* The policy as the gate sees it, with the baseline entries that were loaded.
ConfigWith(opts, p, fingerprints, risks) ==
    [mode         |-> ConfigMode(opts, p),
     blockOn      |-> ScanThreshold(p, "blockOn", opts.branch),
     warnOn       |-> ScanThreshold(p, "warnOn", opts.branch),
     environments |-> p.environments,
     changedOnly  |-> p.changedOnly \/ opts.changedOnly,
     newRiskOnly  |-> p.newRiskOnly \/ opts.newOnly,
     existing     |-> p.inline \union fingerprints,
     risks        |-> risks]

PolicyConfig(opts, repo) ==
    LET entries == LoadedEntries(opts, repo)
    IN  ConfigWith(opts, repo.policy, Fingerprints(entries), Contexts(entries))

\* Mutant: the baseline's expiry is tested the wrong way round.
RefusedWhileFresh(opts, repo) ==
    \/ (repo.policy.baselineFile \/ opts.baseline) /\ ~repo.baseline.written
    \/ /\ repo.policy.baselineFile /\ repo.policy.requireExpiration
       /\ repo.now < repo.baseline.expires

(***************************************************************************)
(* loadPolicyForScan, enforceBaselinePolicy and applyBaselineOptions refuse*)
(* to scan at all.                                                         *)
(***************************************************************************)
Refused(opts, repo) ==
    LET p == repo.policy
    IN  \/ opts.newOnly /\ ~opts.baseline
        \/ (p.baselineFile \/ opts.baseline) /\ ~repo.baseline.written
        \/ /\ p.baselineFile /\ p.requireExpiration
           /\ repo.baseline.expires = 0 \/ ~(repo.now < repo.baseline.expires)
        \/ p.waiverFile /\ ~ValidWaivers(repo.waivers, p.maxWaiverDays)
        \/ /\ p.waiverFile /\ p.failExpired
           /\ \E w \in repo.waivers : Expired(w, repo.now)

\* A finding with cloud context evidence needs a scan with a snapshot.
RawFindings(opts, repo) ==
    {FindingAt(s, repo.plan[s]) :
        s \in IF opts.cloudContext THEN DOMAIN repo.plan ELSE DOMAIN repo.plan \ CloudEvidence}

Reviewed(findings, repo) ==
    IF repo.policy.waiverFile THEN ApplyWaivers(repo.waivers, findings, repo.now) ELSE findings

\* What a scan whose rules and imports raised these findings decides.
Judge(opts, repo, findings) ==
    IF Refused(opts, repo) THEN [decision |-> "error", findings |-> {}]
    ELSE EvaluatePolicy(Reviewed(findings, repo), PolicyConfig(opts, repo))

Scan(opts, repo) == Judge(opts, repo, RawFindings(opts, repo))

\* reportForBaseline: a scan of the plan alone.
PlainScan ==
    [mode |-> "block", branch |-> "", baseline |-> FALSE, newOnly |-> FALSE,
     changedOnly |-> FALSE, cloudContext |-> FALSE]

BaselineScan == [PlainScan EXCEPT !.baseline = TRUE]
NewOnlyScan == [BaselineScan EXCEPT !.newOnly = TRUE]

\* The file `changegate baseline create --expires-in-days term` writes.
BaselineOf(repo, term) ==
    [written |-> TRUE,
     expires |-> IF term = 0 THEN 0 ELSE repo.now + term,
     entries |-> EntriesFromFindings(Scan(PlainScan, repo).findings)]
=============================================================================
