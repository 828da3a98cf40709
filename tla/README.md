# ChangeGate: specifications and proofs

ChangeGate reads a Terraform/OpenTofu plan, evaluates rules on the graph it
describes, and returns one deployment decision: `allow`, `warn`, `block`, or an
error. Around that decision it keeps files that excuse findings (waivers,
baselines, policies), takes snapshots of the live account, and publishes reviews
on pull requests. This directory holds TLA+ models of the program from the plan
to the decision and of the processes around it, the TLC configurations that
check them, and proofs checked by TLAPS. Paths below are relative to
`internal/`; `finding.go:562` stands for `model/finding.go`, line 562, where the
directory is clear.

## The system

| Component | State it keeps | Operations | Hard behaviour |
| --- | --- | --- | --- |
| Rule runner (`rules/runner.go`) | per call: jobs and results channels, a wait group, collected results | `Evaluate`: select, evaluate on one or several goroutines, merge | goroutines, cancellation between any two steps, panicking rules, results in any order |
| Policy decision (`model/finding.go`) | none; one call | `EvaluatePolicy`: context, suppression, deduplication, thresholds, mode | five rules that interact: what runs first decides who is blocked |
| Waivers (`waiver/waiver.go`, `cli/waiver.go`) | the waiver file | `add`, `prune`, `list`, `validate`, `report`; `Apply` in a scan | expiry at a day boundary seen by three functions; IDs after pruning; overlapping commands, writes cut short |
| Baselines (`baseline/baseline.go`, `cli/baseline.go`) | the baseline file | `create`, `diff`; contexts for a scan | taken over older baselines and waivers; entries outlive what they were taken under |
| Policy configuration (`policy/config.go`) | the policy file | `ModelConfig`, `Validate` | thresholds layered by default, file, environment and branch |
| Scan command (`cli/scan.go`) | none between scans | load policy, baseline, waivers and context; scan each plan; limit, audit, write | reads the same files several times; time-outs; partial output |
| Resource graph (`graph/graph.go`, `aws.go`, `config_refs.go`) | the graph of one plan | build, infer edges in a dozen steps, propagate environments; queries and bounded path searches | results that depend on Go's map order; caps on paths and depth |
| Context merge (`graph/context_merge.go`) | the merged graph | recognise live resources, merge, add, find conflicts | precedence of plan and live account; aliases that several nodes claim |
| Built-in rules (`rules/aws_*.go`), custom rules (`custompolicy/`) | none | predicates of a change and of the graph; YAML conditions; Rego with a time-out | rules that look at one path of many; fail-closed rules |
| Attack paths (`attackpath/`) | none | ways from the internet to data; IAM grants and escalations; deduplication; findings | certainty along a path; conditions, denials, grants pieced together |
| Cloud context (`cloudcontext/`) | a snapshot file | `Collect` over groups, regions and services; `EnrichFindings` | reads at different times of a changing account; denied reads; redaction |
| Scanner imports (`adapters/`) | none | parse, correlate, merge with native findings | superseding and raising across tools |
| Review publication (`review/github.go`, `gitlab.go`, `cli/review.go`) | the comment thread, kept by the service | list pages, create or update the sticky comment | concurrent CI jobs, lost answers, late writes, a thread that changes while it is listed |
| Risk tests, output, impact, compliance, remediation, diagrams, CI setup | none | rendering, comparison | none |

How they interact: `scan` loads the policy, then the baseline and waiver files
it names, and for every plan builds the graph, merges the snapshot into it, runs
the rule runner over built-in and custom rules, raises and lowers what they
found by the snapshot, adds attack paths and imports, applies waivers, and calls
`EvaluatePolicy`. `baseline create` runs the same scan and stores what it found;
the next scan reads it. `context aws` writes the snapshot. `review` runs a scan
or loads its report and writes to a pull request.

### What makes each part correct

- Rule runner: every selected rule counts exactly once, whatever the schedule;
  an incomplete answer is recognisable; it always returns.
- Decision, waivers, baselines, together: a blocking risk passes only for a
  reason that stands in a file; an excuse ends when the file says so; nothing
  gets laxer because time passed, somebody tidied up, or a snapshot was taken.
- Scan: alone it is one look at the repository; disturbed it opens no gate; its
  exit code tells its verdict.
- Waiver file: what was reported as added stays until it expires.
- Cloud context: nothing missing, mis-stated or contradictory without a
  diagnostic.
- Graph, rules, attack paths: what blocks is certain, what is certain blocks,
  and a live account adds to what the plan shows.
- Review: one comment per pull request that shows the latest review, and nobody
  else's words touched.

## Modules

| Module | Models |
| --- | --- |
| `RuleOperators` | rules, selection, verdicts, what a rule's outcome adds to a report, the merge |
| `RuleEvaluation` | the abstract promise of `Evaluate`: each rule decides once, in any order; a cancelled call may drop some |
| `RuleRunner` | the real thing: sequential loop or goroutines with two channels and a wait group |
| `RuleRunnerProofs` | the inductive invariant of `RuleRunner` and what follows from it; that it implements `RuleEvaluation`, and that its answer is a function of the rules' outcomes |
| `DecisionModel` | `EvaluatePolicy` as operators; risk contexts |
| `WaiverFile`, `BaselineFile` | waivers and baselines as operators on sets of records |
| `ScanGate` | one scan as a function of the policy, baseline, waivers, plan and day it reads |
| `Governance` | a repository whose plan, policy, waivers and baseline change over days; every scan of it |
| `GateProofs` | lemmas about a scan as a function: one finding's way through `EvaluatePolicy`, waivers and baselines |
| `GovernanceProofs` | what scans and files keep to, for any findings, policies, waivers and days |
| `GovernanceClaims` | a statement of the documentation that the code does not keep |
| `WaiverStore` | `waiver add` and `prune` as processes that load, truncate and write one file |
| `ScannerImports` | normalising, correlating and merging imported findings |
| `ScanPipeline` | one scan read by read, with edits, waiver commands, days and deadlines in between; composes `ScanGate`, `WaiverStore` and `ScannerImports` |
| `ScanPipelineProofs` | what a scan's answer is worth: its exit code, whole plans, imports, and that alone it is atomic |
| `DisturbedScanProofs` | what waiver commands never lose, for any number of them; that a scan disturbed by an edit is no laxer than one of some single moment |
| `CloudInventory` | what one read of each AWS service adds to an inventory |
| `ContextCollector` | a collection over regions and groups of a changing account, and the snapshot file |
| `ContextCollectorProofs` | what each read may add, and what a snapshot of a changing account is worth |
| `ResourceGraph` | nodes and inferred edges of a plan, environment propagation |
| `GraphQueries` | public entrypoints, reachability, paths, blast radius |
| `ContextMerge` | a snapshot folded into a graph, and the conflicts found |
| `AttackPaths`, `IAMPaths` | ways to what is sensitive; grants and escalations; what a gate makes of them |
| `BuiltInRules`, `CustomRules` | the AWS rules; YAML rules |
| `ContextEnrichment` | what a snapshot does to findings |
| `PlanAnalysis` | composes the last eight: `scanOnePlan` from the plan to its findings |
| `PlanAnalysisProofs` | that every graph is well formed, that a snapshot takes nothing from it, that certain paths are certain, certain grants granted and certain ways reported |
| `StickyReview` | the upsert of the review comment by concurrent jobs |
| `StickyReviewProofs` | that duplicates and stale reviews come from interference alone |
| `MC*` | instances for TLC |

Definitions whose comment begins with "Mutant:" are faulty variants of the
definition that follows; each shows that some property would notice the fault.

### The rule runner

`pc` is the caller's place in `Evaluate`; `pending` holds the selected rules it
has not handed out; `thread` and `job` are what each worker (and, in the
sequential case, the caller) is doing, and with which rule; `jobsOpen`,
`resultsOpen`, `results` and `waitGroup` are the two Go channels and the wait
group; `results` are in the order of the channel. The unbuffered `jobs` channel makes
handing out a job one step of sender and receiver together. A cancellation may
come between any two steps, and where Go's `select` finds both the context done
and a worker ready, the model takes either. A rule's body is its verdict:
findings, none, an error, or a panic (which `evaluateSafely` turns into an
error). Rules with `FailureFinding` (Rego) turn an error into a finding.

Fairness is weak fairness of every thread and of the caller: goroutines that can
run do run, and rule bodies return. It is not assumed that anybody cancels.

### Governance

The state is what a repository keeps: the findings its current plan raises, the
policy, the waiver and baseline files, and the day. Commands that write a file
are actions (`AddWaiver`, `PruneWaivers`, `CreateBaseline`); a developer changes
the plan and the policy; the day advances. A scan writes nothing, so it is not
an action but a state function, `Scan(opts, repo)`, which the properties ask in
every reachable state, with several combinations of flags. Every step of
`EvaluatePolicy` is in it, in the order of the code.

Waiver IDs are numbers. `nextID` writes them with `WVR-%03d`, as many digits as
the number has, but reads at most three back (`waiver.go:304`): `ReadID` is what
a number reads as, itself up to `MaxReadID` (999) and `CutID` (100) after that.
Only the number after `MaxReadID` is ever handed out, so only it is cut.

Findings are abstracted to a *site* (all that the fingerprint hashes) and to the
attributes that may change while the fingerprint stays: severity, confidence,
reaching sensitive data, touching a changed resource, experimental. Severities
and confidences are their ranks. Two sites may share a deduplication key.

Details left out because they change no decision: redaction, reason texts,
correlation of findings, `max_age_days` (it only warns). Policy overrides reach
`EvaluatePolicy` keyed by rule ID and are looked up by fingerprint there
(`finding.go:444`), so they never match; overrides act through the rules'
selection, that is, through the risk a site has. The waiver file is assumed to
exist when the policy names one, and a baseline is taken from one plan.

### The waiver file

`waiver add` and `prune` load the file, change it in memory, truncate it and
write it back (`os.WriteFile`); each is a step, commands may overlap, and any of
them may fail or be killed. Two writers after two truncations leave one file,
the other's tail behind it, or neither readable. `disturbed` is a history
variable: commands overlapped, or a write was cut short.

### The scan

`scan` is a record: where the process is, what it has read, the report so far.
Each read of a file is a step of its own, in the order of the code, and so is
every output: policy, baseline of the policy, validation of the waivers,
baseline of the flag, context, each plan with its waivers read anew, the
deadline, the limit of findings, the audit evidence (policy, plans and waivers
once more), the bundle and the report. In between the repository is edited, a
waiver command runs in steps, a baseline is rewritten, the day turns or the
deadline passes. `answers` is a history variable: what scans of a single moment
would have decided so far.

Truncation to `--max-findings` comes after the decision and loses no verdict;
the recount of the risk summary it causes is left out.

### The collector

`visits` are the groups still to be visited, IAM once and the others in every
region; the one of the least `Place` comes first, which is the order of the
code's loops: region by region as their names are sorted (`RegionNames`), then
group by group. `next` is the place of the service to be read among those of the
visit. One service is read per step (`Collected` in `CloudInventory` is what the
account answers at that moment); a visit's inventory is merged after its last
service or thrown away when one is refused. Reads of tags and policies may be
denied on their own. The account is the set of objects that live and of those
that are open; only kinds of which the collector learns this can be open
(`OpenableKinds`). `lasting`, `wasOpen` and `wasClosed` are history variables.
The file is truncated and then written, and the command may die in between.

Fairness is weak fairness of the collector's steps: each call has a deadline, so
it answers or fails. No property needs it; it keeps the specification honest.

A policy document is a sequence of statements; `PolicyShape` flattens it as
`parsePolicyDocument` does. A capability is traced to the service it stands for
(`Supplier`), so that one declared without a read (`DeclaredUnread`) is not taken
for one that was supplied. Snapshots without `--collect` hold the identity only
and are not modelled.

### Graph, rules and attack paths

A resource is its type, its tags, the identifiers it is known by, the attributes
that name others, a set of flags (what inference or a rule tests of one
attribute: "publicly accessible", "open to the world", "encrypted") and the
statements of its policy. Whether an attribute's text passes a test is so
abstracted; what follows from it is not. Every inference step (`InferAWS*`) is
an operator that yields edges with kind and confidence, and the steps are
applied in the code's order, because a later edge of the same key may only raise
the certainty of an earlier one.

`PlanAnalysis` runs them stage by stage: dependencies and references, inference,
the snapshot's merge, rules, enrichment, conflicts, attack paths, suppression.
What Go leaves open is left open: the order in which dependencies, references,
nodes and live resources are visited. Edges of the later inference steps are
taken in key order, and so are the dependencies of one resource; live resources
that share a name belong to one set. The path search's fallback to a grant's own
principal adds nothing and is left out.

What a snapshot names of a principal's policies (`observed_policy_actions`) goes
through the merge with the resource (`context_merge.go:335`), into a node of the
plan that has none yet or a node of its own, and from there into grants on every
resource (`iam.go:765`). The actions of the model are those after redaction, which
may have replaced one by a mark no pattern matches.

A custom rule has its selector and its condition in full (all, any, not,
comparisons, graph tests); `contains` is an `in` of the values that contain it,
the provider selector is left out, and a file that does not load refuses the
scan (`registryForPolicy`). A Rego module is a rule whose verdict the runner
takes; the language is not modelled.

### The sticky review

Every job lists the thread page by page and then updates the first comment with
the marker, or creates one. The service serialises requests and nothing more.
`Fail` stands for every way in which a job loses a request (an error status, the
30-second time-out, the CI system killing the job); the write of a failed job
stays `inFlight` and may still arrive. `NewestFirst` distinguishes the order in
which GitLab (newest first) and GitHub list a thread. `disturbed` is a history
variable: the jobs between whose start and whose write another write or a
deletion fell.

Fairness is weak fairness of reading on and of either hearing an answer or giving
up: the HTTP clients have a time-out of 30 seconds. Writes need not arrive.

## Runs

| Run | Question | Bounds |
| --- | --- | --- |
| `rule_pool` | Does the pool lose, repeat or reorder anything under cancellation, and does it implement `RuleEvaluation`? | three rules, two workers: more rules than workers, so workers take a second job; five selections; every assignment of verdicts |
| `governance` | Over every history of the files, who gets through the gate? | two production findings with one deduplication key; three risks (high severity of medium or high confidence, and reaching sensitive data); a policy with waivers and one that raises production to critical over a baseline; three waiver numbers of which the last is read back as the first (`MaxReadID = 2`, `CutID = 1` stand for 999 and 100), two baseline terms, two days and the day after: 166,624 states |
| `governance_context` | The same with environments, changed-resource scope, inline fingerprints, experimental rules, cloud evidence and strict waiver rules | two findings on two resources, four risks, two policies |
| `waiver_store` | What do overlapping and dying waiver commands lose? | three commands: one to add, one to overlap, one to find the damage; two findings, two days |
| `scan_pipeline` | Does a scan that reads its files one by one decide as if at once, and what can an edit in between do? | one or two plans in both orders, five sites, one edit of anything (a second edit could undo the first, which no single moment answers for), one waiver command, six command lines; a native and an imported finding that share a category, imports of one fingerprint from two files, environments on native findings only: 394,096 states |
| `context_collect` | What may a snapshot leave out or mis-state? | an object of each of the kinds the collectors read, two regions, five that change, one change and one denied read or time-out: each hazard needs one; seven command lines: 327,048 states |
| `plan_analysis` | Does what blocks rest on certain evidence, and does certain evidence block, with and without a snapshot? | a web application of twelve resources in two forms under 70 snapshots each and none, an account of fifteen in two forms under nine, 80 pairs of policy statements for a user or role with a Lambda function, four pairs of edges of actions seen, four sets of live principals whose policies name actions; four custom rules; every visiting order; four gates: 32,552 states |
| `sticky_github` | Do jobs, people and a lossy service duplicate or age the review? | two jobs, four comments, one per page |
| `new_blocks`, `iam_conditions`, `graph_deterministic`, `sticky_one_comment` | Does the code do what this line of the documentation says? Each ends in a counterexample | the smallest instance that shows it |

The bounds are small because the interesting cases are: a waiver expires one day
after the last; two findings suffice for one to displace the other; a third rule
waits while both workers are busy; a page of one comment is always full until
the last. The proofs remove the bounds for the runner, the
waiver file, the review, the collector and most of the gate.
`CHECK_DEADLOCK FALSE` stands where the system stops by design: all jobs or
commands have ended, the scan has exited, the snapshot is written.

What the passing runs show:

- `NoRiskPassesUnaccounted`: the full list of reasons for which a risk above the
  threshold is let through. It is the contract of the whole gate, and its last
  case is the one nobody would write down unasked: a severer finding that is not
  certain enough to block displaces a duplicate that would have blocked.
- `ExistingRiskIsNoWorse`, `LapsedWaiverIsEnforced`, `FreshBaselineAccepts`: a
  baseline excuses what was in it and no more, even after the waivers under
  which it was taken are gone, and even when it was taken while another baseline
  was suppressing findings.
- `TimeNeverRelaxes`, `PruningIsNeutral`, `WaiverIDsAreUnique`: the three
  day-boundary computations agree, and a pruned file behaves like the old one.
  No two records share an ID; the ID handed out is free but for one file, that
  with WVR-999 and WVR-1000.
- `WorsenedRiskIsReported`: the gate and the report of the same scan agree.
- `UndisturbedScanIsAtomic`, `DisturbedScanIsNoLaxer`: the step-by-step scan
  answers as `ScanGate` does when nobody interferes, and otherwise no laxer than
  some moment's scan, with two races named in `raced`: a baseline that both
  policy and flag name is read twice and its versions united; and a waiver added
  after validation is applied though it is overlong.
- `ExitTellsTheVerdict`, `VerdictIsOfWholePlans`, `ImportsOnlyAdd`: no exit code
  without its report, no verdict from part of the rules, no import that excuses.
- `ReportedWaiversStay`, `DamageIsNotCoveredUp`: overlapping and being cut short
  are the only two ways to lose a waiver.
- `NoSilentGaps`, `NoSilentExposure`, `SensitivityOutlivesRedaction`,
  `SnapshotWasTrue`, `PublicRouteMarksSubnet`: what a scan may rely on in a
  snapshot. The last holds because subnets are read before route tables.
  `NoSilentGaps` has two parts: no resource is missing untold, and no capability
  goes unwarned that no region's visit has read, except `network` and `cloudfront`.
- `BlockedPathsAreCertain`, `CertainWaysAreBlocked`, `CertainGrantsAreGranted`:
  certainty in both directions, for ways and for grants. A grant is certain by a
  policy of the plan, without condition or denial, or by the actions a snapshot
  names, of which neither is known.
- `ContextOnlyAdds`: the snapshot takes no node, edge or certainty from the plan,
  and of a node no type, reference, policy, flag or environment. It does replace
  the value of a tag (`context_merge.go:280`), with it the name a tag gives, and
  the kind of a node (`:292`), each of which the property traces to what the
  snapshot says.
- `ContextNeverSilences`: with the exceptions the property names, a snapshot
  silences nothing.

### Disagreements found

Runs that end in a counterexample:

1. `new_blocks`: a suppressed existing finding displaces a new one of the same
   rule and resource; `--new-only` allows.
2. `sticky_one_comment`: two overlapping jobs both create a comment.
3. `iam_conditions`: `inferInlinePolicyAccess` (`aws.go:576`) ignores conditions,
   so a role that may be assumed under a condition only is an edge of high
   confidence, and the path blocks. The conditional grant itself is found too,
   with medium confidence, and dropped as already seen.
4. `graph_deterministic`: `propagateEnvironment` gives a resource between two
   environments the one whose edge comes first, and the first edges come out of
   a Go map.

Further disagreements with the documentation, met while modelling and not kept
as runs:

- `--mode` overwrites the policy file's mode with its default (`scan.go:631`,
  `README.md:197`).
- Critical/medium displaces high/high, and the scan warns where it would have
  blocked (`finding.go:562`, `docs/decision-model.md:32`).
- A decision that got stricter is not seen by `--new-only` (`finding.go:839`,
  `docs/baselines.md:39`); a finding that has not moved may be reported as
  worsened (`baseline.go:149`, `docs/baselines.md:58`).
- An environment's `block_on` raises findings but never replaces the
  repository's threshold (`finding.go:850`, `docs/config-schema.md:128`).
- The edge group declares `network` and `cloudfront` in every region, though it
  reads no VPC, and distributions in us-east-1 only (`aws_collector.go:273`): a
  snapshot of another region does not report `cloudfront` as missing, which
  `docs/cloud-context.md:104` promises. Policy capabilities are overwritten by the
  region read last (`aws_collector.go:304`), so one denied region may be warned
  of, or not, by the order of regions; its diagnostic is there in both cases.
- Actions that an account's policies deny, or allow under a condition or to one
  resource, become grants of high confidence on every resource (`iam.go:765`);
  `docs/attack-paths.md:37` and `:115` say that conditions and denials reduce
  confidence. `CertainGrantsAreGranted` has this case as its second.
- Live tags replace those of the plan, and a live resource that is sensitive or
  public has its node classified anew (`context_merge.go:280`, `:292`), where
  `docs/cloud-context.md:57` says that plan evidence remains authoritative.
  `ContextOnlyAdds` says which attributes this is true of.
- `nextID` reads WVR-1000 as WVR-100 (`waiver.go:308`). While the file holds
  WVR-999 as well, WVR-1000 is handed out again; `Validate` finds the duplicate, so
  the file never holds it twice, but every `waiver add` is refused
  (`cli/waiver.go:89`) until one of the two is pruned.
- `--tag` drops resources
  whose tags are never read (`docs/cloud-context.md:92`); denied tag reads leave
  no diagnostic.
- `--max-findings` recounts the risk summary (`scan.go:393`,
  `docs/performance.md:14`).

Observations, in the models but against no document:

- A live resource that is public makes its plan node a public entrypoint
  (`context_merge.go:292`): a data store of the plan stops being sensitive, and a
  path that blocked becomes a warning about a workload.
- Rules about paths test one shortest path (`aws_helpers.go:58`); a shorter,
  less certain one hides a longer certain one.
- The edge from the internet that a path begins with is the first by key
  (`public_to_sensitive.go:197`): an uncertain one of the snapshot before a
  certain one of the plan turns a block into a warning.
- A denial in another policy of the same principal is not considered, and
  PassRole and the mutation that exploits it may stand in two policies unseen.
- `parsePolicyDocument` counts the actions of a denial as granted, and takes a
  denial that names everyone or everything for an open policy (`ReadsAsOpen`).
- Open egress counts as public ingress (`aws_helpers.go:413`); an expected-public
  downgrade makes a later upgrade a no-op; conflicts raise a finding once per
  matching diagnostic (`scan.go:720`).
- A workload open to the internet through its security group alone is no public
  entrypoint (`graph.go:477`).
- A YAML rule's `not_equals` matches a missing field.
- A cancelled runner returns no failure finding for a fail-closed rule that
  never ran; the scan's own test of the context (`scan.go:170`) catches it.
- A worsened existing finding returns from `applyContext` before its environment
  raises it, so it can be judged more leniently than in a full scan.

## Proofs

`RuleRunnerProofs` proves, for any finite registry, selection and number of
workers, that `RuleRunner` satisfies `TypeOK`, `EachRuleOnce`,
`NoSendOnClosedChannel`, `PublishNeverBlocks` and `IncompleteOnlyIfCancelled`.
None of them is inductive. The invariant says where a selected rule can be:
among the unsent, in the hands of exactly one thread, in the channel, or merged;
that the four places are disjoint and, unless the context was cancelled, cover
the selection; and what each value of `pc` says about threads that still run.
`NoSendOnClosedChannel` follows because the channel is closed only when no
thread is left; `PublishNeverBlocks` because the channel holds distinct
rules and its capacity is the number of rules.

Its second part proves the refinement, `Spec => ImplementsRuleEvaluation`.
A rule counts as decided once its result is in the channel or merged, and as
dropped once nobody can publish it any more: when the sender stops with rules
left. Each action of the runner is a step of the promise or none; the two that
matter are `Publish` (the rule is decided, once and for good) and `Merge`. What
`Merge` returns must be what the sequential loop would: a Result is the results
sorted by rule, and a sequence of distinct rules has only one such order, since
of a finite set of numbers there is exactly one of every rank (`OneOfEveryRank`,
`MergeForgetsTheOrder`). `Deterministic` follows. Beyond the invariant it takes
that a published outcome is the rule's own or an admission of cancellation
(`Honest`) and that the jobs are closed before anybody waits.

`GateProofs` follows one finding through a scan, which is a function of the
files: raised (`RawFinding`), waived (`Arrived`), scoped, compared with its
entry and raised to its environment (`Applied`), outranked or kept
(`FirstOfKey`), counted and reported (`ReportedFinding`), one at most for a
fingerprint (`ReportedIsUnique`). Deduplication keeps a finding of every key
because a nonempty set of numbers has a least (`SmallestOf`): the order is by
ranks, compared lexicographically, so no induction over the findings is needed.

`GovernanceProofs` proves, for any sites, risks, policies and number of days,
`TypeOK` and all eight invariants of the run. The inductive invariant is about
the files alone. `baseline create` writes one entry per fingerprint, which the
invariant keeps (`OneEntryPerSite`) and without which "its entry" would not be a
single one. For `NextID` it carries that every part of the waiver numbers has a
greatest (`NumbersAreBounded`); pruning may leave any part. The number after the
greatest that is read back is free, whatever part that is, unless a number was cut
in reading; then the greatest read back is `MaxReadID`, or the number is free
after all, since it is no more than `MaxReadID`. That is `WaiverIDsAreUnique`.
Then, in each
property, one finding is followed:

- `NoRiskPassesUnaccounted`: take the finding deduplication keeps of its key. It
  was let through, so it is suppressed, and every suppression is an excuse
  (`SuppressedIsExcused`), or it is below the threshold, and then it outranks
  what it displaced (`FirstOutranks`).
- `TimeNeverRelaxes`: a day later every finding is where it was or has lost a
  waiver; what has lost one may leave the place where deduplication and
  environment put it, but only downwards (`JudgedNoHigher`), so what was kept and
  enforced still is (`EnforcedStays`).
- `WorsenedRiskIsReported`: the gate compares raised findings, the diff reported
  ones; the summary between them changes the impact alone (`WorsenedAsReported`).
- `FreshBaselineAccepts`: the scan that takes the baseline and the scan that
  reads it meet the same findings, kept by the same order (`KeptIsAccepted`).

`ScanPipelineProofs` proves four properties of the scan as a process, for any
repositories, command lines, plans per scan, edits and waiver commands.

- `ExitTellsTheVerdict` and `VerdictIsOfWholePlans` from one inductive invariant,
  `Verdict`: until the scan is done it has no exit code; a scan
  that lost a finding to its deadline is late, which the one test of the context
  turns into a failure; so what comes after that test has a decision of whole
  plans, and its exit code is chosen from it.
- `ImportsOnlyAdd` needs no process but its surroundings (`Surroundings`:
  whatever is edited stays a repository that a scan can read). Merging with
  fewer imports is merging and taking away what they had added (`MergeSplits`);
  a finding added to a plan never lowers its decision, because what it displaces
  it outranks (`DecisionsGrow`), and one below the blocking severity that no
  environment raises cannot block (`BelowTheThreshold`).
- `UndisturbedScanIsAtomic` from `Undisturbed`: as long as nothing was edited,
  no other command has touched a file, and `AtStage` says for every place of the
  scan which of the values `ScanGate` computes from the repository it already
  holds: the policy; the baseline of the policy, then united with that of the
  flag; the strongest decision of the plans evaluated so far; the evidence noted
  so far. Each step is matched with one part of `AtomicDecision`, and a failure
  has its cause in the repository or the command line (`HasCause`).

`DisturbedScanProofs` proves `DisturbedScanIsNoLaxer`, for the same constants and
one edit of anything at any moment. The property compares with the scans of
past moments, so its invariant, `NoLaxer`, names one: while the scan reads there
is a repository of some moment so far, the *witness*, such that what was read is
the witness's, and what is still to be read is the witness's or makes for a
stricter decision (`Witness`); `answers` holds the decision of the witness.
Before any edit the witness is the repository itself.

- A step of the scan keeps the witness (`Following`, `Onward`), makes the
  repository as it is the new one, or ends no laxer than the witness would. Each
  of the eight reads is a lemma.
- An edit keeps the old repository as the witness when the scan has read what
  was edited, and makes the new repository the witness when it has not. Between
  the two lies a scan of several plans that has read some of them, and the
  waivers, which are read once to be validated and again for every plan.
- Waivers: `Effective` is all a scan sees of them; whoever has fewer of them
  decides no laxer (`EnforcedWithFewer`, `ImpactsDecide`). An addition and a
  prune, whole or cut short, leave at each step a file with the witness's
  waivers, with more, or one that cannot be read, which fails the scan. The ID
  handed out is above those of the file (`NextIDIsAbove`), so a cut leaves the
  old waivers before the new one.
- A later day takes waivers away (`WaivesNoMore`), or fails the scan on what
  has expired.

The same module proves of the waiver file `StoreTypeOK`, `ReportedWaiversStay` and
`DamageIsNotCoveredUp` for any number of commands, findings and days. The first
property is not inductive: while a command runs, what was reported may be in its
memory only. `NothingLost` says so: a running command holds every reported,
unexpired waiver, and so does the file unless it has just been truncated. With
`OneAtATime` a truncated file has one writer, and it writes all.

`ContextCollectorProofs` proves `TypeOK` of `ContextCollector` and all five
properties of its run, for any account, regions, command lines, changes and
faults. It goes from one read to the whole collection:

- One read. `Grows` says what a read may add: the objects it lists, each with a
  publicity that was true at that moment (`Publicity`) and a sensitivity that
  follows from the tags it read (`Inferred`), and relationships of which none
  starts at the internet unless what it enters is open (`Plain`). There is a
  lemma for each of the 26 services; `Reading` collects them, with the one read
  that also changes earlier records, the marking of subnets. `Listed` names what
  each service lists, and lists more when more exists (`ListedGrows`).
- Everything collected is `Sound`: each record and relationship agrees with the
  history, which only grows (`SoundForever`), and subnets of public tables are
  public. A read, a merge, redaction and the tag filter keep it so.
- For `PublicRouteMarksSubnet` a merge must not replace a marked subnet, nor a
  second read of a table forget it. `Separated` says why it cannot: the network of a region is
  in the snapshot only after its visit, in the inventory only during it, and
  tables are read sixth, after the subnets.
- For `NoSilentGaps`, `Reported` follows what lasts from the inventory to the
  snapshot, or to the diagnostic of the visit, and `Supplied` the capabilities to
  the visits that set them, each of which has read what it stands for or is the
  edge's.
- `SnapshotWasTrue` and `NoSilentExposure` are then read off the snapshot, and
  `Loaded` carries the rest to the file a scan loads, redacted once more.

`ObjectsAssumption` is what AWS guarantees of an account: no ID is `internet`,
and a route table is associated with subnets of its own region.

`PlanAnalysisProofs` proves `ContextOnlyAdds` for any plan, any snapshot and
whichever node the index of aliases visits first. The invariant, `GraphsInv`,
says what a graph is: complete nodes under known IDs, and edges between IDs, of
one of the eighteen types, with a source and a confidence. Every inference step
is shown to yield such edges (`StepsAreEdges`, a lemma for each); then every step
of the merge, a live resource (`MergeResourceHolds`) or a relationship
(`MergeRelationshipHolds`), leaves a graph that `Holds` the one before it. What a
node `Keeps` is of two steps what it is of each (`KeepsOn`), since both look to
the same snapshot for what they replace; `MergedNodeKeeps` shows it of one. The
confidence of an edge that both know is the stronger one
(`StrongestConfidence`). The merge is a loop, which the model has as a recursive
function; that there is a function with its equation, and what holds of all its
values, is shown by the least number for which it fails. `IsPlan` and
`IsSnapshot` say of the input only that it speaks of known IDs and has one of the
three confidences `contextConfidence` makes of a text.

The same module proves `BlockedPathsAreCertain`, for any graph the plan and the
snapshot make, any depth, cap, catalog and thresholds:

- Both searches yield walks (`SimplePathsAreWalks`, `ShortestWalksAreWalks`), the
  steps of a walk follow the edges of the graph (`StepsOfWalk`), and the edge from
  the internet that is put before them leads to where they begin
  (`StepsWithIngress`).
- A path whose confidence is that of its steps is `SoundPath` (`PathByItsSteps`),
  and so is one whose steps are granted actions (`GrantPathIsOne`): a lemma for
  each way of `FromEntrypoint` and for each detector of `iam.go`.
- `Normalize` chooses, of the paths of one meaning, one that no other surpasses.
  That there is one is the heart of `NormalizeKeepsSome`: without it the choice
  could be anything. Merits are four numbers, the last of which grows with the
  path, so the lengths of paths are shown to be bounded (`Lengths`), by the depth,
  the nodes and the longest entry of the catalog, which is finite.
- `PathsInv` then follows the findings through the scan: no rule, and nothing the
  snapshot does to what the rules found, gives a finding a path; the graph changes
  no more once there are paths; and what is set aside keeps its path.

- `CertainGrantsAreGranted` follows the same way, a finding's path carrying one
  more fact (`GrantedIfCertain`). What a grant says of an action on a node is
  `GrantSays`: a scope of it allows it, none denies it. Every detector asks no
  more of a path than its grant says of each step the principal takes
  (`GrantPathsAreGranted`, a lemma for each form of path); and what a certain
  grant says, the policy it comes from says plainly (`SaidByPolicy`), because a
  condition or an excluded action makes a grant less than certain, or the actions
  name that the snapshot tells together (`SaidBySight`).

- `CertainWaysAreBlocked` is the other direction: what is there is found. A graph
  has finitely many edges (`FiniteEdges`), so a search of bounded depth finds
  finitely many ways (`FiniteWays`), and where they are no more than the walk
  visits and keeps, all of them are kept: none is found before itself, because
  its key is a sequence of numbers (`NotBeforeItself`, `SensitiveWaysAreKept`).
  A certain way from a certain entry makes a certain path, which is critical
  (`CertainStepsAreCertain`, `CertainIsCritical`). It may be dropped twice for
  another of the same meaning, but only for one as certain, confidence being the
  first of the merits (`NormalizeKeepsCertain`), and never for an escalation,
  whose type is another (`TypeOfEscalations`). `WaysInv` follows the finding to
  the end: nothing sets it aside that touches what the plan manages.

`StickyReviewProofs` proves, for any number of jobs and comments, any page size
and both listing orders, that `StickyReview` satisfies `TypeOK`,
`DuplicatesNeedInterference`, `LatestReviewShows` and `PeopleKeepTheirWords`.
The heart of the invariant is `NothingOverlooked`: an undisturbed job that has
found no sticky comment has none behind it, because people's comments carry no
marker and inserting one moves nothing back to where the job has read already.
So an undisturbed job creates only in a thread without a sticky comment, and a
disturbed one creates once: `DuplicatesAreSpent` counts the disturbed jobs whose
window is over, and they never get another. `UpToDate` adds the order in which
jobs start: whoever is still reading after an undisturbed write started later.

Assumptions are the named `ASSUME`s of the modules: finite sets, positive sizes,
and those named above. `WaiverStore`, and with it the scan as a process, has waiver
numbers up to `MaxReadID` only (`StoreAssumption`): records are written in the order
of their IDs as text (`waiver.go:324`), which is that of the numbers as long as they
have the three digits `nextID` pads them to. `Governance` has no such bound.

Where a definition chooses the least of something the proofs use that the
natural numbers are well-founded, in place of an induction.

What attempts at a proof showed, each then confirmed by TLC on an instance that
shows the case:

- `FreshBaselineAccepts` is false without its exception, and
  `NoRiskPassesUnaccounted` needed a case of its own, for the same reason:
  `applyContext` returns a worsened risk before raising it to its environment
  (`finding.go:839`), so it may lose to a duplicate that it beats in any other
  scan. `docs/baselines.md:39` says worsened findings are not suppressed; they
  are not, but they may be displaced. The `governance` run has the policy that
  shows it (`RaisingPolicy`).
- `ImportsOnlyAdd` first spoke of each unresolved import by itself. Several
  imports may share a fingerprint, and the one `Merge` retains need not be the
  one that resolves; and a policy that blocks from `high` still blocks on an
  unresolved import if the environment such findings fall under is held to a
  threshold that raises them. Both are now in the property.
- The retained one of imports with a fingerprint is the first of the input, file
  by file and sorted within each (`ComesBefore`); the model of imports as a set is
  faithful only if no two of one file tie, which `Ranked` now says of the command
  lines.
- `UndisturbedScanIsAtomic` rests on rules and scanners raising findings of
  different keys: the key contains the rule ID, and `normalizeImported` gives
  imports one that begins with `EXT_`. `PipelineAssumption` states it.

- `SnapshotWasTrue` excused what is read from a policy that seems open to
  everyone, and forgot policies that only name `iam:*`: `collectS3` and
  `collectKMS` take those for public too (`shape.admin` in `ReadsAsOpen`). No
  bucket of the instance had such a policy.
- `DisturbedScanIsNoLaxer` was false when the policy and the flag name one
  baseline and `requireExpiration`: a stale baseline that is rewritten between
  the two reads has new contexts for old fingerprints, and the second read is
  not held to its expiration. `raced` now names that race too (`Stale`).
- A write cut short was modelled as leaving any part of the records. The file is
  written in the order of IDs, so it leaves a beginning (`Beginnings`); with any
  part, a scan could meet the new waiver without the old ones. Bytes that end
  inside the last record may still decode, to a waiver without its last fields;
  that case is not modelled.
- `CertainGrantsAreGranted` was false in two cases no policy of the instance had.
  It took a denial of everything but a resource (`NotResource`) for a denial of
  that resource, and it asked of the mutation that uses a passed role an
  allowance on every resource, where the code, which knows no function to be
  created, is content with an allowance on some (`grantAllows`). Property and
  instance now have both.
- `CertainWaysAreBlocked` did not say that the walk visits no more than so many
  ways, that the thresholds must tell of certain paths and the rule not be
  disabled, nor that the internet must come in for certain: `withPublicIngress`
  puts the first edge from the internet before a path, by key, and a snapshot may
  have added one of medium confidence that comes before the plan's. The instance
  now has such a snapshot.
- An object of a kind whose openness the collector never asks for cannot be
  reported as open; `Expose` had opened those as well. `NoSilentExposure` now
  speaks of the kinds it can be true of.

Only model-checked:

- `ContextNeverSilences`: it compares two scans, and the exceptions it names are
  those of the rules and plans of the instance; a proof would have to say of every
  rule which of its tests more evidence can turn.
- `Terminates` and `JobsEnd`: liveness under fairness is out of the prover's
  reach, and so are statements by induction over data.

Two hazards of `PROJECT.json` are in the models and bounded by a property rather
than excluded: ways beyond `MaxPaths` are lost (`CertainWaysAreBlocked` speaks of
those within), and an edit during a scan may leave evidence of two moments (only
the decision is compared).

No run checks `TypeOK` of `Governance` or of `ContextCollector`; both are proved.

## Not modelled

Parsing, rendering and report enrichment (impact, compliance, remediation,
diagrams, review text) are pure and left to the unit tests, as are risk tests,
the tests of a single attribute's text inside a rule or an inference, the Rego
language, and the paging within one AWS read; the component list in
`PROJECT.json` says so part by part.

## Plan

1. Done: rule runner, decision with waivers and baselines, sticky review; scan
   pipeline, waiver file, imports, collector; graph, merge, rules, attack paths.
2. Done: the invariants of `Governance`, the refinement of `RuleEvaluation`,
   the scan's exit code, whole plans, imports and atomicity; the collector.
3. Done: `DisturbedScanIsNoLaxer`, the invariant of one edit.
4. Done: `ContextOnlyAdds` of the merged graph, `BlockedPathsAreCertain`,
   `CertainGrantsAreGranted` and `CertainWaysAreBlocked` of what is found in it.
