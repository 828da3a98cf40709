--------------------------- MODULE MCScanPipeline ---------------------------
(***************************************************************************)
(* Sites 1 to 3 are native findings on three resources, the third seen only*)
(* with a cloud context; site 4 is what an external scanner says of a      *)
(* fourth resource, and site 5 what it says of the resource of site 2,     *)
(* which the native finding covers.                                        *)
(***************************************************************************)
EXTENDS ScanPipeline, TLC

MCSites == 1..5
MCKey == [s \in MCSites |-> s]
MCCategoryKey == <<1, 2, 3, 4, 2>>
MCEnvironment == [s \in MCSites |-> IF s \in {4, 5} THEN "" ELSE "default"]
MCCloudEvidence == {3}
MCScopes == {{1}, {1, 2}}
MCWaiverNumbers == 1..2

Risk(severity) ==
    [severity |-> severity, confidence |-> 4, sensitive |-> FALSE, touched |-> TRUE,
     experimental |-> FALSE]
MCRisks == {Risk(4), Risk(5)}

NoDecision == [blockOn |-> NoThreshold, warnOn |-> NoThreshold]
PlainPolicy ==
    [mode |-> "block", decision |-> NoDecision,
     environments |-> [e \in EnvironmentNames |-> NoDecision], branches |-> << >>,
     changedOnly |-> FALSE, newRiskOnly |-> FALSE, baselineFile |-> FALSE,
     requireExpiration |-> FALSE, inline |-> {},
     waiverFile |-> FALSE, maxWaiverDays |-> 0, failExpired |-> FALSE]
WaiverPolicy == [PlainPolicy EXCEPT !.waiverFile = TRUE]
StrictPolicy ==
    [WaiverPolicy EXCEPT !.failExpired = TRUE, !.maxWaiverDays = 1, !.baselineFile = TRUE, !.newRiskOnly = TRUE]
MCPolicies == {PlainPolicy, WaiverPolicy, StrictPolicy}

Plain ==
    [mode |-> "block", branch |-> "", baseline |-> FALSE, newOnly |-> FALSE,
     changedOnly |-> FALSE, cloudContext |-> FALSE,
     plans |-> <<"a">>, imports |-> {}, context |-> "none", timeout |-> FALSE,
     maxFindings |-> 0, bundle |-> FALSE]

Imported(s, severity, confidence, node) ==
    [file |-> 1, site |-> s, severity |-> severity, confidence |-> confidence, node |-> node, touched |-> node # "none"]

Later(import) == [import EXCEPT !.file = 2]

MCRequests ==
    {[Plain EXCEPT !.plans = <<"a", "b">>, !.timeout = TRUE, !.bundle = TRUE, !.maxFindings = 1],
     [Plain EXCEPT !.plans = <<"b", "a">>, !.baseline = TRUE, !.newOnly = TRUE],
     [Plain EXCEPT !.imports = {Imported(4, 5, 4, "none"), Imported(5, 0, 0, "plain")}, !.context = "file"],
     [Plain EXCEPT !.imports = {Imported(4, 0, 0, "material"), Later(Imported(4, 5, 4, "material"))},
                    !.newOnly = TRUE, !.context = "cache"],
     [Plain EXCEPT !.context = "missing"],
     [Plain EXCEPT !.baseline = TRUE, !.plans = <<"a", "b">>, !.imports = {Imported(4, 0, 0, "plain")}]}

Waived(scope, expires) == {[id |-> 1, scope |-> scope, created |-> 0, expires |-> expires]}
BaselineFor(s) ==
    [written |-> TRUE, expires |-> 0,
     entries |-> EntriesFromFindings({[FindingAt(s, Risk(4)) EXCEPT !.impact = "block"]})]

MCRepositories ==
    {repo \in [plans: {[a |-> << >>, b |-> << >>],
                       [a |-> 1 :> Risk(4), b |-> 2 :> Risk(4)],
                       [a |-> 1 :> Risk(4), b |-> (1 :> Risk(5)) @@ (3 :> Risk(4))],
                       [a |-> (1 :> Risk(4)) @@ (2 :> Risk(5)), b |-> 1 :> Risk(4)]},
               policy: MCPolicies,
               baseline: {NoBaseline, BaselineFor(1)},
               waivers: {{}, Waived({1, 2}, 0), Waived({1}, 1)}] :
        repo.policy.waiverFile \/ repo.waivers = {}}
=============================================================================
