---------------------------- MODULE MCGovernance ----------------------------
(***************************************************************************)
(* Instances of Governance for TLC.  Sites 1 and 2 are two findings of one *)
(* rule on one production resource, told apart by their evidence; site 3   *)
(* is the same rule on another resource.                                   *)
(***************************************************************************)
EXTENDS Governance

MCSites == 1..2
MCDeduplicationKey == [s \in MCSites |-> 1]
MCRenameKey == [s \in MCSites |-> 1]
MCEnvironment == [s \in MCSites |-> "production"]
MCCloudEvidence == {}

Risk(severity, confidence, sensitive) ==
    [severity |-> severity, confidence |-> confidence, sensitive |-> sensitive,
     touched |-> TRUE, experimental |-> FALSE]

MCRisks == {Risk(4, 3, FALSE), Risk(4, 4, FALSE), Risk(4, 4, TRUE)}

NoDecision == [blockOn |-> NoThreshold, warnOn |-> NoThreshold]
BlockOn(severity) ==
    [NoDecision EXCEPT !.blockOn = [severity |-> severity, confidence |-> 0]]
EveryEnvironment(thresholds) == [e \in EnvironmentNames |-> thresholds]
OnlyEnvironment(name, thresholds) ==
    [e \in EnvironmentNames |-> IF e = name THEN thresholds ELSE NoDecision]

DefaultPolicy ==
    [mode |-> "block", decision |-> NoDecision,
     environments |-> EveryEnvironment(NoDecision), branches |-> << >>,
     changedOnly |-> FALSE, newRiskOnly |-> FALSE, baselineFile |-> FALSE,
     requireExpiration |-> FALSE, inline |-> {},
     waiverFile |-> FALSE, maxWaiverDays |-> 0, failExpired |-> FALSE]

WaiverPolicy == [DefaultPolicy EXCEPT !.waiverFile = TRUE]
StrictWaiverPolicy == [WaiverPolicy EXCEPT !.failExpired = TRUE, !.maxWaiverDays = 1]
BaselinePolicy ==
    [WaiverPolicy EXCEPT !.baselineFile = TRUE, !.newRiskOnly = TRUE, !.requireExpiration = TRUE]

\* Findings in production are raised above what rules give them.
RaisingPolicy == [BaselinePolicy EXCEPT !.environments = OnlyEnvironment("production", BlockOn(5))]

MCPolicies == {WaiverPolicy, RaisingPolicy}
MCScopes == {{1}}
\* Three numbers, of which the third reads back as the first.
MCWaiverNumbers == 1..3
MCBaselineTerms == {0, 1}

-----------------------------------------------------------------------------
(***************************************************************************)
(* The second instance: policies that scope thresholds by environment and  *)
(* by changed resources and hold waivers to strict rules, risks outside the*)
(* change and of experimental rules; and site 2 is the same rule on another*)
(* resource, seen only with a cloud context snapshot.                      *)
(***************************************************************************)
ContextCloudEvidence == {2}
ContextDeduplicationKey == [s \in MCSites |-> s]

ContextRisks ==
    {Risk(3, 4, FALSE), Risk(5, 3, TRUE),
     [Risk(4, 4, FALSE) EXCEPT !.touched = FALSE],
     [Risk(4, 4, FALSE) EXCEPT !.experimental = TRUE]}

\* Findings in production are raised to high; everywhere, high blocks at any confidence.
EnvironmentPolicy ==
    [StrictWaiverPolicy EXCEPT
        !.decision = [NoDecision EXCEPT !.blockOn = [severity |-> 4, confidence |-> 3]],
        !.environments = OnlyEnvironment("production", BlockOn(4))]

ChangedOnlyPolicy ==
    [BaselinePolicy EXCEPT !.changedOnly = TRUE, !.inline = {1},
                           !.environments = OnlyEnvironment("*", BlockOn(3))]

ContextPolicies == {EnvironmentPolicy, ChangedOnlyPolicy}
ContextScopes == {{1, 2}}
ContextWaiverNumbers == 1..3
=============================================================================
