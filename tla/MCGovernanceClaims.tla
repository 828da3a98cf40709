------------------------- MODULE MCGovernanceClaims -------------------------
(***************************************************************************)
(* A small instance for GovernanceClaims.  Sites 1 and 2 are two findings  *)
(* of one rule on one production resource.                                 *)
(***************************************************************************)
EXTENDS GovernanceClaims

MCSites == 1..2
MCDeduplicationKey == [s \in MCSites |-> 1]
MCRenameKey == [s \in MCSites |-> 1]
MCEnvironment == [s \in MCSites |-> "production"]
MCCloudEvidence == {}

HighRisk ==
    [severity |-> 4, confidence |-> 4, sensitive |-> FALSE,
     touched |-> TRUE, experimental |-> FALSE]

NoDecision == [blockOn |-> NoThreshold, warnOn |-> NoThreshold]

DefaultPolicy ==
    [mode |-> "block", decision |-> NoDecision,
     environments |-> [e \in EnvironmentNames |-> NoDecision], branches |-> << >>,
     changedOnly |-> FALSE, newRiskOnly |-> FALSE, baselineFile |-> FALSE,
     requireExpiration |-> FALSE, inline |-> {},
     waiverFile |-> FALSE, maxWaiverDays |-> 0, failExpired |-> FALSE]

Defaults == {DefaultPolicy}
OneRisk == {HighRisk}

NoScopes == {}
NoTerms == {0}
=============================================================================
