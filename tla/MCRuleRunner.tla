---------------------------- MODULE MCRuleRunner ----------------------------
(***************************************************************************)
(* Instances of RuleRunner for TLC: three rules, of which the last fails   *)
(* closed, and the selections worth telling apart.                         *)
(***************************************************************************)
EXTENDS RuleRunner

MCRules == 1..3
MCFailClosed == {3}
MCDeprecated == {2}
MCExperimental == {1}

Everything == [enabled |-> MCRules, disabled |-> {}]

\* All rules by name; the defaults; one rule alone; a disabled rule; none.
MCSelections ==
    {Everything,
     [enabled |-> {}, disabled |-> {}],
     [enabled |-> {3}, disabled |-> {}],
     [enabled |-> {1, 2, 3}, disabled |-> {1}],
     [enabled |-> {1}, disabled |-> {1}]}

=============================================================================
