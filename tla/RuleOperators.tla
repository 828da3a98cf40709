---------------------------- MODULE RuleOperators ----------------------------
(***************************************************************************)
(* The data of rule evaluation (src/internal/rules/runner.go): which rules *)
(* a Selection picks, what evaluateOne makes of a rule, and how the        *)
(* results are merged.  A rule is its position in ID order; a finding is   *)
(* the rule that raised it and whether it is a risk or a failure to        *)
(* evaluate.                                                               *)
(***************************************************************************)
EXTENDS Naturals, SequencesExt

CONSTANTS
    Rules,         \* the registered rules, numbered in ID order
    Deprecated,    \* the rules whose metadata has StatusDeprecated
    Experimental,  \* the rules whose metadata has StatusExperimental
    FailClosed,    \* the rules implementing FailureFindingRule with enforce = TRUE
    Selections     \* the Selection arguments the caller may pass

ASSUME RulesAssumption ==
    /\ Rules \subseteq Nat
    /\ IsFiniteSet(Rules)
    /\ Deprecated \subseteq Rules
    /\ Experimental \subseteq Rules
    /\ FailClosed \subseteq Rules
    /\ Selections \subseteq [enabled: SUBSET Rules, disabled: SUBSET Rules]

(***************************************************************************)
(* What Rule.Evaluate does under a live context: no finding, a finding, or *)
(* an error (evaluateSafely turns a panic into one).                       *)
(***************************************************************************)
Verdicts == {"clean", "risky", "error"}

(***************************************************************************)
(* What evaluateOne makes of a rule: its verdict, or "cancelled" when the  *)
(* context is done before the rule starts.                                 *)
(***************************************************************************)
Outcomes == Verdicts \union {"cancelled"}

(***************************************************************************)
(* A rule that runs under a cancelled context may notice it and fail.      *)
(***************************************************************************)
EvaluateSafely(v, context) == {v} \union IF context = "done" THEN {"error"} ELSE {}

(***************************************************************************)
(* selectedRules: a disabled rule never runs, a non-empty enable list is   *)
(* exclusive, and a deprecated rule has to be enabled by name.             *)
(***************************************************************************)
SelectedRules(sel) ==
    {r \in Rules \ sel.disabled :
        /\ sel.enabled # {} => r \in sel.enabled
        /\ r \in Deprecated => r \in sel.enabled}

(***************************************************************************)
(* The findings of one ruleResult.  A failed rule has a finding only when  *)
(* it fails closed; an experimental rule's findings are born suppressed    *)
(* (applyMetadataDefaults).                                                *)
(***************************************************************************)
FindingsOf(res) ==
    LET finding(kind) ==
            [rule |-> res.rule, kind |-> kind, suppressed |-> res.rule \in Experimental]
    IN  CASE res.outcome = "risky" -> {finding("risk")}
          [] res.outcome = "error" /\ res.rule \in FailClosed -> {finding("failure")}
          [] OTHER -> {}

(***************************************************************************)
(* The diagnostics of one ruleResult: a sequence of at most one element.   *)
(***************************************************************************)
DiagnosticsOf(res) ==
    LET diagnostic(code, severity) == [rule |-> res.rule, code |-> code, severity |-> severity]
    IN  CASE res.outcome = "cancelled" ->
                <<diagnostic("RULE_EVALUATION_CANCELLED", "warning")>>
          [] res.outcome = "error" ->
                <<diagnostic("RULE_EVALUATION_FAILED",
                             IF res.rule \in FailClosed THEN "error" ELSE "warning")>>
          [] OTHER -> <<>>

\* A bug to catch: the results are concatenated in the order they arrived.
MergeUnsorted(results) ==
    [findings    |-> UNION {FindingsOf(results[i]) : i \in DOMAIN results},
     diagnostics |-> FlattenSeq([i \in DOMAIN results |-> DiagnosticsOf(results[i])])]

(***************************************************************************)
(* The results in rule order; of equal ones the first comes first.         *)
(***************************************************************************)
InRuleOrder(results) ==
    LET UpTo(j) == {k \in DOMAIN results :
                       \/ results[k].rule < results[j].rule
                       \/ results[k].rule = results[j].rule /\ k <= j}
    IN  [i \in DOMAIN results |->
            results[CHOOSE j \in DOMAIN results : Cardinality(UpTo(j)) = i]]

(***************************************************************************)
(* mergeRuleResults: order the results by rule, then concatenate.  The     *)
(* findings are sorted once more by their own fields, so only the set of   *)
(* them is kept; the order of the diagnostics is the order of the results. *)
(***************************************************************************)
MergeRuleResults(results) ==
    LET sorted == InRuleOrder(results)
    IN  [findings    |-> UNION {FindingsOf(results[i]) : i \in DOMAIN results},
         diagnostics |-> FlattenSeq([i \in DOMAIN sorted |-> DiagnosticsOf(sorted[i])])]

(***************************************************************************)
(* The Result for the rules S and their outcomes o, independently of any   *)
(* schedule: what evaluateSequential computes.                             *)
(***************************************************************************)
ReportFor(S, o) ==
    MergeRuleResults([i \in 1..Cardinality(S) |->
        LET r == CHOOSE r \in S : Cardinality({q \in S : q <= r}) = i
        IN  [rule |-> r, outcome |-> o[r]]])

\* The zero Result.
NoReport == [findings |-> {}, diagnostics |-> <<>>]
=============================================================================
