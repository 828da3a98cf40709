--------------------------- MODULE RuleEvaluation ---------------------------
(***************************************************************************)
(* What one call of Runner.Evaluate promises its caller, with the worker   *)
(* pool abstracted away (src/internal/rules/runner.go).                    *)
(*                                                                         *)
(* Every selected rule is given one outcome, once, in any order.  As long  *)
(* as the context is live that outcome is the rule's own verdict; after    *)
(* cancellation a rule may also fail, be reported as cancelled, or be      *)
(* dropped without a trace.  The report is a function of the outcomes      *)
(* alone: the order in which the rules were decided is not observable.     *)
(***************************************************************************)
EXTENDS RuleOperators

VARIABLES
    selection,  \* the Selection argument
    verdict,    \* what each rule does when it is left to finish
    ctx,        \* "live" or "done"
    decided,    \* the outcome of each rule, "pending" until it has one
    report,     \* the Result returned
    returned    \* whether Evaluate has returned

vars == <<selection, verdict, ctx, decided, report, returned>>

Selected == SelectedRules(selection)

Init ==
    /\ selection \in Selections
    /\ verdict \in [Rules -> Verdicts]
    /\ ctx = "live"
    /\ decided = [r \in Rules |-> "pending"]
    /\ report = NoReport
    /\ returned = FALSE

\* The deadline of the scan passes.
Cancel ==
    /\ ctx = "live"
    /\ ctx' = "done"
    /\ UNCHANGED <<selection, verdict, decided, report, returned>>

\* A rule is decided: by its own verdict, or as cancellation lets it.
Decide(r) ==
    /\ r \in Selected
    /\ decided[r] = "pending"
    /\ \E o \in Outcomes :
          /\ o # verdict[r] => ctx = "done" /\ o \in {"error", "cancelled"}
          /\ decided' = [decided EXCEPT ![r] = o]
    /\ UNCHANGED <<selection, verdict, ctx, report, returned>>

\* After cancellation any set of undecided rules may be skipped.
Drop ==
    /\ ctx = "done"
    /\ \E S \in SUBSET Selected :
          /\ \A r \in S : decided[r] = "pending"
          /\ decided' = [r \in Rules |-> IF r \in S THEN "dropped" ELSE decided[r]]
    /\ UNCHANGED <<selection, verdict, ctx, report, returned>>

\* Evaluate returns once no selected rule is undecided.
Return ==
    /\ ~returned
    /\ \A r \in Selected : decided[r] # "pending"
    /\ report' = ReportFor({r \in Selected : decided[r] # "dropped"}, decided)
    /\ returned' = TRUE
    /\ UNCHANGED <<selection, verdict, ctx, decided>>

Next ==
    \/ Cancel
    \/ \E r \in Rules : Decide(r)
    \/ Drop
    \/ Return

Spec == Init /\ [][Next]_vars
=============================================================================
