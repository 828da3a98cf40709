-------------------------- MODULE GovernanceClaims --------------------------
(***************************************************************************)
(* What the documentation promises of the gate and the code does not keep; *)
(* the run of this module finds the counterexample.                        *)
(***************************************************************************)
EXTENDS Governance

ProtectedBy(e, f) == e.site = f.site

\* The threshold the documentation has a finding judged by.
MeetsBlock(f) == MeetsThreshold(f, ScanThreshold(policy, "blockOn", ""))

Relieved(f) == HasActiveWaiver(f) \/ plan[f.site].experimental

(***************************************************************************)
(* docs/baselines.md:37: "New or changed findings are evaluated normally   *)
(* and can still block."  A blocking finding that neither the baseline nor *)
(* a waiver knows blocks a --new-only scan.  (It is dropped as a duplicate *)
(* of a suppressed finding of the same rule and resource.)                 *)
(***************************************************************************)
NewFindingBlocks ==
    Gate(NewOnlyScan).decision \in {"allow", "warn"} =>
        \A f \in RawFindings(NewOnlyScan, Repository) :
            MeetsBlock(f) =>
                \/ Relieved(f)
                \/ \E e \in baseline.entries : ProtectedBy(e, f)
=============================================================================
