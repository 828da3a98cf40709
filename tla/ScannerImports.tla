--------------------------- MODULE ScannerImports ---------------------------
(***************************************************************************)
(* Findings of other scanners (src/internal/adapters/adapters.go): how they*)
(* are normalised, correlated with the resource graph and merged with the  *)
(* native findings of the same plan.                                       *)
(*                                                                         *)
(* An imported finding keeps its site apart from every native one (its rule*)
(* ID starts with EXT_).  What the graph knows of the resource it names is *)
(* its node: "none" when no alias matches, "plain", or "material" when the *)
(* node is exposed to the internet or has access to sensitive data.        *)
(***************************************************************************)
EXTENDS DecisionModel

CONSTANT CategoryKey  \* site -> canonical resource and risk category

ASSUME ImportAssumption == DOMAIN CategoryKey = Sites

Nodes == {"none", "plain", "material"}
Import ==
    [file: Nat,         \* the position of its --import flag
     site: Sites, severity: 0..5, confidence: 0..4, node: Nodes,
     touched: BOOLEAN]  \* the node is a resource the plan changes

\* normalizeImported: what the scanner does not say is medium.
NormalizeImported(i) ==
    [i EXCEPT !.severity = IF @ = 0 THEN MediumSeverity ELSE @,
              !.confidence = IF @ = 0 THEN MediumConfidence ELSE @]

Downgrade(i) ==
    [i EXCEPT !.severity = IF @ >= HighSeverity THEN MediumSeverity ELSE @,
              !.confidence = IF @ = HighConfidence THEN MediumConfidence ELSE @]

Upgrade(i) ==
    [i EXCEPT !.severity = IF @ = MediumSeverity THEN HighSeverity ELSE @,
              !.confidence = IF @ = MediumConfidence THEN HighConfidence ELSE @]

\* Mutant: a finding of an unknown resource is taken at the scanner's word.
CorrelateTrustingly(i) == IF i.node = "material" THEN Upgrade(i) ELSE i

CorrelateImported(i) ==
    CASE i.node = "none"     -> Downgrade(i)
      [] i.node = "material" -> Upgrade(i)
      [] OTHER               -> i

ImportedFinding(i) ==
    [site |-> i.site, severity |-> i.severity, confidence |-> i.confidence,
     sensitive |-> FALSE, touched |-> i.touched, suppressions |-> {}, impact |-> "allow"]

\* Mutant: an imported finding displaces the native one it duplicates.
MergeReplacing(native, imported) ==
    LET covered(f) == \E i \in imported : CategoryKey[i.site] = CategoryKey[f.site]
    IN  {f \in native : ~covered(f)}
        \union {ImportedFinding(CorrelateImported(NormalizeImported(i))) : i \in imported}

\* importExternalFindings: the findings of each file are sorted by themselves and
\* follow those of the files before it.
ComesBefore(i, j) == i.file < j.file \/ (i.file = j.file /\ SortsBefore(i, j))

(***************************************************************************)
(* Merge.  A native finding on the same resource and of the same category  *)
(* stands for an imported one, whatever either's severity; of imported     *)
(* findings with one fingerprint the first to come is kept.                *)
(***************************************************************************)
Merge(native, imported) ==
    LET normal == {NormalizeImported(i) : i \in imported}
        Superseded(i) == \E f \in native : CategoryKey[i.site] = CategoryKey[f.site]
        First(i) == \A j \in normal \ {i} : j.site = i.site => ComesBefore(i, j)
    IN  native \union
        {ImportedFinding(CorrelateImported(i)) : i \in {j \in normal : ~Superseded(j) /\ First(j)}}
=============================================================================
