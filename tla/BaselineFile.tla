---------------------------- MODULE BaselineFile ----------------------------
(***************************************************************************)
(* Baselines (src/internal/baseline/baseline.go): a snapshot of accepted   *)
(* findings, the freshness rules it is held to, and the comparison of      *)
(* current findings with it.                                               *)
(***************************************************************************)
EXTENDS DecisionModel, FiniteSetsExt

\* An entry is the fingerprint it was recorded under and its risk context.
Entry == [site: Sites, context: RiskContext]

DecisionFromSeverity(severity) ==
    CASE severity >= HighSeverity  -> "block"
      [] severity = MediumSeverity -> "warn"
      [] OTHER                     -> "allow"

\* Mutant: sensitive graph evidence is not recorded.
EntryContextInsensitive(f) == [RiskContextFromFinding(f) EXCEPT !.sensitive = FALSE]

(***************************************************************************)
(* baselineEntryContext: the suppression a baseline caused is not recorded;*)
(* the decision it masked is guessed from the severity.                    *)
(***************************************************************************)
BaselineEntryContext(f) ==
    LET stripped == [f EXCEPT !.suppressions = @ \ {"existing_risk"}]
        context == RiskContextFromFinding(stripped)
    IN  IF "existing_risk" \in f.suppressions /\ context.decision = "allow"
        THEN [context EXCEPT !.decision = DecisionFromSeverity(f.severity)]
        ELSE context

\* Mutant: suppressed findings are left out of the baseline.
EntriesOfUnsuppressed(findings) ==
    {[site |-> f.site, context |-> BaselineEntryContext(f)] :
        f \in {x \in findings : ~Suppressed(x)}}

EntriesFromFindings(findings) ==
    {[site |-> f.site, context |-> BaselineEntryContext(f)] : f \in findings}

(***************************************************************************)
(* sortEntries orders entries by rule and resource, then by severity as a  *)
(* string (critical, high, info, low, medium), then by fingerprint.  Where *)
(* a map can hold one entry only it holds the last.                        *)
(***************************************************************************)
SeverityAsString == <<3, 4, 5, 2, 1>>

SortsAfter(e, d) ==
    LET one == SeverityAsString[e.context.severity]
        other == SeverityAsString[d.context.severity]
    IN  IF SameKey(e, d) /\ one # other THEN one > other ELSE e.site >= d.site

LastEntry(entries) == CHOOSE e \in entries : \A d \in entries : SortsAfter(e, d)

\* Fingerprints and Contexts: the entries of a baseline as the gate reads them.
Fingerprints(entries) == {e.site : e \in entries}

Contexts(entries) ==
    [s \in Fingerprints(entries) |-> LastEntry({e \in entries : e.site = s}).context]

-----------------------------------------------------------------------------
(***************************************************************************)
(* Diff.  An entry is looked up by fingerprint, then by deduplication key, *)
(* then by rename key; of several entries with one key the map holds the   *)
(* last.                                                                   *)
(***************************************************************************)
SameFingerprint(entries, current) == {e \in entries : e.site = current.site}

SameDeduplicationKey(entries, current) ==
    {e \in entries : DeduplicationKey[e.site] = DeduplicationKey[current.site]}

SameRenameKey(entries, current) ==
    {e \in entries :
        /\ RenameKey[e.site] = RenameKey[current.site]
        /\ e.context.severity = current.context.severity
        /\ e.context.confidence = current.context.confidence}

\* The entry a current finding is compared with: none, or a singleton.
Counterpart(entries, current) ==
    LET lookups == <<SameFingerprint(entries, current),
                     SameDeduplicationKey(entries, current),
                     SameRenameKey(entries, current)>>
        hits == {i \in 1..3 : lookups[i] # {}}
    IN  IF hits = {} THEN {} ELSE {LastEntry(lookups[Min(hits)])}

Diff(entries, findings) ==
    LET current == EntriesFromFindings(findings)
        existing == {c \in current : Counterpart(entries, c) # {}}
        previous(c) == (CHOOSE e \in Counterpart(entries, c) : TRUE).context
        worsened == {c \in existing : RiskContextWorsened(c.context, previous(c))}
        improved == {c \in existing : RiskContextImproved(c.context, previous(c))}
        seen == UNION {Counterpart(entries, c) : c \in current}
    IN  [newRisk           |-> current \ existing,
         unchanged         |-> {c \in current : SameFingerprint(entries, c) # {}},
         changed           |-> {c \in existing : SameFingerprint(entries, c) = {}},
         existingWorsened  |-> worsened,
         existingImproved  |-> improved,
         existingUnchanged |-> existing \ (worsened \union improved),
         resolved          |-> entries \ seen]
=============================================================================
