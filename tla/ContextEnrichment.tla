-------------------------- MODULE ContextEnrichment --------------------------
(***************************************************************************)
(* What a snapshot of the live account does to findings                    *)
(* (src/internal/cloudcontext/context.go, src/internal/cli/scan.go): it    *)
(* raises and lowers their severity, and sets aside those that are about   *)
(* live resources only.  A live resource of the module ContextMerge also   *)
(* has blocked and encrypted, each "yes", "no" or "unknown", and drift.    *)
(***************************************************************************)
EXTENDS IAMPaths, BuiltInRules, CustomRules

-----------------------------------------------------------------------------
(* EnrichFindings *)

\* indexedResources: the first resource met keeps a name; order is the order of the keys.
IndexedResources(snapshot, order) ==
    FoldLeft(LAMBDA index, key : AddAliases(index, ResourceAliases(snapshot.resources[key], key), key),
             << >>, order)

S3Rules ==
    {"AWS_CLOUDFRONT_S3_PUBLIC_MISMATCH", "AWS_PUBLIC_WORKLOAD_S3_DATA_ACCESS", "AWS_S3_BUCKET_PUBLIC_ACL",
     "AWS_S3_BUCKET_PUBLIC_POLICY", "AWS_S3_PUBLIC_ACCESS_BLOCK_DISABLED_PROD",
     "AWS_S3_SENSITIVE_BUCKET_LOGGING_DISABLED", "AWS_S3_SENSITIVE_BUCKET_VERSIONING_DISABLED"}

\* isPublicExposure: by category, or because the name of the rule says public.
PublicExposureRules ==
    DOMAIN PortRules \union DOMAIN PublicRDS \union DOMAIN ExposureRules \union DOMAIN EntryRules
    \union DOMAIN WorkloadTargets
    \union {"AWS_PUBLIC_ADMIN_SERVICE", "AWS_PUBLIC_INTERNAL_SERVICE", "AWS_EC2_PUBLIC_IP_ADMIN_INGRESS",
            "AWS_RDS_PUBLIC_SUBNET_GROUP", "AWS_EFS_OPEN_SECURITY_GROUP", "AWS_ELASTICACHE_OPEN_SECURITY_GROUP",
            "AWS_CLOUDFRONT_S3_PUBLIC_MISMATCH", "AWS_LOAD_BALANCER_WEAK_TLS_OR_HTTP",
            "AWS_PUBLIC_TO_SENSITIVE_DATASTORE", "AWS_PUBLIC_API_GATEWAY_TO_SENSITIVE_DATA",
            "AWS_PUBLIC_LAMBDA_URL_TO_SENSITIVE_DATA", "AWS_KMS_KEY_POLICY_PUBLIC_OR_EXTERNAL_ADMIN"}
    \union {r.id : r \in {c \in Custom : c.category = "public_exposure"}}

\* upgrade raises what is high, and nothing below it.
UpgradeFinding(finding) ==
    [finding EXCEPT !.severity = IF @ = "high" THEN "critical" ELSE @]
DowngradeFinding(finding) ==
    [finding EXCEPT !.severity = IF @ = "high" THEN "medium" ELSE @,
                    !.confidence = IF @ = "high" THEN "medium" ELSE @]

\* Mutant: what is meant to be public is excused from everything.
EnrichedExcusing(finding, resource) ==
    LET raised == IF resource.drift \/ resource.sensitive THEN UpgradeFinding(finding) ELSE finding
    IN  IF resource.expected THEN DowngradeFinding(raised) ELSE raised

\* Drift and sensitive data come before what excuses exposure, and encryption after it.
Enriched(finding, resource) ==
    LET raised == IF resource.drift \/ resource.sensitive THEN UpgradeFinding(finding) ELSE finding
        excused == IF resource.expected /\ finding.rule \in PublicExposureRules
                   THEN DowngradeFinding(raised) ELSE raised
        bare == \/ resource.encrypted = "no"
                \/ resource.blocked = "no" /\ finding.rule \in S3Rules
    IN  IF bare THEN UpgradeFinding(excused) ELSE excused

\* A finding is about the live resource that its address is a name of.
EnrichFindings(findings, resources, index) ==
    {IF f.resource \in DOMAIN index THEN Enriched(f, resources[index[f.resource]]) ELSE f : f \in findings}

-----------------------------------------------------------------------------
(* applyGraphConflictDiagnostics *)

\* upgradeFindingForGraphConflict: one step up for each diagnostic that names the resource.
UpgradeForGraphConflict(finding, times) ==
    IF times = 0 THEN finding
    ELSE [finding EXCEPT !.severity = CASE @ = "high" \/ (@ = "medium" /\ times > 1) -> "critical"
                                        [] @ = "medium" /\ times = 1 -> "high"
                                        [] OTHER -> @,
                         !.confidence = "high"]

ApplyGraphConflicts(findings, diagnostics) ==
    LET Naming(f) == Cardinality({d \in diagnostics : f.resource \in d.ids})
    IN  {UpgradeForGraphConflict(f, Naming(f)) : f \in findings}

-----------------------------------------------------------------------------
(* suppressLiveOnlyCloudContextFindings *)

\* managedResources
ManagedResources(plan) == DOMAIN plan.resources \union DOMAIN plan.prior \union DOMAIN plan.changes

\* Mutant: a finding is about the resource it is filed under, whatever its evidence names.
SuppressLiveOnlyByAddress(findings, managed) ==
    IF managed = {} THEN findings
    ELSE {IF f.resource \in managed THEN f ELSE [f EXCEPT !.suppressed = TRUE] : f \in findings}

SuppressLiveOnly(findings, managed) ==
    IF managed = {} THEN findings
    ELSE {IF f.touches \intersect managed # {} THEN f ELSE [f EXCEPT !.suppressed = TRUE] : f \in findings}
=============================================================================
