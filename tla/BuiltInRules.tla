---------------------------- MODULE BuiltInRules ----------------------------
(***************************************************************************)
(* The built-in AWS rules (src/internal/rules/aws_rules.go, aws_helpers.go)*)
(* over the changes of a plan and its resource graph.  What a rule tests   *)
(* of one attribute, or of the text of a policy, a name or a tag, is a     *)
(* flag of the resource.                                                   *)
(*                                                                         *)
(* A plan is [resources, prior, changes, config]; a change is [actions,    *)
(* before, after], two resources of the module ResourceGraph, and config a *)
(* set of references <<resource, attribute, resource>>.  A finding is      *)
(* [rule, resource, severity, confidence, touches, path,            *)
(* suppressed]; touches holds the resources its evidence names.            *)
(***************************************************************************)
EXTENDS GraphQueries

RuleFinding(rule, resource, severity, confidence, touches) ==
    [rule |-> rule, resource |-> resource, severity |-> severity, confidence |-> confidence,
     touches |-> touches \union {resource}, path |-> << >>, suppressed |-> FALSE]

\* The changes of some types.
ChangesOf(plan, types) == {id \in DOMAIN plan.changes : plan.changes[id].after.type \in types}

\* envFromChange, where the tags of the change and of its values agree
EnvFromChange(change) == EnvironmentFromTags(change.after.tags)

\* hasProductionOrSensitiveContext; "context" stands for a word of the change that says so.
HasProductionOrSensitiveContext(change) ==
    \/ EnvFromChange(change) = "production"
    \/ "context" \in change.after.flags \union change.before.flags

IsReplacement(change) == "replace" \in change.actions \/ {"create", "delete"} \subseteq change.actions

-----------------------------------------------------------------------------
(* Rules about one change: of some types, somewhere, with every flag of    *)
(* all, one of any unless it is empty, and none of none.                   *)

ChangeRule(types, where, all, any, none) ==
    [types |-> types, where |-> where, all |-> all, any |-> any, none |-> none]

Somewhere(change, where) ==
    CASE where = "anywhere" -> TRUE
      [] where = "production" -> EnvFromChange(change) = "production"
      [] where = "production or sensitive" -> HasProductionOrSensitiveContext(change)

Fires(rule, change) ==
    LET flags == change.after.flags
    IN  /\ change.after.type \in rule.types
        /\ Somewhere(change, rule.where)
        /\ rule.all \subseteq flags
        /\ rule.any = {} \/ rule.any \intersect flags # {}
        /\ rule.none \intersect flags = {}

IngressTypes == {"aws_security_group", "aws_vpc_security_group_ingress_rule"}
\* publicCIDRInChange looks for the open range anywhere in the change, the egress included.
OpenCIDR == {"public_ingress", "public_cidr", "open_egress"}
RDS == {"aws_db_instance", "aws_rds_cluster"}
IAMPolicies == {"aws_iam_policy", "aws_iam_role_policy", "aws_iam_user_policy", "aws_iam_group_policy"}
Routes == {"aws_route", "aws_route_table"}

\* Admin ports and database ports.
PortRules ==
    [AWS_SG_WORLD_OPEN_ADMIN_PORT |-> ChangeRule(IngressTypes, "anywhere", {"admin_port"}, OpenCIDR, {}),
     AWS_SG_WORLD_OPEN_DB_PORT |-> ChangeRule(IngressTypes, "anywhere", {"db_port"}, OpenCIDR, {}),
     AWS_SECURITY_GROUP_WORLD_OPEN_ALL_PORTS |->
        ChangeRule(IngressTypes, "anywhere", {"all_ports"}, OpenCIDR, {})]

ExposureRules ==
    [AWS_PUBLIC_OPENSEARCH_DOMAIN |->
        ChangeRule({"aws_opensearch_domain", "aws_elasticsearch_domain"}, "anywhere", {"public_principal"}, {}, {}),
     AWS_PUBLIC_EKS_ENDPOINT_PROD |->
        ChangeRule({"aws_eks_cluster"}, "production", {"endpoint_public_access"}, {}, {}),
     AWS_S3_PUBLIC_ACCESS_BLOCK_DISABLED_PROD |->
        ChangeRule({"aws_s3_bucket_public_access_block"}, "production", {"protection_disabled"}, {}, {}),
     AWS_S3_BUCKET_PUBLIC_POLICY |->
        ChangeRule({"aws_s3_bucket_policy"}, "anywhere", {"public_principal", "data_actions"}, {}, {}),
     AWS_S3_BUCKET_PUBLIC_ACL |-> ChangeRule({"aws_s3_bucket_acl"}, "anywhere", {"public_acl"}, {}, {})]

EntryRules ==
    [AWS_LAMBDA_PUBLIC_FUNCTION_URL |->
        ChangeRule({"aws_lambda_function_url"}, "anywhere", {"authorization_none"}, {}, {}),
     AWS_API_GATEWAY_PUBLIC_ADMIN_ROUTE |->
        ChangeRule({"aws_apigatewayv2_route", "aws_api_gateway_method"}, "anywhere",
                   {"admin_text", "anonymous"}, {}, {})]

IAMPolicyRules ==
    [AWS_IAM_WILDCARD_ADMIN |-> ChangeRule(IAMPolicies, "anywhere", {"wildcard_admin"}, {}, {}),
     AWS_IAM_NOTACTION_ALLOW_BROAD |->
        ChangeRule(IAMPolicies, "anywhere", {"allow_notaction", "wildcard_resource"}, {}, {}),
     AWS_IAM_SENSITIVE_ACTIONS_RESOURCE_WILDCARD |->
        ChangeRule(IAMPolicies, "anywhere", {"sensitive_actions", "wildcard_resource"}, {}, {})]

\* An account is external when the plan names accounts and not this one.
TrustRules ==
    [AWS_IAM_ADMIN_POLICY_ATTACHMENT |->
        ChangeRule(DOMAIN PrincipalFields, "anywhere", {"administrator_access"}, {}, {}),
     AWS_EXTERNAL_ACCOUNT_TRUST |->
        ChangeRule({"aws_iam_role"}, "anywhere", {"external_principal", "assume_role"}, {}, {}),
     AWS_GITHUB_OIDC_TRUST_BROAD |-> ChangeRule({"aws_iam_role"}, "anywhere", {"oidc_any_repository"}, {}, {}),
     AWS_KMS_DECRYPT_BROAD |->
        ChangeRule({"aws_iam_policy", "aws_iam_role_policy", "aws_kms_key"}, "anywhere", {"decrypt"},
                   {"wildcard_resource", "public_principal"}, {}),
     AWS_KMS_KEY_POLICY_PUBLIC_OR_EXTERNAL_ADMIN |->
        ChangeRule({"aws_kms_key"}, "anywhere", {"key_administration"},
                   {"public_principal", "external_principal"}, {})]

SecretsReadBroad ==
    [AWS_SECRETS_READ_BROAD |->
        ChangeRule({"aws_iam_policy", "aws_iam_role_policy"}, "anywhere", {"read_secrets", "wildcard_resource"}, {}, {})]

\* A database that is deleted has no attributes after, and so no protection either.
RecoveryRules ==
    [AWS_RDS_BACKUP_RETENTION_DISABLED_PROD |->
        ChangeRule(RDS, "production", {}, {}, {"backup_retention", "reduced_retention"}),
     AWS_RDS_BACKUP_RETENTION_REDUCED_PROD |-> ChangeRule(RDS, "production", {"reduced_retention"}, {}, {}),
     AWS_RDS_DELETION_PROTECTION_DISABLED_PROD |-> ChangeRule(RDS, "production", {}, {}, {"deletion_protection"}),
     AWS_DYNAMODB_PITR_DISABLED_PROD |-> ChangeRule({"aws_dynamodb_table"}, "production", {}, {}, {"pitr"})]

StorageEncryption ==
    [AWS_SENSITIVE_STORAGE_ENCRYPTION_DISABLED |->
        ChangeRule(RDS \union {"aws_s3_bucket", "aws_efs_file_system", "aws_dynamodb_table",
                               "aws_elasticache_cluster", "aws_elasticache_replication_group"},
                   "anywhere", {"encryption_disabled"}, {}, {})]

AuditTrailRules ==
    [AWS_CLOUDTRAIL_LOGGING_DISABLED_PROD |->
        ChangeRule({"aws_cloudtrail"}, "production or sensitive", {"logging_off"}, {}, {}),
     AWS_CLOUDTRAIL_LOG_FILE_VALIDATION_DISABLED_PROD |->
        ChangeRule({"aws_cloudtrail"}, "production or sensitive", {"validation_off"}, {}, {}),
     AWS_ECR_REPOSITORY_MUTABLE_OR_SCAN_DISABLED_PROD |->
        ChangeRule({"aws_ecr_repository"}, "production or sensitive", {}, {"mutable_tags", "scan_off"}, {})]

NetworkRules ==
    [AWS_PRIVATE_SUBNET_ROUTE_TO_IGW |-> ChangeRule(Routes, "anywhere", {"to_igw", "private_address"}, {}, {}),
     AWS_PRIVATE_WORKLOAD_EXPOSED_BY_NAT_OR_SG |->
        [ChangeRule(IngressTypes, "anywhere", {"private_text"}, {}, {}) EXCEPT !.any = OpenCIDR],
     AWS_TGW_ROUTE_TO_SENSITIVE_SUBNET |->
        ChangeRule(Routes, "anywhere", {"private_text"}, {"to_transit_gateway", "to_peering"}, {}),
     AWS_EGRESS_OPEN_FROM_SENSITIVE_WORKLOAD |->
        ChangeRule({"aws_security_group", "aws_vpc_security_group_egress_rule"}, "production", {"open_egress"}, {}, {})]

PublicRDS == [AWS_PUBLIC_RDS_INSTANCE |-> ChangeRule(RDS, "anywhere", {"publicly_accessible"}, {}, {})]

ChangeRules ==
    PortRules @@ PublicRDS @@ ExposureRules @@ EntryRules @@ IAMPolicyRules @@ TrustRules @@ SecretsReadBroad
    @@ RecoveryRules @@ StorageEncryption @@ AuditTrailRules @@ NetworkRules

Severe(rule, ids) == {RuleFinding(rule, id, "high", "high", {}) : id \in ids}

EvaluateChanges(plan) ==
    UNION {Severe(r, {id \in DOMAIN plan.changes : Fires(ChangeRules[r], plan.changes[id])}) : r \in DOMAIN ChangeRules}

-----------------------------------------------------------------------------
(* Rules about what happens to a resource, or about several changes *)

Replacements(plan) ==
    LET replaced == {id \in DOMAIN plan.changes : IsReplacement(plan.changes[id])}
        stateful == RDS \union {"aws_efs_file_system", "aws_elasticache_cluster", "aws_dynamodb_table"}
        Production(id) == EnvFromChange(plan.changes[id]) = "production"
    IN  Severe("AWS_RDS_REPLACEMENT_PROD", {id \in replaced \intersect ChangesOf(plan, RDS) : Production(id)})
        \union Severe("AWS_STATEFUL_REPLACEMENT", replaced \intersect ChangesOf(plan, stateful))

\* Whether a snapshot is skipped is read before as well, for what is deleted has no after.
FinalSnapshot(plan) ==
    Severe("AWS_RDS_FINAL_SNAPSHOT_DISABLED_PROD",
        {id \in ChangesOf(plan, RDS) :
            LET change == plan.changes[id]
            IN  /\ EnvFromChange(change) = "production"
                /\ "delete" \in change.actions \/ IsReplacement(change)
                /\ "skip_final_snapshot" \in change.after.flags \union change.before.flags})

ConfigRecorder(plan) ==
    Severe("AWS_CONFIG_RECORDER_DISABLED_PROD",
        {id \in DOMAIN plan.changes :
            LET change == plan.changes[id]
            IN  /\ HasProductionOrSensitiveContext(change)
                /\ \/ change.after.type = "aws_config_configuration_recorder_status" /\ "recorder_off" \in change.after.flags
                   \/ change.after.type = "aws_config_configuration_recorder" /\ "delete" \in change.actions})

Named(resource, attributes) == KnownAs(resource, attributes)
Referred(resource, attributes) == {ref[2] : ref \in {r \in resource.refs : r[1] \in attributes}}

WeakListeners(plan) ==
    LET public == {id \in ChangesOf(plan, {"aws_lb"}) : "internet_facing" \in plan.changes[id].after.flags}
        known == UNION {Named(plan.changes[id].after, {"arn", "name", "address"}) : id \in public}
    IN  Severe("AWS_LOAD_BALANCER_WEAK_TLS_OR_HTTP",
            {id \in ChangesOf(plan, {"aws_lb_listener"}) :
                /\ Referred(plan.changes[id].after, {"load_balancer_arn"}) \intersect known # {}
                /\ {"plaintext", "weak_tls"} \intersect plan.changes[id].after.flags # {}})

-----------------------------------------------------------------------------
(* Buckets, and the resources that protect them *)

\* bucketKeys: the control's own names, the bucket it names, and the names of
\* the bucket that its configuration refers to.
BucketKeys(plan, id) ==
    LET change == plan.changes[id].after
        referred == {c[3] : c \in {x \in plan.config : x[1] = id /\ x[2] = "bucket"}}
        buckets == referred \intersect ChangesOf(plan, {"aws_s3_bucket"})
    IN  Named(change, {"address", "name", "id", "bucket"}) \union Referred(change, {"bucket"}) \union referred
        \union UNION {Named(plan.changes[b].after, {"address", "name", "id", "bucket"}) : b \in buckets}

\* newS3BucketIndex: the keys under which some control is in force.
Controlled(plan, type, flags) ==
    UNION {BucketKeys(plan, id) :
              id \in {c \in ChangesOf(plan, {type}) : flags \subseteq plan.changes[c].after.flags}}

Has(plan, bucket, type, flags) == BucketKeys(plan, bucket) \intersect Controlled(plan, type, flags) # {}

Versioned(plan, bucket) == Has(plan, bucket, "aws_s3_bucket_versioning", {"enabled"})

\* Every other protection makes up for a log that is missing.
BucketLogging(plan) ==
    Severe("AWS_S3_SENSITIVE_BUCKET_LOGGING_DISABLED",
        {id \in ChangesOf(plan, {"aws_s3_bucket"}) :
            LET flags == plan.changes[id].after.flags
                encrypted == \/ "encryption_disabled" \notin flags
                             \/ Has(plan, id, "aws_s3_bucket_server_side_encryption_configuration", {})
            IN  /\ "sensitive_bucket" \in flags
                /\ ~Has(plan, id, "aws_s3_bucket_logging", {})
                /\ "object_audit" \notin flags
                /\ ~(/\ Has(plan, id, "aws_s3_bucket_public_access_block", {"strict"})
                     /\ Versioned(plan, id) /\ encrypted)})

BucketVersioning(plan) ==
    LET off == {id \in ChangesOf(plan, {"aws_s3_bucket_versioning"}) :
                   /\ "suspended" \in plan.changes[id].after.flags
                   /\ HasProductionOrSensitiveContext(plan.changes[id])}
        without == {id \in ChangesOf(plan, {"aws_s3_bucket"}) :
                       /\ {"sensitive_bucket", "versioning_off"} \subseteq plan.changes[id].after.flags
                       /\ ~Versioned(plan, id)}
    IN  Severe("AWS_S3_SENSITIVE_BUCKET_VERSIONING_DISABLED", off \union without)

-----------------------------------------------------------------------------
(* Rules about the graph *)

PublicSubnets(g) ==
    UNION {Named(g.nodes[id], {"id", "name", "address"}) :
              id \in {s \in OfType(g.nodes, {"aws_subnet"}) :
                         "public_text" \in g.nodes[s].flags \/ IsInternetExposed(g, s)}}

RDSPublicSubnetGroup(g, plan) ==
    LET groups == {id \in ChangesOf(plan, {"aws_db_subnet_group"}) :
                      \/ Referred(plan.changes[id].after, {"subnet_ids"}) \intersect PublicSubnets(g) # {}
                      \/ "public_subnet_text" \in plan.changes[id].after.flags}
        known == UNION {Named(plan.changes[id].after, {"name", "address"}) : id \in groups}
    IN  Severe("AWS_RDS_PUBLIC_SUBNET_GROUP",
            {id \in ChangesOf(plan, RDS) :
                /\ HasProductionOrSensitiveContext(plan.changes[id])
                /\ \/ Referred(plan.changes[id].after, {"db_subnet_group_name"}) \intersect known # {}
                   \/ "public_group_text" \in plan.changes[id].after.flags})

PublicInstances(g, plan) ==
    Severe("AWS_EC2_PUBLIC_IP_ADMIN_INGRESS",
        {id \in ChangesOf(plan, {"aws_instance"}) :
            "public_ip" \in plan.changes[id].after.flags /\ CanReach(g, Internet, id)})

ExposedServices(g) ==
    LET Exposed(flag) == {id \in DOMAIN g.nodes : flag \in g.nodes[id].flags /\ IsInternetExposed(g, id)}
    IN  Severe("AWS_PUBLIC_ADMIN_SERVICE", Exposed("admin_text"))
        \union Severe("AWS_PUBLIC_INTERNAL_SERVICE", Exposed("internal_text"))

CloudFrontMismatch(g) ==
    Severe("AWS_CLOUDFRONT_S3_PUBLIC_MISMATCH",
        {b \in OfType(g.nodes, Bucket) :
            /\ IsInternetExposed(g, b)
            /\ \E c \in OfType(g.nodes, {"aws_cloudfront_distribution"}) : CanReach(g, c, b)})

\* hasSensitiveGraphContext
HasSensitiveGraphContext(node) == node.environment = "production" \/ "context" \in node.flags

\* publicSecurityGroups: by the names of the groups, and of those their open rules name.
PublicSecurityGroups(plan) ==
    UNION {Named(plan.changes[id].after, {"address", "name", "id"})
           \union Referred(plan.changes[id].after, {"security_group_id"}) :
              id \in {c \in ChangesOf(plan, IngressTypes) : OpenCIDR \intersect plan.changes[c].after.flags # {}}}

\* statefulOpenSecurityGroupFindings
OpenSecurityGroup(g, plan, rule, types) ==
    LET changed == {id \in ChangesOf(plan, types) :
                       /\ HasProductionOrSensitiveContext(plan.changes[id])
                       /\ \/ Referred(plan.changes[id].after, {"security_group_ids", "vpc_security_group_ids"})
                                \intersect PublicSecurityGroups(plan) # {}
                          \/ "public_group_text" \in plan.changes[id].after.flags}
        reached == {id \in OfType(g.nodes, types) :
                       /\ HasSensitiveGraphContext(g.nodes[id])
                       /\ \E s \in OfType(g.nodes, SG) : IsInternetExposed(g, s) /\ CanReach(g, s, id)}
    IN  Severe(rule, changed \union reached)

OpenStores(g, plan) ==
    OpenSecurityGroup(g, plan, "AWS_EFS_OPEN_SECURITY_GROUP", {"aws_efs_mount_target", "aws_efs_file_system"})
    \union OpenSecurityGroup(g, plan, "AWS_ELASTICACHE_OPEN_SECURITY_GROUP",
                             {"aws_elasticache_cluster", "aws_elasticache_replication_group"})

-----------------------------------------------------------------------------
(* Rules about paths: they look at one path, the shortest, and ask whether *)
(* every edge of it is certain.                                            *)

RouteEdges == ReachabilityEdges \ {"replicates_to"}
CapabilityEdges ==
    RouteEdges \union {"depends_on", "can_assume", "can_pass_role", "grants_permission", "encrypts_with"}
AccessEdges == {"can_read_data", "can_write_data", "reads_secret", "writes_to"}

\* highConfidencePath
Certain(g, path) == \A i \in DOMAIN path : g.edges[path[i]].confidence = "high"
Uses(path, types) == \E i \in DOMAIN path : path[i][2] \in types

\* firstHighConfidencePath, firstHighConfidenceSensitiveCapabilityPath: no path or one.
CertainPath(g, from, to, allowed, depth) ==
    {p \in ShortestPath(g, from, to, allowed, depth) : Certain(g, p)}
WithWorkload(g, from, path) == \E id \in NodesOn(from, path) : g.nodes[id].kind = "workload"

PathFinding(rule, severity, from, path) ==
    RuleFinding(rule, from, severity, "high", NodesOn(from, path))

\* evalPublicToSensitiveDatastore
PublicToDatastore(g) ==
    UNION {{PathFinding("AWS_PUBLIC_TO_SENSITIVE_DATASTORE", "high", id, p) :
               p \in {q \in UNION {CertainPath(g, id, t, RouteEdges, 12) :
                                      t \in {x \in DOMAIN g.nodes \ {id} : g.nodes[x].kind = "data_store"}} :
                         WithWorkload(g, id, q)}} :
              id \in {x \in DOMAIN g.nodes : IsInternetExposed(g, x)}}

SensitiveTypes ==
    RDS \union {"aws_s3_bucket", "aws_secretsmanager_secret", "aws_dynamodb_table", "aws_efs_file_system",
                "aws_elasticache_cluster", "aws_elasticache_replication_group", "aws_kms_key"}

\* publicEntrypointToSensitiveDataFindings
EntrypointToData(g, rule, entrypoints) ==
    UNION {{PathFinding(rule, "critical", id, p) :
               p \in {q \in UNION {CertainPath(g, id, t, CapabilityEdges, 14) :
                                      t \in OfType(g.nodes, SensitiveTypes) \ {id}} :
                         WithWorkload(g, id, q) /\ Uses(q, AccessEdges)}} :
              id \in {e \in entrypoints : g.nodes[e].kind = "public_entrypoint" \/ IsInternetExposed(g, e)}}

RouteOf == [aws_apigatewayv2_route |-> "api_id", aws_api_gateway_method |-> "rest_api_id"]

\* unauthenticatedAPIGatewayKeys: names of the anonymous routes and of their APIs.
UnauthenticatedAPIs(plan) ==
    LET resources == Range(plan.resources) \union {plan.changes[id].after : id \in DOMAIN plan.changes}
        open == {r \in resources : r.type \in DOMAIN RouteOf /\ "anonymous" \in r.flags}
    IN  UNION {Referred(r, {RouteOf[r.type]}) \union Named(r, {"address", "name"}) : r \in open}

GatewayTypes ==
    {"aws_api_gateway_rest_api", "aws_apigatewayv2_api", "aws_api_gateway_stage", "aws_apigatewayv2_stage"}

Anonymous(g, plan, id) == Named(g.nodes[id], {"address", "name", "id"}) \intersect UnauthenticatedAPIs(plan) # {}

\* hasHighConfidencePublicWorkloadExposure: one of the first five paths of the walk.
PublicWorkload(g, plan, id) ==
    LET gated == {x \in OfType(g.nodes, GatewayTypes) : ~Anonymous(g, plan, x)}
    IN  \E p \in Paths(g, Internet, id, ExposureEdges, 10, 5) :
            Certain(g, p) /\ NodesOn(Internet, p) \intersect gated = {}

\* publicWorkloadSensitiveFindings, for each kind of target
WorkloadTargets ==
    [AWS_PUBLIC_WORKLOAD_READS_SECRET |->
        [type |-> "aws_secretsmanager_secret", severity |-> "critical", context |-> FALSE,
         edges |-> {"reads_secret", "can_read_data"}],
     AWS_PUBLIC_WORKLOAD_KMS_KEY_ACCESS |->
        [type |-> "aws_kms_key", severity |-> "high", context |-> TRUE, edges |-> {"encrypts_with", "can_read_data"}],
     AWS_PUBLIC_WORKLOAD_S3_DATA_ACCESS |->
        [type |-> "aws_s3_bucket", severity |-> "high", context |-> TRUE,
         edges |-> {"can_read_data", "can_write_data", "writes_to"}]]

\* Certain ways from a workload to what the rule is about, with an edge that tells of an access.
WorkloadPaths(g, rule, id) ==
    LET targets == {t \in OfType(g.nodes, {WorkloadTargets[rule].type}) \ {id} :
                       WorkloadTargets[rule].context => HasSensitiveGraphContext(g.nodes[t])}
    IN  {p \in UNION {CertainPath(g, id, t, CapabilityEdges, 14) : t \in targets} :
            Uses(p, WorkloadTargets[rule].edges)}

WorkloadToData(g, plan) ==
    LET public == {id \in DOMAIN g.nodes : g.nodes[id].kind = "workload" /\ PublicWorkload(g, plan, id)}
    IN  UNION {UNION {{PathFinding(rule, WorkloadTargets[rule].severity, id, p) : p \in WorkloadPaths(g, rule, id)} :
                         id \in public} : rule \in DOMAIN WorkloadTargets}

IAMNodes(g) == OfType(g.nodes, PrincipalTypes \union PolicyTypes \union DOMAIN PrincipalFields)

PassRoleGrants(g, plan) ==
    LET compute == {"aws_lambda_function", "aws_ecs_service", "aws_instance", "aws_launch_template"}
    IN  IF ChangesOf(plan, compute) = {} THEN {}
        ELSE {RuleFinding("AWS_PASSROLE_WITH_COMPUTE_MUTATION", id, "high", "medium", {}) :
                 id \in {x \in IAMNodes(g) : Outgoing(g, x, {"can_pass_role"}) # {}}}

\* adminRoleIDs, evalRoleAssumeAdminPath
AssumeAdmin(g) ==
    LET admins == {r \in OfType(g.nodes, Role) : "admin" \in g.nodes[r].flags}
    IN  Severe("AWS_ROLE_ASSUME_ADMIN_PATH",
            {id \in IAMNodes(g) : \E r \in admins : HasEdge(g, id, r, "can_assume")})

-----------------------------------------------------------------------------
\* awsRules: what the rules that are on find.
EvaluateBuiltIn(g, plan, disabled) ==
    LET apis == {id \in OfType(g.nodes, GatewayTypes) : Anonymous(g, plan, id)}
        all == UNION {EvaluateChanges(plan), Replacements(plan), FinalSnapshot(plan), ConfigRecorder(plan),
                      WeakListeners(plan), BucketLogging(plan), BucketVersioning(plan),
                      RDSPublicSubnetGroup(g, plan), PublicInstances(g, plan), ExposedServices(g),
                      CloudFrontMismatch(g), OpenStores(g, plan), PublicToDatastore(g),
                      EntrypointToData(g, "AWS_PUBLIC_API_GATEWAY_TO_SENSITIVE_DATA", apis),
                      EntrypointToData(g, "AWS_PUBLIC_LAMBDA_URL_TO_SENSITIVE_DATA",
                                       OfType(g.nodes, {"aws_lambda_function_url"})),
                      WorkloadToData(g, plan), PassRoleGrants(g, plan), AssumeAdmin(g)}
    IN  {f \in all : f.rule \notin disabled}
=============================================================================
