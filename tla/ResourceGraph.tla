---------------------------- MODULE ResourceGraph ----------------------------
(***************************************************************************)
(* The resource graph of a plan (src/internal/graph/graph.go, aws.go and   *)
(* config_refs.go): a node per resource, an edge per relationship that the *)
(* attributes, the configuration and the IAM policies spell out.           *)
(*                                                                         *)
(* A resource is [type, tags, names, refs, flags, policy]: its tags that   *)
(* matter ("env", "data"), the identifiers it is known by, as pairs        *)
(* <<attribute, identifier>>, the attributes that name other resources,    *)
(* pairs likewise, the attribute values that inference tests, as flags,    *)
(* and the statements of its policy, [effect, actions, notActions,         *)
(* resources, notResources, condition].                                    *)
(***************************************************************************)
EXTENDS Functions, FiniteSets, Sequences, TLC

CONSTANTS
    Addresses,       \* every node ID, in the order of their names
    SensitiveConfig  \* IDs that sensitive_assets of the policy selects

Internet == "internet"

IDs == Range(Addresses)

ASSUME GraphAssumption ==
    /\ Addresses \in Seq(IDs) /\ \A i, j \in DOMAIN Addresses : Addresses[i] = Addresses[j] => i = j
    /\ Internet \in IDs

\* f @@ g, in terms that the provers know.
Over(f, g) == [x \in DOMAIN f \union DOMAIN g |-> IF x \in DOMAIN f THEN f[x] ELSE g[x]]

-----------------------------------------------------------------------------
(* Nodes *)

PublicTypes ==
    {"internet", "aws_lb", "aws_elb", "aws_cloudfront_distribution",
     "aws_api_gateway_rest_api", "aws_apigatewayv2_api", "aws_api_gateway_stage",
     "aws_apigatewayv2_stage", "aws_lambda_function_url"}
WorkloadTypes ==
    {"aws_instance", "aws_launch_template", "aws_autoscaling_group", "aws_ecs_service",
     "aws_ecs_task_definition", "aws_lambda_function", "aws_eks_cluster", "aws_eks_node_group"}
DataStoreTypes ==
    {"aws_db_instance", "aws_rds_cluster", "aws_s3_bucket", "aws_dynamodb_table",
     "aws_efs_file_system", "aws_elasticache_cluster", "aws_elasticache_replication_group",
     "aws_opensearch_domain", "aws_elasticsearch_domain"}
SecretTypes == {"aws_secretsmanager_secret", "aws_ssm_parameter"}
KeyTypes == {"aws_kms_key", "aws_kms_alias"}
PrincipalTypes == {"aws_iam_role", "aws_iam_user", "aws_iam_group", "aws_iam_instance_profile"}
PolicyTypes ==
    {"aws_iam_policy", "aws_iam_role_policy", "aws_iam_user_policy", "aws_iam_group_policy",
     "aws_s3_bucket_policy", "aws_kms_key_policy"}
NetworkTypes ==
    {"aws_security_group", "aws_vpc_security_group_ingress_rule",
     "aws_vpc_security_group_egress_rule", "aws_subnet", "aws_route", "aws_route_table",
     "aws_route_table_association", "aws_internet_gateway", "aws_nat_gateway", "aws_vpc",
     "aws_vpc_peering_connection", "aws_ec2_transit_gateway", "aws_ec2_transit_gateway_route"}

\* classifyNodeKind
KindOf(type, flags) ==
    CASE type \in PublicTypes -> "public_entrypoint"
      [] type \in WorkloadTypes -> "workload"
      [] type \in DataStoreTypes -> "data_store"
      [] type \in SecretTypes -> "secret"
      [] type \in KeyTypes -> "kms_key"
      [] type \in PrincipalTypes -> "principal"
      [] type \in PolicyTypes -> "policy"
      [] type \in NetworkTypes -> "network_boundary"
      [] OTHER -> IF flags \intersect {"publicly_accessible", "internet_facing"} # {}
                  THEN "public_entrypoint" ELSE "unknown"

IsSensitiveKind(kind) == kind \in {"data_store", "secret", "kms_key"}

EnvironmentFromTags(tags) == IF "env" \in DOMAIN tags THEN tags["env"] ELSE ""

\* Tags reach a node that has tags already, and overwrite them.
MergeTags(target, source) == IF target = << >> THEN << >> ELSE Over(source, target)

NodeOf(resource) ==
    [type |-> resource.type, kind |-> KindOf(resource.type, resource.flags),
     tags |-> resource.tags, environment |-> EnvironmentFromTags(resource.tags),
     names |-> resource.names, refs |-> resource.refs, flags |-> resource.flags,
     policy |-> resource.policy, observed |-> {}, changed |-> FALSE, synthetic |-> FALSE]

SyntheticNode(id) ==
    [NodeOf([type |-> IF id = Internet THEN "internet" ELSE "external", tags |-> << >>,
             names |-> {<<"address", id>>}, refs |-> {}, flags |-> {}, policy |-> << >>])
        EXCEPT !.synthetic = TRUE]

\* The environment found first is kept.
WithTags(node, tags) ==
    [node EXCEPT !.tags = tags,
                 !.environment = IF @ = "" THEN EnvironmentFromTags(tags) ELSE @]

\* addResource, for every prior resource.
AddPrior(nodes, prior) ==
    [id \in DOMAIN nodes \union DOMAIN prior |->
        IF id \notin DOMAIN nodes THEN NodeOf(prior[id])
        ELSE IF id \in DOMAIN prior
        THEN WithTags(nodes[id], MergeTags(nodes[id].tags, prior[id].tags)) ELSE nodes[id]]

MaterialActions == {"create", "update", "delete", "replace"}

\* addChange: attributes of a node that has some are kept.
Changed(node, change) ==
    LET after == change.after
        Valued == node.refs # {} \/ node.flags # {} \/ node.policy # << >>
        values == IF Valued THEN node ELSE after
    IN  [WithTags(node, Over(after.tags, node.tags)) EXCEPT
            !.refs = values.refs, !.flags = values.flags, !.policy = values.policy,
            !.names = values.names, !.kind = KindOf(node.type, values.flags),
            !.changed = change.actions \intersect MaterialActions # {}]

AddChanges(nodes, changes) ==
    [id \in DOMAIN nodes \union DOMAIN changes |->
        IF id \notin DOMAIN changes THEN nodes[id]
        ELSE IF id \in DOMAIN nodes THEN Changed(nodes[id], changes[id])
        ELSE [NodeOf(changes[id].after) EXCEPT
                 !.changed = changes[id].actions \intersect MaterialActions # {}]]

SensitiveTags ==
    {"sensitive", "confidential", "restricted", "pii", "phi", "pci", "customer"}

\* applySensitivity: by tag or by configuration, and never a way in or an identity.
ApplySensitivity(nodes) ==
    [id \in DOMAIN nodes |->
        LET node == nodes[id]
            tagged == "data" \in DOMAIN node.tags /\ node.tags["data"] \in SensitiveTags
        IN  IF node.kind \in {"unknown", "workload", "network_boundary"}
               /\ (tagged \/ id \in SensitiveConfig)
            THEN [node EXCEPT !.kind = "data_store", !.flags = @ \union {"sensitive_data"}]
            ELSE node]

\* Deleted resources are nodes too: they are in the prior state.
PlanNodes(plan) ==
    ApplySensitivity(AddChanges(
        AddPrior([id \in DOMAIN plan.resources |-> NodeOf(plan.resources[id])], plan.prior),
        plan.changes))

-----------------------------------------------------------------------------
(* Looking a resource up by an identifier *)

Position(id) == CHOOSE i \in DOMAIN Addresses : Addresses[i] = id
Precedes(a, b) == Position(a) < Position(b)
First(ids) == CHOOSE a \in ids : \A b \in ids : a = b \/ Precedes(a, b)

\* The identifiers a node has in some of its attributes.
KnownAs(node, attributes) == {n[2] : n \in {x \in node.names : x[1] \in attributes}}
IDLike == {"address", "name", "id", "arn", "bucket", "identifier", "function_name"}

OfType(nodes, types) == {id \in DOMAIN nodes : nodes[id].type \in types}

\* findByIDLike, findByARNOrAddress: the first by name of those it may mean.
FindByIDLike(nodes, value, types) ==
    LET hits == {id \in DOMAIN nodes : /\ types = {} \/ nodes[id].type \in types
                                       /\ value \in KnownAs(nodes[id], IDLike)}
    IN  IF hits = {} THEN {} ELSE {First(hits)}

Targets(nodes, id, attributes, types) ==
    UNION {FindByIDLike(nodes, ref[2], types) :
              ref \in {x \in nodes[id].refs : x[1] \in attributes}}

\* Edges from the resources of some types to what their attributes name, and back.
To(nodes, from, attributes, types, edge) ==
    UNION {{<<id, edge, t>> : t \in Targets(nodes, id, attributes, types)} :
              id \in OfType(nodes, from)}
Back(nodes, from, attributes, types, edge) ==
    {<<e[3], edge, e[1]>> : e \in To(nodes, from, attributes, types, edge)}

\* An edge of the internet to the resources of some types with a flag.
Public(nodes, types, flags, edge) ==
    {<<Internet, edge, id>> : id \in {n \in OfType(nodes, types) : nodes[n].flags \intersect flags # {}}}
AlwaysPublic(nodes, types, edge) == {<<Internet, edge, id>> : id \in OfType(nodes, types)}

-----------------------------------------------------------------------------
(* Inference *)

\* What the resource that is left of the prior and the planned one depends on.
InferExplicitDependencies(plan) ==
    LET resources == Over(plan.resources, plan.prior)
    IN  UNION {{<<id, "depends_on", ref[2]>> : ref \in {x \in resources[id].refs : x[1] = "depends_on"}} :
                  id \in DOMAIN resources}

\* Whatever attribute holds the address of another node.
InferGenericReferences(nodes) ==
    UNION {{<<id, "depends_on", ref[2]>> :
               ref \in {x \in nodes[id].refs : x[2] \in DOMAIN nodes \ {id}}} : id \in DOMAIN nodes}

SG == {"aws_security_group"}
Subnet == {"aws_subnet"}
RouteTable == {"aws_route_table"}
Bucket == {"aws_s3_bucket"}
Role == {"aws_iam_role"}
Key == {"aws_kms_key"}
Lambda == {"aws_lambda_function"}
Placed == {"aws_instance", "aws_network_interface", "aws_lambda_function", "aws_ecs_service",
           "aws_db_instance"}
GroupsOf == {"security_groups", "vpc_security_group_ids", "network_configuration.security_groups"}

\* The group a rule belongs to, or, where it names none that is known, the group it refers to.
SecurityGroupTarget(nodes, id) ==
    LET own == Targets(nodes, id, {"security_group_id"}, SG)
    IN  IF own # {} THEN own ELSE Targets(nodes, id, {"referenced_security_group_id"}, SG)

InferAWSNetwork(nodes) ==
    LET rules == {"aws_vpc_security_group_ingress_rule"}
        open == {id \in OfType(nodes, rules) : "public_cidr" \in nodes[id].flags}
        ruleTargets == UNION {SecurityGroupTarget(nodes, id) : id \in open}
        routes == {id \in OfType(nodes, {"aws_route"}) : "public_cidr" \in nodes[id].flags}
        Routed(attribute, type) ==
            UNION {{<<id, "routes_to", g>> : g \in Targets(nodes, id, {attribute}, {type})} : id \in routes}
        toGateways == Routed("gateway_id", "aws_internet_gateway")
        attached ==
            UNION {{<<s, "attached_to", t>> : s \in Targets(nodes, a, {"subnet_id"}, Subnet),
                                              t \in Targets(nodes, a, {"route_table_id"}, RouteTable)} :
                      a \in OfType(nodes, {"aws_route_table_association"})}
    IN  UNION {
            Public(nodes, SG, {"public_ingress"}, "allows_ingress"),
            Public(nodes, SG, {"public_ingress"}, "has_public_access"),
            To(nodes, SG, {"security_groups"}, SG, "attached_to"),
            {<<Internet, edge, g>> : edge \in {"allows_ingress", "has_public_access"}, g \in ruleTargets},
            Back(nodes, Placed, GroupsOf, SG, "allows_ingress"),
            To(nodes, Placed, GroupsOf, SG, "allows_egress"),
            To(nodes, Placed, {"subnet_id", "network_configuration.subnets"}, Subnet, "contained_in"),
            To(nodes, Subnet, {"vpc_id"}, {"aws_vpc"}, "contained_in"),
            attached,
            Back(nodes, {"aws_route"}, {"route_table_id"}, RouteTable, "attached_to"),
            toGateways, {<<Internet, "routes_to", e[1]>> : e \in toGateways},
            Routed("nat_gateway_id", "aws_nat_gateway")}

InferAWSLoadBalancing(nodes) ==
    LET lb == {"aws_lb"}
        targetGroup == {"aws_lb_target_group"}
        attachments == OfType(nodes, {"aws_lb_target_group_attachment"})
        v2 == {"aws_apigatewayv2_integration"}
        v1 == {"aws_api_gateway_integration"}
        url == {"aws_lambda_function_url"}
    IN  UNION {
            Public(nodes, lb, {"internet_facing"}, "routes_to"),
            Public(nodes, lb, {"internet_facing"}, "has_public_access"),
            Back(nodes, lb, {"security_groups"}, SG, "allows_ingress"),
            Back(nodes, {"aws_lb_listener"}, {"load_balancer_arn"}, lb, "routes_to"),
            To(nodes, {"aws_lb_listener"}, {"target_group_arn"}, targetGroup, "routes_to"),
            UNION {{<<g, "routes_to", t>> : g \in Targets(nodes, a, {"target_group_arn"}, targetGroup),
                                            t \in Targets(nodes, a, {"target_id"}, {})} : a \in attachments},
            {e \in AlwaysPublic(nodes, {"aws_cloudfront_distribution"}, "routes_to") :
                "disabled" \notin nodes[e[3]].flags},
            To(nodes, {"aws_cloudfront_distribution"}, {"domain_name"}, {}, "routes_to"),
            AlwaysPublic(nodes, {"aws_api_gateway_rest_api", "aws_apigatewayv2_api"}, "routes_to"),
            Back(nodes, v2, {"api_id"}, {"aws_apigatewayv2_api"}, "routes_to"),
            To(nodes, v2, {"integration_uri"}, Lambda, "invokes"),
            Back(nodes, v1, {"rest_api_id"}, {"aws_api_gateway_rest_api"}, "routes_to"),
            To(nodes, v1, {"uri"}, Lambda, "invokes"),
            Public(nodes, url, {"authorization_none"}, "routes_to"),
            Public(nodes, url, {"authorization_none"}, "has_public_access"),
            To(nodes, url, {"function_name"}, Lambda, "invokes")}

InferAWSECS(nodes) ==
    Back(nodes, {"aws_ecs_service"}, {"target_group_arn"}, {"aws_lb_target_group"}, "routes_to")
    \union To(nodes, {"aws_ecs_service"}, {"task_definition"}, {"aws_ecs_task_definition"}, "depends_on")
    \union To(nodes, {"aws_ecs_task_definition"}, {"task_role_arn", "execution_role_arn"}, Role, "can_pass_role")

\* A secret is read when any attribute holds one of its identifiers.
InferAWSLambda(nodes) ==
    LET secrets == {id \in DOMAIN nodes : nodes[id].kind = "secret"}
    IN  To(nodes, Lambda, {"role"}, Role, "can_assume")
        \union To(nodes, Lambda, {"kms_key_arn"}, Key, "encrypts_with")
        \union {<<p[1], "reads_secret", p[2]>> : p \in
                   {q \in OfType(nodes, Lambda) \X secrets :
                       \E ref \in nodes[q[1]].refs :
                           ref[2] \in KnownAs(nodes[q[2]], {"address", "name", "arn", "id"})}}

InferAWSRDS(nodes) ==
    LET databases == {"aws_db_instance", "aws_rds_cluster"}
    IN  Public(nodes, databases, {"publicly_accessible"}, "routes_to")
        \union Public(nodes, databases, {"publicly_accessible"}, "has_public_access")
        \union Back(nodes, databases, {"vpc_security_group_ids"}, SG, "allows_ingress")

InferAWSS3(nodes) ==
    LET policies == {p \in OfType(nodes, {"aws_s3_bucket_policy"}) : "public_principal" \in nodes[p].flags}
        open == UNION {Targets(nodes, p, {"bucket"}, Bucket) : p \in policies}
    IN  To(nodes, {"aws_s3_bucket_public_access_block"}, {"bucket"}, Bucket, "attached_to")
        \union {<<Internet, edge, b>> : edge \in {"can_read_data", "has_public_access"}, b \in open}

InferAWSDataProtection(nodes) ==
    LET encrypted == (DataStoreTypes \union {"aws_secretsmanager_secret"})
    IN  To(nodes, encrypted, {"kms_key_id", "kms_key_arn", "key_id"}, Key, "encrypts_with")
        \union To(nodes, encrypted, {"replica_kms_key_id"}, Key, "replicates_to")
        \union To(nodes, {"aws_s3_bucket_public_access_block"}, {"bucket"}, Bucket, "protects")

-----------------------------------------------------------------------------
(* What IAM policies allow *)

\* An action is <<service, verb>>; a pattern may leave the verb or both open.
AnyAction == <<"*", "*">>
ActionMatches(pattern, action) ==
    \/ pattern = AnyAction
    \/ pattern[1] = action[1] /\ pattern[2] \in {"*", action[2]}

ReadActions == {<<"s3", "GetObject">>, <<"kms", "Decrypt">>, <<"secretsmanager", "GetSecretValue">>}
WriteActions == {<<"s3", "PutObject">>, <<"secretsmanager", "PutSecretValue">>}
AssumeRole == <<"sts", "AssumeRole">>
PassRole == <<"iam", "PassRole">>

\* graphPolicyActionMatches, graphPolicyResourceMatches.  A statement of excluded actions
\* is skipped and conditions are not looked at.
Matches(statement, required, node) ==
    /\ statement.notActions = {}
    /\ \E p \in statement.actions, a \in required : ActionMatches(p, a)
    /\ statement.resources \intersect
           ({"*"} \union KnownAs(node, {"address", "name", "arn", "id", "bucket", "identifier"})) # {}

\* graphPolicyAllows: one matching denial is final, whichever of the actions it is about.
GraphPolicyAllows(policy, required, node) ==
    /\ \E i \in DOMAIN policy : policy[i].effect = "allow" /\ Matches(policy[i], required, node)
    /\ ~ \E i \in DOMAIN policy : policy[i].effect = "deny" /\ Matches(policy[i], required, node)

\* inferInlinePolicyAccess
InferInlinePolicyAccess(nodes, principal, policy) ==
    LET Allowed(ids, required) == {id \in ids : GraphPolicyAllows(policy, required, nodes[id])}
        sensitive == {id \in DOMAIN nodes : IsSensitiveKind(nodes[id].kind)}
        secrets == {id \in sensitive : nodes[id].kind = "secret"}
        roles == OfType(nodes, Role)
        Edges(ids, required, edge) == {<<principal, edge, id>> : id \in Allowed(ids, required)}
    IN  UNION {Edges(sensitive, ReadActions, "can_read_data"), Edges(secrets, ReadActions, "reads_secret"),
               Edges(sensitive, WriteActions, "can_write_data"), Edges(sensitive, WriteActions, "writes_to"),
               Edges(roles, {AssumeRole}, "can_assume"), Edges(roles, {PassRole}, "can_pass_role")}

PrincipalFields ==
    [aws_iam_role_policy_attachment |-> <<"role", "aws_iam_role">>,
     aws_iam_user_policy_attachment |-> <<"user", "aws_iam_user">>,
     aws_iam_group_policy_attachment |-> <<"group", "aws_iam_group">>]

\* iamPrincipalForAttachment
PrincipalFor(nodes, attachment) ==
    LET field == PrincipalFields[nodes[attachment].type]
    IN  Targets(nodes, attachment, {field[1]}, {field[2]})

Attach(nodes, principal, policy) ==
    {<<principal, "attached_to", policy>>, <<policy, "grants_permission", principal>>}
    \union InferInlinePolicyAccess(nodes, principal, nodes[policy].policy)

InferAWSIAM(nodes) ==
    LET attachments == OfType(nodes, DOMAIN PrincipalFields)
        inline == OfType(nodes, {"aws_iam_role_policy", "aws_iam_policy"})
    IN  UNION {
            UNION {UNION {Attach(nodes, r, p) : r \in PrincipalFor(nodes, a),
                                                p \in Targets(nodes, a, {"policy_arn"}, {"aws_iam_policy"})} :
                      a \in attachments},
            UNION {UNION {InferInlinePolicyAccess(nodes, r, nodes[p].policy) :
                             r \in Targets(nodes, p, {"role"}, Role)} : p \in inline},
            Back(nodes, Role, {"assume_role_policy"}, {}, "can_assume")}

-----------------------------------------------------------------------------
(* References of the configuration, where the plan knows no value yet *)

ConfigTargets(nodes, config, id, key, types) ==
    {c[3] : c \in {x \in config : x[1] = id /\ x[2] = key /\ x[3] \in OfType(nodes, types)}}

InferConfigurationReferences(nodes, config) ==
    LET Fwd(from, key, types, edge) ==
            UNION {{<<id, edge, t>> : t \in ConfigTargets(nodes, config, id, key, types)} :
                      id \in OfType(nodes, from)}
        Rev(from, key, types, edge) == {<<e[3], edge, e[1]>> : e \in Fwd(from, key, types, edge)}
        service == {"aws_ecs_service"}
        listener == {"aws_lb_listener"}
        attachments == OfType(nodes, {"aws_iam_role_policy_attachment"})
        controls == {"aws_s3_bucket_public_access_block", "aws_s3_bucket_versioning",
                     "aws_s3_bucket_logging", "aws_s3_bucket_server_side_encryption_configuration"}
    IN  UNION {
            Rev({"aws_lb"}, "security_groups", SG, "allows_ingress"),
            Rev(listener, "load_balancer_arn", {"aws_lb"}, "routes_to"),
            Fwd(listener, "target_group_arn", {"aws_lb_target_group"}, "routes_to"),
            Rev(service, "security_groups", SG, "allows_ingress"),
            Fwd(service, "security_groups", SG, "allows_egress"),
            Rev(service, "target_group_arn", {"aws_lb_target_group"}, "routes_to"),
            Fwd(service, "task_definition", {"aws_ecs_task_definition"}, "depends_on"),
            Rev({"aws_db_instance", "aws_rds_cluster"}, "vpc_security_group_ids", SG, "allows_ingress"),
            Fwd(Lambda, "role", Role, "can_assume"),
            Fwd({"aws_lambda_function_url"}, "function_name", Lambda, "invokes"),
            Fwd(controls, "bucket", Bucket, "protects"),
            Fwd({"aws_s3_bucket_policy"}, "bucket", Bucket, "attached_to"),
            UNION {UNION {Attach(nodes, r, p) :
                             r \in ConfigTargets(nodes, config, a, "role", Role),
                             p \in ConfigTargets(nodes, config, a, "policy_arn", {"aws_iam_policy"})} :
                      a \in attachments},
            UNION {UNION {InferInlinePolicyAccess(nodes, r, nodes[p].policy) :
                             r \in ConfigTargets(nodes, config, p, "role", Role)} :
                      p \in OfType(nodes, {"aws_iam_role_policy"})}}

-----------------------------------------------------------------------------
(* The graph: nodes by ID, and the provenance of each edge by its key *)

\* addEdge: endpoints no resource has become synthetic nodes, and loops are dropped.
WithEdges(nodes, keys, provenance) ==
    LET kept == {e \in keys : e[1] # e[3]}
        endpoints == {e[1] : e \in kept} \union {e[3] : e \in kept}
    IN  [nodes |-> Over(nodes, [id \in endpoints |-> SyntheticNode(id)]),
         edges |-> [e \in kept |-> provenance]]

FromPlan == [source |-> "plan", confidence |-> "high"]

\* A dependency may name a node that no resource has.
NamedNodes(plan) == WithEdges(PlanNodes(plan), InferExplicitDependencies(plan), FromPlan).nodes

\* The edges of each step of BuildWithOptions, in its order.
Inferred(nodes, plan) ==
    <<InferExplicitDependencies(plan), InferGenericReferences(nodes),
      InferConfigurationReferences(nodes, plan.config), InferAWSNetwork(nodes),
      InferAWSLoadBalancing(nodes), InferAWSECS(nodes), InferAWSLambda(nodes), InferAWSRDS(nodes),
      InferAWSS3(nodes), InferAWSDataProtection(nodes), InferAWSIAM(nodes)>>

PropagatesEnvironment ==
    {"routes_to", "invokes", "attached_to", "contained_in", "depends_on",
     "allows_ingress", "allows_egress"}

\* One edge of propagateEnvironment: the end that has an environment gives it.
Propagate(environments, edge) ==
    LET from == environments[edge[1]]
        to == environments[edge[3]]
    IN  [environments EXCEPT ![edge[3]] = IF @ = "" THEN from ELSE @,
                             ![edge[1]] = IF @ = "" THEN to ELSE @]
=============================================================================
