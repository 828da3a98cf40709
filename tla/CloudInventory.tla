--------------------------- MODULE CloudInventory ---------------------------
(***************************************************************************)
(* What one read of an AWS service adds to an inventory                    *)
(* (src/internal/cloudcontext/aws_network_edge_collector.go and            *)
(* aws_iam_compute_data_collector.go).  An inventory holds resources by ID *)
(* and relationships; a collector adds the objects of its kinds that exist *)
(* at the moment of the read, with the relationships the service reports.  *)
(***************************************************************************)
EXTENDS Naturals, FiniteSets, Sequences

CONSTANT
    Objects  \* the account: ID -> [kind, region, refs, tags, name, policy]

(***************************************************************************)
(* refs are pairs of a role and the ID it refers to; policy is a sequence  *)
(* of statements [effect, actions, resources, everyone, conditional].  A   *)
(* view is what AWS would answer now: the objects that exist, those open   *)
(* to the internet (by a public route, address, scheme or an additional    *)
(* statement of their policy), and the secondary reads that are denied, of *)
(* "tags" and of resource "policies".                                      *)
(***************************************************************************)
PolicyStatement ==
    [effect: STRING, actions: SUBSET STRING, resources: SUBSET STRING,
     everyone: BOOLEAN, conditional: BOOLEAN]

\* The policy of a bucket, secret or key is a source of its own.
ResourcePolicy(o) == o \o "/policy"

\* IDs are those of AWS, and a route table is associated with subnets of its region.
ASSUME ObjectsAssumption ==
    \A o \in DOMAIN Objects :
        /\ Objects[o] \in [kind: STRING, region: STRING, refs: SUBSET (STRING \X STRING),
                           tags: SUBSET STRING, name: STRING, policy: Seq(PolicyStatement)]
        /\ o # "internet" /\ ResourcePolicy(o) # "internet"
        /\ \A ref \in Objects[o].refs :
              /\ ref[2] # "internet"
              /\ (Objects[o].kind = "aws_route_table" /\ ref[1] = "subnet" /\ ref[2] \in DOMAIN Objects) =>
                    Objects[ref[2]].kind = "aws_subnet" /\ Objects[ref[2]].region = Objects[o].region

Of(view, kind, region) ==
    {o \in view.live : Objects[o].kind = kind /\ Objects[o].region = region}

\* Tags that hold one of the telling words.
SensitiveTags == {"restricted", "private-restricted"}

EmptyInventory == [resources |-> << >>, edges |-> {}]

\* addRelationship; a reference the service does not report adds nothing.
Relationship(from, to, type, confidence) ==
    [from |-> from, to |-> to, type |-> type, confidence |-> confidence]
Edge(from, to, type) == Relationship(from, to, type, "high")
Refs(o, role) == {ref[2] : ref \in {x \in Objects[o].refs : x[1] = role}}
Out(ids, role, type) == UNION {{Edge(o, t, type) : t \in Refs(o, role)} : o \in ids}
Into(ids, role, type) == UNION {{Edge(t, o, type) : t \in Refs(o, role)} : o \in ids}
FromInternet(ids) == {Edge("internet", o, "routes_to") : o \in ids}

\* The pointer Resource.Public: told either way, told when open, never told.
Told(view, ids) == [o \in ids |-> IF o \in view.exposed THEN "public" ELSE "private"]
Untold(ids) == [o \in ids |-> "unknown"]

\* Data stores are sensitive by their tags where the collector has them, or by
\* their names; secrets always.
TaggedStores == {"aws_db_instance", "aws_rds_cluster", "aws_s3_bucket", "aws_efs_file_system"}
NamedStores == TaggedStores \union
    {"aws_opensearch_domain", "aws_elasticache_cluster", "aws_elasticache_replication_group"}

InferSensitivity(o, tags) ==
    \/ Objects[o].kind = "aws_secretsmanager_secret"
    \/ Objects[o].kind \in NamedStores /\ Objects[o].name = "customer"
    \/ Objects[o].kind \in TaggedStores /\ \E t \in tags : t \in SensitiveTags

Over(later, earlier) ==
    [o \in DOMAIN later \union DOMAIN earlier |->
        IF o \in DOMAIN later THEN later[o] ELSE earlier[o]]

\* awsResource; later entries replace earlier ones.
Add(inventory, region, publicity, tagsRead, edges) ==
    [resources |-> Over([o \in DOMAIN publicity |->
                            LET tags == IF tagsRead THEN Objects[o].tags ELSE {}
                            IN  [region |-> region, public |-> publicity[o], tags |-> tags,
                                 sensitive |-> InferSensitivity(o, tags)]],
                        inventory.resources),
     edges |-> inventory.edges \union edges]

Tagged(inventory, region, publicity, edges) == Add(inventory, region, publicity, TRUE, edges)
Untagged(inventory, region, publicity, edges) == Add(inventory, region, publicity, FALSE, edges)

-----------------------------------------------------------------------------
(* Network: EC2 *)

CollectVPCs(inv, view, r) == Tagged(inv, r, Untold(Of(view, "aws_vpc", r)), {})

CollectSubnets(inv, view, r) ==
    LET subnets == Of(view, "aws_subnet", r)
    IN  Tagged(inv, r, Told(view, subnets), Into(subnets, "vpc", "contains"))

CollectInternetGateways(inv, view, r) ==
    LET gateways == Of(view, "aws_internet_gateway", r)
    IN  Tagged(inv, r, Untold(gateways), Out(gateways, "vpc", "attached_to"))

CollectNATGateways(inv, view, r) ==
    LET gateways == Of(view, "aws_nat_gateway", r)
    IN  Tagged(inv, r, Untold(gateways), Into(gateways, "subnet", "contains"))

CollectTransitGateways(inv, view, r) ==
    Tagged(inv, r, Untold(Of(view, "aws_ec2_transit_gateway", r)), {})

\* A resource that is not in the inventory stays out of it.
MarkResourcePublic(inventory, ids) ==
    [inventory EXCEPT !.resources =
        [o \in DOMAIN @ |-> IF o \in ids THEN [@[o] EXCEPT !.public = "public"] ELSE @[o]]]

\* Mutant: subnets of every table are marked, whatever its routes.
CollectRouteTablesBroadly(inv, view, r) ==
    LET tables == Of(view, "aws_route_table", r)
    IN  MarkResourcePublic(
            Tagged(inv, r, Told(view, tables),
                Into(tables, "vpc", "contains") \union Out(tables, "subnet", "associated_with")),
            UNION {Refs(t, "subnet") : t \in tables})

\* Subnets read before are marked public when a public table is associated.
CollectRouteTables(inv, view, r) ==
    LET tables == Of(view, "aws_route_table", r)
        public == tables \intersect view.exposed
    IN  MarkResourcePublic(
            Tagged(inv, r, Told(view, tables),
                Into(tables, "vpc", "contains") \union Out(tables, "subnet", "associated_with")
                \union Out(tables, "gateway", "routes_to") \union FromInternet(public)),
            UNION {Refs(t, "subnet") : t \in public})

CollectSecurityGroups(inv, view, r) ==
    LET groups == Of(view, "aws_security_group", r)
    IN  Tagged(inv, r, Told(view, groups),
            Into(groups, "vpc", "contains") \union Out(groups, "peer", "allows_security_group"))

CollectNetworkInterfaces(inv, view, r) ==
    LET interfaces == Of(view, "aws_network_interface", r)
    IN  Tagged(inv, r, Told(view, interfaces),
            Into(interfaces, "subnet", "contains") \union Into(interfaces, "group", "attached_to")
            \union Out(interfaces, "instance", "attached_to"))

-----------------------------------------------------------------------------
(* Edge: load balancers, gateways, function URLs, distributions *)

CollectLoadBalancers(inv, view, r) ==
    LET lbs == Of(view, "aws_lb", r)
        targetGroups == Of(view, "aws_lb_target_group", r)
        listeners == UNION {Refs(lb, "listener") : lb \in lbs}
        fromLBs == FromInternet(lbs \intersect view.exposed)
                   \union Into(lbs, "group", "protects") \union Out(lbs, "subnet", "attached_to")
                   \union Out(lbs, "listener", "has_listener")
                   \union Out(listeners, "target_group", "routes_to")
        fromGroups == Into(targetGroups, "lb", "routes_to")
                      \union Out(targetGroups, "target", "routes_to")
    IN  Untagged(Untagged(inv, r, Told(view, lbs), fromLBs), r, Untold(targetGroups), fromGroups)

\* A Lambda function or a VPC link is certain, another URI is not.
ConfidenceForAPIIntegration(target) ==
    IF target \in DOMAIN Objects /\ Objects[target].kind \in {"aws_lambda_function", "aws_lb"}
    THEN "high" ELSE "medium"
ToTargets(ids) ==
    UNION {{Relationship(o, t, "routes_to", ConfidenceForAPIIntegration(t)) : t \in Refs(o, "target")} : o \in ids}

CollectAPIGatewayV2(inv, view, r) ==
    LET apis == Of(view, "aws_apigatewayv2_api", r)
        integrations == Of(view, "aws_apigatewayv2_integration", r)
        routes == Of(view, "aws_apigatewayv2_route", r)
        withAPIs == Tagged(inv, r, Told(view, apis), FromInternet(apis \intersect view.exposed))
        withIntegrations ==
            Untagged(withAPIs, r, Untold(integrations),
                Into(integrations, "api", "routes_to") \union ToTargets(integrations)
                \union Out(integrations, "role", "uses_role"))
    IN  Untagged(withIntegrations, r, Told(view, routes),
            Into(routes, "api", "routes_to") \union Out(routes, "integration", "routes_to"))

CollectLambdaFunctionURLs(inv, view, r) ==
    LET urls == Of(view, "aws_lambda_function_url", r)
    IN  Untagged(inv, r, Told(view, urls),
            FromInternet(urls \intersect view.exposed) \union Out(urls, "function", "routes_to"))

\* Distributions are global: read with us-east-1, recorded as "global".
CollectCloudFront(inv, view, r) ==
    LET distributions == Of(view, "aws_cloudfront_distribution", r)
    IN  Untagged(inv, "global", Told(view, distributions),
            FromInternet(distributions \intersect view.exposed)
            \union UNION {{Relationship(d, t, "routes_to", "medium") : t \in Refs(d, "origin")}
                           : d \in distributions})

-----------------------------------------------------------------------------
(* Policies: parsePolicyDocument keeps the union over all statements *)

Allow == "allow"
ForEveryone ==
    [effect |-> Allow, actions |-> {"open"}, resources |-> {}, everyone |-> TRUE, conditional |-> FALSE]

Statements(view, o) ==
    Objects[o].policy \o IF o \in view.exposed THEN <<ForEveryone>> ELSE << >>

(***************************************************************************)
(* Actions and principals of denying statements count too, and a statement *)
(* that allows is broad when it or one before it, whatever its effect,     *)
(* names every action or every resource.                                   *)
(***************************************************************************)
PolicyShape(statements) ==
    LET Named(i) == statements[i].actions \union statements[i].resources
        Allowing == {i \in DOMAIN statements : statements[i].effect = Allow}
        actions == UNION {statements[i].actions : i \in DOMAIN statements}
    IN  [actions |-> actions,
         resources |-> UNION {statements[i].resources : i \in DOMAIN statements},
         everyone |-> \E i \in DOMAIN statements : statements[i].everyone,
         broad |-> \E i \in Allowing : \E j \in 1..i : "*" \in Named(j),
         admin |-> Allowing # {} /\ actions \intersect {"*", "iam:*"} # {},
         complex |-> \E i \in DOMAIN statements : statements[i].conditional]

ConfidenceForPolicy(shape) == IF shape.complex THEN "medium" ELSE "high"

\* addPolicyShapeRelationships
ShapeEdges(id, shape) ==
    {Relationship(id, "action:" \o a, "grants_action", ConfidenceForPolicy(shape)) : a \in shape.actions}
    \union {Relationship(id, t, "grants_resource", ConfidenceForPolicy(shape)) : t \in shape.resources}

Grants(view, ids) == UNION {ShapeEdges(o, PolicyShape(Statements(view, o))) : o \in ids}

ResourceGrants(view, ids) ==
    IF "policies" \in view.denied THEN {}
    ELSE UNION {ShapeEdges(ResourcePolicy(o), PolicyShape(Statements(view, o))) : o \in ids}

-----------------------------------------------------------------------------
(* IAM, once for the account; a role counts the actions of its trust policy *)

CollectRolePolicies(inv, view) ==
    LET roles == Of(view, "aws_iam_role", "global")
        OfRoles(kind) == {p \in Of(view, kind, "global") : Refs(p, "role") \intersect roles # {}}
        attached == OfRoles("aws_iam_policy")
        inline == OfRoles("aws_iam_role_policy")
    IN  Untagged(inv, "global", Untold(attached \union inline),
            Into(attached, "role", "attached_policy") \union Into(inline, "role", "inline_policy")
            \union Grants(view, attached \union inline))

CollectIAMRoles(inv, view) ==
    LET roles == Of(view, "aws_iam_role", "global")
    IN  CollectRolePolicies(
            Tagged(inv, "global", Untold(roles),
                Out(roles, "boundary", "permission_boundary") \union Grants(view, roles)),
            view)

CollectIAMInstanceProfiles(inv, view) ==
    LET profiles == Of(view, "aws_iam_instance_profile", "global")
    IN  Untagged(inv, "global", Untold(profiles), Out(profiles, "role", "contains_role"))

CollectIAMOIDCProviders(inv, view) ==
    Untagged(inv, "global", Untold(Of(view, "aws_iam_openid_connect_provider", "global")), {})

-----------------------------------------------------------------------------
(* Compute *)

CollectEC2Instances(inv, view, r) ==
    LET instances == Of(view, "aws_instance", r)
    IN  Tagged(inv, r, Untold(instances),
            Into(instances, "group", "protects")
            \union Out(instances, "profile", "uses_instance_profile"))

CollectLambdaFunctions(inv, view, r) ==
    LET functions == Of(view, "aws_lambda_function", r)
    IN  Untagged(inv, r, Untold(functions),
            Out(functions, "role", "uses_role") \union Out(functions, "key", "uses_kms_key"))

\* A task definition is read when a service runs it.
CollectECSTaskDefinition(inv, view, r, services) ==
    LET definitions == {d \in Of(view, "aws_ecs_task_definition", r) :
                            \E s \in services : d \in Refs(s, "definition")}
    IN  Untagged(inv, r, Untold(definitions),
            Out(definitions, "role", "uses_role") \union Out(definitions, "secret", "reads_secret"))

CollectECS(inv, view, r) ==
    LET clusters == Of(view, "aws_ecs_cluster", r)
        services == {s \in Of(view, "aws_ecs_service", r) : Refs(s, "cluster") \subseteq clusters}
        withServices ==
            Untagged(inv, r, Untold(clusters \union services),
                Into(services, "cluster", "contains")
                \union Out(services, "definition", "runs_task_definition"))
    IN  CollectECSTaskDefinition(withServices, view, r, services)

CollectEKSNodegroups(inv, view, r, clusters) ==
    LET nodegroups == {n \in Of(view, "aws_eks_node_group", r) : Refs(n, "cluster") \subseteq clusters}
    IN  Tagged(inv, r, Untold(nodegroups),
            Into(nodegroups, "cluster", "contains") \union Out(nodegroups, "role", "uses_role"))

\* EndpointPublicAccess is kept apart from Public.
CollectEKS(inv, view, r) ==
    LET clusters == Of(view, "aws_eks_cluster", r)
    IN  CollectEKSNodegroups(
            Tagged(inv, r, Untold(clusters), Out(clusters, "role", "uses_role")),
            view, r, clusters)

-----------------------------------------------------------------------------
(* Data: the tags of RDS and S3 and the policies are read one by one *)

CollectRDSSubnetGroups(inv, view, r) ==
    LET groups == Of(view, "aws_db_subnet_group", r)
    IN  Untagged(inv, r, Untold(groups), Out(groups, "subnet", "attached_to"))

CollectRDS(inv, view, r) ==
    LET instances == Of(view, "aws_db_instance", r)
        clusters == Of(view, "aws_rds_cluster", r)
        edges == Out(instances, "key", "uses_kms_key") \union Out(clusters, "key", "uses_kms_key")
                 \union Out(instances, "subnet_group", "attached_to")
    IN  CollectRDSSubnetGroups(
            Add(inv, r, Over(Told(view, instances), Untold(clusters)), "tags" \notin view.denied, edges),
            view, r)

\* Publicity read from a resource policy.
PublicByPolicy(view, o) ==
    LET shape == PolicyShape(Statements(view, o))
    IN  shape.everyone \/ shape.broad \/ (shape.admin /\ Objects[o].kind # "aws_secretsmanager_secret")

FromPolicy(view, ids) ==
    [o \in ids |-> IF "policies" \notin view.denied /\ PublicByPolicy(view, o)
                   THEN "public" ELSE "unknown"]

\* Every region lists every bucket, and records it as its own.
CollectS3(inv, view, r) ==
    LET buckets == {o \in view.live : Objects[o].kind = "aws_s3_bucket"}
    IN  Add(inv, r, FromPolicy(view, buckets), "tags" \notin view.denied,
            ResourceGrants(view, buckets))

CollectSecrets(inv, view, r) ==
    LET secrets == Of(view, "aws_secretsmanager_secret", r)
    IN  Tagged(inv, r, FromPolicy(view, secrets),
            Out(secrets, "key", "uses_kms_key")
            \union ResourceGrants(view, secrets))

CollectKMS(inv, view, r) ==
    LET keys == Of(view, "aws_kms_key", r)
    IN  Untagged(inv, r, FromPolicy(view, keys),
            ResourceGrants(view, keys))

CollectOpenSearch(inv, view, r) ==
    LET domains == Of(view, "aws_opensearch_domain", r)
    IN  Untagged(inv, r, Told(view, domains),
            Out(domains, "subnet", "attached_to") \union Into(domains, "group", "protects"))

CollectElastiCache(inv, view, r) ==
    LET clusters == Of(view, "aws_elasticache_cluster", r)
        groups == Of(view, "aws_elasticache_replication_group", r)
    IN  Untagged(inv, r, Untold(clusters \union groups),
            Into(clusters, "group", "protects") \union Out(groups, "key", "uses_kms_key")
            \union Out(groups, "member", "contains"))

CollectEFS(inv, view, r) ==
    LET systems == Of(view, "aws_efs_file_system", r)
        targets == {t \in Of(view, "aws_efs_mount_target", r) : Refs(t, "system") \subseteq systems}
        withSystems == Tagged(inv, r, Untold(systems), Out(systems, "key", "uses_kms_key"))
    IN  Untagged(withSystems, r, Untold(targets),
            Into(targets, "system", "attached_to") \union Out(targets, "subnet", "attached_to")
            \union Out(targets, "interface", "attached_to"))
=============================================================================
