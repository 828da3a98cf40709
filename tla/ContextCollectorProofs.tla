----------------------- MODULE ContextCollectorProofs -----------------------
(***************************************************************************)
(* What a snapshot of a changing account is worth, for every account, any  *)
(* number of regions, changes and faults.  First what one read of each     *)
(* service may add; then what it, a merge and a filter keep true of what   *)
(* was collected; then the order of the visits and the inductive invariant *)
(* of Collect; its steps one by one; and what follows for a loaded file.   *)
(***************************************************************************)
EXTENDS ContextCollector, TLAPS, NaturalsInduction, WellFoundedInduction

(***************************************************************************)
(* One read of one service: what it may add.                               *)
(***************************************************************************)
IsView(view) == view.live \subseteq DOMAIN Objects /\ view.exposed \subseteq view.live \intersect Openable

\* What a read says of an object's publicity was true when it was read, and an
\* open object is said to be one unless its policy could not be read.
Publicity(o, public, view, service, r) ==
    /\ public \in {"public", "private", "unknown"}
    /\ public = "public" => o \in view.exposed \/ (PolicyRead(o, service, r) /\ ReadsAsOpen(o))
    /\ public = "private" => o \notin view.exposed
    /\ o \in view.exposed =>
          \/ public = "public"
          \/ "policies" \in view.denied /\ PolicyRead(o, service, r)

IsRecord(record) ==
    record = [region |-> record.region, public |-> record.public, tags |-> record.tags,
              sensitive |-> record.sensitive]

\* Sensitivity is inferred from the tags that were read.
Inferred(o, record) ==
    record.sensitive <=> InferSensitivity(o, IF record.tags = {} THEN {} ELSE Objects[o].tags)

Recorded(o, record, view, service, r) ==
    IsRecord(record) /\ Publicity(o, record.public, view, service, r) /\ Inferred(o, record)

\* Only what is open is entered from the internet; only route tables are associated.
Plain(edges, view) ==
    \A e \in edges : (e.from = "internet" => e.to \in view.exposed) /\ e.type # "associated_with"

Grows(S, inv, found, view, service, r) ==
    /\ DOMAIN found.resources = DOMAIN inv.resources \union S
    /\ \A o \in S : Recorded(o, found.resources[o], view, service, r)
    /\ \A o \in DOMAIN inv.resources \ S : found.resources[o] = inv.resources[o]
    /\ inv.edges \subseteq found.edges
    /\ Plain(found.edges \ inv.edges, view)

\* Adding resources replaces those of the same IDs and keeps the others.
LEMMA Added ==
    ASSUME NEW inv, NEW view, NEW r, NEW service, NEW S, NEW p, DOMAIN p = S,
           \A o \in S : Publicity(o, p[o], view, service, r),
           NEW region, NEW tagsRead, NEW E, Plain(E, view)
    PROVE  Grows(S, inv, Add(inv, region, p, tagsRead, E), view, service, r)
<1>. DEFINE tags(o) == IF tagsRead THEN Objects[o].tags ELSE {}
            found == Add(inv, region, p, tagsRead, E)
<1>1. /\ DOMAIN found.resources = S \union DOMAIN inv.resources
      /\ \A o \in S : found.resources[o] =
            [region |-> region, public |-> p[o], tags |-> tags(o), sensitive |-> InferSensitivity(o, tags(o))]
      /\ \A o \in DOMAIN inv.resources \ S : found.resources[o] = inv.resources[o]
      /\ found.edges = inv.edges \union E
    BY DEF Add, Over
<1>. HIDE DEF found
<1>2. ASSUME NEW o \in S PROVE Recorded(o, found.resources[o], view, service, r)
    <2>. DEFINE record == [region |-> region, public |-> p[o], tags |-> tags(o),
                           sensitive |-> InferSensitivity(o, tags(o))]
    <2>1. found.resources[o] = record
        BY <1>1
    <2>2. IsRecord(record)
        BY DEF IsRecord
    <2>3. record.sensitive <=> InferSensitivity(o, tags(o))
        OBVIOUS
    <2>4. (IF tags(o) = {} THEN {} ELSE Objects[o].tags) = tags(o)
        OBVIOUS
    <2>5. Inferred(o, record)
        BY <2>3, <2>4 DEF Inferred
    <2>6. Publicity(o, record.public, view, service, r)
        OBVIOUS
    <2>. HIDE DEF record
    <2>. QED  BY <2>1, <2>2, <2>5, <2>6 DEF Recorded
<1>3. Plain(found.edges \ inv.edges, view)
    BY <1>1 DEF Plain
<1>4. Grows(S, inv, found, view, service, r)
    BY <1>1, <1>2, <1>3 DEF Grows
<1>. QED  BY <1>4 DEF found

\* What a read adds in two parts.
LEMMA GrowsTwice ==
    ASSUME NEW inv, NEW mid, NEW found, NEW view, NEW service, NEW r, NEW S, NEW T,
           Grows(S, inv, mid, view, service, r), Grows(T, mid, found, view, service, r)
    PROVE  Grows(S \union T, inv, found, view, service, r)
    BY DEF Grows, Plain

\* An object whose openness the service tells.
LEMMA ToldPublicity ==
    ASSUME NEW view, NEW service, NEW r, NEW S
    PROVE  /\ DOMAIN Told(view, S) = S
           /\ \A o \in S : Publicity(o, Told(view, S)[o], view, service, r)
    BY DEF Told, Publicity

\* An object that is never open.
LEMMA UntoldPublicity ==
    ASSUME NEW view, IsView(view), NEW service, NEW r,
           NEW S, \A o \in S : Objects[o].kind \notin OpenableKinds
    PROVE  /\ DOMAIN Untold(S) = S
           /\ \A o \in S : Publicity(o, Untold(S)[o], view, service, r)
    BY DEF Untold, Publicity, IsView, Openable

\* Objects whose openness is told either way.
LEMMA AddedTold ==
    ASSUME NEW inv, NEW view, NEW service, NEW r, NEW S, NEW region, NEW tagsRead,
           NEW E, Plain(E, view)
    PROVE  Grows(S, inv, Add(inv, region, Told(view, S), tagsRead, E), view, service, r)
    BY Added, ToldPublicity

\* Objects that are never open.
LEMMA AddedUntold ==
    ASSUME NEW inv, NEW view, IsView(view), NEW service, NEW r,
           NEW S, \A o \in S : Objects[o].kind \notin OpenableKinds,
           NEW region, NEW tagsRead, NEW E, Plain(E, view)
    PROVE  Grows(S, inv, Add(inv, region, Untold(S), tagsRead, E), view, service, r)
    BY Added, UntoldPublicity

\* The last of a sequence that one more was added to.
LEMMA LastOfOneMore ==
    ASSUME NEW S, NEW s \in Seq(S), NEW e
    PROVE  Len(s) + 1 \in DOMAIN (s \o <<e>>) /\ (s \o <<e>>)[Len(s) + 1] = e
    OBVIOUS

\* An object whose policy tells.
LEMMA PolicyPublicity ==
    ASSUME NEW view, NEW service, NEW r, NEW S \in SUBSET DOMAIN Objects,
           \A o \in S : PolicyRead(o, service, r)
    PROVE  /\ DOMAIN FromPolicy(view, S) = S
           /\ \A o \in S : Publicity(o, FromPolicy(view, S)[o], view, service, r)
<1>1. ASSUME NEW o \in S PROVE Publicity(o, FromPolicy(view, S)[o], view, service, r)
    <2>. DEFINE policy == Objects[o].policy
    <2>1. policy \in Seq(PolicyStatement)
        BY ObjectsAssumption
    <2>2. CASE o \in view.exposed
        <3>1. Statements(view, o) = policy \o <<ForEveryone>>
            BY <2>2 DEF Statements
        <3>2. /\ Len(policy) + 1 \in DOMAIN (policy \o <<ForEveryone>>)
              /\ (policy \o <<ForEveryone>>)[Len(policy) + 1] = ForEveryone
            BY <2>1, LastOfOneMore
        <3>3. \E i \in DOMAIN Statements(view, o) : Statements(view, o)[i].everyone
            <4>1. ForEveryone.everyone
                BY DEF ForEveryone
            <4>. HIDE DEF policy
            <4>. QED  BY <3>1, <3>2, <4>1
        <3>4. PolicyShape(Statements(view, o)).everyone
            BY <3>3 DEF PolicyShape
        <3>5. PublicByPolicy(view, o)
            BY <3>4 DEF PublicByPolicy
        <3>. QED  BY <2>2, <3>5 DEF FromPolicy, Publicity
    <2>3. CASE o \notin view.exposed
        <3>1. Statements(view, o) = policy
            BY <2>1, <2>3 DEF Statements
        <3>2. PublicByPolicy(view, o) => ReadsAsOpen(o)
            BY <3>1 DEF PublicByPolicy, ReadsAsOpen
        <3>. QED  BY <2>3, <3>2 DEF FromPolicy, Publicity
    <2>. QED  BY <2>2, <2>3
<1>. QED  BY <1>1 DEF FromPolicy

-----------------------------------------------------------------------------
(***************************************************************************)
(* The relationships a read reports.                                       *)
(***************************************************************************)
\* No reference names the internet.
LEMMA Referred ==
    ASSUME NEW o \in DOMAIN Objects, NEW role
    PROVE  "internet" \notin Refs(o, role)
    BY ObjectsAssumption DEF Refs

\* A relationship that objects refer to does not come from the internet.
LEMMA OutIsPlain ==
    ASSUME NEW view, NEW ids, "internet" \notin ids, NEW role, NEW type, type # "associated_with"
    PROVE  Plain(Out(ids, role, type), view)
    BY DEF Plain, Out, Edge, Relationship

\* Nor does one that comes from what they refer to.
LEMMA IntoIsPlain ==
    ASSUME NEW view, NEW ids \in SUBSET DOMAIN Objects, NEW role, NEW type, type # "associated_with"
    PROVE  Plain(Into(ids, role, type), view)
    BY Referred DEF Plain, Into, Edge, Relationship

\* The internet enters what is open.
LEMMA FromInternetIsPlain ==
    ASSUME NEW view, NEW ids, ids \subseteq view.exposed
    PROVE  Plain(FromInternet(ids), view)
    BY DEF Plain, FromInternet, Edge, Relationship

\* What policies grant comes from their objects.
LEMMA GrantsArePlain ==
    ASSUME NEW view, NEW ids \in SUBSET DOMAIN Objects
    PROVE  Plain(Grants(view, ids), view) /\ Plain(ResourceGrants(view, ids), view)
<1>1. \A id, shape : id # "internet" => Plain(ShapeEdges(id, shape), view)
    BY DEF Plain, ShapeEdges, Relationship
<1>2. \A o \in ids : o # "internet" /\ ResourcePolicy(o) # "internet"
    BY ObjectsAssumption
<1>. QED  BY <1>1, <1>2 DEF Plain, Grants, ResourceGrants

\* Two sets of such relationships together.
LEMMA PlainTogether ==
    ASSUME NEW view, NEW E, NEW F, Plain(E, view), Plain(F, view)
    PROVE  Plain(E \union F, view)
    BY DEF Plain

\* What exists in a view has objects for IDs.
LEMMA Existing ==
    ASSUME NEW view, IsView(view), NEW kind, NEW r
    PROVE  /\ Of(view, kind, r) \in SUBSET DOMAIN Objects
           /\ "internet" \notin Of(view, kind, r)
           /\ \A o \in Of(view, kind, r) : Objects[o].kind = kind /\ Objects[o].region = r
    BY ObjectsAssumption DEF IsView, Of

-----------------------------------------------------------------------------
(***************************************************************************)
(* What each service lists, and what its read adds and changes.            *)
(***************************************************************************)
\* The policies of a kind that are attached to a role that exists.
OfRoles(view, kind) ==
    {p \in Of(view, kind, "global") : Refs(p, "role") \intersect Of(view, "aws_iam_role", "global") # {}}
IAMPolicies(view) == OfRoles(view, "aws_iam_policy") \union OfRoles(view, "aws_iam_role_policy")

\* The services of clusters that exist, and the definitions of the tasks they run.
ECSServices(view, r) ==
    {s \in Of(view, "aws_ecs_service", r) : Refs(s, "cluster") \subseteq Of(view, "aws_ecs_cluster", r)}
TaskDefinitions(view, r) ==
    {d \in Of(view, "aws_ecs_task_definition", r) : \E s \in ECSServices(view, r) : d \in Refs(s, "definition")}
Nodegroups(view, r) ==
    {n \in Of(view, "aws_eks_node_group", r) : Refs(n, "cluster") \subseteq Of(view, "aws_eks_cluster", r)}

Buckets(view) == {o \in view.live : Objects[o].kind = "aws_s3_bucket"}
\* The mount targets of file systems that exist.
MountTargets(view, r) ==
    {t \in Of(view, "aws_efs_mount_target", r) : Refs(t, "system") \subseteq Of(view, "aws_efs_file_system", r)}

Listed(service, view, r) ==
    CASE service = "vpcs" -> Of(view, "aws_vpc", r)
      [] service = "subnets" -> Of(view, "aws_subnet", r)
      [] service = "internet_gateways" -> Of(view, "aws_internet_gateway", r)
      [] service = "nat_gateways" -> Of(view, "aws_nat_gateway", r)
      [] service = "transit_gateways" -> Of(view, "aws_ec2_transit_gateway", r)
      [] service = "route_tables" -> Of(view, "aws_route_table", r)
      [] service = "security_groups" -> Of(view, "aws_security_group", r)
      [] service = "network_interfaces" -> Of(view, "aws_network_interface", r)
      [] service = "load_balancers" -> Of(view, "aws_lb", r) \union Of(view, "aws_lb_target_group", r)
      [] service = "api_gateways" ->
            (Of(view, "aws_apigatewayv2_api", r) \union Of(view, "aws_apigatewayv2_integration", r))
            \union Of(view, "aws_apigatewayv2_route", r)
      [] service = "function_urls" -> Of(view, "aws_lambda_function_url", r)
      [] service = "distributions" -> Of(view, "aws_cloudfront_distribution", r)
      [] service = "roles" -> Of(view, "aws_iam_role", "global") \union IAMPolicies(view)
      [] service = "instance_profiles" -> Of(view, "aws_iam_instance_profile", "global")
      [] service = "oidc_providers" -> Of(view, "aws_iam_openid_connect_provider", "global")
      [] service = "instances" -> Of(view, "aws_instance", r)
      [] service = "functions" -> Of(view, "aws_lambda_function", r)
      [] service = "ecs" -> (Of(view, "aws_ecs_cluster", r) \union ECSServices(view, r))
                            \union TaskDefinitions(view, r)
      [] service = "eks" -> Of(view, "aws_eks_cluster", r) \union Nodegroups(view, r)
      [] service = "rds" -> (Of(view, "aws_db_instance", r) \union Of(view, "aws_rds_cluster", r))
                            \union Of(view, "aws_db_subnet_group", r)
      [] service = "s3" -> Buckets(view)
      [] service = "secrets" -> Of(view, "aws_secretsmanager_secret", r)
      [] service = "kms" -> Of(view, "aws_kms_key", r)
      [] service = "opensearch" -> Of(view, "aws_opensearch_domain", r)
      [] service = "elasticache" ->
            Of(view, "aws_elasticache_cluster", r) \union Of(view, "aws_elasticache_replication_group", r)
      [] service = "efs" -> Of(view, "aws_efs_file_system", r) \union MountTargets(view, r)

AllServices ==
    {"vpcs", "subnets", "internet_gateways", "nat_gateways", "transit_gateways", "route_tables",
     "security_groups", "network_interfaces", "load_balancers", "api_gateways", "function_urls",
     "distributions", "roles", "instance_profiles", "oidc_providers", "instances", "functions", "ecs",
     "eks", "rds", "s3", "secrets", "kms", "opensearch", "elasticache", "efs"}

\* The subnets of open route tables.
Marks(service, view, r) ==
    IF service = "route_tables"
    THEN UNION {Refs(t, "subnet") : t \in Of(view, "aws_route_table", r) \intersect view.exposed}
    ELSE {}

Reads(service, inv, found, view, r) ==
    /\ DOMAIN found.resources = DOMAIN inv.resources \union Listed(service, view, r)
    /\ \A o \in Listed(service, view, r) : Recorded(o, found.resources[o], view, service, r)
    /\ \A o \in DOMAIN inv.resources \ Listed(service, view, r) : found.resources[o] =
          IF o \in Marks(service, view, r) THEN [inv.resources[o] EXCEPT !.public = "public"]
          ELSE inv.resources[o]
    /\ inv.edges \subseteq found.edges
    /\ \A e \in found.edges \ inv.edges :
          /\ e.from = "internet" => e.to \in view.exposed
          /\ e.type = "associated_with" =>
                service = "route_tables" /\ e.from \in Listed(service, view, r) /\ e.to \in Refs(e.from, "subnet")

-----------------------------------------------------------------------------
(***************************************************************************)
(* The reads of the network.                                               *)
(***************************************************************************)
\* VPCs.
LEMMA VPCsGrow ==
    ASSUME NEW inv, NEW view, IsView(view), NEW r
    PROVE  Grows(Of(view, "aws_vpc", r), inv, CollectVPCs(inv, view, r), view, "vpcs", r)
<1>. DEFINE S == Of(view, "aws_vpc", r)
<1>1. \A o \in S : Objects[o].kind \notin OpenableKinds
    BY Existing DEF OpenableKinds
<1>2. Plain({}, view)
    BY DEF Plain
<1>. QED  BY <1>1, <1>2, AddedUntold DEF CollectVPCs, Tagged

\* Subnets.
LEMMA SubnetsGrow ==
    ASSUME NEW inv, NEW view, IsView(view), NEW r
    PROVE  Grows(Of(view, "aws_subnet", r), inv, CollectSubnets(inv, view, r), view, "subnets", r)
<1>1. Plain(Into(Of(view, "aws_subnet", r), "vpc", "contains"), view)
    BY Existing, IntoIsPlain
<1>. QED  BY <1>1, AddedTold DEF CollectSubnets, Tagged

\* Internet gateways.
LEMMA InternetGatewaysGrow ==
    ASSUME NEW inv, NEW view, IsView(view), NEW r
    PROVE  Grows(Of(view, "aws_internet_gateway", r), inv, CollectInternetGateways(inv, view, r),
                 view, "internet_gateways", r)
<1>. DEFINE S == Of(view, "aws_internet_gateway", r)
<1>1. \A o \in S : Objects[o].kind \notin OpenableKinds
    BY Existing DEF OpenableKinds
<1>2. Plain(Out(S, "vpc", "attached_to"), view)
    BY Existing, OutIsPlain
<1>. HIDE DEF S
<1>3. Grows(S, inv, Add(inv, r, Untold(S), TRUE, Out(S, "vpc", "attached_to")), view, "internet_gateways", r)
    BY <1>1, <1>2, AddedUntold
<1>. QED  BY <1>3 DEF S, CollectInternetGateways, Tagged

\* NAT gateways.
LEMMA NATGatewaysGrow ==
    ASSUME NEW inv, NEW view, IsView(view), NEW r
    PROVE  Grows(Of(view, "aws_nat_gateway", r), inv, CollectNATGateways(inv, view, r),
                 view, "nat_gateways", r)
<1>. DEFINE S == Of(view, "aws_nat_gateway", r)
<1>1. \A o \in S : Objects[o].kind \notin OpenableKinds
    BY Existing DEF OpenableKinds
<1>2. Plain(Into(S, "subnet", "contains"), view)
    BY Existing, IntoIsPlain
<1>. QED  BY <1>1, <1>2, AddedUntold DEF CollectNATGateways, Tagged

\* Transit gateways.
LEMMA TransitGatewaysGrow ==
    ASSUME NEW inv, NEW view, IsView(view), NEW r
    PROVE  Grows(Of(view, "aws_ec2_transit_gateway", r), inv, CollectTransitGateways(inv, view, r),
                 view, "transit_gateways", r)
<1>1. \A o \in Of(view, "aws_ec2_transit_gateway", r) : Objects[o].kind \notin OpenableKinds
    BY Existing DEF OpenableKinds
<1>2. Plain({}, view)
    BY DEF Plain
<1>. QED  BY <1>1, <1>2, AddedUntold DEF CollectTransitGateways, Tagged

\* Security groups.
LEMMA SecurityGroupsGrow ==
    ASSUME NEW inv, NEW view, IsView(view), NEW r
    PROVE  Grows(Of(view, "aws_security_group", r), inv, CollectSecurityGroups(inv, view, r),
                 view, "security_groups", r)
<1>. DEFINE S == Of(view, "aws_security_group", r)
            E == Into(S, "vpc", "contains") \union Out(S, "peer", "allows_security_group")
<1>1. Plain(Into(S, "vpc", "contains"), view) /\ Plain(Out(S, "peer", "allows_security_group"), view)
    BY Existing, IntoIsPlain, OutIsPlain
<1>2. Plain(E, view)
    BY <1>1, PlainTogether
<1>. QED  BY <1>2, AddedTold DEF CollectSecurityGroups, Tagged

\* Network interfaces.
LEMMA NetworkInterfacesGrow ==
    ASSUME NEW inv, NEW view, IsView(view), NEW r
    PROVE  Grows(Of(view, "aws_network_interface", r), inv, CollectNetworkInterfaces(inv, view, r),
                 view, "network_interfaces", r)
<1>. DEFINE S == Of(view, "aws_network_interface", r)
            E == Into(S, "subnet", "contains") \union Into(S, "group", "attached_to")
                 \union Out(S, "instance", "attached_to")
<1>1. /\ Plain(Into(S, "subnet", "contains"), view) /\ Plain(Into(S, "group", "attached_to"), view)
      /\ Plain(Out(S, "instance", "attached_to"), view)
    BY Existing, IntoIsPlain, OutIsPlain
<1>2. Plain(E, view)
    BY <1>1, PlainTogether
<1>. QED  BY <1>2, AddedTold DEF CollectNetworkInterfaces, Tagged

\* Route tables, with the subnets that an open one marks.
LEMMA RouteTablesGrow ==
    ASSUME NEW inv, NEW view, IsView(view), NEW r
    PROVE  Reads("route_tables", inv, CollectRouteTables(inv, view, r), view, r)
<1>. DEFINE tables == Of(view, "aws_route_table", r)
            public == tables \intersect view.exposed
            marks == UNION {Refs(t, "subnet") : t \in public}
            plain == Into(tables, "vpc", "contains") \union Out(tables, "gateway", "routes_to")
                     \union FromInternet(public)
            associations == Out(tables, "subnet", "associated_with")
            E == Into(tables, "vpc", "contains") \union associations
                 \union Out(tables, "gateway", "routes_to") \union FromInternet(public)
            read == Tagged(inv, r, Told(view, tables), E)
            unrelated == Tagged(inv, r, Told(view, tables), {})
            found == MarkResourcePublic(read, marks)
<1>1. /\ tables \in SUBSET DOMAIN Objects /\ "internet" \notin tables
      /\ \A o \in tables : Objects[o].kind = "aws_route_table"
    BY Existing
<1>2. Plain({}, view)
    BY DEF Plain
<1>3. Grows(tables, inv, unrelated, view, "route_tables", r)
    BY <1>2, AddedTold DEF Tagged
<1>4. tables \intersect marks = {}
    BY <1>1, ObjectsAssumption DEF Refs
<1>5. /\ DOMAIN found.resources = DOMAIN unrelated.resources
      /\ \A o \in DOMAIN unrelated.resources : found.resources[o] =
            IF o \in marks THEN [unrelated.resources[o] EXCEPT !.public = "public"] ELSE unrelated.resources[o]
      /\ found.edges = inv.edges \union E
    BY DEF MarkResourcePublic, Tagged, Add
<1>6. /\ Plain(Into(tables, "vpc", "contains"), view)
      /\ Plain(Out(tables, "gateway", "routes_to"), view)
      /\ Plain(FromInternet(public), view)
    BY <1>1, IntoIsPlain, OutIsPlain, FromInternetIsPlain
<1>7. Plain(plain, view) /\ E = plain \union associations
    BY <1>6, PlainTogether
<1>8. \A e \in associations : e.from \in tables /\ e.from # "internet" /\ e.to \in Refs(e.from, "subnet")
    BY <1>1 DEF Out, Edge, Relationship
<1>9. Listed("route_tables", view, r) = tables /\ Marks("route_tables", view, r) = marks
    BY DEF Listed, Marks
<1>10. CollectRouteTables(inv, view, r) = found
    BY DEF CollectRouteTables
<1>. HIDE DEF tables, marks, plain, associations, E, unrelated, found
<1>11. /\ DOMAIN found.resources = DOMAIN inv.resources \union tables
       /\ \A o \in tables : Recorded(o, found.resources[o], view, "route_tables", r)
       /\ \A o \in DOMAIN inv.resources \ tables : found.resources[o] =
             IF o \in marks THEN [inv.resources[o] EXCEPT !.public = "public"] ELSE inv.resources[o]
    BY <1>3, <1>4, <1>5 DEF Grows
<1>12. /\ inv.edges \subseteq found.edges
       /\ \A e \in found.edges \ inv.edges :
             /\ e.from = "internet" => e.to \in view.exposed
             /\ e.type = "associated_with" => e.from \in tables /\ e.to \in Refs(e.from, "subnet")
    BY <1>5, <1>7, <1>8 DEF Plain
<1>. QED  BY <1>9, <1>10, <1>11, <1>12 DEF Reads

-----------------------------------------------------------------------------
(***************************************************************************)
(* The reads of the edge.                                                  *)
(***************************************************************************)
\* Load balancers, then their target groups.
LEMMA LoadBalancersGrow ==
    ASSUME NEW inv, NEW view, IsView(view), NEW r
    PROVE  Grows(Of(view, "aws_lb", r) \union Of(view, "aws_lb_target_group", r), inv,
                 CollectLoadBalancers(inv, view, r), view, "load_balancers", r)
<1>. DEFINE lbs == Of(view, "aws_lb", r)
            targetGroups == Of(view, "aws_lb_target_group", r)
            listeners == UNION {Refs(lb, "listener") : lb \in lbs}
            fromLBs == FromInternet(lbs \intersect view.exposed)
                       \union Into(lbs, "group", "protects") \union Out(lbs, "subnet", "attached_to")
                       \union Out(lbs, "listener", "has_listener")
                       \union Out(listeners, "target_group", "routes_to")
            fromGroups == Into(targetGroups, "lb", "routes_to")
                          \union Out(targetGroups, "target", "routes_to")
            withLBs == Untagged(inv, r, Told(view, lbs), fromLBs)
<1>1. "internet" \notin listeners
    BY Existing, Referred
<1>2. /\ Plain(FromInternet(lbs \intersect view.exposed), view)
      /\ Plain(Into(lbs, "group", "protects"), view) /\ Plain(Out(lbs, "subnet", "attached_to"), view)
      /\ Plain(Out(lbs, "listener", "has_listener"), view)
      /\ Plain(Into(targetGroups, "lb", "routes_to"), view)
      /\ Plain(Out(targetGroups, "target", "routes_to"), view)
    BY Existing, IntoIsPlain, OutIsPlain, FromInternetIsPlain
<1>3. Plain(Out(listeners, "target_group", "routes_to"), view)
    BY <1>1, OutIsPlain
<1>4. Plain(fromLBs, view) /\ Plain(fromGroups, view)
    BY <1>2, <1>3, PlainTogether
<1>5. \A o \in targetGroups : Objects[o].kind \notin OpenableKinds
    BY Existing DEF OpenableKinds
<1>6. Grows(lbs, inv, withLBs, view, "load_balancers", r)
    BY <1>4, AddedTold DEF Untagged
<1>7. Grows(targetGroups, withLBs, Untagged(withLBs, r, Untold(targetGroups), fromGroups),
            view, "load_balancers", r)
    <2>. HIDE DEF withLBs, fromGroups, targetGroups
    <2>. QED  BY <1>4, <1>5, AddedUntold DEF Untagged
<1>. QED  BY <1>6, <1>7, GrowsTwice DEF CollectLoadBalancers

\* APIs, then their integrations, then their routes.
LEMMA APIGatewaysGrow ==
    ASSUME NEW inv, NEW view, IsView(view), NEW r
    PROVE  Grows((Of(view, "aws_apigatewayv2_api", r) \union Of(view, "aws_apigatewayv2_integration", r))
                     \union Of(view, "aws_apigatewayv2_route", r), inv,
                 CollectAPIGatewayV2(inv, view, r), view, "api_gateways", r)
<1>. DEFINE apis == Of(view, "aws_apigatewayv2_api", r)
            integrations == Of(view, "aws_apigatewayv2_integration", r)
            routes == Of(view, "aws_apigatewayv2_route", r)
            fromAPIs == FromInternet(apis \intersect view.exposed)
            fromIntegrations == Into(integrations, "api", "routes_to") \union ToTargets(integrations)
                                \union Out(integrations, "role", "uses_role")
            fromRoutes == Into(routes, "api", "routes_to") \union Out(routes, "integration", "routes_to")
            withAPIs == Tagged(inv, r, Told(view, apis), fromAPIs)
            withIntegrations == Untagged(withAPIs, r, Untold(integrations), fromIntegrations)
<1>1. Plain(ToTargets(integrations), view)
    BY Existing DEF Plain, ToTargets, Relationship
<1>2. /\ Plain(fromAPIs, view)
      /\ Plain(Into(integrations, "api", "routes_to"), view)
      /\ Plain(Out(integrations, "role", "uses_role"), view)
      /\ Plain(Into(routes, "api", "routes_to"), view)
      /\ Plain(Out(routes, "integration", "routes_to"), view)
    BY Existing, IntoIsPlain, OutIsPlain, FromInternetIsPlain
<1>3. Plain(fromIntegrations, view) /\ Plain(fromRoutes, view)
    BY <1>1, <1>2, PlainTogether
<1>4. \A o \in integrations : Objects[o].kind \notin OpenableKinds
    BY Existing DEF OpenableKinds
<1>5. Grows(apis, inv, withAPIs, view, "api_gateways", r)
    BY <1>2, AddedTold DEF Tagged
<1>6. Grows(integrations, withAPIs, withIntegrations, view, "api_gateways", r)
    <2>. HIDE DEF withAPIs, fromIntegrations, integrations
    <2>. QED  BY <1>3, <1>4, AddedUntold DEF Untagged
<1>7. Grows(routes, withIntegrations, Untagged(withIntegrations, r, Told(view, routes), fromRoutes),
            view, "api_gateways", r)
    <2>. HIDE DEF withIntegrations, fromRoutes, routes
    <2>. QED  BY <1>3, AddedTold DEF Untagged
<1>8. Grows(apis \union integrations, inv, withIntegrations, view, "api_gateways", r)
    <2>. HIDE DEF withAPIs, withIntegrations, apis, integrations
    <2>. QED  BY <1>5, <1>6, GrowsTwice
<1>. QED  BY <1>7, <1>8, GrowsTwice DEF CollectAPIGatewayV2

\* Function URLs.
LEMMA FunctionURLsGrow ==
    ASSUME NEW inv, NEW view, IsView(view), NEW r
    PROVE  Grows(Of(view, "aws_lambda_function_url", r), inv, CollectLambdaFunctionURLs(inv, view, r),
                 view, "function_urls", r)
<1>. DEFINE S == Of(view, "aws_lambda_function_url", r)
            E == FromInternet(S \intersect view.exposed) \union Out(S, "function", "routes_to")
<1>1. Plain(FromInternet(S \intersect view.exposed), view) /\ Plain(Out(S, "function", "routes_to"), view)
    BY Existing, FromInternetIsPlain, OutIsPlain
<1>2. Plain(E, view)
    BY <1>1, PlainTogether
<1>. QED  BY <1>2, AddedTold DEF CollectLambdaFunctionURLs, Untagged

\* Distributions, wherever they are recorded.
LEMMA DistributionsGrow ==
    ASSUME NEW inv, NEW view, IsView(view), NEW r
    PROVE  Grows(Of(view, "aws_cloudfront_distribution", r), inv, CollectCloudFront(inv, view, r),
                 view, "distributions", r)
<1>. DEFINE S == Of(view, "aws_cloudfront_distribution", r)
            origins == UNION {{Relationship(d, t, "routes_to", "medium") : t \in Refs(d, "origin")} : d \in S}
            E == FromInternet(S \intersect view.exposed) \union origins
<1>1. Plain(FromInternet(S \intersect view.exposed), view)
    BY FromInternetIsPlain
<1>2. Plain(origins, view)
    BY Existing DEF Plain, Relationship
<1>3. Plain(E, view)
    BY <1>1, <1>2, PlainTogether
<1>. QED  BY <1>3, AddedTold DEF CollectCloudFront, Untagged

-----------------------------------------------------------------------------
(***************************************************************************)
(* The reads of identities and of what computes.                           *)
(***************************************************************************)
\* The policies of roles, attached and inline.
LEMMA RolePoliciesGrow ==
    ASSUME NEW inv, NEW view, IsView(view), NEW r
    PROVE  Grows(IAMPolicies(view), inv, CollectRolePolicies(inv, view), view, "roles", r)
<1>. DEFINE attached == OfRoles(view, "aws_iam_policy")
            inline == OfRoles(view, "aws_iam_role_policy")
            E == Into(attached, "role", "attached_policy") \union Into(inline, "role", "inline_policy")
                 \union Grants(view, attached \union inline)
<1>1. /\ attached \in SUBSET DOMAIN Objects /\ inline \in SUBSET DOMAIN Objects
      /\ \A o \in attached \union inline : Objects[o].kind \in {"aws_iam_policy", "aws_iam_role_policy"}
    BY Existing DEF OfRoles
<1>2. \A o \in attached \union inline : Objects[o].kind \notin OpenableKinds
    BY <1>1 DEF OpenableKinds
<1>3. /\ Plain(Into(attached, "role", "attached_policy"), view)
      /\ Plain(Into(inline, "role", "inline_policy"), view)
      /\ Plain(Grants(view, attached \union inline), view)
    BY <1>1, IntoIsPlain, GrantsArePlain
<1>4. Plain(E, view)
    BY <1>3, PlainTogether
<1>5. CollectRolePolicies(inv, view) = Add(inv, "global", Untold(attached \union inline), FALSE, E)
    BY DEF CollectRolePolicies, OfRoles, Untagged
<1>. HIDE DEF attached, inline, E
<1>6. Grows(attached \union inline, inv, Add(inv, "global", Untold(attached \union inline), FALSE, E),
            view, "roles", r)
    BY <1>2, <1>4, AddedUntold
<1>. QED  BY <1>5, <1>6 DEF IAMPolicies, attached, inline

\* Roles, then their policies.
LEMMA RolesGrow ==
    ASSUME NEW inv, NEW view, IsView(view), NEW r
    PROVE  Grows(Of(view, "aws_iam_role", "global") \union IAMPolicies(view), inv,
                 CollectIAMRoles(inv, view), view, "roles", r)
<1>. DEFINE roles == Of(view, "aws_iam_role", "global")
            E == Out(roles, "boundary", "permission_boundary") \union Grants(view, roles)
            withRoles == Tagged(inv, "global", Untold(roles), E)
<1>1. Plain(Out(roles, "boundary", "permission_boundary"), view) /\ Plain(Grants(view, roles), view)
    BY Existing, OutIsPlain, GrantsArePlain
<1>2. Plain(E, view)
    BY <1>1, PlainTogether
<1>3. \A o \in roles : Objects[o].kind \notin OpenableKinds
    BY Existing DEF OpenableKinds
<1>4. Grows(roles, inv, withRoles, view, "roles", r)
    <2>. HIDE DEF roles, E
    <2>. QED  BY <1>2, <1>3, AddedUntold DEF Tagged
<1>5. Grows(IAMPolicies(view), withRoles, CollectRolePolicies(withRoles, view), view, "roles", r)
    <2>. HIDE DEF withRoles
    <2>. QED  BY RolePoliciesGrow
<1>6. CollectIAMRoles(inv, view) = CollectRolePolicies(withRoles, view)
    BY DEF CollectIAMRoles
<1>. HIDE DEF withRoles
<1>. QED  BY <1>4, <1>5, <1>6, GrowsTwice

\* Instance profiles.
LEMMA InstanceProfilesGrow ==
    ASSUME NEW inv, NEW view, IsView(view), NEW r
    PROVE  Grows(Of(view, "aws_iam_instance_profile", "global"), inv, CollectIAMInstanceProfiles(inv, view),
                 view, "instance_profiles", r)
<1>. DEFINE S == Of(view, "aws_iam_instance_profile", "global")
<1>1. \A o \in S : Objects[o].kind \notin OpenableKinds
    BY Existing DEF OpenableKinds
<1>2. Plain(Out(S, "role", "contains_role"), view)
    BY Existing, OutIsPlain
<1>. QED  BY <1>1, <1>2, AddedUntold DEF CollectIAMInstanceProfiles, Untagged

\* OIDC providers.
LEMMA OIDCProvidersGrow ==
    ASSUME NEW inv, NEW view, IsView(view), NEW r
    PROVE  Grows(Of(view, "aws_iam_openid_connect_provider", "global"), inv,
                 CollectIAMOIDCProviders(inv, view), view, "oidc_providers", r)
<1>1. \A o \in Of(view, "aws_iam_openid_connect_provider", "global") : Objects[o].kind \notin OpenableKinds
    BY Existing DEF OpenableKinds
<1>2. Plain({}, view)
    BY DEF Plain
<1>. QED  BY <1>1, <1>2, AddedUntold DEF CollectIAMOIDCProviders, Untagged

\* Instances.
LEMMA InstancesGrow ==
    ASSUME NEW inv, NEW view, IsView(view), NEW r
    PROVE  Grows(Of(view, "aws_instance", r), inv, CollectEC2Instances(inv, view, r), view, "instances", r)
<1>. DEFINE S == Of(view, "aws_instance", r)
            E == Into(S, "group", "protects") \union Out(S, "profile", "uses_instance_profile")
<1>1. \A o \in S : Objects[o].kind \notin OpenableKinds
    BY Existing DEF OpenableKinds
<1>2. Plain(Into(S, "group", "protects"), view) /\ Plain(Out(S, "profile", "uses_instance_profile"), view)
    BY Existing, IntoIsPlain, OutIsPlain
<1>3. Plain(E, view)
    BY <1>2, PlainTogether
<1>. QED  BY <1>1, <1>3, AddedUntold DEF CollectEC2Instances, Tagged

\* Functions.
LEMMA FunctionsGrow ==
    ASSUME NEW inv, NEW view, IsView(view), NEW r
    PROVE  Grows(Of(view, "aws_lambda_function", r), inv, CollectLambdaFunctions(inv, view, r),
                 view, "functions", r)
<1>. DEFINE S == Of(view, "aws_lambda_function", r)
            E == Out(S, "role", "uses_role") \union Out(S, "key", "uses_kms_key")
<1>1. \A o \in S : Objects[o].kind \notin OpenableKinds
    BY Existing DEF OpenableKinds
<1>2. Plain(Out(S, "role", "uses_role"), view) /\ Plain(Out(S, "key", "uses_kms_key"), view)
    BY Existing, OutIsPlain
<1>3. Plain(E, view)
    BY <1>2, PlainTogether
<1>. QED  BY <1>1, <1>3, AddedUntold DEF CollectLambdaFunctions, Untagged

\* Clusters and services, then the definitions of the tasks they run.
LEMMA ECSGrows ==
    ASSUME NEW inv, NEW view, IsView(view), NEW r
    PROVE  Grows((Of(view, "aws_ecs_cluster", r) \union ECSServices(view, r)) \union TaskDefinitions(view, r),
                 inv, CollectECS(inv, view, r), view, "ecs", r)
<1>. DEFINE clusters == Of(view, "aws_ecs_cluster", r)
            services == ECSServices(view, r)
            definitions == TaskDefinitions(view, r)
            E == Into(services, "cluster", "contains") \union Out(services, "definition", "runs_task_definition")
            F == Out(definitions, "role", "uses_role") \union Out(definitions, "secret", "reads_secret")
            withServices == Untagged(inv, r, Untold(clusters \union services), E)
<1>1. /\ services \in SUBSET DOMAIN Objects /\ "internet" \notin services /\ "internet" \notin definitions
      /\ \A o \in clusters : Objects[o].kind = "aws_ecs_cluster"
      /\ \A o \in services : Objects[o].kind = "aws_ecs_service"
      /\ \A o \in definitions : Objects[o].kind = "aws_ecs_task_definition"
    BY Existing DEF ECSServices, TaskDefinitions
<1>2. \A o \in (clusters \union services) \union definitions : Objects[o].kind \notin OpenableKinds
    BY <1>1 DEF OpenableKinds
<1>3. /\ Plain(Into(services, "cluster", "contains"), view)
      /\ Plain(Out(services, "definition", "runs_task_definition"), view)
      /\ Plain(Out(definitions, "role", "uses_role"), view)
      /\ Plain(Out(definitions, "secret", "reads_secret"), view)
    BY <1>1, IntoIsPlain, OutIsPlain
<1>4. Plain(E, view) /\ Plain(F, view)
    BY <1>3, PlainTogether
<1>5. CollectECS(inv, view, r) = Add(withServices, r, Untold(definitions), FALSE, F)
    BY DEF CollectECS, CollectECSTaskDefinition, ECSServices, TaskDefinitions, Untagged
<1>. HIDE DEF clusters, services, definitions, E, F
<1>6. Grows(clusters \union services, inv, withServices, view, "ecs", r)
    BY <1>2, <1>4, AddedUntold DEF Untagged
<1>. HIDE DEF withServices
<1>7. Grows(definitions, withServices, Add(withServices, r, Untold(definitions), FALSE, F), view, "ecs", r)
    BY <1>2, <1>4, AddedUntold
<1>8. Grows((clusters \union services) \union definitions, inv, CollectECS(inv, view, r), view, "ecs", r)
    BY <1>5, <1>6, <1>7, GrowsTwice
<1>. QED  BY <1>8 DEF clusters, services, definitions

\* Clusters, then their node groups.
LEMMA EKSGrows ==
    ASSUME NEW inv, NEW view, IsView(view), NEW r
    PROVE  Grows(Of(view, "aws_eks_cluster", r) \union Nodegroups(view, r), inv,
                 CollectEKS(inv, view, r), view, "eks", r)
<1>. DEFINE clusters == Of(view, "aws_eks_cluster", r)
            nodegroups == Nodegroups(view, r)
            E == Out(clusters, "role", "uses_role")
            F == Into(nodegroups, "cluster", "contains") \union Out(nodegroups, "role", "uses_role")
            withClusters == Tagged(inv, r, Untold(clusters), E)
<1>1. /\ nodegroups \in SUBSET DOMAIN Objects /\ "internet" \notin nodegroups /\ "internet" \notin clusters
      /\ \A o \in clusters : Objects[o].kind = "aws_eks_cluster"
      /\ \A o \in nodegroups : Objects[o].kind = "aws_eks_node_group"
    BY Existing DEF Nodegroups
<1>2. \A o \in clusters \union nodegroups : Objects[o].kind \notin OpenableKinds
    BY <1>1 DEF OpenableKinds
<1>3. /\ Plain(E, view) /\ Plain(Into(nodegroups, "cluster", "contains"), view)
      /\ Plain(Out(nodegroups, "role", "uses_role"), view)
    BY <1>1, IntoIsPlain, OutIsPlain
<1>4. Plain(F, view)
    BY <1>3, PlainTogether
<1>5. CollectEKS(inv, view, r) = Add(withClusters, r, Untold(nodegroups), TRUE, F)
    BY DEF CollectEKS, CollectEKSNodegroups, Nodegroups, Tagged
<1>. HIDE DEF clusters, nodegroups, E, F
<1>6. Grows(clusters, inv, withClusters, view, "eks", r)
    BY <1>2, <1>3, AddedUntold DEF Tagged
<1>. HIDE DEF withClusters
<1>7. Grows(nodegroups, withClusters, Add(withClusters, r, Untold(nodegroups), TRUE, F), view, "eks", r)
    BY <1>2, <1>4, AddedUntold
<1>8. Grows(clusters \union nodegroups, inv, CollectEKS(inv, view, r), view, "eks", r)
    BY <1>5, <1>6, <1>7, GrowsTwice
<1>. QED  BY <1>8 DEF clusters, nodegroups

-----------------------------------------------------------------------------
(***************************************************************************)
(* The reads of data stores.                                               *)
(***************************************************************************)
\* Database instances and clusters, then subnet groups.
LEMMA RDSGrows ==
    ASSUME NEW inv, NEW view, IsView(view), NEW r
    PROVE  Grows((Of(view, "aws_db_instance", r) \union Of(view, "aws_rds_cluster", r))
                     \union Of(view, "aws_db_subnet_group", r), inv,
                 CollectRDS(inv, view, r), view, "rds", r)
<1>. DEFINE instances == Of(view, "aws_db_instance", r)
            clusters == Of(view, "aws_rds_cluster", r)
            groups == Of(view, "aws_db_subnet_group", r)
            E == Out(instances, "key", "uses_kms_key") \union Out(clusters, "key", "uses_kms_key")
                 \union Out(instances, "subnet_group", "attached_to")
            F == Out(groups, "subnet", "attached_to")
            publicity == Over(Told(view, instances), Untold(clusters))
            withStores == Add(inv, r, publicity, "tags" \notin view.denied, E)
<1>1. /\ "internet" \notin instances /\ "internet" \notin clusters /\ "internet" \notin groups
      /\ \A o \in clusters : Objects[o].kind = "aws_rds_cluster"
      /\ \A o \in groups : Objects[o].kind = "aws_db_subnet_group"
    BY Existing
<1>2. \A o \in clusters \union groups : Objects[o].kind \notin OpenableKinds
    BY <1>1 DEF OpenableKinds
<1>3. /\ Plain(Out(instances, "key", "uses_kms_key"), view) /\ Plain(Out(clusters, "key", "uses_kms_key"), view)
      /\ Plain(Out(instances, "subnet_group", "attached_to"), view) /\ Plain(F, view)
    BY <1>1, OutIsPlain
<1>4. Plain(E, view)
    BY <1>3, PlainTogether
<1>5. CollectRDS(inv, view, r) = Add(withStores, r, Untold(groups), FALSE, F)
    BY DEF CollectRDS, CollectRDSSubnetGroups, Untagged
<1>. HIDE DEF instances, clusters, groups, E, F
<1>6. /\ DOMAIN publicity = instances \union clusters
      /\ \A o \in instances \union clusters : Publicity(o, publicity[o], view, "rds", r)
    BY <1>2, ToldPublicity, UntoldPublicity DEF Over
<1>. HIDE DEF publicity
<1>7. Grows(instances \union clusters, inv, withStores, view, "rds", r)
    BY <1>4, <1>6, Added
<1>. HIDE DEF withStores
<1>8. Grows(groups, withStores, Add(withStores, r, Untold(groups), FALSE, F), view, "rds", r)
    BY <1>2, <1>3, AddedUntold
<1>9. Grows((instances \union clusters) \union groups, inv, CollectRDS(inv, view, r), view, "rds", r)
    BY <1>5, <1>7, <1>8, GrowsTwice
<1>. QED  BY <1>9 DEF instances, clusters, groups

\* Buckets, whose policies may be denied.
LEMMA S3Grows ==
    ASSUME NEW inv, NEW view, IsView(view), NEW r
    PROVE  Grows(Buckets(view), inv, CollectS3(inv, view, r), view, "s3", r)
<1>1. Buckets(view) \in SUBSET DOMAIN Objects
    BY DEF Buckets, IsView
<1>2. \A o \in Buckets(view) : PolicyRead(o, "s3", r)
    BY DEF Buckets, PolicyRead, PolicyKind
<1>3. Plain(ResourceGrants(view, Buckets(view)), view)
    BY <1>1, GrantsArePlain
<1>. DEFINE tagsRead == "tags" \notin view.denied
<1>4. CollectS3(inv, view, r) = Add(inv, r, FromPolicy(view, Buckets(view)), tagsRead,
                                    ResourceGrants(view, Buckets(view)))
    BY DEF CollectS3, Buckets
<1>5. Grows(Buckets(view), inv, Add(inv, r, FromPolicy(view, Buckets(view)), tagsRead,
                                    ResourceGrants(view, Buckets(view))), view, "s3", r)
    <2>. HIDE DEF tagsRead
    <2>. QED  BY <1>1, <1>2, <1>3, PolicyPublicity, Added
<1>. HIDE DEF tagsRead
<1>. QED  BY <1>4, <1>5

\* Secrets, whose policies may be denied.
LEMMA SecretsGrow ==
    ASSUME NEW inv, NEW view, IsView(view), NEW r
    PROVE  Grows(Of(view, "aws_secretsmanager_secret", r), inv, CollectSecrets(inv, view, r), view, "secrets", r)
<1>. DEFINE S == Of(view, "aws_secretsmanager_secret", r)
            E == Out(S, "key", "uses_kms_key") \union ResourceGrants(view, S)
<1>1. S \in SUBSET DOMAIN Objects /\ \A o \in S : PolicyRead(o, "secrets", r)
    BY Existing DEF PolicyRead, PolicyKind
<1>2. Plain(Out(S, "key", "uses_kms_key"), view) /\ Plain(ResourceGrants(view, S), view)
    BY Existing, OutIsPlain, GrantsArePlain
<1>3. Plain(E, view)
    BY <1>2, PlainTogether
<1>4. CollectSecrets(inv, view, r) = Add(inv, r, FromPolicy(view, S), TRUE, E)
    BY DEF CollectSecrets, Tagged
<1>5. Grows(S, inv, Add(inv, r, FromPolicy(view, S), TRUE, E), view, "secrets", r)
    <2>. HIDE DEF S, E
    <2>. QED  BY <1>1, <1>3, PolicyPublicity, Added
<1>. QED  BY <1>4, <1>5

\* Keys, whose policies may be denied.
LEMMA KMSGrows ==
    ASSUME NEW inv, NEW view, IsView(view), NEW r
    PROVE  Grows(Of(view, "aws_kms_key", r), inv, CollectKMS(inv, view, r), view, "kms", r)
<1>. DEFINE S == Of(view, "aws_kms_key", r)
<1>1. S \in SUBSET DOMAIN Objects /\ \A o \in S : PolicyRead(o, "kms", r)
    BY Existing DEF PolicyRead, PolicyKind
<1>2. Plain(ResourceGrants(view, S), view)
    BY <1>1, GrantsArePlain
<1>3. CollectKMS(inv, view, r) = Add(inv, r, FromPolicy(view, S), FALSE, ResourceGrants(view, S))
    BY DEF CollectKMS, Untagged
<1>4. Grows(S, inv, Add(inv, r, FromPolicy(view, S), FALSE, ResourceGrants(view, S)), view, "kms", r)
    <2>. HIDE DEF S
    <2>. QED  BY <1>1, <1>2, PolicyPublicity, Added
<1>. QED  BY <1>3, <1>4

\* Search domains.
LEMMA OpenSearchGrows ==
    ASSUME NEW inv, NEW view, IsView(view), NEW r
    PROVE  Grows(Of(view, "aws_opensearch_domain", r), inv, CollectOpenSearch(inv, view, r), view, "opensearch", r)
<1>. DEFINE S == Of(view, "aws_opensearch_domain", r)
            E == Out(S, "subnet", "attached_to") \union Into(S, "group", "protects")
<1>1. Plain(Out(S, "subnet", "attached_to"), view) /\ Plain(Into(S, "group", "protects"), view)
    BY Existing, OutIsPlain, IntoIsPlain
<1>2. Plain(E, view)
    BY <1>1, PlainTogether
<1>. QED  BY <1>2, AddedTold DEF CollectOpenSearch, Untagged

\* Caches and replication groups.
LEMMA ElastiCacheGrows ==
    ASSUME NEW inv, NEW view, IsView(view), NEW r
    PROVE  Grows(Of(view, "aws_elasticache_cluster", r) \union Of(view, "aws_elasticache_replication_group", r),
                 inv, CollectElastiCache(inv, view, r), view, "elasticache", r)
<1>. DEFINE clusters == Of(view, "aws_elasticache_cluster", r)
            groups == Of(view, "aws_elasticache_replication_group", r)
            E == Into(clusters, "group", "protects") \union Out(groups, "key", "uses_kms_key")
                 \union Out(groups, "member", "contains")
<1>1. /\ \A o \in clusters : Objects[o].kind = "aws_elasticache_cluster"
      /\ \A o \in groups : Objects[o].kind = "aws_elasticache_replication_group"
    BY Existing
<1>2. \A o \in clusters \union groups : Objects[o].kind \notin OpenableKinds
    BY <1>1 DEF OpenableKinds
<1>3. /\ Plain(Into(clusters, "group", "protects"), view) /\ Plain(Out(groups, "key", "uses_kms_key"), view)
      /\ Plain(Out(groups, "member", "contains"), view)
    BY Existing, OutIsPlain, IntoIsPlain
<1>4. Plain(E, view)
    BY <1>3, PlainTogether
<1>5. CollectElastiCache(inv, view, r) = Add(inv, r, Untold(clusters \union groups), FALSE, E)
    BY DEF CollectElastiCache, Untagged
<1>6. Grows(clusters \union groups, inv, Add(inv, r, Untold(clusters \union groups), FALSE, E),
            view, "elasticache", r)
    <2>. HIDE DEF clusters, groups, E
    <2>. QED  BY <1>2, <1>4, AddedUntold
<1>. QED  BY <1>5, <1>6

\* File systems, then their mount targets.
LEMMA EFSGrows ==
    ASSUME NEW inv, NEW view, IsView(view), NEW r
    PROVE  Grows(Of(view, "aws_efs_file_system", r) \union MountTargets(view, r), inv,
                 CollectEFS(inv, view, r), view, "efs", r)
<1>. DEFINE systems == Of(view, "aws_efs_file_system", r)
            targets == MountTargets(view, r)
            E == Out(systems, "key", "uses_kms_key")
            F == Into(targets, "system", "attached_to") \union Out(targets, "subnet", "attached_to")
                 \union Out(targets, "interface", "attached_to")
            withSystems == Tagged(inv, r, Untold(systems), E)
<1>1. /\ targets \in SUBSET DOMAIN Objects /\ "internet" \notin targets /\ "internet" \notin systems
      /\ \A o \in systems : Objects[o].kind = "aws_efs_file_system"
      /\ \A o \in targets : Objects[o].kind = "aws_efs_mount_target"
    BY Existing DEF MountTargets
<1>2. \A o \in systems \union targets : Objects[o].kind \notin OpenableKinds
    BY <1>1 DEF OpenableKinds
<1>3. /\ Plain(E, view) /\ Plain(Into(targets, "system", "attached_to"), view)
      /\ Plain(Out(targets, "subnet", "attached_to"), view)
      /\ Plain(Out(targets, "interface", "attached_to"), view)
    BY <1>1, IntoIsPlain, OutIsPlain
<1>4. Plain(F, view)
    BY <1>3, PlainTogether
<1>5. CollectEFS(inv, view, r) = Add(withSystems, r, Untold(targets), FALSE, F)
    BY DEF CollectEFS, MountTargets, Untagged
<1>. HIDE DEF systems, targets, E, F
<1>6. Grows(systems, inv, withSystems, view, "efs", r)
    BY <1>2, <1>3, AddedUntold DEF Tagged
<1>. HIDE DEF withSystems
<1>7. Grows(targets, withSystems, Add(withSystems, r, Untold(targets), FALSE, F), view, "efs", r)
    BY <1>2, <1>4, AddedUntold
<1>8. Grows(systems \union targets, inv, CollectEFS(inv, view, r), view, "efs", r)
    BY <1>5, <1>6, <1>7, GrowsTwice
<1>. QED  BY <1>8 DEF systems, targets

-----------------------------------------------------------------------------
(***************************************************************************)
(* Any service.                                                            *)
(***************************************************************************)
\* Every service adds what it lists.
LEMMA Growing ==
    ASSUME NEW service \in AllServices \ {"route_tables"}, NEW inv, NEW view, IsView(view), NEW r
    PROVE  Grows(Listed(service, view, r), inv, Collected(service, inv, view, r), view, service, r)
<1>1. CASE service = "vpcs"
    BY <1>1, VPCsGrow DEF Listed, Collected
<1>2. CASE service = "subnets"
    BY <1>2, SubnetsGrow DEF Listed, Collected
<1>3. CASE service = "internet_gateways"
    BY <1>3, InternetGatewaysGrow DEF Listed, Collected
<1>4. CASE service = "nat_gateways"
    BY <1>4, NATGatewaysGrow DEF Listed, Collected
<1>5. CASE service = "transit_gateways"
    BY <1>5, TransitGatewaysGrow DEF Listed, Collected
<1>6. CASE service = "security_groups"
    BY <1>6, SecurityGroupsGrow DEF Listed, Collected
<1>7. CASE service = "network_interfaces"
    BY <1>7, NetworkInterfacesGrow DEF Listed, Collected
<1>8. CASE service = "load_balancers"
    BY <1>8, LoadBalancersGrow DEF Listed, Collected
<1>9. CASE service = "api_gateways"
    BY <1>9, APIGatewaysGrow DEF Listed, Collected
<1>10. CASE service = "function_urls"
    BY <1>10, FunctionURLsGrow DEF Listed, Collected
<1>11. CASE service = "distributions"
    BY <1>11, DistributionsGrow DEF Listed, Collected
<1>12. CASE service = "roles"
    BY <1>12, RolesGrow DEF Listed, Collected
<1>13. CASE service = "instance_profiles"
    BY <1>13, InstanceProfilesGrow DEF Listed, Collected
<1>14. CASE service = "oidc_providers"
    BY <1>14, OIDCProvidersGrow DEF Listed, Collected
<1>15. CASE service = "instances"
    BY <1>15, InstancesGrow DEF Listed, Collected
<1>16. CASE service = "functions"
    BY <1>16, FunctionsGrow DEF Listed, Collected
<1>17. CASE service = "ecs"
    BY <1>17, ECSGrows DEF Listed, Collected
<1>18. CASE service = "eks"
    BY <1>18, EKSGrows DEF Listed, Collected
<1>19. CASE service = "rds"
    BY <1>19, RDSGrows DEF Listed, Collected
<1>20. CASE service = "s3"
    BY <1>20, S3Grows DEF Listed, Collected
<1>21. CASE service = "secrets"
    BY <1>21, SecretsGrow DEF Listed, Collected
<1>22. CASE service = "kms"
    BY <1>22, KMSGrows DEF Listed, Collected
<1>23. CASE service = "opensearch"
    BY <1>23, OpenSearchGrows DEF Listed, Collected
<1>24. CASE service = "elasticache"
    BY <1>24, ElastiCacheGrows DEF Listed, Collected
<1>25. CASE service = "efs"
    BY <1>25, EFSGrows DEF Listed, Collected
<1>. QED  BY <1>1, <1>2, <1>3, <1>4, <1>5, <1>6, <1>7, <1>8, <1>9, <1>10, <1>11,
             <1>12, <1>13, <1>14, <1>15, <1>16, <1>17, <1>18, <1>19, <1>20, <1>21, <1>22, <1>23,
             <1>24, <1>25 DEF AllServices

\* Every service reads as Reads says: marking subnets is the only change of what was there.
LEMMA Reading ==
    ASSUME NEW service \in AllServices, NEW inv, NEW view, IsView(view), NEW r
    PROVE  Reads(service, inv, Collected(service, inv, view, r), view, r)
<1>1. CASE service = "route_tables"
    BY <1>1, RouteTablesGrow DEF Collected
<1>2. CASE service # "route_tables"
    <2>1. Grows(Listed(service, view, r), inv, Collected(service, inv, view, r), view, service, r)
        BY <1>2, Growing
    <2>. QED  BY <1>2, <2>1 DEF Grows, Plain, Reads, Marks
<1>. QED  BY <1>1, <1>2

\* What exists longer is listed by every read in between.
LEMMA ListedGrows ==
    ASSUME NEW service \in AllServices, NEW r, NEW view, NEW later, view.live \subseteq later.live
    PROVE  Listed(service, view, r) \subseteq Listed(service, later, r)
<1>. \A kind, region : Of(view, kind, region) \subseteq Of(later, kind, region)
    BY DEF Of
<1>1. /\ IAMPolicies(view) \subseteq IAMPolicies(later)
      /\ ECSServices(view, r) \subseteq ECSServices(later, r)
      /\ Nodegroups(view, r) \subseteq Nodegroups(later, r)
      /\ MountTargets(view, r) \subseteq MountTargets(later, r)
      /\ Buckets(view) \subseteq Buckets(later)
    BY DEF IAMPolicies, OfRoles, ECSServices, Nodegroups, MountTargets, Buckets
<1>2. TaskDefinitions(view, r) \subseteq TaskDefinitions(later, r)
    BY <1>1 DEF TaskDefinitions
<1>. QED  BY <1>1, <1>2 DEF Listed, AllServices

\* Only its service lists a route table or a subnet, those of its region.
LEMMA NetworkListed ==
    ASSUME NEW service \in AllServices, NEW r, NEW view, IsView(view), NEW o \in Listed(service, view, r)
    PROVE  /\ o \in DOMAIN Objects /\ o \in view.live
           /\ Objects[o].kind = "aws_subnet" => service = "subnets" /\ Objects[o].region = r
           /\ Objects[o].kind = "aws_route_table" => service = "route_tables" /\ Objects[o].region = r
<1>. QED  BY DEF Listed, AllServices, Of, IsView, IAMPolicies, OfRoles, ECSServices, TaskDefinitions,
                 Nodegroups, MountTargets, Buckets

-----------------------------------------------------------------------------
(***************************************************************************)
(* What an inventory or a snapshot says, against the history of the        *)
(* account: what is open now, what was ever open, what was ever closed.    *)
(***************************************************************************)
Entered(o, ever) == o \in ever \/ \E t \in ever : o \in Refs(t, "subnet")

TrueRecord(o, record, diagnostics, open, ever, shut) ==
    /\ o \in DOMAIN Objects /\ IsRecord(record) /\ Inferred(o, record)
    /\ record.public \in {"public", "private", "unknown"}
    /\ record.public = "public" => Entered(o, ever) \/ ReadsAsOpen(o)
    /\ record.public = "private" => o \in shut
    /\ o \in open \ shut =>
          \/ record.public = "public"
          \/ \E d \in diagnostics : PolicyRead(o, d[1], d[2])

TrueEdge(e, resources, ever) ==
    /\ e.from = "internet" => Entered(e.to, ever)
    /\ e.type = "associated_with" =>
          e.from \in DOMAIN resources /\ Objects[e.from].kind = "aws_route_table" /\ e.to \in Refs(e.from, "subnet")

Marked(resources, edges) ==
    \A t, s \in DOMAIN resources :
        Edge(t, s, "associated_with") \in edges /\ resources[t].public = "public"
            => resources[s].public = "public"

Sound(X, open, ever, shut) ==
    /\ \A o \in DOMAIN X.resources : TrueRecord(o, X.resources[o], X.diagnostics, open, ever, shut)
    /\ \A e \in X.edges : TrueEdge(e, X.resources, ever)
    /\ Marked(X.resources, X.edges)

\* What was true stays true: history only grows, and what is closed is known to have been.
LEMMA SoundForever ==
    ASSUME NEW X, NEW open, NEW ever, NEW shut, Sound(X, open, ever, shut),
           NEW open2, NEW ever2, NEW shut2,
           ever \subseteq ever2, shut \subseteq shut2, open2 \ shut2 \subseteq open \ shut
    PROVE  Sound(X, open2, ever2, shut2)
<1>1. \A o : Entered(o, ever) => Entered(o, ever2)
    BY DEF Entered
<1>2. ASSUME NEW o \in DOMAIN X.resources
      PROVE  TrueRecord(o, X.resources[o], X.diagnostics, open2, ever2, shut2)
    BY <1>1 DEF Sound, TrueRecord
<1>3. \A e \in X.edges : TrueEdge(e, X.resources, ever2)
    BY <1>1 DEF Sound, TrueEdge
<1>. QED  BY <1>2, <1>3 DEF Sound

\* A route table is associated with the subnets it refers to.
LEMMA Associating ==
    ASSUME NEW t \in DOMAIN Objects, Objects[t].kind = "aws_route_table",
           NEW s \in DOMAIN Objects, s \in Refs(t, "subnet")
    PROVE  Objects[s].kind = "aws_subnet" /\ Objects[s].region = Objects[t].region
    BY ObjectsAssumption DEF Refs

\* A relationship of high confidence is what it says.
LEMMA EdgeFields ==
    ASSUME NEW t, NEW s, NEW type
    PROVE  Edge(t, s, type).from = t /\ Edge(t, s, type).to = s /\ Edge(t, s, type).type = type
    BY DEF Edge, Relationship

\* A table is read once, after the subnets.
InOrder(service, inv) ==
    service \in {"subnets", "route_tables"} =>
        \A o \in DOMAIN inv.resources : Objects[o].kind # "aws_route_table"

\* A read keeps an inventory sound.
LEMMA ReadIsSound ==
    ASSUME NEW service \in AllServices, NEW r, NEW view, IsView(view),
           NEW inv, NEW found, NEW grown, Reads(service, inv, found, view, r), InOrder(service, inv),
           NEW ever, NEW shut, view.exposed \subseteq ever, view.live \ view.exposed \subseteq shut,
           Sound(inv, view.exposed, ever, shut),
           grown.resources = found.resources, grown.edges = found.edges,
           grown.diagnostics = inv.diagnostics \union PolicyDiagnostics(service, view, r)
    PROVE  Sound(grown, view.exposed, ever, shut)
<1>. DEFINE listed == Listed(service, view, r)
            marks == Marks(service, view, r)
<1>1. \A o \in listed : o \in view.live /\ o \in DOMAIN Objects
    BY NetworkListed
<1>2. \A o \in marks : Entered(o, ever)
    BY DEF Marks, Entered
<1>3. ASSUME NEW o \in listed
      PROVE  TrueRecord(o, grown.resources[o], grown.diagnostics, view.exposed, ever, shut)
    <2>1. Recorded(o, grown.resources[o], view, service, r)
        BY DEF Reads
    <2>2. o \in view.exposed => Entered(o, ever)
        BY DEF Entered
    <2>3. ("policies" \in view.denied /\ PolicyRead(o, service, r)) =>
              \E d \in grown.diagnostics : PolicyRead(o, d[1], d[2])
        <3>. SUFFICES ASSUME "policies" \in view.denied, PolicyRead(o, service, r)
                      PROVE  \E d \in grown.diagnostics : PolicyRead(o, d[1], d[2])
            OBVIOUS
        <3>. DEFINE d == <<service, r>>
        <3>1. d \in grown.diagnostics
            BY <1>1 DEF PolicyDiagnostics
        <3>2. d[1] = service /\ d[2] = r
            OBVIOUS
        <3>. QED  BY <3>1, <3>2
    <2>. QED  BY <1>1, <2>1, <2>2, <2>3 DEF Recorded, Publicity, TrueRecord
<1>4. ASSUME NEW o \in DOMAIN inv.resources \ listed
      PROVE  TrueRecord(o, grown.resources[o], grown.diagnostics, view.exposed, ever, shut)
    <2>. DEFINE record == inv.resources[o]
                marked == [record EXCEPT !.public = "public"]
    <2>1. TrueRecord(o, record, inv.diagnostics, view.exposed, ever, shut)
        BY DEF Sound
    <2>2. TrueRecord(o, record, grown.diagnostics, view.exposed, ever, shut)
        BY <2>1 DEF TrueRecord
    <2>3. grown.resources[o] = IF o \in marks THEN marked ELSE record
        BY DEF Reads
    <2>4. CASE o \in marks
        <3>1. /\ IsRecord(marked) /\ marked.public = "public"
              /\ marked.tags = record.tags /\ (marked.sensitive <=> record.sensitive)
            BY <2>1 DEF TrueRecord, IsRecord
        <3>2. Inferred(o, marked)
            BY <2>1, <3>1 DEF TrueRecord, Inferred
        <3>. HIDE DEF record, marked
        <3>. QED  BY <1>2, <2>1, <2>3, <2>4, <3>1, <3>2 DEF TrueRecord
    <2>5. CASE o \notin marks
        BY <2>2, <2>3, <2>5
    <2>. QED  BY <2>4, <2>5
<1>5. DOMAIN grown.resources = DOMAIN inv.resources \union listed
    BY DEF Reads
<1>6. ASSUME NEW e \in grown.edges PROVE TrueEdge(e, grown.resources, ever)
    <2>1. CASE e \in inv.edges
        BY <1>5, <2>1 DEF Sound, TrueEdge
    <2>2. CASE e \notin inv.edges
        <3>1. e.from = "internet" => Entered(e.to, ever)
            BY <2>2 DEF Reads, Entered
        <3>2. ASSUME e.type = "associated_with"
              PROVE  e.from \in DOMAIN grown.resources /\ Objects[e.from].kind = "aws_route_table"
                     /\ e.to \in Refs(e.from, "subnet")
            <4>1. service = "route_tables" /\ e.from \in listed /\ e.to \in Refs(e.from, "subnet")
                BY <2>2, <3>2 DEF Reads
            <4>2. listed = Of(view, "aws_route_table", r)
                BY <4>1 DEF Listed
            <4>. QED  BY <1>5, <4>1, <4>2, Existing
        <3>. QED  BY <3>1, <3>2 DEF TrueEdge
    <2>. QED  BY <2>1, <2>2
<1>7. Marked(grown.resources, grown.edges)
    <2>. SUFFICES ASSUME NEW t \in DOMAIN grown.resources, NEW s \in DOMAIN grown.resources,
                         Edge(t, s, "associated_with") \in grown.edges, grown.resources[t].public = "public"
                  PROVE  grown.resources[s].public = "public"
        BY DEF Marked
    <2>. DEFINE e == Edge(t, s, "associated_with")
    <2>1. Objects[t].kind = "aws_route_table" /\ s \in Refs(t, "subnet")
        BY <1>6, EdgeFields DEF TrueEdge
    <2>2. t \in DOMAIN Objects /\ s \in DOMAIN Objects
        BY <1>1, <1>5 DEF Sound, TrueRecord
    <2>3. Objects[s].kind = "aws_subnet"
        BY <2>1, <2>2, Associating
    <2>4. CASE t \in listed
        <3>1. service = "route_tables"
            BY <2>1, <2>4, NetworkListed
        <3>2. listed = Of(view, "aws_route_table", r)
            BY <3>1 DEF Listed
        <3>3. s \notin listed
            BY <2>3, <3>2, Existing
        <3>4. ~PolicyRead(t, service, r)
            BY <2>1, <3>1 DEF PolicyRead, PolicyKind
        <3>5. t \in view.exposed
            BY <2>4, <3>4 DEF Reads, Recorded, Publicity
        <3>6. s \in marks
            BY <2>1, <2>4, <3>1, <3>2, <3>5 DEF Marks
        <3>7. s \in DOMAIN inv.resources /\ IsRecord(inv.resources[s])
            BY <1>5, <3>3 DEF Sound, TrueRecord
        <3>8. [inv.resources[s] EXCEPT !.public = "public"].public = "public"
            BY <3>7 DEF IsRecord
        <3>. QED  BY <3>3, <3>6, <3>7, <3>8 DEF Reads
    <2>5. CASE t \notin listed
        <3>1. service \notin {"subnets", "route_tables"}
            BY <1>5, <2>1, <2>5 DEF InOrder
        <3>2. s \notin listed
            BY <2>3, <3>1, NetworkListed
        <3>3. marks = {}
            BY <3>1 DEF Marks
        <3>4. grown.resources[t] = inv.resources[t] /\ grown.resources[s] = inv.resources[s]
            BY <1>5, <2>5, <3>2, <3>3 DEF Reads
        <3>5. e \in inv.edges
            BY <3>1, EdgeFields DEF Reads
        <3>. QED  BY <1>5, <2>5, <3>2, <3>4, <3>5 DEF Sound, Marked
    <2>. QED  BY <2>4, <2>5
<1>. QED  BY <1>3, <1>4, <1>5, <1>6, <1>7 DEF Sound

\* Nothing of the network of a region is both in the snapshot and in what is merged into it.
Apart(X, Y) ==
    \A o \in DOMAIN X.resources, u \in DOMAIN Y.resources :
        ~ /\ {Objects[o].kind, Objects[u].kind} \subseteq {"aws_subnet", "aws_route_table"}
          /\ Objects[o].region = Objects[u].region

\* A merge keeps a snapshot sound.
LEMMA MergeIsSound ==
    ASSUME NEW X, NEW Y, NEW Z, NEW open, NEW ever, NEW shut,
           Sound(X, open, ever, shut), Sound(Y, open, ever, shut), Apart(X, Y),
           Z.resources = Over(Y.resources, X.resources), Z.edges = X.edges \union Y.edges,
           Z.diagnostics = X.diagnostics \union Y.diagnostics
    PROVE  Sound(Z, open, ever, shut)
<1>1. /\ DOMAIN Z.resources = DOMAIN X.resources \union DOMAIN Y.resources
      /\ \A o \in DOMAIN Y.resources : Z.resources[o] = Y.resources[o]
      /\ \A o \in DOMAIN X.resources \ DOMAIN Y.resources : Z.resources[o] = X.resources[o]
    BY DEF Over
<1>2. ASSUME NEW o \in DOMAIN Z.resources
      PROVE  TrueRecord(o, Z.resources[o], Z.diagnostics, open, ever, shut)
    <2>1. CASE o \in DOMAIN Y.resources
        BY <1>1, <2>1 DEF Sound, TrueRecord
    <2>2. CASE o \notin DOMAIN Y.resources
        BY <1>1, <2>2 DEF Sound, TrueRecord
    <2>. QED  BY <2>1, <2>2
<1>3. \A e \in Z.edges : TrueEdge(e, Z.resources, ever)
    BY <1>1 DEF Sound, TrueEdge
<1>4. Marked(Z.resources, Z.edges)
    <2>. SUFFICES ASSUME NEW t \in DOMAIN Z.resources, NEW s \in DOMAIN Z.resources,
                         Edge(t, s, "associated_with") \in Z.edges, Z.resources[t].public = "public"
                  PROVE  Z.resources[s].public = "public"
        BY DEF Marked
    <2>. DEFINE e == Edge(t, s, "associated_with")
    <2>1. Objects[t].kind = "aws_route_table" /\ s \in Refs(t, "subnet")
        BY <1>3, EdgeFields DEF TrueEdge
    <2>2. t \in DOMAIN Objects /\ s \in DOMAIN Objects
        BY <1>2 DEF TrueRecord
    <2>3. Objects[s].kind = "aws_subnet" /\ Objects[s].region = Objects[t].region
        BY <2>1, <2>2, Associating
    <2>4. \A o \in {t, s}, u \in {t, s} : ~(o \in DOMAIN X.resources /\ u \in DOMAIN Y.resources)
        BY <2>1, <2>3 DEF Apart
    <2>5. CASE e \in X.edges
        <3>1. t \in DOMAIN X.resources
            BY <2>5, EdgeFields DEF Sound, TrueEdge
        <3>. QED  BY <1>1, <2>4, <2>5, <3>1 DEF Sound, Marked
    <2>6. CASE e \in Y.edges
        <3>1. t \in DOMAIN Y.resources
            BY <2>6, EdgeFields DEF Sound, TrueEdge
        <3>. QED  BY <1>1, <2>4, <2>6, <3>1 DEF Sound, Marked
    <2>. QED  BY <2>5, <2>6
<1>. QED  BY <1>2, <1>3, <1>4 DEF Sound

-----------------------------------------------------------------------------
(***************************************************************************)
(* Redaction and tag filters.                                              *)
(***************************************************************************)
IsSnapshot(X) ==
    X = [account |-> X.account, regions |-> X.regions, resources |-> X.resources, edges |-> X.edges,
         capabilities |-> X.capabilities, diagnostics |-> X.diagnostics]

\* Redaction leaves the rest of a snapshot as it is.
LEMMA Normalizing ==
    ASSUME NEW X, IsSnapshot(X)
    PROVE  /\ IsSnapshot(Normalize(X))
           /\ Normalize(X).regions = X.regions /\ Normalize(X).edges = X.edges
           /\ Normalize(X).capabilities = X.capabilities /\ Normalize(X).diagnostics = X.diagnostics
           /\ Normalize(X).account = X.account
           /\ Normalize(X).resources = NormalizeResourceSet(X.resources)
    BY DEF IsSnapshot, Normalize

\* Redaction changes no record but in the values of its tags.
LEMMA Redacting ==
    ASSUME NEW resources, NEW o \in DOMAIN resources, IsRecord(resources[o])
    PROVE  LET redacted == NormalizeResourceSet(resources)[o]
           IN  /\ IsRecord(redacted) /\ redacted.public = resources[o].public
               /\ redacted.tags = {} <=> resources[o].tags = {}
               /\ redacted.sensitive <=> resources[o].sensitive
<1>. DEFINE record == resources[o]
            redacted == [record EXCEPT !.tags = {RedactValue(t) : t \in @}]
<1>1. NormalizeResourceSet(resources)[o] = redacted
    BY DEF NormalizeResourceSet
<1>2. IsRecord(redacted)
    BY DEF IsRecord
<1>3. /\ redacted.public = record.public /\ (redacted.sensitive <=> record.sensitive)
      /\ redacted.tags = {RedactValue(t) : t \in record.tags}
    BY DEF IsRecord
<1>4. redacted.tags = {} <=> record.tags = {}
    BY <1>3
<1>. QED  BY <1>1, <1>2, <1>3, <1>4

\* So redaction keeps a snapshot sound,
LEMMA NormalizedIsSound ==
    ASSUME NEW X, IsSnapshot(X), NEW open, NEW ever, NEW shut, Sound(X, open, ever, shut)
    PROVE  Sound(Normalize(X), open, ever, shut)
<1>. DEFINE Y == Normalize(X)
<1>1. /\ Y.resources = NormalizeResourceSet(X.resources) /\ DOMAIN Y.resources = DOMAIN X.resources
      /\ Y.edges = X.edges /\ Y.diagnostics = X.diagnostics
    BY Normalizing DEF NormalizeResourceSet
<1>. HIDE DEF Y
<1>2. ASSUME NEW o \in DOMAIN Y.resources
      PROVE  Y.resources[o].public = X.resources[o].public
             /\ TrueRecord(o, Y.resources[o], Y.diagnostics, open, ever, shut)
    <2>1. TrueRecord(o, X.resources[o], X.diagnostics, open, ever, shut)
        BY <1>1 DEF Sound
    <2>2. /\ IsRecord(Y.resources[o]) /\ Y.resources[o].public = X.resources[o].public
          /\ Y.resources[o].tags = {} <=> X.resources[o].tags = {}
          /\ Y.resources[o].sensitive <=> X.resources[o].sensitive
        BY <1>1, <2>1, Redacting DEF TrueRecord
    <2>3. Inferred(o, Y.resources[o])
        BY <2>1, <2>2 DEF TrueRecord, Inferred
    <2>. QED  BY <1>1, <2>1, <2>2, <2>3 DEF TrueRecord
<1>3. \A e \in Y.edges : TrueEdge(e, Y.resources, ever)
    BY <1>1 DEF Sound, TrueEdge
<1>4. Marked(Y.resources, Y.edges)
    BY <1>1, <1>2 DEF Sound, Marked
<1>5. Sound(Y, open, ever, shut)
    BY <1>2, <1>3, <1>4 DEF Sound
<1>. QED  BY <1>5 DEF Y

\* and the tag filter, which leaves resources out, does too.
LEMMA FilteredIsSound ==
    ASSUME NEW X, IsSnapshot(X), NEW open, NEW ever, NEW shut, Sound(X, open, ever, shut), NEW filters
    PROVE  LET Y == ApplyTagFilters(X, filters)
           IN  /\ IsSnapshot(Y) /\ Sound(Y, open, ever, shut)
               /\ Y.regions = X.regions /\ Y.capabilities = X.capabilities /\ Y.diagnostics = X.diagnostics
               /\ Y.account = X.account
               /\ DOMAIN Y.resources \subseteq DOMAIN X.resources
<1>. DEFINE kept == {o \in DOMAIN X.resources : TagFiltersMatch(X.resources[o].tags, filters)}
            resources == [o \in kept |-> X.resources[o]]
            edges == {e \in X.edges : {e.from, e.to} \subseteq kept \union {"internet"}}
            Y == [X EXCEPT !.resources = resources, !.edges = edges]
<1>1. ApplyTagFilters(X, filters) = IF filters = {} THEN X ELSE Y
    BY DEF ApplyTagFilters
<1>2. /\ IsSnapshot(Y) /\ Y.resources = resources /\ Y.edges = edges
      /\ Y.regions = X.regions /\ Y.capabilities = X.capabilities /\ Y.diagnostics = X.diagnostics
      /\ Y.account = X.account
    <2>. HIDE DEF resources, edges
    <2>. DEFINE mid == [X EXCEPT !.resources = resources]
    <2>1. Y = [mid EXCEPT !.edges = edges]
        BY DEF IsSnapshot
    <2>2. mid = [account |-> X.account, regions |-> X.regions, resources |-> resources, edges |-> X.edges,
                 capabilities |-> X.capabilities, diagnostics |-> X.diagnostics]
        BY DEF IsSnapshot
    <2>. HIDE DEF mid
    <2>3. Y = [account |-> X.account, regions |-> X.regions, resources |-> resources, edges |-> edges,
               capabilities |-> X.capabilities, diagnostics |-> X.diagnostics]
        BY <2>1, <2>2
    <2>. HIDE DEF Y
    <2>. QED  BY <2>3 DEF IsSnapshot
<1>. HIDE DEF Y
<1>3. /\ DOMAIN Y.resources = kept /\ kept \subseteq DOMAIN X.resources
      /\ \A o \in kept : Y.resources[o] = X.resources[o]
    BY <1>2
<1>4. \A o \in DOMAIN Y.resources : TrueRecord(o, Y.resources[o], Y.diagnostics, open, ever, shut)
    BY <1>2, <1>3 DEF Sound, TrueRecord
<1>5. ASSUME NEW e \in Y.edges PROVE TrueEdge(e, Y.resources, ever)
    <2>1. TrueEdge(e, X.resources, ever)
        BY <1>2 DEF Sound
    <2>2. e.from \in DOMAIN X.resources => e.from # "internet"
        BY ObjectsAssumption DEF Sound, TrueRecord
    <2>. QED  BY <1>2, <1>3, <2>1, <2>2 DEF TrueEdge
<1>6. Marked(Y.resources, Y.edges)
    BY <1>2, <1>3 DEF Sound, Marked
<1>7. Sound(Y, open, ever, shut)
    BY <1>4, <1>5, <1>6 DEF Sound
<1>. QED  BY <1>1, <1>2, <1>3, <1>7

-----------------------------------------------------------------------------
(***************************************************************************)
(* The visits.                                                             *)
(***************************************************************************)
\* A name has the place of its rank.
LEMMA Ranked ==
    ASSUME NEW names, NEW name \in Range(names)
    PROVE  Rank(names, name) \in DOMAIN names /\ names[Rank(names, name)] = name
    BY DEF Rank, Range

IsVisit(v) ==
    \/ v = <<"iam", "global">>
    \/ v[1] \in {"network", "edge", "compute", "data"} /\ v[2] \in Range(RegionNames) /\ v = <<v[1], v[2]>>

\* Every visit is of IAM or of another group in a region.
LEMMA Visiting ==
    ASSUME NEW groups, NEW regions, regions \subseteq Range(RegionNames), NEW v \in Visits(groups, regions)
    PROVE  IsVisit(v)
<1>1. Range(RegionalGroups) = {"network", "edge", "compute", "data"}
    BY DEF Range, RegionalGroups
<1>. QED  BY <1>1 DEF Visits, IsVisit

\* Places are numbers.
LEMMA Placed ==
    ASSUME NEW v, IsVisit(v)
    PROVE  Place(v) \in Nat
<1>1. CASE v[1] = "iam"
    BY <1>1 DEF Place
<1>2. CASE v[1] # "iam"
    <2>1. v[2] \in Range(RegionNames) /\ v[1] \in {"network", "edge", "compute", "data"}
        BY <1>2 DEF IsVisit
    <2>2. Rank(RegionNames, v[2]) \in Nat
        BY <2>1, Ranked, CollectorAssumption
    <2>3. v[1] \in Range(RegionalGroups)
        BY <2>1 DEF Range, RegionalGroups
    <2>4. Rank(RegionalGroups, v[1]) \in Nat
        BY <2>3, Ranked DEF RegionalGroups
    <2>. QED  BY <1>2, <2>2, <2>4 DEF Place
<1>. QED  BY <1>1, <1>2

\* One of the visits that are left comes first.
LEMMA FirstVisit ==
    ASSUME NEW left, left # {}, \A v \in left : IsVisit(v)
    PROVE  \E v \in left : \A u \in left : Place(v) <= Place(u)
<1>. DEFINE places == {Place(v) : v \in left}
<1>1. places \subseteq Nat /\ places # {}
    BY Placed
<1>2. PICK n \in places : \A m \in places : <<m, n>> \notin OpToRel(<, Nat)
    BY <1>1, NatLessThanWellFounded, WFMin
<1>3. OpToRel(<, Nat) = {ss \in Nat \X Nat : ss[1] < ss[2]}
    BY DEF OpToRel
<1>4. \A m \in places : n <= m
    <2>. SUFFICES ASSUME NEW m \in places, m < n PROVE FALSE
        BY <1>1
    <2>1. <<m, n>> \in OpToRel(<, Nat)
        BY <1>1, <1>3
    <2>. QED  BY <1>2, <2>1
<1>. QED  BY <1>4

\* The services of a visit are known ones, and the network reads its tables sixth.
LEMMA ServicesKnown ==
    ASSUME NEW v, IsVisit(v)
    PROVE  /\ Services(v[1], v[2]) \in Seq(AllServices) /\ Len(Services(v[1], v[2])) > 0
           /\ \A i \in 1..Len(Services(v[1], v[2])) :
                 /\ Services(v[1], v[2])[i] \in {"subnets", "route_tables"} => v[1] = "network"
                 /\ Services(v[1], v[2])[i] = "subnets" => i = 2
                 /\ Services(v[1], v[2])[i] = "route_tables" => i = 6
<1>1. CASE v[1] = "iam"
    BY <1>1 DEF Services, IAMInventory, AllServices
<1>2. CASE v[1] = "network"
    BY <1>2 DEF Services, NetworkInventory, NetworkServices, AllServices
<1>3. CASE v[1] = "edge"
    BY <1>3 DEF Services, EdgeInventory, AllServices
<1>4. CASE v[1] = "compute"
    BY <1>4 DEF Services, ComputeInventory, AllServices
<1>5. CASE v[1] = "data"
    BY <1>5 DEF Services, DataInventory, AllServices
<1>. QED  BY <1>1, <1>2, <1>3, <1>4, <1>5 DEF IsVisit

\* An answered visit supplies the capabilities of its group, but for two of the edge;
LEMMA GroupSupplies ==
    ASSUME NEW v, IsVisit(v), NEW c \in GroupCapabilities(v[1]), NEW diagnostics
    PROVE  Supplies(v, c, diagnostics) \/ DeclaredUnread(v, c)
<1>1. Range(PolicyCapabilities) = {"s3_protection", "secrets_policies", "kms_policies"}
    BY DEF Range, PolicyCapabilities
<1>2. c \notin Range(PolicyCapabilities)
    BY <1>1 DEF GroupCapabilities, IsVisit
<1>3. Supplier[c] \in Range(Services(v[1], v[2])) \/ DeclaredUnread(v, c)
    <2>1. CASE v[1] = "iam"
        <3>1. Services(v[1], v[2])[1] = "roles" /\ 1 \in DOMAIN Services(v[1], v[2])
            BY <2>1 DEF Services, IAMInventory
        <3>2. Supplier[c] = "roles"
            BY <2>1 DEF GroupCapabilities, Supplier
        <3>. QED  BY <3>1, <3>2 DEF Range
    <2>2. CASE v[1] = "network"
        <3>1. Range(Services(v[1], v[2])) = {"vpcs", "subnets", "internet_gateways", "nat_gateways",
                  "transit_gateways", "route_tables", "security_groups", "network_interfaces"}
            BY <2>2 DEF Services, NetworkInventory, NetworkServices, Range
        <3>2. Supplier[c] \in {"vpcs", "transit_gateways", "route_tables", "security_groups", "network_interfaces"}
            BY <2>2 DEF GroupCapabilities, Supplier
        <3>. QED  BY <3>1, <3>2
    <2>3. CASE v[1] = "edge"
        <3>1. {"load_balancers", "api_gateways", "function_urls"} \subseteq Range(Services(v[1], v[2]))
            BY <2>3 DEF Services, EdgeInventory, Range
        <3>2. c \notin {"network", "cloudfront"} => Supplier[c] \in {"load_balancers", "api_gateways", "function_urls"}
            BY <2>3 DEF GroupCapabilities, Supplier
        <3>. QED  BY <2>3, <3>1, <3>2 DEF DeclaredUnread
    <2>4. CASE v[1] = "compute"
        <3>1. Range(Services(v[1], v[2])) = {"instances", "functions", "ecs", "eks"}
            BY <2>4 DEF Services, ComputeInventory, Range
        <3>2. Supplier[c] \in {"instances", "functions", "ecs", "eks"}
            BY <2>4 DEF GroupCapabilities, Supplier
        <3>. QED  BY <3>1, <3>2
    <2>5. CASE v[1] = "data"
        <3>1. Range(Services(v[1], v[2])) = {"rds", "s3", "secrets", "kms", "opensearch", "elasticache", "efs"}
            BY <2>5 DEF Services, DataInventory, Range
        <3>2. Supplier[c] \in {"rds", "s3", "secrets", "kms", "opensearch", "elasticache", "efs"}
            BY <2>5 DEF GroupCapabilities, Supplier
        <3>. QED  BY <3>1, <3>2
    <2>. QED  BY <2>1, <2>2, <2>3, <2>4, <2>5 DEF IsVisit
<1>. QED  BY <1>2, <1>3 DEF Supplies

\* and one of data, which alone reads policies, those of policies that were not denied to it.
LEMMA PoliciesSupply ==
    ASSUME NEW v, v[1] = "data", NEW s \in DOMAIN PolicyCapabilities, NEW diagnostics,
           <<s, v[2]>> \notin diagnostics
    PROVE  Supplies(v, PolicyCapabilities[s], diagnostics)
<1>1. Range(Services(v[1], v[2])) = {"rds", "s3", "secrets", "kms", "opensearch", "elasticache", "efs"}
    BY DEF Services, DataInventory, Range
<1>2. s \in {"s3", "secrets", "kms"} /\ Supplier[PolicyCapabilities[s]] = s
    BY DEF PolicyCapabilities, Supplier
<1>. QED  BY <1>1, <1>2 DEF Supplies

\* What founds a capability of groups still does when policies are denied elsewhere.
LEMMA StillFounded ==
    ASSUME NEW c, NEW X, NEW Z, NEW old, NEW more, Founded(c, X, old), Z.account = X.account,
           old \subseteq more,
           c \in Range(PolicyCapabilities) => Z.diagnostics = X.diagnostics
    PROVE  Founded(c, Z, more)
    BY DEF Founded, Supplies

-----------------------------------------------------------------------------
(***************************************************************************)
(* The inductive invariant.                                                *)
(***************************************************************************)
Made == Visits(request.groups, snapshot.regions)
Begun == pc \notin {"identity", "regions"}
NetworkKinds == {"aws_subnet", "aws_route_table"}
LastingOf(service, r, ids) == Listed(service, [live |-> ids, exposed |-> {}, denied |-> {}], r)
IsInventory(X) == X = [resources |-> X.resources, edges |-> X.edges, diagnostics |-> X.diagnostics]

\* What is not open was closed at some time, and what is, open.
Accounted ==
    /\ live \subseteq DOMAIN Objects /\ exposed \subseteq live \intersect Openable
    /\ exposed \subseteq wasOpen /\ live \ exposed \subseteq wasClosed /\ lasting \subseteq live

Scheduled ==
    /\ pc \in {"identity", "regions", "read", "filter", "write", "writing", "done", "dead"}
    /\ IsSnapshot(snapshot) /\ IsInventory(inventory)
    /\ request.groups \subseteq Groups
    /\ request.regions \subseteq Range(RegionNames) /\ snapshot.regions \subseteq Range(RegionNames)
    /\ visits \subseteq Made /\ (visits # {} <=> pc = "read")
    /\ pc = "read" => next \in 1..Len(Services(Visit[1], Visit[2]))
    /\ pc # "read" => next = 1
    /\ next = 1 => inventory = Empty
    /\ ~Begun => DOMAIN snapshot.resources = {} /\ snapshot.edges = {}

\* The network of a region is in the snapshot once it was visited, never before;
\* route tables are read sixth.
Separated ==
    /\ \A o \in DOMAIN snapshot.resources :
          Objects[o].kind \in NetworkKinds => <<"network", Objects[o].region>> \notin visits
    /\ \A o \in DOMAIN inventory.resources :
          /\ Objects[o].kind \in NetworkKinds => pc = "read" /\ Visit = <<"network", Objects[o].region>>
          /\ Objects[o].kind = "aws_route_table" => next > 6

\* What lasts is in the inventory after its service answered, and in the
\* snapshot after the visit, unless that failed.
Reported ==
    /\ request.tags = {} /\ Begun =>
          \A v \in Made \ visits :
              \/ v \in snapshot.diagnostics
              \/ \A service \in Range(Services(v[1], v[2])) :
                     LastingOf(service, v[2], lasting) \subseteq DOMAIN snapshot.resources
    /\ pc = "read" =>
          \A i \in 1..(next - 1) :
              LastingOf(Services(Visit[1], Visit[2])[i], Visit[2], lasting) \subseteq DOMAIN inventory.resources

PolicyServices == {"s3", "secrets", "kms"}

\* A diagnostic of policies is of the visit of a region's data.
OfData(d) == d[1] \in PolicyServices /\ pc = "read" /\ Visit = <<"data", d[2]>>

\* Every capability has its reads; diagnostics are of visits that were made.

Supplied ==
    /\ \A c \in snapshot.capabilities : Founded(c, snapshot, (Made \ visits) \ snapshot.diagnostics)
    /\ ~Begun => /\ snapshot.capabilities \subseteq {"identity"}
                 /\ snapshot.capabilities # {} => snapshot.account = TRUE
                 /\ snapshot.diagnostics \subseteq {<<"identity", "global">>}
    /\ snapshot.diagnostics \intersect visits = {}
    /\ \A d \in snapshot.diagnostics : d[1] \in PolicyServices => <<"data", d[2]>> \notin visits
    /\ \A d \in inventory.diagnostics : OfData(d)

Filed ==
    /\ file.state \in {"absent", "torn", "whole"}
    /\ Loads => pc = "done" /\ file.content = Normalize(snapshot)

AllSound ==
    Sound(snapshot, exposed, wasOpen, wasClosed) /\ Sound(inventory, exposed, wasOpen, wasClosed)

IInv == Accounted /\ Scheduled /\ AllSound /\ Separated /\ Reported /\ Supplied /\ Filed

\* While the collector reads, a visit is left.
LEMMA ToVisit ==
    ASSUME NEW left, left # {}, \A v \in left : IsVisit(v)
    PROVE  (CHOOSE v \in left : \A u \in left : Place(v) <= Place(u)) \in left
    BY FirstVisit

\* The visit is one of those that are left.
LEMMA VisitIs ==
    ASSUME Scheduled, pc = "read"
    PROVE  Visit \in visits /\ IsVisit(Visit)
<1>1. \A v \in visits : IsVisit(v)
    BY Visiting DEF Scheduled, Made
<1>2. Visit \in visits
    BY <1>1, ToVisit DEF Visit, Scheduled
<1>. QED  BY <1>1, <1>2

\* Nothing read yet is sound.
LEMMA EmptyIsSound ==
    ASSUME NEW X, DOMAIN X.resources = {}, X.edges = {}, NEW open, NEW ever, NEW shut
    PROVE  Sound(X, open, ever, shut)
    BY DEF Sound, Marked

\* The invariant holds at first.
LEMMA Initially ==
    ASSUME Init
    PROVE  IInv
<1>. USE DEF Init
<1>1. PICK line \in Accepted : request = Parsed(line)
    OBVIOUS
<1>2. /\ request.groups = NormalizeRequestGroups(line.words) /\ request.regions = line.regions
      /\ line \in Requests /\ line.words \subseteq Groups \union {"all"}
    BY <1>1 DEF Parsed, Accepted
<1>3. request.groups \subseteq Groups
    BY <1>2 DEF NormalizeRequestGroups, ParseCollectGroups, Groups
<1>4. Accounted
    BY CollectorAssumption DEF Accounted, Openable
<1>5. /\ DOMAIN snapshot.resources = {} /\ snapshot.edges = {} /\ snapshot.regions = {}
      /\ snapshot.capabilities = {} /\ snapshot.diagnostics = {} /\ IsSnapshot(snapshot)
    BY DEF EmptySnapshot, IsSnapshot
<1>6. /\ DOMAIN inventory.resources = {} /\ inventory.edges = {} /\ inventory.diagnostics = {}
      /\ IsInventory(inventory)
    BY DEF Empty, IsInventory
<1>7. Scheduled
    BY <1>2, <1>3, <1>5, <1>6, CollectorAssumption DEF Scheduled, Begun
<1>8. AllSound
    BY <1>5, <1>6, EmptyIsSound DEF AllSound
<1>9. Separated /\ Reported /\ Supplied
    BY <1>5, <1>6 DEF Separated, Reported, Supplied, Begun
<1>10. Filed
    BY DEF Filed, Loads, Absent
<1>. QED  BY <1>4, <1>7, <1>8, <1>9, <1>10 DEF IInv

\* Policies are read by the visits of data.
LEMMA PoliciesOfData ==
    ASSUME NEW v, IsVisit(v), NEW i \in 1..Len(Services(v[1], v[2])),
           Services(v[1], v[2])[i] \in PolicyServices
    PROVE  v[1] = "data"
<1>1. CASE v[1] = "iam"
    BY <1>1 DEF Services, IAMInventory, PolicyServices
<1>2. CASE v[1] = "network"
    BY <1>2 DEF Services, NetworkInventory, NetworkServices, PolicyServices
<1>3. CASE v[1] = "edge"
    BY <1>3 DEF Services, EdgeInventory, PolicyServices
<1>4. CASE v[1] = "compute"
    BY <1>4 DEF Services, ComputeInventory, PolicyServices
<1>. QED  BY <1>1, <1>2, <1>3, <1>4 DEF IsVisit

-----------------------------------------------------------------------------
(***************************************************************************)
(* The account changes.                                                    *)
(***************************************************************************)
AccountStep == \E o \in Volatile : Create(o) \/ Delete(o) \/ Close(o) \/ (o \in Openable /\ Expose(o))

\* A change of the account only adds to its history.
LEMMA AccountChanges ==
    ASSUME Accounted, AccountStep
    PROVE  /\ Accounted' /\ UNCHANGED <<request, collector>>
           /\ lasting' \subseteq lasting /\ wasOpen \subseteq wasOpen' /\ wasClosed \subseteq wasClosed'
           /\ exposed' \ wasClosed' \subseteq exposed \ wasClosed
<1>1. PICK o \in Volatile : Create(o) \/ Delete(o) \/ Close(o) \/ (o \in Openable /\ Expose(o))
    BY DEF AccountStep
<1>. USE CollectorAssumption DEF Accounted
<1>2. CASE Create(o)
    BY <1>2 DEF Create
<1>3. CASE Delete(o)
    BY <1>3 DEF Delete
<1>4. CASE Close(o)
    BY <1>4 DEF Close
<1>5. CASE o \in Openable /\ Expose(o)
    BY <1>5 DEF Expose
<1>. QED  BY <1>1, <1>2, <1>3, <1>4, <1>5

\* So it keeps the invariant.
LEMMA AccountKeeps ==
    ASSUME IInv, AccountStep
    PROVE  IInv'
<1>1. /\ Accounted' /\ UNCHANGED <<request, collector>>
      /\ lasting' \subseteq lasting /\ wasOpen \subseteq wasOpen' /\ wasClosed \subseteq wasClosed'
      /\ exposed' \ wasClosed' \subseteq exposed \ wasClosed
    BY AccountChanges DEF IInv
<1>2. Scheduled'
    BY <1>1 DEF IInv, Scheduled, collector, Made, Begun, Visit
<1>3. AllSound'
    BY <1>1, SoundForever DEF IInv, AllSound, collector
<1>4. Separated' /\ Supplied' /\ Filed'
    BY <1>1 DEF IInv, Separated, Supplied, OfData, Filed, Loads, collector, Made, Begun, Visit
<1>5. Made' = Made /\ visits' = visits /\ Visit' = Visit
    BY <1>1 DEF Made, collector, Visit
<1>6. \A r : \A service \in AllServices :
          LastingOf(service, r, lasting') \subseteq LastingOf(service, r, lasting)
    BY <1>1, ListedGrows DEF LastingOf
<1>7. ASSUME request.tags = {}, Begun, NEW v \in Made \ visits
      PROVE  \/ v \in snapshot.diagnostics
             \/ \A service \in Range(Services(v[1], v[2])) :
                    LastingOf(service, v[2], lasting') \subseteq DOMAIN snapshot.resources
    <2>1. IsVisit(v)
        BY Visiting DEF IInv, Scheduled, Made
    <2>2. Range(Services(v[1], v[2])) \subseteq AllServices
        BY <2>1, ServicesKnown DEF Range
    <2>. QED  BY <1>6, <1>7, <2>2 DEF IInv, Reported
<1>8. ASSUME pc = "read", NEW i \in 1..(next - 1)
      PROVE  LastingOf(Services(Visit[1], Visit[2])[i], Visit[2], lasting') \subseteq DOMAIN inventory.resources
    <2>1. IsVisit(Visit)
        BY <1>8, VisitIs DEF IInv
    <2>2. Services(Visit[1], Visit[2])[i] \in AllServices
        BY <1>8, <2>1, ServicesKnown DEF IInv, Scheduled
    <2>. QED  BY <1>6, <1>8, <2>2 DEF IInv, Reported
<1>9. Reported'
    BY <1>1, <1>5, <1>7, <1>8 DEF Reported, collector, Begun
<1>. QED  BY <1>1, <1>2, <1>3, <1>4, <1>9 DEF IInv

-----------------------------------------------------------------------------
(***************************************************************************)
(* The collector takes a step.                                             *)
(***************************************************************************)
\* A diagnostic adds nothing that could be wrong.
LEMMA Diagnosed ==
    ASSUME NEW X, IsSnapshot(X), NEW d, NEW open, NEW ever, NEW shut, Sound(X, open, ever, shut)
    PROVE  /\ IsSnapshot(WithDiagnostic(X, d)) /\ Sound(WithDiagnostic(X, d), open, ever, shut)
           /\ WithDiagnostic(X, d).resources = X.resources /\ WithDiagnostic(X, d).edges = X.edges
           /\ WithDiagnostic(X, d).regions = X.regions /\ WithDiagnostic(X, d).account = X.account
           /\ WithDiagnostic(X, d).capabilities = X.capabilities
           /\ WithDiagnostic(X, d).diagnostics = X.diagnostics \union {d}
<1>. DEFINE Y == WithDiagnostic(X, d)
<1>1. /\ IsSnapshot(Y) /\ Y.resources = X.resources /\ Y.edges = X.edges
      /\ Y.regions = X.regions /\ Y.capabilities = X.capabilities /\ Y.account = X.account
      /\ Y.diagnostics = X.diagnostics \union {d}
    BY DEF WithDiagnostic, IsSnapshot
<1>. HIDE DEF Y
<1>2. Sound(Y, open, ever, shut)
    BY <1>1 DEF Sound, TrueRecord
<1>3. /\ IsSnapshot(Y) /\ Sound(Y, open, ever, shut) /\ Y.resources = X.resources /\ Y.edges = X.edges
      /\ Y.regions = X.regions /\ Y.capabilities = X.capabilities /\ Y.account = X.account
      /\ Y.diagnostics = X.diagnostics \union {d}
    BY <1>1, <1>2
<1>. QED  BY <1>3 DEF Y

\* The steps of the collector keep the invariant: the identity,
LEMMA IdentifyKeeps ==
    ASSUME IInv, Identify
    PROVE  IInv'
<1>. DEFINE known == [snapshot EXCEPT !.account = TRUE, !.capabilities = @ \union {"identity"}]
            refused == WithDiagnostic(snapshot, <<"identity", "global">>)
<1>1. /\ pc = "identity" /\ pc' = "regions" /\ snapshot' \in {snapshot, known, refused}
      /\ UNCHANGED <<account, request, visits, next, inventory, file, timedOut>>
    BY DEF Identify
<1>2. /\ IsSnapshot(known) /\ known.resources = snapshot.resources /\ known.edges = snapshot.edges
      /\ known.regions = snapshot.regions /\ known.diagnostics = snapshot.diagnostics
      /\ known.capabilities = snapshot.capabilities \union {"identity"} /\ known.account = TRUE
    <2>. DEFINE yes == TRUE
                capabilities == snapshot.capabilities \union {"identity"}
                mid == [snapshot EXCEPT !.account = yes]
    <2>1. IsSnapshot(snapshot)
        BY DEF IInv, Scheduled
    <2>. HIDE DEF capabilities
    <2>2. known = [mid EXCEPT !.capabilities = capabilities]
        BY <2>1 DEF IsSnapshot, capabilities
    <2>. HIDE DEF yes
    <2>3. mid = [account |-> yes, regions |-> snapshot.regions, resources |-> snapshot.resources,
                 edges |-> snapshot.edges, capabilities |-> snapshot.capabilities,
                 diagnostics |-> snapshot.diagnostics]
        BY <2>1 DEF IsSnapshot
    <2>. HIDE DEF mid, known
    <2>4. known = [account |-> yes, regions |-> snapshot.regions, resources |-> snapshot.resources,
                   edges |-> snapshot.edges, capabilities |-> capabilities,
                   diagnostics |-> snapshot.diagnostics]
        BY <2>2, <2>3
    <2>5. /\ IsSnapshot(known) /\ known.account = yes /\ known.capabilities = capabilities
          /\ known.resources = snapshot.resources /\ known.edges = snapshot.edges
          /\ known.regions = snapshot.regions /\ known.diagnostics = snapshot.diagnostics
        BY <2>4 DEF IsSnapshot
    <2>. QED  BY <2>5 DEF capabilities, yes
<1>3. /\ IsSnapshot(refused) /\ refused.resources = snapshot.resources /\ refused.edges = snapshot.edges
      /\ refused.regions = snapshot.regions /\ refused.capabilities = snapshot.capabilities
      /\ refused.diagnostics = snapshot.diagnostics \union {<<"identity", "global">>}
      /\ refused.account = snapshot.account
    BY Diagnosed DEF IInv, Scheduled, AllSound
<1>. HIDE DEF known, refused
<1>4. /\ IsSnapshot(snapshot') /\ snapshot'.resources = snapshot.resources /\ snapshot'.edges = snapshot.edges
      /\ snapshot'.regions = snapshot.regions /\ snapshot.diagnostics \subseteq snapshot'.diagnostics
      /\ snapshot'.capabilities \subseteq snapshot.capabilities \union {"identity"}
      /\ snapshot'.diagnostics \subseteq snapshot.diagnostics \union {<<"identity", "global">>}
      /\ \/ snapshot'.account = TRUE
         \/ snapshot'.account = snapshot.account /\ snapshot'.capabilities = snapshot.capabilities
    BY <1>1, <1>2, <1>3 DEF IInv, Scheduled
<1>5. /\ DOMAIN snapshot.resources = {} /\ snapshot.edges = {} /\ visits = {}
      /\ snapshot.capabilities \subseteq {"identity"} /\ snapshot.diagnostics \subseteq {<<"identity", "global">>}
    BY <1>1 DEF IInv, Scheduled, Supplied, Begun
<1>6. Accounted'
    BY <1>1 DEF IInv, Accounted, account
<1>7. Scheduled'
    BY <1>1, <1>4, <1>5 DEF IInv, Scheduled, Made, Begun, Visit
<1>8. AllSound'
    BY <1>1, <1>4, <1>5, EmptyIsSound DEF IInv, AllSound, account
<1>9. Separated' /\ Reported'
    BY <1>1, <1>4, <1>5 DEF IInv, Separated, Reported, Begun, Scheduled
<1>10. Supplied'
    <2>1. ASSUME NEW c \in snapshot'.capabilities
          PROVE  Founded(c, snapshot, (Made \ visits) \ snapshot.diagnostics)'
        <3>1. c = "identity"
            BY <1>4, <1>5
        <3>2. CASE snapshot'.account = TRUE
            BY <3>1, <3>2 DEF Founded
        <3>3. CASE snapshot'.account = snapshot.account /\ snapshot'.capabilities = snapshot.capabilities
            <4>1. snapshot.account = TRUE
                BY <1>1, <3>3 DEF IInv, Supplied, Begun
            <4>. QED  BY <3>1, <3>3, <4>1 DEF Founded
        <3>. QED  BY <1>4, <3>2, <3>3
    <2>2. snapshot'.capabilities # {} => snapshot'.account = TRUE
        <3>1. snapshot.capabilities # {} => snapshot.account = TRUE
            BY <1>1 DEF IInv, Supplied, Begun
        <3>. QED  BY <1>4, <3>1
    <2>3. snapshot'.diagnostics \subseteq {<<"identity", "global">>}
        BY <1>4, <1>5
    <2>4. inventory'.diagnostics = {}
        BY <1>1 DEF IInv, Scheduled, Empty
    <2>. QED  BY <1>1, <1>4, <1>5, <2>1, <2>2, <2>3, <2>4 DEF Supplied, Begun
<1>11. Filed'
    BY <1>1 DEF IInv, Filed, Loads
<1>. QED  BY <1>6, <1>7, <1>8, <1>9, <1>10, <1>11 DEF IInv

\* the regions and the visits to make in them,
LEMMA DiscoverRegionsKeeps ==
    ASSUME IInv, DiscoverRegions
    PROVE  IInv'
<1>. DEFINE enabled == [snapshot EXCEPT !.regions = EnabledRegions]
            asked == [snapshot EXCEPT !.regions = request.regions]
            refused == WithDiagnostic(snapshot, <<"regions", "global">>)
<1>1. /\ pc = "regions" /\ snapshot' \in {enabled, asked, refused}
      /\ visits' = Visits(request.groups, snapshot'.regions)
      /\ pc' = IF visits' = {} THEN "filter" ELSE "read"
      /\ UNCHANGED <<account, request, next, inventory, file, timedOut>>
    BY DEF DiscoverRegions, Start
<1>2. /\ IsSnapshot(enabled) /\ enabled.resources = snapshot.resources /\ enabled.edges = snapshot.edges
      /\ enabled.regions = EnabledRegions /\ enabled.diagnostics = snapshot.diagnostics
      /\ enabled.capabilities = snapshot.capabilities /\ enabled.account = snapshot.account
    BY DEF IInv, Scheduled, IsSnapshot
<1>3. /\ IsSnapshot(asked) /\ asked.resources = snapshot.resources /\ asked.edges = snapshot.edges
      /\ asked.regions = request.regions /\ asked.diagnostics = snapshot.diagnostics
      /\ asked.capabilities = snapshot.capabilities /\ asked.account = snapshot.account
    BY DEF IInv, Scheduled, IsSnapshot
<1>4. /\ IsSnapshot(refused) /\ refused.resources = snapshot.resources /\ refused.edges = snapshot.edges
      /\ refused.regions = snapshot.regions /\ refused.capabilities = snapshot.capabilities
      /\ refused.diagnostics = snapshot.diagnostics \union {<<"regions", "global">>}
      /\ refused.account = snapshot.account
    BY Diagnosed DEF IInv, Scheduled, AllSound
<1>. HIDE DEF enabled, asked, refused
<1>5. /\ IsSnapshot(snapshot') /\ snapshot'.resources = snapshot.resources /\ snapshot'.edges = snapshot.edges
      /\ snapshot'.regions \subseteq Range(RegionNames) /\ snapshot'.capabilities = snapshot.capabilities
      /\ snapshot'.diagnostics \subseteq snapshot.diagnostics \union {<<"regions", "global">>}
      /\ snapshot'.account = snapshot.account
    BY <1>1, <1>2, <1>3, <1>4, CollectorAssumption DEF IInv, Scheduled
<1>6. /\ DOMAIN snapshot.resources = {} /\ snapshot.edges = {} /\ next = 1
      /\ snapshot.capabilities \subseteq {"identity"} /\ snapshot.diagnostics \subseteq {<<"identity", "global">>}
      /\ inventory = Empty /\ (snapshot.capabilities # {} => snapshot.account = TRUE)
    BY <1>1 DEF IInv, Scheduled, Supplied, Begun
<1>7. \A v \in visits' : IsVisit(v)
    BY <1>1, <1>5, Visiting
<1>8. visits' # {} => Visit' \in visits' /\ IsVisit(Visit')
    BY <1>7, ToVisit DEF Visit
<1>9. Accounted'
    BY <1>1 DEF IInv, Accounted, account
<1>10. Scheduled'
    <2>1. pc' = "read" => next' \in 1..Len(Services(Visit[1], Visit[2])')
        BY <1>1, <1>6, <1>8, ServicesKnown
    <2>. QED  BY <1>1, <1>5, <1>6, <2>1 DEF IInv, Scheduled, Made, Begun
<1>11. AllSound'
    BY <1>1, <1>5, <1>6, EmptyIsSound DEF IInv, AllSound, account
<1>12. Made' = visits'
    BY <1>1 DEF Made
<1>13. Separated' /\ Reported'
    BY <1>1, <1>5, <1>6, <1>12 DEF IInv, Separated, Reported, Empty
<1>14. Supplied'
    <2>1. \A v \in visits' : v \notin {<<"identity", "global">>, <<"regions", "global">>}
        BY <1>7 DEF IsVisit
    <2>2. \A c \in snapshot'.capabilities : c = "identity" /\ snapshot'.account = TRUE
        BY <1>5, <1>6
    <2>3. \A c \in snapshot'.capabilities : Founded(c, snapshot, (Made \ visits) \ snapshot.diagnostics)'
        BY <2>2 DEF Founded
    <2>4. snapshot'.diagnostics \subseteq {<<"identity", "global">>, <<"regions", "global">>}
        BY <1>5, <1>6
    <2>5. \A d \in snapshot'.diagnostics : d[1] \notin PolicyServices
        BY <2>4 DEF PolicyServices
    <2>6. Begun' /\ inventory'.diagnostics = {}
        BY <1>1, <1>6 DEF Begun, Empty
    <2>. QED  BY <2>1, <2>3, <2>4, <2>5, <2>6 DEF Supplied
<1>15. Filed'
    BY <1>1 DEF IInv, Filed, Loads
<1>. QED  BY <1>9, <1>10, <1>11, <1>13, <1>14, <1>15 DEF IInv

\* the tag filter and redaction,
LEMMA FilterKeeps ==
    ASSUME IInv, Filter
    PROVE  IInv'
<1>. DEFINE filtered == ApplyTagFilters(snapshot, request.tags)
<1>1. /\ pc = "filter" /\ pc' = "write" /\ snapshot' = Normalize(filtered)
      /\ UNCHANGED <<account, request, visits, next, inventory, file, timedOut, faults>>
    BY DEF Filter
<1>2. /\ IsSnapshot(filtered) /\ Sound(filtered, exposed, wasOpen, wasClosed)
      /\ filtered.regions = snapshot.regions /\ filtered.capabilities = snapshot.capabilities
      /\ filtered.diagnostics = snapshot.diagnostics /\ filtered.account = snapshot.account
      /\ DOMAIN filtered.resources \subseteq DOMAIN snapshot.resources
    BY FilteredIsSound DEF IInv, Scheduled, AllSound
<1>3. request.tags = {} => filtered = snapshot
    BY DEF ApplyTagFilters
<1>. HIDE DEF filtered
<1>4. /\ IsSnapshot(snapshot') /\ snapshot'.regions = snapshot.regions
      /\ snapshot'.capabilities = snapshot.capabilities /\ snapshot'.diagnostics = snapshot.diagnostics
      /\ DOMAIN snapshot'.resources = DOMAIN filtered.resources
      /\ snapshot'.account = snapshot.account
    BY <1>1, <1>2, Normalizing DEF NormalizeResourceSet
<1>5. Accounted'
    BY <1>1 DEF IInv, Accounted, account
<1>6. Scheduled'
    BY <1>1, <1>4 DEF IInv, Scheduled, Made, Begun
<1>7. Sound(snapshot', exposed, wasOpen, wasClosed)
    BY <1>1, <1>2, NormalizedIsSound
<1>8. AllSound'
    BY <1>1, <1>7 DEF IInv, AllSound, account
<1>9. Separated'
    BY <1>1, <1>2, <1>4 DEF IInv, Separated
<1>10. Reported'
    BY <1>1, <1>3, <1>4 DEF IInv, Reported, Made, Begun, account
<1>11. Supplied'
    <2>1. Made' = Made /\ Begun /\ Begun' /\ inventory.diagnostics = {}
        BY <1>1, <1>4 DEF Made, Begun, IInv, Scheduled, Empty
    <2>. QED  BY <1>1, <1>4, <2>1 DEF IInv, Supplied, Founded
<1>12. Filed'
    BY <1>1 DEF IInv, Filed, Loads
<1>. QED  BY <1>5, <1>6, <1>8, <1>9, <1>10, <1>11, <1>12 DEF IInv

\* Steps that leave what was collected as it is.
LEMMA WritingKeeps ==
    ASSUME IInv, Truncate \/ Save \/ Die \/ TimeOut
    PROVE  IInv'
<1>1. UNCHANGED <<account, request, visits, next, inventory, snapshot>>
    BY DEF Truncate, Save, Die, TimeOut
<1>2. \/ pc' = pc
      \/ pc \in {"write", "writing"} /\ pc' \in {"writing", "done", "dead"}
    BY DEF Truncate, Save, Die, TimeOut
<1>3. Accounted'
    BY <1>1 DEF IInv, Accounted, account
<1>4. Scheduled'
    BY <1>1, <1>2 DEF IInv, Scheduled, Made, Begun, Visit
<1>5. AllSound'
    BY <1>1 DEF IInv, AllSound, account
<1>6. Separated' /\ Reported'
    BY <1>1, <1>2 DEF IInv, Separated, Reported, Made, Begun, account, Visit
<1>7. Supplied'
    BY <1>1, <1>2 DEF IInv, Supplied, OfData, Made, Begun, Visit
<1>8. Filed'
    BY DEF IInv, Filed, Loads, Truncate, Save, Die, TimeOut, Torn, Write
<1>. QED  BY <1>3, <1>4, <1>5, <1>6, <1>7, <1>8 DEF IInv

\* The collector goes on to the next visit.
LEMMA LeaveSchedules ==
    ASSUME Scheduled, pc = "read", Leave, IsSnapshot(snapshot'), snapshot'.regions = snapshot.regions,
           UNCHANGED request
    PROVE  Scheduled' /\ Made' = Made /\ Begun' /\ Begun
<1>1. /\ visits' = visits \ {Visit} /\ next' = 1 /\ inventory' = Empty
      /\ pc' = IF visits' = {} THEN "filter" ELSE "read"
    BY DEF Leave
<1>2. Made' = Made
    BY DEF Made
<1>3. \A v \in visits' : IsVisit(v)
    BY <1>1, Visiting DEF Scheduled, Made
<1>4. visits' # {} => Visit' \in visits' /\ IsVisit(Visit')
    BY <1>3, ToVisit DEF Visit
<1>5. pc' = "read" => next' \in 1..Len(Services(Visit[1], Visit[2])')
    BY <1>1, <1>4, ServicesKnown
<1>6. IsInventory(inventory')
    BY <1>1 DEF IsInventory, Empty
<1>7. Begun' /\ Begun
    BY <1>1 DEF Begun
<1>. QED  BY <1>1, <1>2, <1>5, <1>6, <1>7 DEF Scheduled

\* A refused read leaves a diagnostic of its visit.
LEMMA ReadFailsKeeps ==
    ASSUME IInv, ReadFails
    PROVE  IInv'
<1>1. /\ pc = "read" /\ Leave /\ snapshot' = WithDiagnostic(snapshot, Visit)
      /\ UNCHANGED <<account, request, file, timedOut>>
    BY DEF ReadFails
<1>2. Visit \in visits
    BY <1>1, VisitIs DEF IInv
<1>3. /\ IsSnapshot(snapshot') /\ Sound(snapshot', exposed, wasOpen, wasClosed)
      /\ snapshot'.resources = snapshot.resources /\ snapshot'.regions = snapshot.regions
      /\ snapshot'.capabilities = snapshot.capabilities
      /\ snapshot'.diagnostics = snapshot.diagnostics \union {Visit} /\ snapshot'.account = snapshot.account
    BY <1>1, Diagnosed DEF IInv, Scheduled, AllSound
<1>4. Scheduled' /\ Made' = Made /\ Begun' /\ Begun
    BY <1>1, <1>3, LeaveSchedules DEF IInv
<1>5. /\ visits' = visits \ {Visit} /\ next' = 1 /\ inventory' = Empty
      /\ DOMAIN inventory'.resources = {} /\ inventory'.edges = {} /\ inventory'.diagnostics = {}
    BY <1>1 DEF Leave, Empty
<1>6. Accounted'
    BY <1>1 DEF IInv, Accounted, account
<1>7. AllSound'
    <2>1. Sound(inventory', exposed, wasOpen, wasClosed)
        BY <1>5, EmptyIsSound
    <2>. QED  BY <1>1, <1>3, <2>1 DEF AllSound, account
<1>8. Separated'
    BY <1>3, <1>5 DEF IInv, Separated
<1>9. Reported'
    BY <1>1, <1>3, <1>4, <1>5 DEF IInv, Reported, account
<1>10. Supplied'
    <2>1. IsVisit(Visit)
        BY <1>1, VisitIs DEF IInv
    <2>2. Visit[1] \notin PolicyServices
        BY <2>1 DEF IsVisit, PolicyServices
    <2>3. (Made' \ visits') \ snapshot'.diagnostics = (Made \ visits) \ snapshot.diagnostics
        BY <1>2, <1>3, <1>4, <1>5
    <2>4. ASSUME NEW c, NEW v, Supplies(v, c, snapshot.diagnostics)
          PROVE  Supplies(v, c, snapshot'.diagnostics)
        <3>1. c \in Range(PolicyCapabilities) => Supplier[c] \in PolicyServices
            <4>1. Range(PolicyCapabilities) = {"s3_protection", "secrets_policies", "kms_policies"}
                BY DEF Range, PolicyCapabilities
            <4>. QED  BY <4>1 DEF Supplier, PolicyServices
        <3>. QED  BY <1>3, <2>2, <2>4, <3>1 DEF Supplies
    <2>5. \A c \in snapshot'.capabilities : Founded(c, snapshot, (Made \ visits) \ snapshot.diagnostics)'
        BY <1>3, <2>3, <2>4 DEF IInv, Supplied, Founded
    <2>6. \A d \in snapshot'.diagnostics : d[1] \in PolicyServices => <<"data", d[2]>> \notin visits'
        BY <1>3, <1>5, <2>2 DEF IInv, Supplied
    <2>7. snapshot'.diagnostics \intersect visits' = {}
        BY <1>3, <1>5 DEF IInv, Supplied
    <2>. QED  BY <1>4, <1>5, <2>5, <2>6, <2>7 DEF Supplied
<1>11. Filed'
    BY <1>1, <1>4 DEF IInv, Filed, Loads
<1>. QED  BY <1>4, <1>6, <1>7, <1>8, <1>9, <1>10, <1>11 DEF IInv

\* What Merge makes of the parts of a snapshot.
LEMMA Merging ==
    ASSUME NEW X, IsSnapshot(X), NEW Y, NEW group, NEW r
    PROVE  LET Z == Merge(X, Y, group, r)
           IN  /\ IsSnapshot(Z) /\ Z.regions = X.regions
               /\ Z.resources = Over(Y.resources, X.resources) /\ Z.edges = X.edges \union Y.edges
               /\ Z.diagnostics = X.diagnostics \union Y.diagnostics /\ Z.account = X.account
               /\ Z.capabilities = MergedCapabilities(X.capabilities, group, r, Y.diagnostics)
<1>. DEFINE resources == Over(Y.resources, X.resources)
            edges == X.edges \union Y.edges
            diagnostics == X.diagnostics \union Y.diagnostics
            capabilities == MergedCapabilities(X.capabilities, group, r, Y.diagnostics)
            mid == [X EXCEPT !.resources = resources]
            mid2 == [mid EXCEPT !.edges = edges]
            mid3 == [mid2 EXCEPT !.diagnostics = diagnostics]
            Z == [mid3 EXCEPT !.capabilities = capabilities]
<1>2. Merge(X, Y, group, r) =
        [X EXCEPT !.resources = resources, !.edges = edges, !.diagnostics = diagnostics,
                  !.capabilities = capabilities]
    BY DEF Merge, IsSnapshot
<1>. HIDE DEF resources, edges, diagnostics, capabilities
<1>3. Merge(X, Y, group, r) = Z
    BY <1>2 DEF IsSnapshot
<1>4. mid = [account |-> X.account, regions |-> X.regions, resources |-> resources, edges |-> X.edges,
             capabilities |-> X.capabilities, diagnostics |-> X.diagnostics]
    BY DEF IsSnapshot
<1>. HIDE DEF mid
<1>5. mid2 = [account |-> X.account, regions |-> X.regions, resources |-> resources, edges |-> edges,
              capabilities |-> X.capabilities, diagnostics |-> X.diagnostics]
    BY <1>4
<1>. HIDE DEF mid2
<1>6. mid3 = [account |-> X.account, regions |-> X.regions, resources |-> resources, edges |-> edges,
              capabilities |-> X.capabilities, diagnostics |-> diagnostics]
    BY <1>5
<1>. HIDE DEF mid3
<1>7. Z = [account |-> X.account, regions |-> X.regions, resources |-> resources, edges |-> edges,
           capabilities |-> capabilities, diagnostics |-> diagnostics]
    BY <1>6
<1>. HIDE DEF Z
<1>8. /\ IsSnapshot(Z) /\ Z.regions = X.regions /\ Z.resources = resources /\ Z.edges = edges
      /\ Z.diagnostics = diagnostics /\ Z.capabilities = capabilities /\ Z.account = X.account
    BY <1>7 DEF IsSnapshot
<1>. QED  BY <1>3, <1>8 DEF resources, edges, diagnostics, capabilities

\* Capabilities of policies stay only where the group is not of data.
LEMMA MergedPolicies ==
    ASSUME NEW capabilities, NEW group, NEW r, NEW diagnostics,
           NEW c \in MergedCapabilities(capabilities, group, r, diagnostics)
    PROVE  \/ c \in GroupCapabilities(group)
           \/ c \in capabilities /\ (c \in Range(PolicyCapabilities) => group # "data")
           \/ /\ group = "data"
              /\ \E s \in DOMAIN PolicyCapabilities : c = PolicyCapabilities[s] /\ <<s, r>> \notin diagnostics
<1>1. \A d \in Range(PolicyCapabilities) : \E s \in DOMAIN PolicyCapabilities : d = PolicyCapabilities[s]
    BY DEF Range
<1>. QED  BY <1>1 DEF MergedCapabilities

\* An answered read: the inventory grows, or is merged into the snapshot.
LEMMA ReadKeeps ==
    ASSUME IInv, NEW denied, Read(denied)
    PROVE  IInv'
<1>. DEFINE group == Visit[1]
            r == Visit[2]
            services == Services(group, r)
            service == services[next]
            view == [live |-> live, exposed |-> exposed, denied |-> denied]
            found == Collected(service, inventory, view, r)
            grown == [resources |-> found.resources, edges |-> found.edges,
                      diagnostics |-> inventory.diagnostics \union PolicyDiagnostics(service, view, r)]
            listed == Listed(service, view, r)
<1>1. /\ pc = "read" /\ denied \subseteq Deniable(service)
      /\ UNCHANGED <<account, request, file, timedOut>>
    BY DEF Read
<1>2. \/ /\ next < Len(services) /\ next' = next + 1 /\ inventory' = grown
         /\ UNCHANGED <<pc, visits, snapshot>>
      \/ next = Len(services) /\ snapshot' = Merge(snapshot, grown, group, r) /\ Leave
    BY DEF Read
<1>3. /\ Visit \in visits /\ IsVisit(Visit) /\ Visit = <<group, r>>
      /\ next \in 1..Len(services) /\ services \in Seq(AllServices) /\ service \in AllServices
    <2>1. Visit \in visits /\ IsVisit(Visit)
        BY <1>1, VisitIs DEF IInv
    <2>2. next \in 1..Len(services)
        BY <1>1 DEF IInv, Scheduled
    <2>. QED  BY <2>1, <2>2, ServicesKnown DEF IsVisit
<1>4. /\ service \in {"subnets", "route_tables"} => group = "network"
      /\ service = "subnets" => next = 2
      /\ service = "route_tables" => next = 6
    BY <1>3, ServicesKnown
<1>5. IsView(view)
    BY DEF IInv, Accounted, IsView
<1>6. Reads(service, inventory, found, view, r)
    BY <1>3, <1>5, Reading
<1>7. InOrder(service, inventory)
    BY <1>4 DEF IInv, Separated, InOrder
<1>8. Sound(grown, exposed, wasOpen, wasClosed)
    <2>1. /\ view.exposed = exposed /\ view.live = live
          /\ view.exposed \subseteq wasOpen /\ view.live \ view.exposed \subseteq wasClosed
        BY DEF IInv, Accounted
    <2>2. Sound(inventory, view.exposed, wasOpen, wasClosed)
        BY <2>1 DEF IInv, AllSound
    <2>3. /\ grown.resources = found.resources /\ grown.edges = found.edges
          /\ grown.diagnostics = inventory.diagnostics \union PolicyDiagnostics(service, view, r)
        OBVIOUS
    <2>. HIDE DEF grown, found, service, view, r
    <2>4. Sound(grown, view.exposed, wasOpen, wasClosed)
        BY <1>3, <1>5, <1>6, <1>7, <2>1, <2>2, <2>3, ReadIsSound
    <2>. QED  BY <2>1, <2>4
<1>9. DOMAIN grown.resources = DOMAIN inventory.resources \union listed
    BY <1>6 DEF Reads
<1>10. ASSUME NEW o \in DOMAIN grown.resources
       PROVE  /\ Objects[o].kind \in NetworkKinds => Visit = <<"network", Objects[o].region>>
              /\ Objects[o].kind = "aws_route_table" => next + 1 > 6
    <2>1. CASE o \in DOMAIN inventory.resources
        BY <1>3, <2>1 DEF IInv, Separated
    <2>2. CASE o \in listed
        <3>1. /\ Objects[o].kind = "aws_subnet" => service = "subnets" /\ Objects[o].region = r
              /\ Objects[o].kind = "aws_route_table" => service = "route_tables" /\ Objects[o].region = r
            BY <1>3, <1>5, <2>2, NetworkListed
        <3>. HIDE DEF service, r, group
        <3>. QED  BY <1>3, <1>4, <3>1 DEF NetworkKinds
    <2>. QED  BY <1>9, <2>1, <2>2
<1>11. ASSUME NEW i \in 1..next
       PROVE  LastingOf(services[i], r, lasting) \subseteq DOMAIN grown.resources
    <2>1. CASE i = next
        <3>1. LastingOf(service, r, lasting) \subseteq listed
            <4>. DEFINE before == [live |-> lasting, exposed |-> {}, denied |-> {}]
            <4>1. before.live \subseteq view.live
                BY DEF IInv, Accounted
            <4>2. LastingOf(service, r, lasting) = Listed(service, before, r)
                BY DEF LastingOf
            <4>. HIDE DEF before, service, view, r
            <4>. QED  BY <1>3, <4>1, <4>2, ListedGrows
        <3>. QED  BY <1>9, <2>1, <3>1
    <2>2. CASE i # next
        <3>1. i \in 1..(next - 1)
            BY <1>3, <2>2
        <3>. QED  BY <1>1, <1>9, <3>1 DEF IInv, Reported
    <2>. QED  BY <2>1, <2>2
<1>12. \A d \in grown.diagnostics : d[1] \in PolicyServices /\ Visit = <<"data", d[2]>>
    <2>1. "policies" \in denied => service \in PolicyServices
        BY <1>1, <1>3 DEF Deniable, PolicyServices, AllServices
    <2>2. \A d \in PolicyDiagnostics(service, view, r) : "policies" \in denied /\ d = <<service, r>>
        BY DEF PolicyDiagnostics
    <2>3. service \in PolicyServices => group = "data"
        BY <1>3, PoliciesOfData
    <2>. QED  BY <1>3, <2>1, <2>2, <2>3 DEF IInv, Supplied, OfData
<1>13. IsInventory(grown)
    BY DEF IsInventory
<1>14. Accounted'
    BY <1>1 DEF IInv, Accounted, account
<1>15. CASE /\ next < Len(services) /\ next' = next + 1 /\ inventory' = grown
            /\ UNCHANGED <<pc, visits, snapshot>>
    <2>. USE <1>15
    <2>. HIDE DEF grown
    <2>1. Visit' = Visit /\ Made' = Made /\ (Begun' <=> Begun)
        BY <1>1 DEF Visit, Made, Begun
    <2>2. next' \in 1..Len(services) /\ next' # 1
        BY <1>3
    <2>3. Scheduled'
        BY <1>1, <1>13, <2>1, <2>2 DEF IInv, Scheduled
    <2>4. AllSound'
        BY <1>1, <1>8 DEF IInv, AllSound, account
    <2>5. Separated'
        BY <1>1, <1>10, <2>1 DEF IInv, Separated
    <2>6. \A i \in 1..(next' - 1) : i \in 1..next
        BY <1>3
    <2>7. Reported'
        BY <1>1, <1>11, <2>1, <2>6 DEF IInv, Reported, account
    <2>8. Supplied'
        <3>1. \A d \in inventory'.diagnostics : OfData(d)'
            BY <1>1, <1>12, <2>1 DEF OfData
        <3>. QED  BY <1>1, <2>1, <3>1 DEF IInv, Supplied
    <2>9. Filed'
        BY <1>1 DEF IInv, Filed, Loads
    <2>. QED  BY <1>14, <2>3, <2>4, <2>5, <2>7, <2>8, <2>9 DEF IInv
<1>16. CASE next = Len(services) /\ snapshot' = Merge(snapshot, grown, group, r) /\ Leave
    <2>. USE <1>16
    <2>. HIDE DEF grown, group, r, services
    <2>1. /\ IsSnapshot(snapshot') /\ snapshot'.regions = snapshot.regions
          /\ snapshot'.resources = Over(grown.resources, snapshot.resources)
          /\ snapshot'.edges = snapshot.edges \union grown.edges
          /\ snapshot'.diagnostics = snapshot.diagnostics \union grown.diagnostics
          /\ snapshot'.account = snapshot.account
          /\ snapshot'.capabilities = MergedCapabilities(snapshot.capabilities, group, r, grown.diagnostics)
        BY Merging DEF IInv, Scheduled
    <2>2. Scheduled' /\ Made' = Made /\ Begun' /\ Begun
        BY <1>1, <2>1, LeaveSchedules DEF IInv
    <2>3. /\ visits' = visits \ {Visit} /\ next' = 1 /\ inventory' = Empty
          /\ DOMAIN inventory'.resources = {} /\ inventory'.edges = {} /\ inventory'.diagnostics = {}
        BY DEF Leave, Empty
    <2>4. Apart(snapshot, grown)
        BY <1>3, <1>10 DEF IInv, Separated, Apart, NetworkKinds
    <2>5. Sound(snapshot', exposed, wasOpen, wasClosed)
        BY <1>8, <2>1, <2>4, MergeIsSound DEF IInv, AllSound
    <2>6. AllSound'
        <3>1. Sound(inventory', exposed, wasOpen, wasClosed)
            BY <2>3, EmptyIsSound
        <3>. QED  BY <1>1, <2>5, <3>1 DEF AllSound, account
    <2>7. DOMAIN snapshot'.resources = DOMAIN snapshot.resources \union DOMAIN grown.resources
        BY <2>1 DEF Over
    <2>8. Separated'
        BY <1>10, <2>3, <2>7 DEF IInv, Separated
    <2>9. Reported'
        <3>1. \A s \in Range(services) : LastingOf(s, r, lasting) \subseteq DOMAIN grown.resources
            BY <1>3, <1>11 DEF Range
        <3>2. \A s \in Range(Services(Visit[1], Visit[2])) :
                  LastingOf(s, Visit[2], lasting) \subseteq DOMAIN snapshot'.resources
            BY <2>7, <3>1 DEF services, group, r
        <3>3. ASSUME request.tags = {}, NEW v \in Made \ visits'
              PROVE  \/ v \in snapshot'.diagnostics
                     \/ \A s \in Range(Services(v[1], v[2])) :
                            LastingOf(s, v[2], lasting) \subseteq DOMAIN snapshot'.resources
            <4>1. CASE v = Visit
                BY <3>2, <4>1
            <4>2. CASE v # Visit
                BY <2>1, <2>2, <2>3, <2>7, <3>3, <4>2 DEF IInv, Reported
            <4>. QED  BY <4>1, <4>2
        <3>. QED  BY <1>1, <2>2, <2>3, <3>3 DEF Reported, account
    <2>10. Supplied'
        <3>1. \A v \in Made : v \notin grown.diagnostics
            <4>1. \A v \in Made : v[1] \in {"iam", "network", "edge", "compute", "data"}
                BY Visiting DEF IInv, Scheduled, Made, IsVisit
            <4>. QED  BY <1>12, <4>1 DEF PolicyServices
        <3>2. Visit \in Made /\ Visit \notin snapshot.diagnostics
            BY <1>3 DEF IInv, Scheduled, Supplied
        <3>3. (Made' \ visits') \ snapshot'.diagnostics
                  = ((Made \ visits) \ snapshot.diagnostics) \union {Visit}
            BY <2>1, <2>2, <2>3, <3>1, <3>2, <1>3
        <3>4. \A d \in snapshot'.diagnostics : d[1] \in PolicyServices => <<"data", d[2]>> \notin visits'
            BY <1>12, <2>1, <2>3 DEF IInv, Supplied
        <3>5. group # "data" => grown.diagnostics = {}
            BY <1>12 DEF group
        <3>6. snapshot'.diagnostics \intersect visits' = {}
            BY <2>1, <2>3, <3>1 DEF IInv, Scheduled, Supplied
        <3>7. ASSUME NEW c \in snapshot'.capabilities
              PROVE  Founded(c, snapshot, (Made \ visits) \ snapshot.diagnostics)'
            <4>1. c \in MergedCapabilities(snapshot.capabilities, group, r, grown.diagnostics)
                BY <2>1
            <4>2. CASE c \in GroupCapabilities(group)
                <5>1. Supplies(Visit, c, snapshot'.diagnostics) \/ DeclaredUnread(Visit, c)
                    BY <1>3, <4>2, GroupSupplies DEF group
                <5>. QED  BY <3>3, <5>1 DEF Founded
            <4>3. CASE c \in snapshot.capabilities /\ (c \in Range(PolicyCapabilities) => group # "data")
                <5>1. Founded(c, snapshot, (Made \ visits) \ snapshot.diagnostics)
                    BY <4>3 DEF IInv, Supplied
                <5>2. c \in Range(PolicyCapabilities) => snapshot'.diagnostics = snapshot.diagnostics
                    BY <2>1, <3>5, <4>3
                <5>3. PICK Z : Z = snapshot'
                    OBVIOUS
                <5>4. PICK more : more = (Made' \ visits') \ snapshot'.diagnostics
                    OBVIOUS
                <5>5. PICK old : old = (Made \ visits) \ snapshot.diagnostics
                    OBVIOUS
                <5>6. Founded(c, snapshot, old) /\ old \subseteq more
                    BY <3>3, <5>1, <5>4, <5>5
                <5>7. Z.account = snapshot.account /\ (c \in Range(PolicyCapabilities) => Z.diagnostics = snapshot.diagnostics)
                    BY <2>1, <5>2, <5>3
                <5>8. Founded(c, Z, more)
                    BY <5>6, <5>7, StillFounded
                <5>. QED  BY <5>3, <5>4, <5>8
            <4>4. CASE /\ group = "data"
                       /\ \E s \in DOMAIN PolicyCapabilities : c = PolicyCapabilities[s] /\ <<s, r>> \notin grown.diagnostics
                <5>1. PICK s \in DOMAIN PolicyCapabilities : c = PolicyCapabilities[s] /\ <<s, r>> \notin grown.diagnostics
                    BY <4>4
                <5>2. s \in PolicyServices
                    BY DEF PolicyCapabilities, PolicyServices
                <5>3. Visit = <<"data", r>> /\ Visit \in visits
                    BY <1>3, <4>4
                <5>4. <<s, r>> \notin snapshot.diagnostics
                    BY <5>2, <5>3 DEF IInv, Supplied
                <5>5. <<s, r>> \notin snapshot'.diagnostics
                    BY <2>1, <5>1, <5>4
                <5>6. Visit[1] = "data" /\ Visit[2] = r
                    BY <5>3
                <5>7. Supplies(Visit, c, snapshot'.diagnostics)
                    BY <5>1, <5>5, <5>6, PoliciesSupply
                <5>. QED  BY <3>3, <5>7 DEF Founded
            <4>. QED  BY <4>1, <4>2, <4>3, <4>4, MergedPolicies
        <3>. QED  BY <2>2, <2>3, <3>4, <3>6, <3>7 DEF Supplied
    <2>11. Filed'
        BY <1>1, <2>2 DEF IInv, Filed, Loads
    <2>. QED  BY <1>14, <2>2, <2>6, <2>8, <2>9, <2>10, <2>11 DEF IInv
<1>. QED  BY <1>2, <1>15, <1>16

-----------------------------------------------------------------------------
(***************************************************************************)
(* What holds of every collection.                                         *)
(***************************************************************************)
\* A step that changes nothing keeps the invariant.
LEMMA Stuttering ==
    ASSUME IInv, UNCHANGED vars
    PROVE  IInv'
<1>1. UNCHANGED <<account, request, collector>>
    BY DEF vars
<1>2. Made' = Made /\ Visit' = Visit /\ (Begun' <=> Begun)
    BY <1>1 DEF Made, Visit, Begun, collector
<1>3. Accounted' /\ AllSound' /\ Filed'
    BY <1>1 DEF IInv, Accounted, AllSound, Filed, Loads, account, collector
<1>4. Scheduled' /\ Separated' /\ Reported' /\ Supplied'
    BY <1>1, <1>2 DEF IInv, Scheduled, Separated, Reported, Supplied, OfData, account, collector
<1>. QED  BY <1>3, <1>4 DEF IInv

\* Every snapshot is the account's, part by part, whatever happens meanwhile.
THEOREM Invariance == Spec => []IInv
<1>1. Init => IInv
    BY Initially
<1>2. IInv /\ [Next]_vars => IInv'
    <2>. SUFFICES ASSUME IInv, [Next]_vars PROVE IInv'
        OBVIOUS
    <2>1. CASE Identify
        BY <2>1, IdentifyKeeps
    <2>2. CASE DiscoverRegions
        BY <2>2, DiscoverRegionsKeeps
    <2>3. CASE ReadFails
        BY <2>3, ReadFailsKeeps
    <2>4. CASE Filter
        BY <2>4, FilterKeeps
    <2>5. CASE Truncate \/ Save \/ Die \/ TimeOut
        BY <2>5, WritingKeeps
    <2>6. ASSUME NEW denied \in SUBSET {"tags", "policies"}, Read(denied) PROVE IInv'
        BY <2>6, ReadKeeps
    <2>7. CASE AccountStep
        BY <2>7, AccountKeeps
    <2>8. CASE UNCHANGED vars
        BY <2>8, Stuttering
    <2>9. Openable \subseteq Volatile
        BY DEF Openable
    <2>. QED  BY <2>1, <2>2, <2>3, <2>4, <2>5, <2>6, <2>7, <2>8, <2>9 DEF Next, Step, AccountStep
<1>. QED  BY <1>1, <1>2, PTL DEF Spec

\* What a scan loads is what was collected, redacted.
LEMMA Loaded ==
    ASSUME IInv, Loads
    PROVE  /\ Sound(Load, exposed, wasOpen, wasClosed) /\ visits = {} /\ Begun
           /\ Load.regions = snapshot.regions /\ Load.capabilities = snapshot.capabilities
           /\ Load.diagnostics = snapshot.diagnostics /\ Load.account = snapshot.account
           /\ DOMAIN Load.resources = DOMAIN snapshot.resources
<1>. DEFINE once == Normalize(snapshot)
<1>1. pc = "done" /\ Load = Normalize(once)
    BY DEF IInv, Filed, Load
<1>2. /\ IsSnapshot(once) /\ Sound(once, exposed, wasOpen, wasClosed)
      /\ once.regions = snapshot.regions /\ once.capabilities = snapshot.capabilities
      /\ once.diagnostics = snapshot.diagnostics /\ once.account = snapshot.account
      /\ once.resources = NormalizeResourceSet(snapshot.resources)
    BY Normalizing, NormalizedIsSound DEF IInv, Scheduled, AllSound
<1>. HIDE DEF once
<1>3. /\ Sound(Load, exposed, wasOpen, wasClosed) /\ Load.resources = NormalizeResourceSet(once.resources)
      /\ Load.regions = once.regions /\ Load.capabilities = once.capabilities
      /\ Load.diagnostics = once.diagnostics /\ Load.account = once.account
    BY <1>1, <1>2, Normalizing, NormalizedIsSound
<1>4. DOMAIN Load.resources = DOMAIN snapshot.resources
    BY <1>2, <1>3 DEF NormalizeResourceSet
<1>. QED  BY <1>1, <1>2, <1>3, <1>4 DEF IInv, Scheduled, Begun

\* What lasts is listed by every read, so it is among the resources of an answered visit.
LEMMA LastingListed ==
    ASSUME Accounted, NEW service \in AllServices, NEW r
    PROVE  Lasting(service, r) = LastingOf(service, r, lasting)
<1>. DEFINE view == [live |-> lasting, exposed |-> {}, denied |-> {}]
            found == Collected(service, EmptyInventory, view, r)
<1>1. IsView(view)
    BY DEF Accounted, IsView
<1>2. Reads(service, EmptyInventory, found, view, r)
    BY <1>1, Reading
<1>3. DOMAIN EmptyInventory.resources = {}
    BY DEF EmptyInventory
<1>4. DOMAIN found.resources = Listed(service, view, r)
    BY <1>2, <1>3 DEF Reads
<1>. QED  BY <1>4 DEF Lasting, LastingOf

\* Whatever lasted and was asked for is in the snapshot that is loaded, or a
\* diagnostic tells of the read that failed: Collect's error paths.
THEOREM GapsAreTold == Spec => []NoSilentGaps
<1>1. IInv => NoSilentGaps
    <2>. SUFFICES ASSUME IInv, Loads PROVE NoSilentGaps
        BY DEF NoSilentGaps
    <2>1. /\ visits = {} /\ Begun /\ Load.regions = snapshot.regions
          /\ Load.capabilities = snapshot.capabilities /\ Load.diagnostics = snapshot.diagnostics
          /\ DOMAIN Load.resources = DOMAIN snapshot.resources /\ Load.account = snapshot.account
        BY Loaded
    <2>2. Visits(request.groups, Load.regions) = Made
        BY <2>1 DEF Made
    <2>3. ASSUME request.tags = {}, NEW v \in Made, NEW service \in Range(Services(v[1], v[2]))
          PROVE  Lasting(service, v[2]) \subseteq DOMAIN Load.resources \/ v \in Load.diagnostics
        <3>1. service \in AllServices
            <4>1. IsVisit(v)
                BY Visiting DEF IInv, Scheduled, Made
            <4>. QED  BY <2>3, <4>1, ServicesKnown DEF Range
        <3>2. v \in snapshot.diagnostics
              \/ LastingOf(service, v[2], lasting) \subseteq DOMAIN snapshot.resources
            BY <2>1, <2>3 DEF IInv, Reported
        <3>. QED  BY <2>1, <3>1, <3>2, LastingListed DEF IInv
    <2>4. AllCapabilities \ ValidatePermissions(Load) \subseteq snapshot.capabilities
        BY <2>1 DEF ValidatePermissions
    <2>5. \A c \in snapshot.capabilities : Founded(c, Load, Made \ Load.diagnostics)
        <3>1. (Made \ visits) \ snapshot.diagnostics = Made \ Load.diagnostics
            BY <2>1
        <3>. QED  BY <2>1, <3>1 DEF IInv, Supplied, Founded
    <2>. QED  BY <2>2, <2>3, <2>4, <2>5 DEF NoSilentGaps
<1>. QED  BY <1>1, Invariance, PTL

\* What stayed open is loaded as open, unless its policy could not be read:
\* MarkResourcePublic, mergeResourceSet and the collectors' reads of policies.
THEOREM ExposureIsTold == Spec => []NoSilentExposure
<1>1. IInv => NoSilentExposure
    BY Loaded DEF NoSilentExposure, Sound, TrueRecord
<1>. QED  BY <1>1, Invariance, PTL

\* Redaction hides the tag, not the sensitivity inferred from it: redactTags, inferSensitivity.
THEOREM SensitivityIsKept == Spec => []SensitivityOutlivesRedaction
<1>1. IInv => SensitivityOutlivesRedaction
    BY Loaded DEF SensitivityOutlivesRedaction, Sound, TrueRecord, Inferred
<1>. QED  BY <1>1, Invariance, PTL

\* What the snapshot says was so at some time of the collection, while the
\* account changed between the reads of Collect.
THEOREM NothingInvented == Spec => []SnapshotWasTrue
<1>1. IInv => SnapshotWasTrue
    BY DEF IInv, AllSound, Sound, TrueRecord, TrueEdge, SnapshotWasTrue, EverOpen, Entered
<1>. QED  BY <1>1, Invariance, PTL

\* Subnets are read before the route tables that mark them: NetworkInventory.
THEOREM RoutesMarkSubnets == Spec => []PublicRouteMarksSubnet
<1>1. IInv => PublicRouteMarksSubnet
    BY DEF IInv, AllSound, Sound, Marked, PublicRouteMarksSubnet
<1>. QED  BY <1>1, Invariance, PTL

\* The counters of the bounds, and the flag of the time-out.
Counted == timedOut \in BOOLEAN /\ faults \in Nat /\ changes \in 0..MaxChanges

\* The variables of Collect and of its command are always what their types say.
THEOREM TypeCorrect == Spec => []TypeOK
<1>1. Init => Counted
    <2>. SUFFICES ASSUME Init PROVE Counted
        OBVIOUS
    <2>1. timedOut \in BOOLEAN
        BY Zenon DEF Init
    <2>2. faults = 0 /\ changes = 0
        BY DEF Init
    <2>. QED  BY <2>1, <2>2, CollectorAssumption DEF Counted
<1>2. Counted /\ [Next]_vars => Counted'
    <2>. SUFFICES ASSUME Counted, [Next]_vars PROVE Counted'
        OBVIOUS
    <2>. USE CollectorAssumption DEF Counted
    <2>1. CASE Identify \/ DiscoverRegions \/ ReadFails
        BY <2>1 DEF Identify, DiscoverRegions, ReadFails, Answered, Refusal, account
    <2>2. CASE Filter \/ Truncate \/ Save \/ Die \/ TimeOut
        BY <2>2 DEF Filter, Truncate, Save, Die, TimeOut, account
    <2>3. ASSUME NEW denied \in SUBSET {"tags", "policies"}, Read(denied) PROVE Counted'
        BY <2>3 DEF Read, account
    <2>4. ASSUME NEW o, Create(o) \/ Delete(o) \/ Expose(o) \/ Close(o) PROVE Counted'
        BY <2>4 DEF Create, Delete, Expose, Close, Changing, collector
    <2>5. CASE UNCHANGED vars
        BY <2>5 DEF vars, account, collector
    <2>. QED  BY <2>1, <2>2, <2>3, <2>4, <2>5 DEF Next, Step
<1>3. IInv /\ Counted => TypeOK
    <2>. SUFFICES ASSUME IInv, Counted PROVE TypeOK
        OBVIOUS
    <2>1. /\ live \subseteq DOMAIN Objects /\ exposed \subseteq live
          /\ request.groups \subseteq Groups
          /\ pc \in {"identity", "regions", "read", "filter", "write", "writing", "done", "dead"}
          /\ pc = "read" <=> visits # {}
          /\ file.state \in {"absent", "torn", "whole"}
        BY DEF IInv, Accounted, Scheduled, Filed
    <2>2. /\ DOMAIN snapshot.resources \union DOMAIN inventory.resources \subseteq DOMAIN Objects
          /\ \A o \in DOMAIN snapshot.resources :
                snapshot.resources[o].public \in {"public", "private", "unknown"}
        BY DEF IInv, AllSound, Sound, TrueRecord
    <2>3. Loads => DOMAIN Load.resources \subseteq DOMAIN Objects
        BY <2>2, Loaded
    <2>. QED  BY <2>1, <2>2, <2>3 DEF TypeOK, Counted
<1>. QED  BY <1>1, <1>2, <1>3, Invariance, PTL DEF Spec
=============================================================================
