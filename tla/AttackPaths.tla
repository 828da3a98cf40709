----------------------------- MODULE AttackPaths -----------------------------
(***************************************************************************)
(* Attack paths (src/internal/attackpath/public_to_sensitive.go, model.go, *)
(* findings.go): the ways from the internet through a workload to what is  *)
(* sensitive, and what a gate makes of a set of paths.                     *)
(*                                                                         *)
(* An attack path is [type, pattern, principal, entrypoint, target, steps, *)
(* confidence, decision, severity, notAction]; a step is [from, to,        *)
(* action, source, confidence], its action an IAM action or <<"graph",     *)
(* type of the edge>>.                                                     *)
(***************************************************************************)
EXTENDS ContextMerge

CONSTANTS
    NamedSensitive,  \* IDs whose name says "db" or "secret"
    ActionNodes      \* the action that each node "action:..." of a live account stands for

PublicToSensitive == "public_to_sensitive_data"
Escalation == "iam_privilege_escalation"

-----------------------------------------------------------------------------
(* Steps and their confidence *)

\* stepsFromGraphPath
StepsOf(g, path) ==
    [i \in DOMAIN path |-> [from |-> path[i][1], to |-> path[i][3], action |-> <<"graph", path[i][2]>>,
                            source |-> g.edges[path[i]].source,
                            confidence |-> g.edges[path[i]].confidence]]

\* Mutant: the first step speaks for the path.
ConfidenceForFirstStep(steps) ==
    IF steps = << >> THEN "high"
    ELSE IF Head(steps).source = "inferred" /\ Head(steps).confidence = "high" THEN "medium"
    ELSE Head(steps).confidence

\* confidenceForPath: the weakest step, where what is inferred is never certain.
ConfidenceForPath(steps) ==
    IF \E i \in DOMAIN steps : steps[i].confidence = "low" THEN "low"
    ELSE IF \E i \in DOMAIN steps : steps[i].confidence = "medium" \/ steps[i].source = "inferred"
    THEN "medium" ELSE "high"

\* withPublicIngress: the first edge from the internet, by key, comes first.
WithPublicIngress(g, entrypoint, steps) ==
    LET ingress == {e \in Incoming(g, entrypoint) : e[1] = Internet}
    IN  IF ingress = {} THEN steps ELSE StepsOf(g, <<FirstEdge(ingress)>>) \o steps

\* iamDecision
IAMDecision(confidence, node) ==
    IF confidence # "high" THEN [decision |-> "warn", severity |-> "high"]
    ELSE [decision |-> "block",
          severity |-> IF node.environment = "production" THEN "critical" ELSE "high"]

PublicPath(entrypoint, target, steps, verdict, pattern) ==
    [type |-> PublicToSensitive, pattern |-> pattern, principal |-> "", entrypoint |-> entrypoint,
     target |-> target, steps |-> steps, confidence |-> ConfidenceForPath(steps),
     decision |-> verdict.decision, severity |-> verdict.severity, notAction |-> FALSE]

-----------------------------------------------------------------------------
(* Who is meant to be public, and who asks for a name at the door *)

ExpectedPublicNode(node) == "expected_public" \in node.flags

APITypes == {"aws_apigatewayv2_api", "aws_api_gateway_rest_api"}
RouteField == [aws_apigatewayv2_route |-> "api_id", aws_api_gateway_method |-> "rest_api_id"]

\* authenticatedAPIGatewayEntrypoint: there are routes, and none of them is anonymous.
AuthenticatedAPI(g, id) ==
    LET Names == KnownAs(g.nodes[id], {"address", "name", "id", "api_id", "rest_api_id"})
        routes == {r \in OfType(g.nodes, DOMAIN RouteField) :
                      \E ref \in g.nodes[r].refs : ref[1] = RouteField[g.nodes[r].type] /\ ref[2] \in Names}
    IN  /\ g.nodes[id].type \in APITypes
        /\ routes # {}
        /\ \A r \in routes : "anonymous" \notin g.nodes[r].flags

-----------------------------------------------------------------------------
(* Roles worth having *)

\* adminRole: by its name, which the flag "admin" stands for, by what was seen on it, or by an edge.
AdminRole(g, id) ==
    /\ g.nodes[id].type = "aws_iam_role"
    /\ \/ "admin" \in g.nodes[id].flags
       \/ g.nodes[id].observed \intersect {AnyAction, <<"iam", "*">>, <<"sts", "*">>} # {}
       \/ \E e \in DOMAIN g.edges : e[1] = id /\ e[2] = "grants_permission"
                                    /\ e[3] \in DOMAIN ActionNodes
                                    /\ ActionNodes[e[3]] \in {AnyAction, <<"iam", "*">>}

SensitiveRole(g, id) ==
    \E e \in DOMAIN g.edges :
        /\ e[1] = id
        /\ e[2] \in {"can_read_data", "can_write_data", "reads_secret", "writes_to"}
        /\ IsSensitiveKind(g.nodes[e[3]].kind)

PrivilegedOrSensitiveRole(g, id) == AdminRole(g, id) \/ SensitiveRole(g, id)

PrivilegedOrSensitivePrincipal(g, id) ==
    /\ g.nodes[id].kind = "principal"
    /\ IF g.nodes[id].type = "aws_iam_role" THEN PrivilegedOrSensitiveRole(g, id)
       ELSE "admin" \in g.nodes[id].flags

-----------------------------------------------------------------------------
(* DetectPublicToSensitive *)

PathHasWorkload(g, from, path) == \E id \in NodesOn(from, path) : g.nodes[id].kind = "workload"

DetectSensitivePaths(g, entrypoint, radius) ==
    {LET steps == WithPublicIngress(g, entrypoint, StepsOf(g, path))
         certain == ConfidenceForPath(steps) = "high"
     IN  PublicPath(entrypoint, End(entrypoint, path), steps,
            [decision |-> IF certain THEN "block" ELSE "warn",
             severity |-> IF certain THEN "critical" ELSE "high"], "sensitive") :
     path \in {p \in radius.paths : /\ IsSensitiveKind(g.nodes[End(entrypoint, p)].kind)
                                           /\ PathHasWorkload(g, entrypoint, p)}}

DetectPublicWorkloadWarnings(g, entrypoint, radius) ==
    {PublicPath(entrypoint, End(entrypoint, path),
                WithPublicIngress(g, entrypoint, StepsOf(g, path)),
                [decision |-> "warn", severity |-> "medium"], "workload") :
     path \in {p \in radius.paths : g.nodes[End(entrypoint, p)].kind = "workload"}}

\* clusterAdminRoles: by an edge, or because a principal names the cluster as its admin.
ClusterAdminRoles(g, cluster) ==
    {id \in DOMAIN g.nodes :
        /\ g.nodes[id].kind = "principal"
        /\ \/ /\ PrivilegedOrSensitivePrincipal(g, id)
              /\ \E t \in {"can_assume", "attached_to", "grants_permission"} : HasEdge(g, cluster, id, t)
           \/ /\ "cluster_admin" \in g.nodes[id].flags
              /\ \E ref \in g.nodes[id].refs :
                    ref[1] \in {"cluster", "cluster_name"} /\ ref[2] \in KnownAs(g.nodes[cluster], {"address", "name"})}

\* detectPublicEKSClusterAdminRisk: without a path the step is an inference.
DetectPublicEKSClusterAdminRisk(g, entrypoint) ==
    LET Supposed(role) == <<[from |-> entrypoint, to |-> role, action |-> <<"graph", "can_assume">>,
                              source |-> "inferred", confidence |-> "medium"]>>
        Found(role) == ShortestPath(g, entrypoint, role, Range(EdgeTypes), Len(Addresses))
        Steps(role) == WithPublicIngress(g, entrypoint,
                          IF Found(role) = {} THEN Supposed(role) ELSE StepsOf(g, CHOOSE p \in Found(role) : TRUE))
    IN  IF g.nodes[entrypoint].type # "aws_eks_cluster" \/ ExpectedPublicNode(g.nodes[entrypoint]) THEN {}
        ELSE {PublicPath(entrypoint, role, Steps(role),
                         IAMDecision(ConfidenceForPath(Steps(role)), g.nodes[role]),
                         "public_eks_cluster_admin") : role \in ClusterAdminRoles(g, entrypoint)}

\* Sensitive paths take the place of the warnings about workloads.
FromEntrypoint(g, entrypoint, depth, cap) ==
    LET radius == BlastRadius(g, entrypoint, depth, cap)
        sensitive == DetectSensitivePaths(g, entrypoint, radius)
        silent == IsSensitiveKind(g.nodes[entrypoint].kind) \/ ExpectedPublicNode(g.nodes[entrypoint])
    IN  DetectPublicEKSClusterAdminRisk(g, entrypoint)
        \union IF sensitive # {} THEN sensitive
               ELSE IF silent THEN {} ELSE DetectPublicWorkloadWarnings(g, entrypoint, radius)

-----------------------------------------------------------------------------
(* Normalize: one path of each meaning *)

SourceFromSteps(steps) ==
    LET sources == {steps[i].source : i \in DOMAIN steps}
    IN  IF Cardinality(sources) = 1 THEN CHOOSE s \in sources : TRUE ELSE "mixed"

SourcePreference ==
    [plan |-> 4, mixed |-> 3, cloud_context |-> 2, inferred |-> 1]

Meaning(path) == <<path.type, path.principal, path.entrypoint, path.target>>

\* What betterAttackPath compares: of two equals, the longer path.
Merits(path) ==
    <<ConfidenceRank(path.confidence), SourcePreference[SourceFromSteps(path.steps)],
      -Cardinality({i \in DOMAIN path.steps : path.steps[i].source = "cloud_context"}),
      Len(path.steps)>>

\* dedupeSemanticAttackPaths; between equals the hash of the steps decides, one way or the other.
Normalize(paths) ==
    LET Best(same) == {p \in same : \A q \in same : ~SequenceBefore(Merits(p), Merits(q))}
    IN  {CHOOSE p \in Best({q \in paths : Meaning(q) = m}) : TRUE : m \in {Meaning(p) : p \in paths}}

DetectPublicToSensitive(g, depth, cap) ==
    Normalize(UNION {FromEntrypoint(g, e, depth, cap) :
                        e \in {x \in PublicEntrypoints(g) : ~AuthenticatedAPI(g, x)}})

-----------------------------------------------------------------------------
(* Findings *)

\* attackPathAllowed: block and warn say which paths are told, not how.
AttackPathAllowed(path, thresholds) ==
    \E t \in thresholds : /\ t.type = path.type
                          /\ ConfidenceRank(path.confidence) >= ConfidenceRank(t.confidence)

MutationPatterns ==
    {"iam_policy_inline_role_escalation", "iam_policy_attach_admin_escalation",
     "iam_policy_version_escalation", "iam_trust_policy_takeover", "iam_user_access_key_escalation"}

RuleForPath(path) ==
    CASE path.type = PublicToSensitive /\ path.pattern = "public_eks_cluster_admin"
            -> "AWS_PUBLIC_EKS_CLUSTER_ADMIN_PATH"
      [] path.type = PublicToSensitive /\ path.pattern # "public_eks_cluster_admin"
            -> IF path.decision = "warn" /\ path.target \notin NamedSensitive
               THEN "AWS_PUBLIC_ADMIN_SERVICE_PATH" ELSE "AWS_PUBLIC_TO_SENSITIVE_DATA_PATH"
      [] path.notAction -> "AWS_IAM_NOTACTION_ESCALATION_PATH"
      [] ~path.notAction /\ path.pattern = "role_assumption_chain" -> "AWS_IAM_ROLE_ASSUMPTION_CHAIN"
      [] ~path.notAction /\ path.pattern = "pathfinding_catalog" -> "AWS_IAM_PATHFINDING_CATALOG_ESCALATION"
      [] ~path.notAction /\ path.pattern \in MutationPatterns -> "AWS_IAM_POLICY_MUTATION_ESCALATION"
      [] OTHER -> IF \E i \in DOMAIN path.steps : path.steps[i].action = AssumeRole
                  THEN "AWS_IAM_ASSUME_ADMIN_PATH" ELSE "AWS_IAM_PASSROLE_FUNCTION_ESCALATION"

\* affectedResources
AffectedResources(path) ==
    ({path.principal, path.entrypoint, path.target}
     \union {path.steps[i].from : i \in DOMAIN path.steps}
     \union {path.steps[i].to : i \in DOMAIN path.steps}) \ {""}

FindingFromPath(path) ==
    [rule |-> RuleForPath(path), resource |-> path.target, severity |-> path.severity,
     confidence |-> path.confidence, touches |-> AffectedResources(path), path |-> <<path>>,
     suppressed |-> FALSE]

\* Findings and attackPathFindings: the rules that are switched off come last.
AttackPathFindings(paths, thresholds, disabled) ==
    {f \in {FindingFromPath(p) : p \in {q \in Normalize(paths) : AttackPathAllowed(q, thresholds)}} :
        f.rule \notin disabled}
=============================================================================
