------------------------------ MODULE IAMPaths ------------------------------
(***************************************************************************)
(* Privilege escalation (src/internal/attackpath/iam.go): what the         *)
(* policies of each principal grant, and the ways from there to a role     *)
(* that is privileged or reads what is sensitive.                          *)
(*                                                                         *)
(* A grant is what one policy says for one principal: [principal, source,  *)
(* allows, denies, confidence, complex, notAction].  allows and denies are *)
(* sets of scopes [actions, notActions, resources, notResources].          *)
(***************************************************************************)
EXTENDS AttackPaths

CONSTANT Catalog  \* entries [id, category, services, actions] of the pathfinding catalog

ASSUME CatalogAssumption ==
    /\ IsFiniteSet(Catalog)
    /\ \A e \in Catalog : /\ Len(e.actions) \in Nat \ {0} /\ DOMAIN e.actions = 1..Len(e.actions)
                         /\ \A i \in DOMAIN e.actions : e.actions[i][1] # "graph"

Nodes(g, kind) == {id \in DOMAIN g.nodes : g.nodes[id].kind = kind}

-----------------------------------------------------------------------------
(* Grants *)

OpenScope(actions) ==
    [actions |-> actions, notActions |-> {}, resources |-> {"*"}, notResources |-> {}]

\* The actions seen on a principal itself apply to everything, and for certain.
GrantFromObservedActions(g, id) ==
    IF g.nodes[id].observed = {} THEN {}
    ELSE {[principal |-> id, source |-> id, allows |-> {OpenScope(g.nodes[id].observed)}, denies |-> {},
           confidence |-> "high", complex |-> FALSE, notAction |-> FALSE]}

\* The last edge that is not certain, by key, decides the confidence.
GrantsFromCloudActionEdges(g, id) ==
    LET edges == {e \in Outgoing(g, id, {"grants_permission"}) : e[3] \in DOMAIN ActionNodes}
        uncertain == {e \in edges : g.edges[e].confidence # "high"}
    IN  IF edges = {} THEN {}
        ELSE {[principal |-> id, source |-> id, denies |-> {},
               allows |-> {OpenScope({ActionNodes[e[3]] : e \in edges})},
               confidence |-> IF uncertain = {} THEN "high" ELSE g.edges[LastEdge(uncertain)].confidence,
               complex |-> FALSE, notAction |-> FALSE]}

\* resourcesOrWildcard: a statement that names no resource is about all of them.
ScopeOf(statement) ==
    [actions |-> statement.actions, notActions |-> statement.notActions,
     resources |-> IF statement.resources = {} THEN {"*"} ELSE statement.resources,
     notResources |-> statement.notResources]

\* Mutant: a condition is no reason for doubt.
GrantFromStatementsUnconditional(principal, policy, statements) ==
    LET allows == {s \in Range(statements) : s.effect = "allow"}
        denies == {s \in Range(statements) : s.effect = "deny"}
        negative == \E s \in allows \union denies : s.notActions # {}
    IN  [principal |-> principal, source |-> policy,
         allows |-> {ScopeOf(s) : s \in allows}, denies |-> {ScopeOf(s) : s \in denies},
         confidence |-> IF negative THEN "medium" ELSE "high", complex |-> negative,
         notAction |-> \E s \in allows : s.notActions # {}]

\* grantFromStatements: conditions and negations leave a grant in doubt.
GrantFromStatements(principal, policy, statements) ==
    LET allows == {s \in Range(statements) : s.effect = "allow"}
        denies == {s \in Range(statements) : s.effect = "deny"}
        doubtful == \/ \E s \in Range(statements) : s.condition
                    \/ \E s \in allows \union denies : s.notActions # {}
                    \/ \E s \in allows : s.notResources # {}
    IN  [principal |-> principal, source |-> policy,
         allows |-> {ScopeOf(s) : s \in allows}, denies |-> {ScopeOf(s) : s \in denies},
         confidence |-> IF doubtful THEN "medium" ELSE "high", complex |-> doubtful,
         notAction |-> \E s \in allows : s.notActions # {}]

\* findPrincipalByName
FindPrincipalByName(g, name) ==
    LET hits == {id \in Nodes(g, "principal") : name \in KnownAs(g.nodes[id], {"address", "name", "id", "arn"})}
    IN  IF hits = {} THEN {} ELSE {First(hits)}

PrincipalsForPolicyNode(g, policy) ==
    {id \in Nodes(g, "principal") : HasEdge(g, id, policy, "attached_to")
                                    \/ HasEdge(g, policy, id, "grants_permission")}
    \union UNION {FindPrincipalByName(g, ref[2]) :
                     ref \in {r \in g.nodes[policy].refs : r[1] \in {"role", "user", "group"}}}

CollectIAMGrants(g) ==
    UNION {
        UNION {GrantFromObservedActions(g, id) \union GrantsFromCloudActionEdges(g, id) : id \in Nodes(g, "principal")},
        UNION {{GrantFromStatements(p, id, g.nodes[id].policy) : p \in PrincipalsForPolicyNode(g, id)} :
                  id \in {x \in Nodes(g, "policy") : g.nodes[x].policy # << >>}}}

-----------------------------------------------------------------------------
(* What a grant allows *)

ScopeAllowsAction(scope, action) ==
    \/ \E p \in scope.actions : ActionMatches(p, action)
    \/ scope.notActions # {} /\ ~ \E p \in scope.notActions : ActionMatches(p, action)

ResourceCovered(resources, node) ==
    "*" \in resources \/ resources \intersect KnownAs(node, {"address", "name", "arn", "id"}) # {}

ResourceScopeCovers(scope, node) ==
    ResourceCovered(scope.resources, node) /\ ~ResourceCovered(scope.notResources, node)

\* grantAllowsAnyTarget: only a denial for every resource counts.
GrantAllows(grant, action) ==
    /\ ~ \E d \in grant.denies : ScopeAllowsAction(d, action) /\ "*" \in d.resources
    /\ \E s \in grant.allows : ScopeAllowsAction(s, action)

\* Mutant: an allowance is looked for and a denial is not.
GrantAllowsOnDenied(grant, action, node) ==
    \E s \in grant.allows : ScopeAllowsAction(s, action) /\ ResourceScopeCovers(s, node)

GrantAllowsOn(grant, action, node) ==
    /\ ~ \E d \in grant.denies : ScopeAllowsAction(d, action) /\ ResourceScopeCovers(d, node)
    /\ \E s \in grant.allows : ScopeAllowsAction(s, action) /\ ResourceScopeCovers(s, node)

\* grantResourceCovered: the resources of all statements taken together.
GrantResourceCovered(grant, node) ==
    LET named == UNION {s.resources : s \in grant.allows}
    IN  /\ ResourceCovered(IF named = {} THEN {"*"} ELSE named, node)
        /\ ~ResourceCovered(UNION {s.notResources : s \in grant.allows}, node)

MatchingRoles(g, grant, action) ==
    {id \in OfType(g.nodes, {"aws_iam_role"}) : GrantAllowsOn(grant, action, g.nodes[id])}

\* rolesUsedBy, ecsServiceRoles
RolesUsedBy(g, id) ==
    {r \in OfType(g.nodes, {"aws_iam_role"}) :
        \E t \in {"can_assume", "can_pass_role", "attached_to"} : HasEdge(g, id, r, t)}
ECSServiceRoles(g, id) ==
    RolesUsedBy(g, id)
    \union UNION {RolesUsedBy(g, e[3]) :
                     e \in {x \in DOMAIN g.edges : x[1] = id /\ x[2] \in {"depends_on", "attached_to"}}}

-----------------------------------------------------------------------------
(* Paths *)

GrantConfidence(grant) == IF grant.complex THEN "medium" ELSE grant.confidence

Weaker(a, b) == IF ConfidenceRank(a) < ConfidenceRank(b) THEN a ELSE b

IAMPath(g, principal, target, steps, confidence, pattern, notAction) ==
    LET verdict == IAMDecision(confidence, g.nodes[target])
    IN  [type |-> Escalation, pattern |-> pattern, principal |-> principal, entrypoint |-> "",
         target |-> target, steps |-> steps, confidence |-> confidence,
         decision |-> verdict.decision, severity |-> verdict.severity, notAction |-> notAction]

\* iamStep
IAMStep(from, to, action, confidence) ==
    [from |-> from, to |-> to, action |-> action, source |-> "plan", confidence |-> confidence]

GrantPath(g, grant, target, hops, confidence, pattern) ==
    IAMPath(g, grant.principal, target,
            [i \in DOMAIN hops |-> IAMStep(hops[i][1], hops[i][2], hops[i][3], confidence)],
            confidence, pattern, grant.notAction)

CreateFunction == <<"lambda", "CreateFunction">>
UpdateCode == <<"lambda", "UpdateFunctionCode">>
UpdateConfiguration == <<"lambda", "UpdateFunctionConfiguration">>
UpdateService == <<"ecs", "UpdateService">>
ComputeMutations ==
    <<UpdateCode, UpdateConfiguration, UpdateService, CreateFunction, <<"ecs", "RunTask">>,
      <<"ecs", "RegisterTaskDefinition">>>>

\* validComputeMutationForRole: the first action that runs code as the role, if any.
ValidComputeMutation(g, grant, role) ==
    LET Uses(action, type, Roles(_)) ==
            \E id \in OfType(g.nodes, {type}) : /\ g.nodes[id].kind = "workload"
                                                /\ GrantAllowsOn(grant, action, g.nodes[id])
                                                /\ role \in Roles(id)
        OfLambda(id) == RolesUsedBy(g, id)
        OfService(id) == ECSServiceRoles(g, id)
        Valid(action) ==
            CASE action \in {UpdateCode, UpdateConfiguration} -> Uses(action, "aws_lambda_function", OfLambda)
              [] action = UpdateService -> Uses(action, "aws_ecs_service", OfService)
              [] OTHER -> GrantAllows(grant, action)
        valid == {i \in DOMAIN ComputeMutations : Valid(ComputeMutations[i])}
    IN  {ComputeMutations[i] : i \in {j \in valid : \A k \in valid : j <= k}}

\* detectPassRoleComputeMutation: a new function is worth less to who cannot invoke it.
DetectPassRoleComputeMutation(g, grant) ==
    LET Confidence(mutation) ==
            IF mutation = CreateFunction /\ ~GrantAllows(grant, <<"lambda", "InvokeFunction">>)
            THEN Weaker("medium", GrantConfidence(grant)) ELSE GrantConfidence(grant)
        Via(role, mutation) ==
            GrantPath(g, grant, role, <<<<grant.principal, role, PassRole>>, <<grant.principal, "compute", mutation>>>>,
                      Confidence(mutation), "passrole_compute_mutation")
    IN  IF ~GrantAllows(grant, PassRole) \/ ~ \E a \in Range(ComputeMutations) : GrantAllows(grant, a) THEN {}
        ELSE UNION {{Via(role, m) : m \in ValidComputeMutation(g, grant, role)} :
                       role \in {r \in MatchingRoles(g, grant, PassRole) : PrivilegedOrSensitiveRole(g, r)}}

\* detectAssumeAdminRole: an edge of the graph comes before what a policy says.
AssumeEdges(g) ==
    {e \in DOMAIN g.edges : e[2] = "can_assume" /\ PrivilegedOrSensitiveRole(g, e[3])}

DetectAssumeAdminRoleByEdge(g) ==
    {LET step == [StepsOf(g, <<e>>)[1] EXCEPT !.action = AssumeRole]
     IN  IAMPath(g, e[1], e[3], <<step>>, ConfidenceForPath(<<step>>), "assume_by_edge", FALSE) : e \in AssumeEdges(g)}

DetectAssumeAdminRole(g, grant) ==
    IF ~GrantAllows(grant, AssumeRole) THEN {}
    ELSE {GrantPath(g, grant, role, <<<<grant.principal, role, AssumeRole>>>>, GrantConfidence(grant),
                    "assume_privileged_role") :
          role \in {r \in MatchingRoles(g, grant, AssumeRole) :
                       PrivilegedOrSensitiveRole(g, r) /\ <<grant.principal, "can_assume", r>> \notin AssumeEdges(g)}}

\* roleAssumptionGraphPaths: simple chains of two to four assumptions.
Chains(g, from) == {p \in SimplePaths(g, from, {"can_assume"}, 4) : Len(p) >= 2}

DetectRoleAssumptionChains(g) ==
    UNION {{IAMPath(g, from, End(from, c), StepsOf(g, c), ConfidenceForPath(StepsOf(g, c)),
                    "role_assumption_chain", FALSE) :
               c \in {x \in Chains(g, from) : PrivilegedOrSensitiveRole(g, End(from, x))}} :
              from \in Nodes(g, "principal")}

\* detectFunctionUpdateRoleAccess
DetectFunctionUpdate(g, grant) ==
    UNION {{GrantPath(g, grant, role, <<<<grant.principal, fn, UpdateCode>>, <<fn, role, <<"workload", "role">>>>>>,
                      GrantConfidence(grant), "lambda_update_execution_role") :
               role \in {r \in RolesUsedBy(g, fn) : PrivilegedOrSensitiveRole(g, r)}} :
              fn \in {x \in OfType(g.nodes, {"aws_lambda_function"}) \intersect Nodes(g, "workload") :
                         GrantAllowsOn(grant, UpdateCode, g.nodes[x])}}

\* detectECSUpdateServiceRoleAccess: of privileged roles, only what reads or writes data.
DetectECSUpdateService(g, grant) ==
    UNION {{GrantPath(g, grant, role, <<<<grant.principal, s, UpdateService>>, <<s, role, <<"workload", "role">>>>>>,
                      GrantConfidence(grant), "ecs_update_sensitive_task_role") :
               role \in {r \in ECSServiceRoles(g, s) : SensitiveRole(g, r)}} :
              s \in {x \in OfType(g.nodes, {"aws_ecs_service"}) \intersect Nodes(g, "workload") :
                        GrantAllowsOn(grant, UpdateService, g.nodes[x])}}

-----------------------------------------------------------------------------
(* Policies that rewrite policies, and the catalog *)

IAM(verb) == <<"iam", verb>>

NativePatterns ==
    [iam_policy_inline_role_escalation |-> <<IAM("PutRolePolicy")>>,
     iam_policy_attach_admin_escalation |-> <<IAM("AttachRolePolicy")>>,
     iam_policy_version_escalation |-> <<IAM("CreatePolicyVersion"), IAM("SetDefaultPolicyVersion")>>,
     iam_trust_policy_takeover |-> <<IAM("UpdateAssumeRolePolicy"), AssumeRole>>,
     iam_user_access_key_escalation |-> <<IAM("CreateAccessKey")>>]

\* matchingPrincipalsForGrant
GrantedPrincipals(g, grant) == {id \in Nodes(g, "principal") : GrantResourceCovered(grant, g.nodes[id])}

EscalationTargets(g, grant, pattern) ==
    {id \in GrantedPrincipals(g, grant) :
        /\ pattern = "iam_user_access_key_escalation" => g.nodes[id].type = "aws_iam_user"
        /\ PrivilegedOrSensitivePrincipal(g, id) \/ id = grant.principal}

\* Several actions on one target, all allowed in general and on the target.
Combined(g, grant, targets, actions, pattern) ==
    LET Allowed(id) == \A i \in DOMAIN actions : GrantAllowsOn(grant, actions[i], g.nodes[id])
        confidence == IF grant.notAction THEN "medium" ELSE GrantConfidence(grant)
    IN  IF ~ \A i \in DOMAIN actions : GrantAllows(grant, actions[i]) THEN {}
        ELSE {GrantPath(g, grant, id, [i \in DOMAIN actions |-> <<grant.principal, id, actions[i]>>],
                        confidence, pattern) : id \in {t \in targets : Allowed(t)}}

DetectIAMPolicyMutation(g, grant) ==
    UNION {Combined(g, grant, EscalationTargets(g, grant, p), NativePatterns[p], p) : p \in DOMAIN NativePatterns}

\* catalogCoveredByNativeDetector
NativeEntries ==
    {"lambda-001", "lambda-003", "lambda-004", "ecs-002", "ecs-004", "ecs-008", "sts-001", "iam-001", "iam-002",
     "iam-005", "iam-009", "iam-014", "iam-016", "iam-017", "iam-021"}

UserActions ==
    {IAM(v) : v \in {"CreateAccessKey", "DeleteAccessKey", "CreateLoginProfile", "UpdateLoginProfile",
                     "AttachUserPolicy", "PutUserPolicy"}}
RoleActions ==
    {IAM(v) : v \in {"UpdateRolePolicy", "UpdateAssumeRolePolicy", "AttachRolePolicy", "PutRolePolicy"}}
    \union {AssumeRole}
CredentialActions == {IAM("CreateAccessKey"), IAM("CreateLoginProfile"), IAM("UpdateLoginProfile")}

\* pathfindingPrincipalTargets, pathfindingPrincipalTargetCompatible
PathfindingPrincipalTargets(g, grant, entry) ==
    LET actions == Range(entry.actions)
        self == entry.category = "self-escalation"
        Compatible(id) == \/ self
                          \/ /\ actions \intersect UserActions # {} => g.nodes[id].type = "aws_iam_user"
                             /\ actions \intersect RoleActions # {} => g.nodes[id].type = "aws_iam_role"
        Credentials(id) == actions \intersect CredentialActions # {} /\ g.nodes[id].type = "aws_iam_user"
    IN  {id \in GrantedPrincipals(g, grant) :
            /\ Compatible(id)
            /\ \/ self /\ id = grant.principal
               \/ Credentials(id) /\ (id = grant.principal \/ PrivilegedOrSensitivePrincipal(g, id))
               \/ ~self /\ PrivilegedOrSensitivePrincipal(g, id)}

\* terraformTypePrefixesForService, as far as the graph knows a kind for the type.
ServiceTypes ==
    [ec2 |-> {"aws_instance", "aws_launch_template"},
     ecs |-> {"aws_ecs_service", "aws_ecs_task_definition"},
     lambda |-> {"aws_lambda_function", "aws_lambda_function_url"},
     ssm |-> {"aws_ssm_parameter"}]

TypesForServices(services) == UNION {ServiceTypes[s] : s \in services \intersect DOMAIN ServiceTypes}

PathfindingPassRoleTargets(g, grant) ==
    {r \in MatchingRoles(g, grant, PassRole) : PrivilegedOrSensitiveRole(g, r)}

\* The roles of the resources of a service that the grant covers.
PathfindingExistingResourceTargets(g, grant, entry) ==
    LET resources == {id \in OfType(g.nodes, TypesForServices(entry.services)) :
                         GrantResourceCovered(grant, g.nodes[id])}
    IN  {r \in UNION {RolesUsedBy(g, id) : id \in resources} : PrivilegedOrSensitiveRole(g, r)}

PathfindingTargets(g, grant, entry) ==
    CASE entry.category = "new-passrole" -> PathfindingPassRoleTargets(g, grant)
      [] entry.category = "existing-passrole" -> PathfindingExistingResourceTargets(g, grant, entry)
      [] OTHER -> PathfindingPrincipalTargets(g, grant, entry)

DetectPathfindingCatalog(g, grant) ==
    UNION {Combined(g, grant, PathfindingTargets(g, grant, e), e.actions, "pathfinding_catalog") :
              e \in {x \in Catalog : x.id \notin NativeEntries}}

DetectIAMPrivilegeEscalation(g, warnings) ==
    LET ByGrant(grant) ==
            UNION {DetectPassRoleComputeMutation(g, grant), DetectAssumeAdminRole(g, grant),
                   DetectFunctionUpdate(g, grant), DetectECSUpdateService(g, grant),
                   DetectIAMPolicyMutation(g, grant), DetectPathfindingCatalog(g, grant)}
        all == UNION {UNION {ByGrant(grant) : grant \in CollectIAMGrants(g)},
                      DetectAssumeAdminRoleByEdge(g), DetectRoleAssumptionChains(g)}
    IN  Normalize({p \in all : warnings \/ p.decision # "warn"})
=============================================================================
