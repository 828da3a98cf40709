----------------------------- MODULE PlanAnalysis -----------------------------
(***************************************************************************)
(* scanOnePlan (src/internal/cli/scan.go) up to the findings that the      *)
(* waivers and the policy then judge: the resource graph of a plan is      *)
(* built, the snapshot of the live account is merged into it, the built-in *)
(* rules run, the snapshot raises and lowers what they found, and attack   *)
(* paths are added.                                                        *)
(*                                                                         *)
(* The steps run one after the other.  What is left open is the order in   *)
(* which Go visits a map: the resources whose dependencies become edges,   *)
(* the references of a node, the nodes in the index of aliases, and the    *)
(* live resources in the index of names.                                   *)
(***************************************************************************)
EXTENDS ContextEnrichment

CONSTANTS
    Scenarios,   \* pairs [plan, snapshot]; a snapshot is << >> or of length one
    Thresholds,  \* attack path thresholds [type, confidence] of the policy
    Disabled,    \* rules that are switched off
    MaxDepth, MaxPaths  \* normalizeDetectionOptions

IsPlan(p) ==
    /\ DOMAIN p.resources \union DOMAIN p.prior \union DOMAIN p.changes \subseteq IDs
    /\ \A r \in Range(p.resources) \union Range(p.prior) : \A ref \in r.refs : ref[1] = "depends_on" => ref[2] \in IDs

IsSnapshot(s) ==
    /\ \A r \in Range(s.resources) : {r.address, r.arn} \subseteq IDs \union {""}
    /\ Len(s.relationships) \in Nat /\ DOMAIN s.relationships = 1..Len(s.relationships)
    /\ \A r \in Range(s.relationships) : {r.from, r.to} \subseteq IDs /\ r.confidence \in Range(Confidences)

ASSUME ScenariosAssumption ==
    /\ MaxDepth \in Nat /\ MaxPaths \in Nat
    /\ \A s \in Scenarios : IsPlan(s.plan) /\ (s.snapshot # << >> => IsSnapshot(s.snapshot[1]))

VARIABLES
    plan, snapshot,  \* what the scan was given
    stage,           \* what runs next
    edges,           \* the edges of the graph so far, in the order they were added
    planGraph,       \* the graph of the plan alone
    graph,           \* the graph the rules see
    diagnostics,     \* what the merge told about conflicts
    findings

vars == <<plan, snapshot, stage, edges, planGraph, graph, diagnostics, findings>>

EmptyGraph == [nodes |-> << >>, edges |-> << >>]

Init ==
    /\ \E s \in Scenarios : plan = s.plan /\ snapshot = s.snapshot
    /\ stage = "resources"
    /\ edges = << >>
    /\ planGraph = EmptyGraph /\ graph = EmptyGraph
    /\ diagnostics = {} /\ findings = {}

\* Edges that addEdge would take, and that it does not have.
Fresh(keys) == {e \in keys : e[1] # e[3]} \ Range(edges)

-----------------------------------------------------------------------------
(* BuildWithOptions *)

\* The nodes come first, and no edge connects them.
AddResources ==
    /\ stage = "resources"
    /\ planGraph' = [EmptyGraph EXCEPT !.nodes = NamedNodes(plan)]
    /\ stage' = "build"
    /\ UNCHANGED <<plan, snapshot, edges, graph, diagnostics, findings>>

\* The resources are visited in any order.
AddDependencies ==
    /\ stage = "build"
    /\ \E id \in {e[1] : e \in Fresh(InferExplicitDependencies(plan))} :
          edges' = edges \o Sorted({e \in Fresh(InferExplicitDependencies(plan)) : e[1] = id})
    /\ UNCHANGED <<plan, snapshot, stage, planGraph, graph, diagnostics, findings>>

\* The nodes are visited in the order of their names, the references of one in any order.
AddReference ==
    /\ stage = "build"
    /\ Fresh(InferExplicitDependencies(plan)) = {}
    /\ LET missing == Fresh(InferGenericReferences(planGraph.nodes))
       IN  \E e \in {x \in missing : x[1] = First({y[1] : y \in missing})} : edges' = Append(edges, e)
    /\ UNCHANGED <<plan, snapshot, stage, planGraph, graph, diagnostics, findings>>

\* The edges of the steps, after those there are.
Relationships(sequence, steps) ==
    FoldLeft(LAMBDA acc, step : acc \o Sorted({e \in step : e[1] # e[3]} \ Range(acc)), sequence, steps)

\* propagateEnvironment: over the edges again and again, until nothing changes.
PropagateEnvironment(nodes, sequence) ==
    LET carriers == SelectSeq(sequence, LAMBDA e : e[2] \in PropagatesEnvironment)
        after[sweep \in 0..Cardinality(DOMAIN nodes)] ==
            IF sweep = 0 THEN [id \in DOMAIN nodes |-> nodes[id].environment]
            ELSE LET before == after[sweep - 1]
                     Stable == \A e \in Range(carriers) : Propagate(before, e) = before
                 IN  IF Stable THEN before ELSE FoldLeft(Propagate, before, carriers)
    IN  after[Cardinality(DOMAIN nodes)]

BuiltFrom(nodes, steps, sequence) ==
    LET built == WithEdges(nodes, UNION Range(steps), FromPlan)
        environments == PropagateEnvironment(built.nodes, sequence)
    IN  [built EXCEPT !.nodes = [id \in DOMAIN @ |-> [@[id] EXCEPT !.environment = environments[id]]]]

InferRelationships ==
    /\ stage = "build"
    /\ \E steps \in {Inferred(planGraph.nodes, plan)} :
          /\ Fresh(steps[1] \union steps[2]) = {}
          /\ edges' = Relationships(edges, steps)
          /\ \E g \in {BuiltFrom(planGraph.nodes, steps, edges')} : planGraph' = g /\ graph' = g
    /\ stage' = IF snapshot = << >> THEN "rules" ELSE "merge"
    /\ UNCHANGED <<plan, snapshot, diagnostics, findings>>

-----------------------------------------------------------------------------
(* The rest of scanOnePlan *)

\* The nodes whose early visit tells who owns an alias that several have.
SharedAlias(id) ==
    \E other \in DOMAIN planGraph.nodes \ {id} :
        NodeAliases(planGraph.nodes, id) \intersect NodeAliases(planGraph.nodes, other) # {}
VisitedEarly == {{}} \union {{id} : id \in {x \in DOMAIN planGraph.nodes : SharedAlias(x)}}

MergeSnapshot ==
    /\ stage = "merge"
    /\ \E early \in VisitedEarly :
       \E merged \in {MergeContext(planGraph, snapshot[1], early)} :
          graph' = merged.graph /\ diagnostics' = merged.diagnostics
    /\ stage' = "rules"
    /\ UNCHANGED <<plan, snapshot, edges, planGraph, findings>>

\* The built-in rules and those of the policy.
Evaluate(g) == EvaluateBuiltIn(g, plan, Disabled) \union EvaluateCustom(g, plan, Disabled)

EvaluateRules ==
    /\ stage = "rules"
    /\ findings' = Evaluate(graph)
    /\ stage' = IF snapshot = << >> THEN "paths" ELSE "enrich"
    /\ UNCHANGED <<plan, snapshot, edges, planGraph, graph, diagnostics>>

\* Orders of the live resources, where some have a name in common.
LiveOrders ==
    LET resources == snapshot[1].resources
        keys == DOMAIN resources
        Shared(key) == \E other \in keys \ {key} :
            ResourceAliases(resources[key], key) \intersect ResourceAliases(resources[other], other) # {}
    IN  IF \E key \in keys : Shared(key) THEN SetToSeqs(keys)
        ELSE {SelectSeq(Keys, LAMBDA key : key \in keys)}

EnrichFromSnapshot ==
    /\ stage = "enrich"
    /\ \E order \in LiveOrders :
          findings' = EnrichFindings(findings, snapshot[1].resources, IndexedResources(snapshot[1], order))
    /\ stage' = "conflicts"
    /\ UNCHANGED <<plan, snapshot, edges, planGraph, graph, diagnostics>>

ApplyConflicts ==
    /\ stage = "conflicts"
    /\ findings' = ApplyGraphConflicts(findings, diagnostics)
    /\ stage' = "paths"
    /\ UNCHANGED <<plan, snapshot, edges, planGraph, graph, diagnostics>>

\* attackPathFindings
PathFindings(g) ==
    AttackPathFindings(
        DetectPublicToSensitive(g, MaxDepth, MaxPaths) \union DetectIAMPrivilegeEscalation(g, TRUE),
        Thresholds, Disabled)

DetectAttackPaths ==
    /\ stage = "paths"
    /\ \E found \in {PathFindings(graph)} : findings' = findings \union found
    /\ stage' = IF snapshot = << >> THEN "done" ELSE "suppress"
    /\ UNCHANGED <<plan, snapshot, edges, planGraph, graph, diagnostics>>

SuppressFindings ==
    /\ stage = "suppress"
    /\ findings' = SuppressLiveOnly(findings, ManagedResources(plan))
    /\ stage' = "done"
    /\ UNCHANGED <<plan, snapshot, edges, planGraph, graph, diagnostics>>

\* The findings are handed on.
Finished == stage = "done" /\ UNCHANGED vars

Next ==
    \/ AddResources \/ AddDependencies \/ AddReference \/ InferRelationships \/ MergeSnapshot \/ EvaluateRules
    \/ EnrichFromSnapshot \/ ApplyConflicts \/ DetectAttackPaths \/ SuppressFindings \/ Finished

Spec == Init /\ [][Next]_vars

-----------------------------------------------------------------------------
(* Properties *)

IsPath(finding) == finding.path # << >>
PathOf(finding) == finding.path[1]
CertainEdge(g, e) == g.edges[e].confidence = "high"

\* BlockedPathsAreCertain.  An attack path that is reported as certain leads from the
\* internet or a principal to its target without a gap, along steps that are all certain:
\* each is an edge of the graph that is certain, or follows from a policy of the plan; and
\* one from the internet that is to block ends at what is sensitive.
BlockedPathsAreCertain ==
    \A f \in findings :
        IsPath(f) /\ f.confidence = "high" /\ stage \in {"suppress", "done"} =>
            LET steps == PathOf(f).steps
                OnGraph(s) == s.action[1] = "graph"
            IN  /\ \A i \in DOMAIN steps :
                      /\ steps[i].confidence = "high" /\ steps[i].source # "inferred"
                      /\ OnGraph(steps[i]) =>
                            /\ <<steps[i].from, steps[i].action[2], steps[i].to>> \in DOMAIN graph.edges
                            /\ CertainEdge(graph, <<steps[i].from, steps[i].action[2], steps[i].to>>)
                            /\ i > 1 => steps[i - 1].to = steps[i].from
                /\ \E i \in DOMAIN steps : steps[i].to = PathOf(f).target
                /\ PathOf(f).type = PublicToSensitive /\ PathOf(f).decision = "block" =>
                      \/ IsSensitiveKind(graph.nodes[f.resource].kind)
                      \/ PathOf(f).pattern = "public_eks_cluster_admin"

\* What no live resource touches in a node.
KeepsAttributes(before, after) ==
    /\ after.type = before.type /\ after.refs = before.refs /\ after.policy = before.policy
    /\ after.changed = before.changed /\ after.synthetic = before.synthetic
    /\ before.flags \subseteq after.flags
    /\ before.environment # "" => after.environment = before.environment

\* What a live resource replaces: the value of a tag, and with it the name that a tag gives.
KeepsLabels(before, after, live) ==
    /\ \A tag \in DOMAIN before.tags :
          /\ tag \in DOMAIN after.tags
          /\ after.tags[tag] # before.tags[tag] =>
                \E r \in live : tag \in DOMAIN r.tags /\ r.tags[tag] = after.tags[tag]
    /\ \A name \in before.names \ after.names :
          name[1] = "tag" /\ \E r \in live : \E other \in r.names : other[1] = "tag"

\* And the kind: of what is sensitive or public, where sensitive gives way to public only.
KeepsKind(before, after, live) ==
    /\ after.kind # before.kind => before.kind = "unknown" \/ \E r \in live : r.sensitive \/ ResourcePublic(r)
    /\ IsSensitiveKind(before.kind) /\ ~IsSensitiveKind(after.kind) => \E r \in live : ResourcePublic(r)

Keeps(before, after, live) ==
    KeepsAttributes(before, after) /\ KeepsLabels(before, after, live) /\ KeepsKind(before, after, live)

\* ContextOnlyAdds.  "Live context can add nodes, edges, provenance, and conflict
\* diagnostics, but an empty or partial snapshot never removes plan evidence"
\* (context_merge.go).  No node, edge or certainty of the plan is lost, and of a node no more
\* than live resources replace: the value of a tag and the name it gives, and the kind of what
\* the snapshot finds sensitive or public.
ContextOnlyAdds ==
    [][stage = "merge" =>
         /\ \A id \in DOMAIN planGraph.nodes :
               /\ id \in DOMAIN graph'.nodes
               /\ Keeps(planGraph.nodes[id], graph'.nodes[id], Range(snapshot[1].resources))
         /\ \A e \in DOMAIN planGraph.edges :
               /\ e \in DOMAIN graph'.edges
               /\ ConfidenceRank(graph'.edges[e].confidence) >= ConfidenceRank(planGraph.edges[e].confidence)
      ]_vars

\* Ways from a public entrypoint to a target, through a workload, of certain edges only.
CertainWays(g, entrypoint, target) ==
    {p \in SimplePaths(g, entrypoint, ReachabilityEdges, MaxDepth) :
        /\ End(entrypoint, p) = target
        /\ \A i \in DOMAIN p : CertainEdge(g, p[i])
        /\ \E id \in NodesOn(entrypoint, p) : g.nodes[id].kind = "workload"}

\* As many ways as the walk visits, and as many to what is sensitive as it keeps, or fewer.
WithinLimits(g, entrypoint) ==
    LET ways == SimplePaths(g, entrypoint, ReachabilityEdges, MaxDepth) \ {<< >>}
    IN  /\ Cardinality(ways) <= VisitLimit(MaxDepth, MaxPaths)
        /\ Cardinality({p \in ways : IsSensitiveKind(g.nodes[End(entrypoint, p)].kind)}) <= MaxPaths

\* The internet comes in for certain by the edge that a path begins with.
CertainlyEntered(g, entrypoint) ==
    CertainEdge(g, FirstEdge({e \in Incoming(g, entrypoint) : e[1] = Internet}))

\* The policy wants to hear of ways that are certain.
PolicyTells ==
    /\ AttackPathAllowed([type |-> PublicToSensitive, confidence |-> "high"], Thresholds)
    /\ "AWS_PUBLIC_TO_SENSITIVE_DATA_PATH" \notin Disabled

\* CertainWaysAreBlocked.  Where an entrypoint that asks nobody for a name is certainly
\* entered and has a certain way through a workload to what is sensitive, the pair is
\* reported as critical and certain, whatever less certain ways there are, unless there are
\* more ways than the walk visits or keeps, or the policy does not want to hear of any.
CertainWaysAreBlocked ==
    stage = "done" /\ PolicyTells =>
        \A e \in PublicEntrypoints(graph) : \A t \in SensitiveAssets(graph) \ {e} :
            /\ ~AuthenticatedAPI(graph, e) /\ WithinLimits(graph, e)
            /\ CertainlyEntered(graph, e) /\ CertainWays(graph, e, t) # {}
            =>
                \E f \in findings :
                    /\ IsPath(f) /\ PathOf(f).entrypoint = e /\ PathOf(f).target = t
                    /\ f.confidence = "high" /\ f.severity = "critical"
                    /\ f.touches \intersect ManagedResources(plan) # {} => ~f.suppressed

\* The rules that look at the graph look at one path or at a node's place in it.
AboutTheGraph ==
    DOMAIN WorkloadTargets
    \union {"AWS_PUBLIC_TO_SENSITIVE_DATASTORE", "AWS_PUBLIC_API_GATEWAY_TO_SENSITIVE_DATA",
            "AWS_PUBLIC_LAMBDA_URL_TO_SENSITIVE_DATA"}

\* Custom rules that ask the graph only for what the snapshot can add to.
Steady(id) == \A c \in Custom : c.id = id => Positive(c.where) /\ \A i \in DOMAIN c.where : c.where[i].routes = {}

\* What the snapshot finds public is classified anew, and may be a data store no more.
Reclassified ==
    \E id \in DOMAIN planGraph.nodes :
        IsSensitiveKind(planGraph.nodes[id].kind) /\ ~IsSensitiveKind(graph.nodes[id].kind)

SeverityOrder == <<"info", "low", "medium", "high", "critical">>
SeverityRank(s) == CHOOSE i \in DOMAIN SeverityOrder : SeverityOrder[i] = s

\* ContextNeverSilences.  What the plan alone shows is shown with a snapshot too, and no
\* milder, unless the snapshot says that the resource is meant to be public.  Not so for
\* the rules about paths: they test the shortest path, and the snapshot may add one; nor
\* for custom rules that ask for what is not there, for a tag, which the snapshot
\* overwrites, or for sensitive data in a store that the snapshot finds public.
ContextNeverSilences ==
    stage = "done" /\ snapshot # << >> =>
        \A f \in Evaluate(planGraph) :
            /\ f.rule \notin AboutTheGraph /\ Steady(f.rule)
            /\ f.rule \in {c.id : c \in Custom} => ~Reclassified
            =>
                \E found \in findings :
                    /\ found.rule = f.rule /\ found.resource = f.resource /\ ~found.suppressed
                    /\ \/ SeverityRank(found.severity) >= SeverityRank(f.severity)
                       \/ /\ f.rule \in PublicExposureRules
                          /\ \E key \in DOMAIN snapshot[1].resources :
                                LET r == snapshot[1].resources[key]
                                IN  r.expected /\ f.resource \in ResourceAliases(r, key)

\* What a statement is about, of what is known under some names.
IsAbout(s, action, names) ==
    /\ \E a \in s.actions : ActionMatches(a, action)
    /\ s.resources = {} \/ s.resources \intersect (names \union {"*"}) # {}
    /\ s.notResources \intersect (names \union {"*"}) = {}

\* A policy allows an action on a node, and no condition or excluded action leaves that in
\* doubt.  What is to run as a role need not be there yet: for that it is enough to be
\* allowed somewhere and not to be denied everywhere.
PlainlyAllowed(g, policy, action, target) ==
    LET statements == {s \in Range(g.nodes[policy].policy) : s.effect \in {"allow", "deny"}}
        names == KnownAs(g.nodes[target], {"address", "name", "arn", "id"})
        Allowing(s) == IF target = "compute" THEN \E a \in s.actions : ActionMatches(a, action)
                       ELSE IsAbout(s, action, names)
        Denying(s) == IF target = "compute" THEN s.notResources = {} /\ IsAbout(s, action, {})
                      ELSE IsAbout(s, action, names)
    IN  /\ \A s \in statements : ~s.condition /\ s.notActions = {}
        /\ \E s \in statements : s.effect = "allow" /\ Allowing(s)
        /\ ~ \E s \in statements : s.effect = "deny" /\ Denying(s)

\* The actions that the snapshot names for a principal, and those certainly leading from it.
SeenTogether(g, id) ==
    {g.nodes[id].observed,
     {ActionNodes[e[3]] : e \in {x \in DOMAIN g.edges :
         x[1] = id /\ x[2] = "grants_permission" /\ x[3] \in DOMAIN ActionNodes /\ CertainEdge(g, x)}}}

\* One policy of the principal allows all that it does, or all of that was seen together.
AllowedByOne(g, path) ==
    LET asked == {i \in DOMAIN path.steps : path.steps[i].from = path.principal}
    IN  \/ \E policy \in Nodes(g, "policy") :
              /\ path.principal \in PrincipalsForPolicyNode(g, policy)
              /\ \A i \in asked : PlainlyAllowed(g, policy, path.steps[i].action, path.steps[i].to)
        \/ \E seen \in SeenTogether(g, path.principal) :
              \A i \in asked : \E a \in seen : ActionMatches(a, path.steps[i].action)

FromGrants ==
    {"passrole_compute_mutation", "assume_privileged_role", "lambda_update_execution_role",
     "ecs_update_sensitive_task_role", "pathfinding_catalog"} \union DOMAIN NativePatterns

\* CertainGrantsAreGranted.  An escalation that is reported as certain because of a policy is
\* one that a single policy of the plan allows the principal in every step, without a
\* condition and without a denial; or the snapshot names all the actions together for the
\* principal itself.  Of these it does not tell whether they are denied, to what resources
\* they apply or under what condition, and the code takes them for certain all the same.
CertainGrantsAreGranted ==
    \A f \in findings :
        IsPath(f) /\ f.confidence = "high" /\ stage \in {"suppress", "done"}
        /\ PathOf(f).type = Escalation /\ PathOf(f).pattern \in FromGrants => AllowedByOne(graph, PathOf(f))

\* ConditionalIsNeverCertain.  "Complex conditions, explicit deny ambiguity, or broad NotAction
\* semantics reduce confidence and produce warnings rather than high-confidence blocks"
\* (docs/attack-paths.md): nobody certainly assumes a role because of a conditional policy.
ConditionalIsNeverCertain ==
    \A f \in findings :
        IsPath(f) /\ f.confidence = "high" /\ PathOf(f).pattern = "assume_by_edge" =>
            LET path == PathOf(f)
                trusted == KnownAs(graph.nodes[path.principal], IDLike)
                policies == {id \in Nodes(graph, "policy") : path.principal \in PrincipalsForPolicyNode(graph, id)}
            IN  \/ \E ref \in graph.nodes[path.target].refs : ref[1] = "assume_role_policy" /\ ref[2] \in trusted
                \/ \E p \in policies : \A i \in DOMAIN graph.nodes[p].policy : ~graph.nodes[p].policy[i].condition

\* GraphIsDeterministic.  "Graph is a deterministic resource relationship graph" (graph.go):
\* the graph of a plan is the one that visiting everything in the order of names gives.
GraphIsDeterministic ==
    stage \notin {"resources", "build"} =>
        \E nodes \in {NamedNodes(plan)} : \E steps \in {Inferred(nodes, plan)} :
            planGraph.nodes = BuiltFrom(nodes, steps, Relationships(<< >>, steps)).nodes
=============================================================================
