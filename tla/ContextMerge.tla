---------------------------- MODULE ContextMerge ----------------------------
(***************************************************************************)
(* MergeContext (src/internal/graph/context_merge.go): a snapshot of the   *)
(* live account folded into the graph of a plan.  A live resource becomes  *)
(* part of the node it is recognised as, or a synthetic node of its own.   *)
(*                                                                         *)
(* A snapshot is [resources, relationships].  A resource is [address, arn, *)
(* type, names, tags, public, sensitive, blocked, encrypted, drift,        *)
(* expected, actions]; an absent address or ARN is "", and the actions are *)
(* those that its policies name, whatever they say of them.  A             *)
(* relationship is [from, to, type, confidence].                           *)
(***************************************************************************)
EXTENDS GraphQueries

CONSTANTS
    Keys,   \* the keys of live resources, in the order of their names
    Dotted  \* keys and addresses with the form of a Terraform address

ASSUME KeysAssumption == Keys \in Seq(IDs) /\ Dotted \subseteq IDs

-----------------------------------------------------------------------------
(* The index of aliases *)

NodeAliases(nodes, id) ==
    {id} \union KnownAs(nodes[id], {"address", "name", "arn", "id", "resource_id", "tag"})
ResourceAliases(resource, key) ==
    ({key, resource.address, resource.arn}
     \union KnownAs(resource, {"id", "name", "resource_id", "tag"})) \ {""}

\* addAlias: the first owner keeps an alias.
AddAliases(aliases, names, id) == Over(aliases, [n \in names |-> id])

\* newContextIndex visits the nodes of a map in any order: those of early come first, and
\* the others by name.
NewContextIndex(g, early) ==
    LET Owners(name) == {id \in DOMAIN g.nodes : name \in NodeAliases(g.nodes, id)}
        FirstMet(ids) == First(IF ids \intersect early # {} THEN ids \intersect early ELSE ids)
    IN  [aliases |-> [name \in UNION {NodeAliases(g.nodes, id) : id \in DOMAIN g.nodes} |-> FirstMet(Owners(name))],
         managed |-> {id \in DOMAIN g.nodes : ~g.nodes[id].synthetic}]

-----------------------------------------------------------------------------
(* Nodes *)

ResourcePublic(resource) == resource.public \in {"public", "endpoint"}

\* contextNodeKind
ContextNodeKind(resource, flags) ==
    IF resource.sensitive
    THEN IF resource.type \in SecretTypes THEN "secret"
         ELSE IF resource.type \in KeyTypes THEN "kms_key" ELSE "data_store"
    ELSE IF ResourcePublic(resource) THEN "public_entrypoint"
    ELSE KindOf(resource.type, flags)

ContextFlags(resource) ==
    (IF resource.sensitive THEN {"sensitive_data"} ELSE {})
    \union (IF resource.expected THEN {"expected_public"} ELSE {})

ContextNames(resource) ==
    resource.names \union IF resource.arn = "" THEN {} ELSE {<<"arn", resource.arn>>}

ContextNode(id, resource) ==
    [type |-> resource.type, kind |-> ContextNodeKind(resource, {}), tags |-> resource.tags,
     environment |-> EnvironmentFromTags(resource.tags), refs |-> {},
     names |-> ContextNames(resource)
               \union {<<"address", IF resource.address # "" THEN resource.address ELSE id>>},
     flags |-> ContextFlags(resource), policy |-> << >>, observed |-> resource.actions,
     changed |-> FALSE, synthetic |-> TRUE]

\* Attributes that a node has are kept; its Name tag is overwritten.
MergedNames(names, more) ==
    LET Of(pairs) == {n[1] : n \in pairs}
    IN  {n \in names : n[1] # "tag" \/ "tag" \notin Of(more)}
        \union {n \in more : n[1] = "tag" \/ n[1] \notin Of(names)}

\* mergeContextIntoNode: a public resource is classified anew.
MergeContextIntoNode(node, resource) ==
    LET flags == node.flags \union ContextFlags(resource)
        reclassified == node.kind = "unknown" \/ resource.sensitive \/ ResourcePublic(resource)
    IN  [WithTags(node, Over(resource.tags, node.tags)) EXCEPT
            !.names = MergedNames(@, ContextNames(resource)), !.flags = flags,
            !.observed = IF @ = {} THEN resource.actions ELSE @,
            !.kind = IF reclassified THEN ContextNodeKind(resource, flags) ELSE @]

LooksTerraformAddress(value) == value \in Dotted

FuzzyAttributes == <<"id", "name", "resource_id", "tag">>

\* resolveResourceID: exact aliases, then the resource's own identity, then its names.
ResolveResourceID(aliases, key, resource) ==
    LET exact == {a \in {resource.address, key, resource.arn} \ {""} : a \in DOMAIN aliases}
        Pick(a) == [id |-> aliases[a], matched |-> TRUE]
        New(id) == [id |-> id, matched |-> FALSE]
        Hits(i) == KnownAs(resource, {FuzzyAttributes[i]}) \intersect DOMAIN aliases
        fuzzy == {i \in DOMAIN FuzzyAttributes : Hits(i) # {}}
        best == CHOOSE i \in fuzzy : \A j \in fuzzy : i <= j
    IN  IF resource.address \in exact THEN Pick(resource.address)
        ELSE IF key \in exact THEN Pick(key)
        ELSE IF resource.arn \in exact THEN Pick(resource.arn)
        ELSE IF resource.arn # "" THEN New(resource.arn)
        ELSE IF LooksTerraformAddress(resource.address) THEN New(resource.address)
        ELSE IF LooksTerraformAddress(key) THEN New(key)
        ELSE IF fuzzy # {} THEN Pick(CHOOSE a \in Hits(best) : TRUE)
        ELSE New(IF resource.address # "" THEN resource.address ELSE key)

-----------------------------------------------------------------------------
(* Edges and what is said about them *)

ContextEdgeType(type) ==
    CASE type \in {"routes_to", "has_listener", "target_health", "network_reaches"} -> "routes_to"
      [] type = "invokes" -> "invokes"
      [] type \in {"attached_to", "associated_with", "uses_instance_profile", "inline_policy",
                   "attached_policy", "permission_boundary"} -> "attached_to"
      [] type \in {"contains", "contains_role"} -> "contained_in"
      [] type \in {"allows_security_group", "allows_ingress"} -> "allows_ingress"
      [] type = "allows_egress" -> "allows_egress"
      [] type = "protects" -> "protects"
      [] type \in {"uses_role", "assume_role", "trusts", "assumes_role"} -> "can_assume"
      [] type \in {"passes_role", "pass_role"} -> "can_pass_role"
      [] type = "reads_secret" -> "reads_secret"
      [] type = "uses_kms_key" -> "encrypts_with"
      [] type \in {"grants_action", "grants_resource", "grants_permission"} -> "grants_permission"
      [] OTHER -> "depends_on"

AttachmentRelationships ==
    {"attached_to", "associated_with", "uses_instance_profile", "protects",
     "allows_security_group", "contains", "contains_role", "permission_boundary"}

Confidences == <<"low", "medium", "high">>
ConfidenceRank(c) == CHOOSE i \in DOMAIN Confidences : Confidences[i] = c

\* Mutant: what is read last replaces what was known.
MergeProvenanceReplacing(existing, incoming) == incoming

\* mergeEdgeProvenance, strongestConfidence
MergeProvenance(existing, incoming) ==
    [source |-> IF existing.source = incoming.source THEN existing.source ELSE "mixed",
     confidence |-> Confidences[
        IF ConfidenceRank(existing.confidence) > ConfidenceRank(incoming.confidence)
        THEN ConfidenceRank(existing.confidence) ELSE ConfidenceRank(incoming.confidence)]]

\* addEdgeWithProvenance
AddEdge(g, key, provenance) ==
    IF key[1] = key[3] THEN g
    ELSE [nodes |-> Over(g.nodes, [id \in {key[1], key[3]} |-> SyntheticNode(id)]),
          edges |-> [e \in DOMAIN g.edges \union {key} |->
                        IF e # key THEN g.edges[e]
                        ELSE IF key \in DOMAIN g.edges THEN MergeProvenance(g.edges[key], provenance)
                        ELSE provenance]]

FromContext(confidence) == [source |-> "cloud_context", confidence |-> confidence]

\* A diagnostic is its code with what its message names.
Diagnostic(code, type, ids) == [code |-> code, type |-> type, ids |-> ids]

-----------------------------------------------------------------------------
(* MergeContext *)

MergeResource(state, key, resource) ==
    LET found == ResolveResourceID(state.index.aliases, key, resource)
        id == found.id
        known == id \in DOMAIN state.graph.nodes
        matched == known /\ found.matched
        node == IF known THEN MergeContextIntoNode(state.graph.nodes[id], resource)
                ELSE ContextNode(id, resource)
        with == [state.graph EXCEPT !.nodes = Over([n \in {id} |-> node], @)]
        named == {key} \union IF ~matched /\ LooksTerraformAddress(resource.address)
                              THEN {resource.address} ELSE {}
        public == ResourcePublic(resource)
        conflict == matched /\ public /\ ~HasPublicInboundEdge(with, id)
    IN  [graph |-> IF public THEN AddEdge(with, <<Internet, "has_public_access", id>>, FromContext("high"))
                   ELSE with,
         index |-> [state.index EXCEPT !.aliases = AddAliases(@, ResourceAliases(resource, key), id)],
         ids |-> Over([n \in named |-> id], state.ids),
         diagnostics |-> state.diagnostics
                         \union IF conflict THEN {Diagnostic("public_conflict", "public", {id})} ELSE {}]

\* resolveContextEndpoint
ResolveEndpoint(state, endpoint) ==
    IF endpoint \in DOMAIN state.ids THEN state.ids[endpoint]
    ELSE IF endpoint \in DOMAIN state.index.aliases THEN state.index.aliases[endpoint] ELSE endpoint

MergeRelationship(state, rel) ==
    LET from == ResolveEndpoint(state, rel.from)
        to == ResolveEndpoint(state, rel.to)
        key == <<from, ContextEdgeType(rel.type), to>>
        managed == {id \in {from, to} : id \in state.index.managed}
        attachment == rel.type \in AttachmentRelationships
        absent == attachment /\ managed # {} /\ key \notin DOMAIN state.graph.edges
        unmanaged == attachment /\ Cardinality(managed) = 1
        told == {Diagnostic(code, rel.type, {from, to}) :
                    code \in (IF absent THEN {"attachment_conflict"} ELSE {})
                             \union (IF unmanaged THEN {"unmanaged_relationship"} ELSE {})}
    IN  IF from = to THEN state
        ELSE [state EXCEPT !.graph = AddEdge(@, key, FromContext(rel.confidence)),
                           !.diagnostics = @ \union told]

\* What the resources come to, one after the other by key; then the relationships.
MergeResources(start, resources) ==
    LET after[n \in 0..Len(Keys)] ==
            IF n = 0 THEN start
            ELSE IF Keys[n] \in DOMAIN resources
            THEN MergeResource(after[n - 1], Keys[n], resources[Keys[n]]) ELSE after[n - 1]
    IN  after

MergeRelationships(start, relationships) ==
    LET after[n \in 0..Len(relationships)] ==
            IF n = 0 THEN start ELSE MergeRelationship(after[n - 1], relationships[n])
    IN  after

\* The nodes of the plan's graph are visited with those of early first.
MergeContext(g, snapshot, early) ==
    LET start == [graph |-> g, index |-> NewContextIndex(g, early), ids |-> << >>, diagnostics |-> {}]
        merged == MergeResources(start, snapshot.resources)[Len(Keys)]
        linked == MergeRelationships(merged, snapshot.relationships)[Len(snapshot.relationships)]
    IN  [graph |-> linked.graph, diagnostics |-> linked.diagnostics]
=============================================================================
