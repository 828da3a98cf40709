---------------------------- MODULE GraphQueries ----------------------------
(***************************************************************************)
(* The questions asked of a resource graph (src/internal/graph/graph.go):  *)
(* who is public, what a resource reaches, and by which paths.  Every      *)
(* search is deterministic: edges are taken in the order of their keys,    *)
(* and the depth and the number of paths are capped.                       *)
(***************************************************************************)
EXTENDS ResourceGraph, Integers, SequencesExt

EdgeTypes ==
    <<"allows_egress", "allows_ingress", "attached_to", "can_assume", "can_pass_role",
      "can_read_data", "can_write_data", "contained_in", "depends_on", "encrypts_with",
      "grants_permission", "has_public_access", "invokes", "protects", "reads_secret",
      "replicates_to", "routes_to", "writes_to">>

ReachabilityEdges ==
    {"has_public_access", "routes_to", "invokes", "allows_ingress", "allows_egress",
     "attached_to", "contained_in", "can_read_data", "can_write_data", "reads_secret",
     "writes_to", "replicates_to"}
ExposureEdges ==
    {"routes_to", "invokes", "allows_ingress", "attached_to", "contained_in", "has_public_access"}
PublicEdges == {"routes_to", "invokes", "allows_ingress", "has_public_access", "can_read_data"}

-----------------------------------------------------------------------------
(* Order *)

TypePosition(type) == CHOOSE i \in DOMAIN EdgeTypes : EdgeTypes[i] = type
EdgeKey(e) == <<Position(e[1]), TypePosition(e[2]), Position(e[3])>>

\* a before b, compared element by element; a shorter one comes first.
SequenceBefore(a, b) ==
    \E i \in DOMAIN b :
        /\ \A j \in 1..i - 1 : j \in DOMAIN a /\ a[j] = b[j]
        /\ i \in DOMAIN a => a[i] < b[i]

\* OutgoingEdges, IncomingEdges and the adjacency lists of the searches are in key order.
Sorted(edges) ==
    LET Before(e) == {x \in edges : SequenceBefore(EdgeKey(x), EdgeKey(e))}
    IN  [i \in 1..Cardinality(edges) |-> CHOOSE e \in edges : Cardinality(Before(e)) = i - 1]
FirstEdge(edges) == CHOOSE e \in edges : ~ \E x \in edges : SequenceBefore(EdgeKey(x), EdgeKey(e))
LastEdge(edges) == CHOOSE e \in edges : ~ \E x \in edges : SequenceBefore(EdgeKey(e), EdgeKey(x))

Outgoing(g, id, allowed) == {e \in DOMAIN g.edges : e[1] = id /\ e[2] \in allowed}
Incoming(g, id) == {e \in DOMAIN g.edges : e[3] = id}

\* A path is the sequence of its edges.
End(from, path) == IF path = << >> THEN from ELSE Last(path)[3]
NodesOn(from, path) == {from} \union {path[i][3] : i \in DOMAIN path}

\* The order in which a search that takes edges by key comes upon paths.
EdgeKeys(path) == FlattenSeq([i \in DOMAIN path |-> EdgeKey(path[i])])
FoundBefore(p, q) == SequenceBefore(EdgeKeys(p), EdgeKeys(q))

\* pathKey: the nodes, then the keys of the edges.
PathKey(path) == [i \in DOMAIN path |-> Position(path[i][3])] \o EdgeKeys(path)

\* The first n of a set of paths in an order.
FirstOf(paths, n, Before(_, _)) ==
    {p \in paths : Cardinality({q \in paths : Before(q, p)}) < n}

-----------------------------------------------------------------------------
(* Search.  Taking edges by key, a walk in depth comes upon the simple paths *)
(* in the order of their keys, and one in breadth reaches a node by the      *)
(* first of its shortest paths.                                              *)

Extensions(g, from, allowed, paths) ==
    UNION {{Append(p, e) : e \in {x \in Outgoing(g, End(from, p), allowed) : x[3] \notin NodesOn(from, p)}} :
              p \in paths}

\* The paths that visit no node twice, by the greatest length they may have.
Walks(g, from, allowed, depth) ==
    LET upTo[n \in 0..depth] ==
            IF n = 0 THEN {<< >>}
            ELSE LET shorter == upTo[n - 1]
                 IN  shorter \union Extensions(g, from, allowed, {p \in shorter : Len(p) = n - 1})
    IN  upTo
SimplePaths(g, from, allowed, depth) == Walks(g, from, allowed, depth)[depth]

Known(g, from, to) == {from, to} \subseteq DOMAIN g.nodes

\* At each length, a path to every node that no shorter one reaches, until it has come to to.
ShortestWalks(g, from, to, allowed, depth) ==
    LET BestOf(paths, id) == FirstOf({p \in paths : End(from, p) = id}, 1, FoundBefore)
        upTo[n \in 0..depth] ==
            IF n = 0 THEN {<< >>}
            ELSE LET shorter == upTo[n - 1]
                     reached == {End(from, p) : p \in shorter}
                     next == Extensions(g, from, allowed, {p \in shorter : Len(p) = n - 1})
                     new == {End(from, p) : p \in next} \ reached
                 IN  IF to \in reached \/ new = {} THEN shorter
                     ELSE shorter \union UNION {BestOf(next, id) : id \in new}
    IN  upTo

\* Path and shortestPathWithOptions: the path, or none.
ShortestPath(g, from, to, allowed, depth) ==
    IF ~Known(g, from, to) THEN {}
    ELSE {p \in ShortestWalks(g, from, to, allowed, depth)[depth] : End(from, p) = to}

\* Paths: one path asks for the shortest, and more for those a walk comes upon first.
Paths(g, from, to, allowed, depth, cap) ==
    IF ~Known(g, from, to) THEN {}
    ELSE IF cap = 1 \/ from = to THEN ShortestPath(g, from, to, allowed, depth)
    ELSE FirstOf({p \in SimplePaths(g, from, allowed, depth) : End(from, p) = to}, cap, FoundBefore)

\* pathWithTypes finds a path exactly when one exists.
Reaches(g, from, to, allowed) ==
    LET within[n \in 0..Cardinality(DOMAIN g.nodes)] ==
            IF n = 0 THEN {from}
            ELSE LET closer == within[n - 1]
                 IN  closer \union {e[3] : e \in {x \in DOMAIN g.edges : x[1] \in closer /\ x[2] \in allowed}}
    IN  Known(g, from, to) /\ to \in within[Cardinality(DOMAIN g.nodes)]

-----------------------------------------------------------------------------
(* Exposure and reach *)

HasPublicInboundEdge(g, id) ==
    \E e \in DOMAIN g.edges : e[1] = Internet /\ e[3] = id /\ e[2] \in PublicEdges

PublicEntrypoints(g) ==
    {id \in DOMAIN g.nodes :
        /\ HasPublicInboundEdge(g, id)
        /\ g.nodes[id].kind # "network_boundary"}

\* IsInternetExposed: by routing and attachment, never by containment.
IsInternetExposed(g, id) ==
    \/ Reaches(g, Internet, id,
            {"routes_to", "invokes", "allows_ingress", "has_public_access", "attached_to"})
    \/ \E e \in DOMAIN g.edges : e[1] = Internet /\ e[3] = id
                                 /\ e[2] \in {"has_public_access", "allows_ingress", "routes_to"}

CanReach(g, from, to) ==
    Reaches(g, from, to, {"routes_to", "invokes", "allows_ingress", "allows_egress", "attached_to",
                          "contained_in", "can_read_data", "can_write_data"})

\* HasSensitiveDataAccess: by an edge of its own, never along a path.
HasSensitiveDataAccess(g, id) ==
    \E e \in Outgoing(g, id, {"can_read_data", "can_write_data"}) : IsSensitiveKind(g.nodes[e[3]].kind)

HasEdge(g, from, to, type) == <<from, type, to>> \in DOMAIN g.edges

SensitiveAssets(g) == {id \in DOMAIN g.nodes : IsSensitiveKind(g.nodes[id].kind)}

-----------------------------------------------------------------------------
(* Blast radius *)

VisitLimit(depth, cap) == IF depth * cap * 100 < 1000 THEN 1000 ELSE depth * cap * 100

\* BlastRadius: one walk in depth with a limit of its own.  Of the paths to what is sensitive
\* and of those to workloads it keeps the first it comes upon, the sensitive ones before
\* the others where there are too many.
BlastRadius(g, from, depth, cap) ==
    LET all == IF from \in DOMAIN g.nodes
               THEN SimplePaths(g, from, ReachabilityEdges, depth) \ {<< >>} ELSE {}
        visited == IF Cardinality(all) <= VisitLimit(depth, cap) THEN all
                   ELSE FirstOf(all, VisitLimit(depth, cap), FoundBefore)
        Ending(Wanted(_)) == {p \in visited : Wanted(g.nodes[End(from, p)].kind)}
        IsWorkload(kind) == kind = "workload"
        sensitive == FirstOf(Ending(IsSensitiveKind), cap, FoundBefore)
        workloads == FirstOf(Ending(IsWorkload), cap, FoundBefore)
        ByKey(p, q) == SequenceBefore(PathKey(p), PathKey(q))
    IN  [sensitive |-> {End(from, p) : p \in Ending(IsSensitiveKind)},
         workloads |-> {End(from, p) : p \in Ending(IsWorkload)},
         paths |-> sensitive \union FirstOf(workloads, cap - Cardinality(sensitive), ByKey)]
=============================================================================
