-------------------------- MODULE PlanAnalysisProofs --------------------------
(***************************************************************************)
(* Theorems about PlanAnalysis: that the snapshot takes nothing away from  *)
(* the graph of the plan; that an attack path that is reported as certain  *)
(* is certain in every step; that a certain escalation is granted; and     *)
(* that a certain way to what is sensitive is reported.                    *)
(***************************************************************************)
EXTENDS PlanAnalysis, FiniteSetTheorems, WellFoundedInduction, TLAPS

-----------------------------------------------------------------------------
(***************************************************************************)
(* Induction.  A recursive function over 0..n is one that satisfies its    *)
(* equation, once there is one; both that and what holds of its values are *)
(* shown by the least number for which they fail.                          *)
(***************************************************************************)

\* A nonempty set of natural numbers has a least member.
LEMMA LeastNatural ==
    ASSUME NEW S, S \subseteq Nat, S # {}
    PROVE  \E m \in S : \A n \in S : m <= n
<1>1. PICK m \in S : \A n \in S : <<n, m>> \notin OpToRel(<, Nat)
    BY NatLessThanWellFounded, WFMin
<1>2. OpToRel(<, Nat) = {ss \in Nat \X Nat : ss[1] < ss[2]}
    BY DEF OpToRel
<1>3. \A n \in S : m <= n
    <2>. SUFFICES ASSUME NEW n \in S, n < m PROVE FALSE
        OBVIOUS
    <2>1. <<n, m>> \in OpToRel(<, Nat)
        BY <1>2
    <2>. QED  BY <1>1, <2>1
<1>. QED  BY <1>3

\* A set of numbers that has the number 0 and with each the next one has them all.
LEMMA AllNumbers ==
    ASSUME NEW S, 0 \in S, \A n \in Nat : n \in S => n + 1 \in S
    PROVE  Nat \subseteq S
<1>. SUFFICES ASSUME NEW k \in Nat, k \notin S PROVE FALSE
    OBVIOUS
<1>. DEFINE Missing == {n \in Nat : n \notin S}
<1>1. PICK m \in Missing : \A n \in Missing : m <= n
    <2>1. Missing \subseteq Nat /\ Missing # {}
        OBVIOUS
    <2>. HIDE DEF Missing
    <2>. QED  BY <2>1, LeastNatural
<1>2. m \in Nat /\ m \notin S /\ m # 0
    BY <1>1
<1>3. m - 1 \in Nat /\ m - 1 \in S
    BY <1>1, <1>2
<1>4. (m - 1) + 1 = m
    BY <1>2
<1>. QED  BY <1>2, <1>3, <1>4

\* The same for the numbers up to a bound.
LEMMA AllNumbersUpTo ==
    ASSUME NEW N \in Nat, NEW S, 0 \in S, \A n \in 0..N : n # N /\ n \in S => n + 1 \in S
    PROVE  0..N \subseteq S
<1>. DEFINE T == {n \in Nat : n \in 0..N => n \in S}
<1>1. 0 \in T
    OBVIOUS
<1>2. ASSUME NEW n \in Nat, n \in T PROVE n + 1 \in T
    <2>1. CASE n + 1 \in 0..N
        <3>1. n \in 0..N /\ n # N
            BY <2>1
        <3>. QED  BY <1>2, <3>1
    <2>2. CASE n + 1 \notin 0..N
        BY <2>2
    <2>. QED  BY <2>1, <2>2
<1>3. Nat \subseteq T
    <2>. HIDE DEF T
    <2>. QED  BY <1>1, <1>2, AllNumbers
<1>. QED  BY <1>3

-----------------------------------------------------------------------------
(***************************************************************************)
(* Shapes.  A node is a record of the fields NodeOf gives it; an edge is   *)
(* what addEdgeWithProvenance keeps, with its provenance.                  *)
(***************************************************************************)
IsNode(n) ==
    n = [type |-> n.type, kind |-> n.kind, tags |-> n.tags, environment |-> n.environment,
         names |-> n.names, refs |-> n.refs, flags |-> n.flags, policy |-> n.policy,
         observed |-> n.observed, changed |-> n.changed, synthetic |-> n.synthetic]

AreNodes(nodes) == DOMAIN nodes \subseteq IDs /\ \A id \in DOMAIN nodes : IsNode(nodes[id])

EdgeKeysOf == IDs \X Range(EdgeTypes) \X IDs
Provenances == [source : {"plan", "cloud_context", "mixed"}, confidence : {"low", "medium", "high"}]

IsGraph(g) ==
    /\ g = [nodes |-> g.nodes, edges |-> g.edges]
    /\ AreNodes(g.nodes)
    /\ \A e \in DOMAIN g.edges : e \in EdgeKeysOf /\ g.edges[e] \in Provenances

\* The rank of a confidence is its place in the order.
LEMMA Ranks ==
    /\ ConfidenceRank("low") = 1 /\ ConfidenceRank("medium") = 2 /\ ConfidenceRank("high") = 3
    /\ Range(Confidences) = {"low", "medium", "high"}
<1>1. DOMAIN Confidences = 1..3 /\ Confidences[1] = "low" /\ Confidences[2] = "medium" /\ Confidences[3] = "high"
    BY DEF Confidences
<1>2. ConfidenceRank("low") = 1
    <2>1. \E i \in DOMAIN Confidences : Confidences[i] = "low"
        BY <1>1
    <2>2. ConfidenceRank("low") \in 1..3 /\ Confidences[ConfidenceRank("low")] = "low"
        BY <1>1, <2>1 DEF ConfidenceRank
    <2>. QED  BY <1>1, <2>2
<1>3. ConfidenceRank("medium") = 2
    <2>1. \E i \in DOMAIN Confidences : Confidences[i] = "medium"
        BY <1>1
    <2>2. ConfidenceRank("medium") \in 1..3 /\ Confidences[ConfidenceRank("medium")] = "medium"
        BY <1>1, <2>1 DEF ConfidenceRank
    <2>. QED  BY <1>1, <2>2
<1>4. ConfidenceRank("high") = 3
    <2>1. \E i \in DOMAIN Confidences : Confidences[i] = "high"
        BY <1>1
    <2>2. ConfidenceRank("high") \in 1..3 /\ Confidences[ConfidenceRank("high")] = "high"
        BY <1>1, <2>1 DEF ConfidenceRank
    <2>. QED  BY <1>1, <2>2
<1>5. Range(Confidences) = {"low", "medium", "high"}
    <2>1. \A i \in 1..3 : i = 1 \/ i = 2 \/ i = 3
        OBVIOUS
    <2>. QED  BY <1>1, <2>1 DEF Range
<1>. QED  BY <1>2, <1>3, <1>4, <1>5

\* mergeEdgeProvenance keeps the stronger of two confidences.
LEMMA StrongestConfidence ==
    ASSUME NEW a \in Provenances, NEW b \in Provenances
    PROVE  /\ MergeProvenance(a, b) \in Provenances
           /\ ConfidenceRank(MergeProvenance(a, b).confidence) >= ConfidenceRank(a.confidence)
<1>1. /\ a.confidence \in {"low", "medium", "high"} /\ a.source \in {"plan", "cloud_context", "mixed"}
      /\ b.confidence \in {"low", "medium", "high"} /\ b.source \in {"plan", "cloud_context", "mixed"}
    BY DEF Provenances
<1>. DEFINE A == ConfidenceRank(a.confidence)
            B == ConfidenceRank(b.confidence)
            best == IF A > B THEN A ELSE B
            merged == MergeProvenance(a, b)
<1>2. A \in 1..3 /\ B \in 1..3 /\ best \in 1..3 /\ best >= A
    BY <1>1, Ranks
<1>3. merged = [source |-> IF a.source = b.source THEN a.source ELSE "mixed", confidence |-> Confidences[best]]
    BY DEF MergeProvenance
<1>4. Confidences[best] \in {"low", "medium", "high"} /\ ConfidenceRank(Confidences[best]) = best
    <2>1. Confidences[1] = "low" /\ Confidences[2] = "medium" /\ Confidences[3] = "high"
        BY DEF Confidences
    <2>2. best = 1 \/ best = 2 \/ best = 3
        BY <1>2
    <2>. HIDE DEF best
    <2>. QED  BY <2>1, <2>2, Ranks
<1>. HIDE DEF best, merged, A
<1>5. merged.confidence = Confidences[best] /\ merged.source \in {"plan", "cloud_context", "mixed"}
    BY <1>1, <1>3
<1>6. merged \in Provenances
    BY <1>1, <1>3, <1>4 DEF Provenances
<1>7. ConfidenceRank(merged.confidence) >= A
    BY <1>2, <1>4, <1>5
<1>. QED  BY <1>6, <1>7 DEF merged, A

-----------------------------------------------------------------------------
(***************************************************************************)
(* The merge of a snapshot.  Each live resource and each relationship of   *)
(* it leaves a graph that holds all there was.                             *)
(***************************************************************************)

\* What g0 says is said by g as well, and no less certainly, but for what live resources replace.
Holds(g0, g, live) ==
    /\ \A id \in DOMAIN g0.nodes : id \in DOMAIN g.nodes /\ Keeps(g0.nodes[id], g.nodes[id], live)
    /\ \A e \in DOMAIN g0.edges :
          /\ e \in DOMAIN g.edges
          /\ ConfidenceRank(g.edges[e].confidence) >= ConfidenceRank(g0.edges[e].confidence)

\* A node keeps what it has while nothing happens to it.
LEMMA KeepsItself ==
    ASSUME NEW node, NEW live
    PROVE  Keeps(node, node, live)
BY DEF Keeps, KeepsAttributes, KeepsLabels, KeepsKind

\* And what it keeps in each of two steps it keeps in both.
LEMMA KeepsOn ==
    ASSUME NEW a, NEW b, NEW c, NEW live, Keeps(a, b, live), Keeps(b, c, live)
    PROVE  Keeps(a, c, live)
<1>1. KeepsAttributes(a, c)
    BY DEF Keeps, KeepsAttributes
<1>2. KeepsLabels(a, c, live)
    <2>1. KeepsLabels(a, b, live) /\ KeepsLabels(b, c, live)
        BY DEF Keeps
    <2>2. ASSUME NEW tag \in DOMAIN a.tags
          PROVE  /\ tag \in DOMAIN c.tags
                 /\ c.tags[tag] # a.tags[tag] => \E r \in live : tag \in DOMAIN r.tags /\ r.tags[tag] = c.tags[tag]
        BY <2>1 DEF KeepsLabels
    <2>3. ASSUME NEW name \in a.names \ c.names
          PROVE  name[1] = "tag" /\ \E r \in live : \E other \in r.names : other[1] = "tag"
        BY <2>1 DEF KeepsLabels
    <2>. QED  BY <2>2, <2>3 DEF KeepsLabels
<1>3. KeepsKind(a, c, live)
    BY DEF Keeps, KeepsKind
<1>. QED  BY <1>1, <1>2, <1>3 DEF Keeps

\* Confidence of the edges, typed.
LEMMA RankOfEdge ==
    ASSUME NEW g, IsGraph(g), NEW e \in DOMAIN g.edges
    PROVE  g.edges[e].confidence \in {"low", "medium", "high"} /\ ConfidenceRank(g.edges[e].confidence) \in 1..3
<1>1. g.edges[e].confidence \in {"low", "medium", "high"}
    BY DEF IsGraph, Provenances
<1>. QED  BY <1>1, Ranks

\* A graph says what it says.
LEMMA HoldsItself ==
    ASSUME NEW g, IsGraph(g), NEW live
    PROVE  Holds(g, g, live)
<1>1. \A e \in DOMAIN g.edges : ConfidenceRank(g.edges[e].confidence) >= ConfidenceRank(g.edges[e].confidence)
    BY RankOfEdge
<1>. QED  BY <1>1, KeepsItself DEF Holds

\* And what it says is said by what says all that a third says.
LEMMA HoldsOn ==
    ASSUME NEW g0, NEW g1, NEW g2, NEW live,
           IsGraph(g0), IsGraph(g1), IsGraph(g2), Holds(g0, g1, live), Holds(g1, g2, live)
    PROVE  Holds(g0, g2, live)
<1>1. ASSUME NEW id \in DOMAIN g0.nodes
      PROVE  id \in DOMAIN g2.nodes /\ Keeps(g0.nodes[id], g2.nodes[id], live)
    <2>1. id \in DOMAIN g1.nodes /\ Keeps(g0.nodes[id], g1.nodes[id], live)
        BY DEF Holds
    <2>2. id \in DOMAIN g2.nodes /\ Keeps(g1.nodes[id], g2.nodes[id], live)
        BY <2>1 DEF Holds
    <2>. QED  BY <2>1, <2>2, KeepsOn
<1>2. ASSUME NEW e \in DOMAIN g0.edges
      PROVE  /\ e \in DOMAIN g2.edges
             /\ ConfidenceRank(g2.edges[e].confidence) >= ConfidenceRank(g0.edges[e].confidence)
    <2>1. e \in DOMAIN g1.edges /\ ConfidenceRank(g1.edges[e].confidence) >= ConfidenceRank(g0.edges[e].confidence)
        BY DEF Holds
    <2>2. e \in DOMAIN g2.edges /\ ConfidenceRank(g2.edges[e].confidence) >= ConfidenceRank(g1.edges[e].confidence)
        BY <2>1 DEF Holds
    <2>3. /\ ConfidenceRank(g0.edges[e].confidence) \in 1..3
          /\ ConfidenceRank(g1.edges[e].confidence) \in 1..3
          /\ ConfidenceRank(g2.edges[e].confidence) \in 1..3
        BY <2>1, <2>2, RankOfEdge
    <2>. QED  BY <2>1, <2>2, <2>3
<1>. QED  BY <1>1, <1>2 DEF Holds

\* What a resource becomes is a node.
LEMMA NodeOfIsNode ==
    ASSUME NEW resource
    PROVE  IsNode(NodeOf(resource))
<1>. DEFINE kind == KindOf(resource.type, resource.flags)
            environment == EnvironmentFromTags(resource.tags)
<1>1. NodeOf(resource) =
        [type |-> resource.type, kind |-> kind, tags |-> resource.tags, environment |-> environment,
         names |-> resource.names, refs |-> resource.refs, flags |-> resource.flags,
         policy |-> resource.policy, observed |-> {}, changed |-> FALSE, synthetic |-> FALSE]
    BY DEF NodeOf
<1>. HIDE DEF kind, environment
<1>. QED  BY <1>1 DEF IsNode

\* A node with another value in one of its fields is a node, and keeps the others:
\* one fact for each field that a step writes.
LEMMA ExceptKind ==
    ASSUME NEW n, IsNode(n), NEW x
    PROVE  /\ IsNode([n EXCEPT !.kind = x])
           /\ [n EXCEPT !.kind = x].kind = x
           /\ [n EXCEPT !.kind = x].environment = n.environment
           /\ [n EXCEPT !.kind = x].flags = n.flags
BY DEF IsNode

\* The same of its tags.
LEMMA ExceptTags ==
    ASSUME NEW n, IsNode(n), NEW x
    PROVE  /\ IsNode([n EXCEPT !.tags = x])
           /\ [n EXCEPT !.tags = x].tags = x
           /\ [n EXCEPT !.tags = x].environment = n.environment
           /\ [n EXCEPT !.tags = x].flags = n.flags
BY DEF IsNode

\* The same of its environment.
LEMMA ExceptEnvironment ==
    ASSUME NEW n, IsNode(n), NEW x
    PROVE  /\ IsNode([n EXCEPT !.environment = x])
           /\ [n EXCEPT !.environment = x].environment = x
           /\ [n EXCEPT !.environment = x].flags = n.flags
BY DEF IsNode

\* The same of its names.
LEMMA ExceptNames ==
    ASSUME NEW n, IsNode(n), NEW x
    PROVE  /\ IsNode([n EXCEPT !.names = x])
           /\ [n EXCEPT !.names = x].environment = n.environment
           /\ [n EXCEPT !.names = x].flags = n.flags
BY DEF IsNode

\* The same of its refs.
LEMMA ExceptRefs ==
    ASSUME NEW n, IsNode(n), NEW x
    PROVE  IsNode([n EXCEPT !.refs = x])
BY DEF IsNode

\* The same of its policy.
LEMMA ExceptPolicy ==
    ASSUME NEW n, IsNode(n), NEW x
    PROVE  IsNode([n EXCEPT !.policy = x])
BY DEF IsNode

\* The same of its flags.
LEMMA ExceptFlags ==
    ASSUME NEW n, IsNode(n), NEW x
    PROVE  /\ IsNode([n EXCEPT !.flags = x])
           /\ [n EXCEPT !.flags = x].flags = x
           /\ [n EXCEPT !.flags = x].environment = n.environment
BY DEF IsNode

\* The same of its changed.
LEMMA ExceptChanged ==
    ASSUME NEW n, IsNode(n), NEW x
    PROVE  IsNode([n EXCEPT !.changed = x])
BY DEF IsNode

\* The same of its synthetic.
LEMMA ExceptSynthetic ==
    ASSUME NEW n, IsNode(n), NEW x
    PROVE  IsNode([n EXCEPT !.synthetic = x])
BY DEF IsNode

\* A node that no resource has is a node.
LEMMA SyntheticIsNode ==
    ASSUME NEW id
    PROVE  IsNode(SyntheticNode(id))
<1>. DEFINE type == IF id = Internet THEN "internet" ELSE "external"
            resource == [type |-> type, tags |-> << >>, names |-> {<<"address", id>>}, refs |-> {}, flags |-> {},
                         policy |-> << >>]
            node == NodeOf(resource)
<1>1. SyntheticNode(id) = [node EXCEPT !.synthetic = TRUE]
    BY DEF SyntheticNode
<1>. HIDE DEF resource
<1>2. IsNode(node)
    BY NodeOfIsNode
<1>. HIDE DEF node
<1>. QED  BY <1>1, <1>2, ExceptSynthetic

\* f in place of g where there is an f.
LEMMA OverFacts ==
    ASSUME NEW f, NEW g
    PROVE  /\ DOMAIN Over(f, g) = DOMAIN f \union DOMAIN g
           /\ \A x \in DOMAIN f : Over(f, g)[x] = f[x]
           /\ \A x \in DOMAIN g : x \notin DOMAIN f => Over(f, g)[x] = g[x]
BY DEF Over

\* addEdgeWithProvenance adds an edge, and nodes where its ends are none.
LEMMA AddEdgeHolds ==
    ASSUME NEW g, IsGraph(g), NEW key \in EdgeKeysOf, NEW provenance \in Provenances, NEW live
    PROVE  IsGraph(AddEdge(g, key, provenance)) /\ Holds(g, AddEdge(g, key, provenance), live)
<1>1. CASE key[1] = key[3]
    BY <1>1, HoldsItself DEF AddEdge
<1>2. CASE key[1] # key[3]
    <2>. DEFINE ends == [id \in {key[1], key[3]} |-> SyntheticNode(id)]
                nodes == Over(g.nodes, ends)
                said(e) == IF e # key THEN g.edges[e]
                           ELSE IF key \in DOMAIN g.edges THEN MergeProvenance(g.edges[key], provenance)
                           ELSE provenance
                edgesOf == [e \in DOMAIN g.edges \union {key} |-> said(e)]
                after == AddEdge(g, key, provenance)
    <2>1. after = [nodes |-> nodes, edges |-> edgesOf]
        BY <1>2 DEF AddEdge
    <2>2. after.nodes = nodes /\ after.edges = edgesOf
        BY <2>1
    <2>3. key[1] \in IDs /\ key[3] \in IDs
        BY DEF EdgeKeysOf
    <2>4. /\ DOMAIN nodes = DOMAIN g.nodes \union {key[1], key[3]}
          /\ \A id \in DOMAIN g.nodes : nodes[id] = g.nodes[id]
          /\ \A id \in DOMAIN nodes : id \notin DOMAIN g.nodes => nodes[id] = SyntheticNode(id)
        <3>1. DOMAIN ends = {key[1], key[3]} /\ \A id \in {key[1], key[3]} : ends[id] = SyntheticNode(id)
            OBVIOUS
        <3>. HIDE DEF ends
        <3>2. /\ DOMAIN nodes = DOMAIN g.nodes \union DOMAIN ends
              /\ \A x \in DOMAIN g.nodes : nodes[x] = g.nodes[x]
              /\ \A x \in DOMAIN ends : x \notin DOMAIN g.nodes => nodes[x] = ends[x]
            BY OverFacts
        <3>. HIDE DEF nodes
        <3>. QED  BY <3>1, <3>2
    <2>. HIDE DEF nodes
    <2>5. AreNodes(nodes)
        <3>1. \A id \in DOMAIN g.nodes : IsNode(g.nodes[id]) /\ id \in IDs
            BY DEF IsGraph, AreNodes
        <3>. QED  BY <2>3, <2>4, <3>1, SyntheticIsNode DEF AreNodes
    <2>6. ASSUME NEW e \in DOMAIN g.edges
          PROVE  said(e) \in Provenances /\ ConfidenceRank(said(e).confidence) >= ConfidenceRank(g.edges[e].confidence)
        <3>1. g.edges[e] \in Provenances
            BY DEF IsGraph
        <3>2. CASE e # key
            <4>1. said(e) = g.edges[e]
                BY <3>2
            <4>2. ConfidenceRank(g.edges[e].confidence) \in 1..3
                BY RankOfEdge
            <4>. QED  BY <3>1, <4>1, <4>2
        <3>3. CASE e = key
            <4>1. said(e) = MergeProvenance(g.edges[e], provenance)
                BY <3>3
            <4>. HIDE DEF said
            <4>. QED  BY <3>1, <4>1, StrongestConfidence
        <3>. QED  BY <3>2, <3>3
    <2>7. said(key) \in Provenances
        <3>1. CASE key \in DOMAIN g.edges
            BY <2>6, <3>1
        <3>2. CASE key \notin DOMAIN g.edges
            BY <3>2
        <3>. QED  BY <3>1, <3>2
    <2>. HIDE DEF said
    <2>8. /\ DOMAIN edgesOf = DOMAIN g.edges \union {key}
          /\ \A e \in DOMAIN edgesOf : edgesOf[e] = said(e)
        OBVIOUS
    <2>. HIDE DEF edgesOf
    <2>9. \A e \in DOMAIN edgesOf : e \in EdgeKeysOf /\ edgesOf[e] \in Provenances
        <3>1. \A e \in DOMAIN g.edges : e \in EdgeKeysOf
            BY DEF IsGraph
        <3>. QED  BY <2>6, <2>7, <2>8, <3>1
    <2>. HIDE DEF after
    <2>10. IsGraph(after)
        BY <2>1, <2>2, <2>5, <2>9 DEF IsGraph
    <2>11. Holds(g, after, live)
        <3>1. ASSUME NEW id \in DOMAIN g.nodes
              PROVE  id \in DOMAIN after.nodes /\ after.nodes[id] = g.nodes[id]
            BY <2>2, <2>4
        <3>2. ASSUME NEW e \in DOMAIN g.edges
              PROVE  /\ e \in DOMAIN after.edges
                     /\ ConfidenceRank(after.edges[e].confidence) >= ConfidenceRank(g.edges[e].confidence)
            <4>1. e \in DOMAIN edgesOf /\ edgesOf[e] = said(e)
                BY <2>8
            <4>. QED  BY <2>2, <2>6, <4>1
        <3>3. \A id \in DOMAIN g.nodes : Keeps(g.nodes[id], after.nodes[id], live)
            BY <3>1, KeepsItself
        <3>. QED  BY <3>1, <3>2, <3>3 DEF Holds
    <2>. QED  BY <2>10, <2>11 DEF after
<1>. QED  BY <1>1, <1>2

\* mergeContextIntoNode, field by field.
LEMMA MergedFields ==
    ASSUME NEW node, IsNode(node), NEW resource, NEW after, after = MergeContextIntoNode(node, resource)
    PROVE  /\ IsNode(after)
           /\ KeepsAttributes(node, after)
           /\ after.tags = Over(resource.tags, node.tags)
           /\ after.names = MergedNames(node.names, ContextNames(resource))
           /\ after.kind = IF node.kind = "unknown" \/ resource.sensitive \/ ResourcePublic(resource)
                           THEN ContextNodeKind(resource, node.flags \union ContextFlags(resource)) ELSE node.kind
<1>. DEFINE tags == Over(resource.tags, node.tags)
            environment == IF node.environment = "" THEN EnvironmentFromTags(tags) ELSE node.environment
            names == MergedNames(node.names, ContextNames(resource))
            flags == node.flags \union ContextFlags(resource)
            observed == IF node.observed = {} THEN resource.actions ELSE node.observed
            kind == IF node.kind = "unknown" \/ resource.sensitive \/ ResourcePublic(resource)
                    THEN ContextNodeKind(resource, flags) ELSE node.kind
            relabelled == [node EXCEPT !.tags = tags]
            tagged == [relabelled EXCEPT !.environment = environment]
            named == [tagged EXCEPT !.names = names]
            flagged == [named EXCEPT !.flags = flags]
            seen == [flagged EXCEPT !.observed = observed]
            merged == [seen EXCEPT !.kind = kind]
            whole == [type |-> node.type, kind |-> kind, tags |-> tags, environment |-> environment,
                      names |-> names, refs |-> node.refs, flags |-> flags, policy |-> node.policy,
                      observed |-> observed, changed |-> node.changed, synthetic |-> node.synthetic]
<1>1. /\ relabelled.environment = node.environment /\ tagged.names = node.names
      /\ flagged.observed = node.observed /\ seen.kind = node.kind
    <2>. HIDE DEF tags, environment, names, flags, observed
    <2>. QED  BY DEF IsNode
<1>2. WithTags(node, tags) = tagged
    BY <1>1 DEF WithTags
<1>3. after = merged
    BY <1>1, <1>2 DEF MergeContextIntoNode
<1>. HIDE DEF tags, environment, names, flags, observed, kind
<1>4. merged = whole
    <2>0. node = [type |-> node.type, kind |-> node.kind, tags |-> node.tags, environment |-> node.environment,
                  names |-> node.names, refs |-> node.refs, flags |-> node.flags, policy |-> node.policy,
                  observed |-> node.observed, changed |-> node.changed, synthetic |-> node.synthetic]
        BY DEF IsNode
    <2>1. relabelled = [type |-> node.type, kind |-> node.kind, tags |-> tags, environment |-> node.environment,
                        names |-> node.names, refs |-> node.refs, flags |-> node.flags, policy |-> node.policy,
                        observed |-> node.observed, changed |-> node.changed, synthetic |-> node.synthetic]
        BY <2>0
    <2>. HIDE DEF relabelled
    <2>2. tagged = [type |-> node.type, kind |-> node.kind, tags |-> tags, environment |-> environment,
                    names |-> node.names, refs |-> node.refs, flags |-> node.flags, policy |-> node.policy,
                    observed |-> node.observed, changed |-> node.changed, synthetic |-> node.synthetic]
        BY <2>1
    <2>. HIDE DEF tagged
    <2>3. named = [type |-> node.type, kind |-> node.kind, tags |-> tags, environment |-> environment,
                   names |-> names, refs |-> node.refs, flags |-> node.flags, policy |-> node.policy,
                   observed |-> node.observed, changed |-> node.changed, synthetic |-> node.synthetic]
        BY <2>2
    <2>. HIDE DEF named
    <2>4. flagged = [type |-> node.type, kind |-> node.kind, tags |-> tags, environment |-> environment,
                     names |-> names, refs |-> node.refs, flags |-> flags, policy |-> node.policy,
                     observed |-> node.observed, changed |-> node.changed, synthetic |-> node.synthetic]
        BY <2>3
    <2>. HIDE DEF flagged
    <2>5. seen = [type |-> node.type, kind |-> node.kind, tags |-> tags, environment |-> environment,
                  names |-> names, refs |-> node.refs, flags |-> flags, policy |-> node.policy,
                  observed |-> observed, changed |-> node.changed, synthetic |-> node.synthetic]
        BY <2>4
    <2>. HIDE DEF seen
    <2>6. merged = [type |-> node.type, kind |-> kind, tags |-> tags, environment |-> environment,
                    names |-> names, refs |-> node.refs, flags |-> flags, policy |-> node.policy,
                    observed |-> observed, changed |-> node.changed, synthetic |-> node.synthetic]
        BY <2>5
    <2>. HIDE DEF merged
    <2>. QED  BY <2>6
<1>5. node.environment # "" => environment = node.environment
    BY DEF environment
<1>6. node.flags \subseteq flags
    BY DEF flags
<1>. HIDE DEF merged
<1>7. after = whole
    BY <1>3, <1>4
<1>8. /\ IsNode(after)
      /\ after.type = node.type /\ after.refs = node.refs /\ after.policy = node.policy
      /\ after.changed = node.changed /\ after.synthetic = node.synthetic
      /\ after.flags = flags /\ after.environment = environment
      /\ after.tags = tags /\ after.names = names /\ after.kind = kind
    BY <1>7 DEF IsNode
<1>9. KeepsAttributes(node, after)
    BY <1>5, <1>6, <1>8 DEF KeepsAttributes
<1>. QED  BY <1>8, <1>9 DEF tags, names, flags, kind

\* What is sensitive or public has a kind that says so, and the former comes first.
LEMMA SensitiveKinds ==
    ASSUME NEW resource, resource.sensitive, NEW flags
    PROVE  IsSensitiveKind(ContextNodeKind(resource, flags))
BY DEF ContextNodeKind, IsSensitiveKind

\* mergeContextIntoNode replaces no more than a live resource may.
LEMMA MergedNodeKeeps ==
    ASSUME NEW node, IsNode(node), NEW live, NEW resource \in live
    PROVE  IsNode(MergeContextIntoNode(node, resource)) /\ Keeps(node, MergeContextIntoNode(node, resource), live)
<1>1. PICK after : after = MergeContextIntoNode(node, resource)
    OBVIOUS
<1>. DEFINE reclassified == node.kind = "unknown" \/ resource.sensitive \/ ResourcePublic(resource)
            flags == node.flags \union ContextFlags(resource)
<1>2. /\ IsNode(after) /\ KeepsAttributes(node, after)
      /\ after.tags = Over(resource.tags, node.tags)
      /\ after.names = MergedNames(node.names, ContextNames(resource))
      /\ after.kind = IF reclassified THEN ContextNodeKind(resource, flags) ELSE node.kind
    BY <1>1, MergedFields
<1>3. ASSUME NEW tag \in DOMAIN node.tags
      PROVE  /\ tag \in DOMAIN after.tags
             /\ after.tags[tag] # node.tags[tag] =>
                   \E r \in live : tag \in DOMAIN r.tags /\ r.tags[tag] = after.tags[tag]
    <2>. DEFINE tags == Over(resource.tags, node.tags)
    <2>1. /\ DOMAIN tags = DOMAIN resource.tags \union DOMAIN node.tags
          /\ tag \in DOMAIN resource.tags => tags[tag] = resource.tags[tag]
          /\ tag \notin DOMAIN resource.tags => tags[tag] = node.tags[tag]
        BY <1>3 DEF Over
    <2>2. after.tags = tags
        BY <1>2
    <2>. HIDE DEF tags
    <2>3. tag \in DOMAIN after.tags
        BY <2>1, <2>2
    <2>4. after.tags[tag] # node.tags[tag] => tag \in DOMAIN resource.tags /\ resource.tags[tag] = after.tags[tag]
        BY <2>1, <2>2
    <2>. QED  BY <2>3, <2>4
<1>4. ASSUME NEW name \in node.names \ after.names
      PROVE  name[1] = "tag" /\ \E r \in live : \E other \in r.names : other[1] = "tag"
    <2>1. name[1] = "tag" /\ "tag" \in {n[1] : n \in ContextNames(resource)}
        BY <1>2, <1>4 DEF MergedNames
    <2>2. PICK other \in ContextNames(resource) : other[1] = "tag"
        BY <2>1
    <2>3. other # <<"arn", resource.arn>>
        BY <2>2
    <2>4. other \in resource.names
        BY <2>2, <2>3 DEF ContextNames
    <2>. QED  BY <2>1, <2>2, <2>4
<1>5. KeepsLabels(node, after, live)
    BY <1>3, <1>4 DEF KeepsLabels
<1>6. KeepsKind(node, after, live)
    <2>1. after.kind # node.kind => reclassified
        BY <1>2
    <2>2. resource.sensitive /\ after.kind # node.kind => IsSensitiveKind(after.kind)
        BY <1>2, SensitiveKinds
    <2>3. ~IsSensitiveKind("unknown")
        BY DEF IsSensitiveKind
    <2>4. IsSensitiveKind(node.kind) /\ ~IsSensitiveKind(after.kind) => ResourcePublic(resource)
        BY <2>1, <2>2, <2>3
    <2>. QED  BY <2>1, <2>4 DEF KeepsKind
<1>. QED  BY <1>1, <1>2, <1>5, <1>6 DEF Keeps

-----------------------------------------------------------------------------
(***************************************************************************)
(* Who a live resource or an endpoint is resolved to.                      *)
(***************************************************************************)

\* Every ID has a place of its own among the addresses.
LEMMA Positions ==
    /\ \A id \in IDs : Position(id) \in Nat /\ Addresses[Position(id)] = id
    /\ \A a, b \in IDs : Position(a) = Position(b) => a = b
<1>1. ASSUME NEW id \in IDs PROVE Position(id) \in DOMAIN Addresses /\ Addresses[Position(id)] = id
    <2>1. \E i \in DOMAIN Addresses : Addresses[i] = id
        BY DEF IDs, Range
    <2>. QED  BY <2>1 DEF Position
<1>2. DOMAIN Addresses \subseteq Nat
    BY GraphAssumption
<1>. QED  BY <1>1, <1>2

\* The first of some IDs is one of them.
LEMMA FirstIsOne ==
    ASSUME NEW ids, ids \subseteq IDs, ids # {}
    PROVE  First(ids) \in ids
<1>. DEFINE places == {Position(id) : id \in ids}
<1>1. places \subseteq Nat /\ places # {}
    BY Positions
<1>2. PICK m \in places : \A n \in places : m <= n
    <2>. HIDE DEF places
    <2>. QED  BY <1>1, LeastNatural
<1>3. PICK a \in ids : Position(a) = m
    BY <1>2
<1>4. \A b \in ids : a = b \/ Precedes(a, b)
    <2>. SUFFICES ASSUME NEW b \in ids, a # b PROVE Position(a) < Position(b)
        BY DEF Precedes
    <2>1. Position(b) \in Nat /\ Position(a) \in Nat /\ Position(a) # Position(b) /\ Position(a) <= Position(b)
        BY <1>2, <1>3, Positions
    <2>. QED  BY <2>1
<1>. QED  BY <1>4 DEF First

\* The state of the merge: a graph, and names for its nodes and for those to come.
IsMergeState(state) ==
    /\ state = [graph |-> state.graph, index |-> state.index, ids |-> state.ids, diagnostics |-> state.diagnostics]
    /\ state.index = [aliases |-> state.index.aliases, managed |-> state.index.managed]
    /\ IsGraph(state.graph)
    /\ \A a \in DOMAIN state.index.aliases : state.index.aliases[a] \in IDs
    /\ \A k \in DOMAIN state.ids : state.ids[k] \in IDs

IsResource(resource) == {resource.address, resource.arn} \subseteq IDs \union {""}

\* newContextIndex names nodes only.
LEMMA IndexNamesNodes ==
    ASSUME NEW g, IsGraph(g), NEW early
    PROVE  LET index == NewContextIndex(g, early)
           IN  /\ index = [aliases |-> index.aliases, managed |-> index.managed]
               /\ \A a \in DOMAIN index.aliases : index.aliases[a] \in IDs
<1>. DEFINE Owners(name) == {id \in DOMAIN g.nodes : name \in NodeAliases(g.nodes, id)}
            FirstMet(ids) == First(IF ids \intersect early # {} THEN ids \intersect early ELSE ids)
            names == UNION {NodeAliases(g.nodes, id) : id \in DOMAIN g.nodes}
            aliases == [name \in names |-> FirstMet(Owners(name))]
            managed == {id \in DOMAIN g.nodes : ~g.nodes[id].synthetic}
            index == NewContextIndex(g, early)
<1>1. index = [aliases |-> aliases, managed |-> managed]
    BY DEF NewContextIndex
<1>2. ASSUME NEW name \in names PROVE aliases[name] \in IDs
    <2>1. Owners(name) \subseteq IDs /\ Owners(name) # {}
        BY <1>2 DEF IsGraph, AreNodes
    <2>2. aliases[name] = FirstMet(Owners(name))
        BY <1>2
    <2>3. ASSUME NEW ids, ids \subseteq IDs, ids # {} PROVE FirstMet(ids) \in IDs
        <3>1. CASE ids \intersect early # {}
            <4>1. ids \intersect early \subseteq IDs /\ FirstMet(ids) = First(ids \intersect early)
                BY <2>3, <3>1
            <4>2. First(ids \intersect early) \in ids \intersect early
                BY <3>1, <4>1, FirstIsOne
            <4>. QED  BY <2>3, <4>1, <4>2
        <3>2. CASE ids \intersect early = {}
            <4>1. FirstMet(ids) = First(ids)
                BY <3>2
            <4>2. First(ids) \in ids
                BY <2>3, FirstIsOne
            <4>. QED  BY <2>3, <4>1, <4>2
        <3>. QED  BY <3>1, <3>2
    <2>. HIDE DEF Owners, FirstMet, aliases
    <2>. QED  BY <2>1, <2>2, <2>3
<1>3. DOMAIN aliases = names
    OBVIOUS
<1>. HIDE DEF aliases, managed, names
<1>4. index.aliases = aliases /\ index.managed = managed
    BY <1>1
<1>. HIDE DEF index
<1>5. index = [aliases |-> index.aliases, managed |-> index.managed] /\ \A a \in DOMAIN index.aliases : index.aliases[a] \in IDs
    BY <1>1, <1>2, <1>3, <1>4
<1>. QED  BY <1>5 DEF index

\* resolveResourceID finds an ID.
LEMMA ResolvedIsID ==
    ASSUME NEW aliases, \A a \in DOMAIN aliases : aliases[a] \in IDs,
           NEW key \in IDs, NEW resource, IsResource(resource)
    PROVE  ResolveResourceID(aliases, key, resource).id \in IDs
<1>. DEFINE exact == {a \in {resource.address, key, resource.arn} \ {""} : a \in DOMAIN aliases}
            Pick(a) == [id |-> aliases[a], matched |-> TRUE]
            New(id) == [id |-> id, matched |-> FALSE]
            Hits(i) == KnownAs(resource, {FuzzyAttributes[i]}) \intersect DOMAIN aliases
            fuzzy == {i \in DOMAIN FuzzyAttributes : Hits(i) # {}}
            best == CHOOSE i \in fuzzy : \A j \in fuzzy : i <= j
            alias == CHOOSE a \in Hits(best) : TRUE
            found == ResolveResourceID(aliases, key, resource)
<1>1. \A a \in DOMAIN aliases : Pick(a).id \in IDs
    OBVIOUS
<1>2. \A id : New(id).id = id
    OBVIOUS
<1>3. fuzzy # {} => alias \in DOMAIN aliases
    <2>. SUFFICES ASSUME fuzzy # {} PROVE alias \in DOMAIN aliases
        OBVIOUS
    <2>1. fuzzy \subseteq Nat
        BY DEF FuzzyAttributes
    <2>2. \E i \in fuzzy : \A j \in fuzzy : i <= j
        <3>. HIDE DEF fuzzy
        <3>. QED  BY <2>1, LeastNatural
    <2>3. best \in fuzzy
        <3>. HIDE DEF fuzzy
        <3>. QED  BY <2>2
    <2>. HIDE DEF best
    <2>. QED  BY <2>3
<1>4. exact \subseteq DOMAIN aliases
    OBVIOUS
<1>. DEFINE last == IF resource.address # "" THEN resource.address ELSE key
<1>5. found = IF resource.address \in exact THEN Pick(resource.address)
              ELSE IF key \in exact THEN Pick(key)
              ELSE IF resource.arn \in exact THEN Pick(resource.arn)
              ELSE IF resource.arn # "" THEN New(resource.arn)
              ELSE IF LooksTerraformAddress(resource.address) THEN New(resource.address)
              ELSE IF LooksTerraformAddress(key) THEN New(key)
              ELSE IF fuzzy # {} THEN Pick(alias) ELSE New(last)
    BY DEF ResolveResourceID
<1>6. last \in IDs /\ (resource.arn # "" => resource.arn \in IDs)
    BY DEF IsResource
<1>7. LooksTerraformAddress(resource.address) => resource.address \in IDs
    BY KeysAssumption DEF LooksTerraformAddress
<1>. HIDE DEF exact, Pick, New, fuzzy, alias, last, found
<1>8. found.id \in IDs
    BY <1>1, <1>2, <1>3, <1>4, <1>5, <1>6, <1>7
<1>. QED  BY <1>8 DEF found

\* A live resource that is public is public with certainty.
LEMMA ContextProvenances ==
    /\ \A c \in {"low", "medium", "high"} : FromContext(c) \in Provenances
    /\ FromPlan \in Provenances
BY DEF FromContext, FromPlan, Provenances

\* What is merged leads to one of the types of edges.
LEMMA EdgeTypesKnown ==
    /\ \A t : ContextEdgeType(t) \in Range(EdgeTypes)
    /\ Range(EdgeTypes) =
        {"allows_egress", "allows_ingress", "attached_to", "can_assume", "can_pass_role",
         "can_read_data", "can_write_data", "contained_in", "depends_on", "encrypts_with",
         "grants_permission", "has_public_access", "invokes", "protects", "reads_secret",
         "replicates_to", "routes_to", "writes_to"}
<1>1. Range(EdgeTypes) =
        {"allows_egress", "allows_ingress", "attached_to", "can_assume", "can_pass_role",
         "can_read_data", "can_write_data", "contained_in", "depends_on", "encrypts_with",
         "grants_permission", "has_public_access", "invokes", "protects", "reads_secret",
         "replicates_to", "routes_to", "writes_to"}
    <2>1. DOMAIN EdgeTypes = 1..18
        BY DEF EdgeTypes
    <2>2. \A i \in 1..18 : \/ i = 1 \/ i = 2 \/ i = 3 \/ i = 4 \/ i = 5 \/ i = 6 \/ i = 7 \/ i = 8 \/ i = 9
                           \/ i = 10 \/ i = 11 \/ i = 12 \/ i = 13 \/ i = 14 \/ i = 15 \/ i = 16 \/ i = 17 \/ i = 18
        OBVIOUS
    <2>3. Range(EdgeTypes) = {EdgeTypes[i] : i \in 1..18}
        BY <2>1 DEF Range
    <2>4. {EdgeTypes[i] : i \in 1..18} =
            {EdgeTypes[1], EdgeTypes[2], EdgeTypes[3], EdgeTypes[4], EdgeTypes[5], EdgeTypes[6],
             EdgeTypes[7], EdgeTypes[8], EdgeTypes[9], EdgeTypes[10], EdgeTypes[11], EdgeTypes[12],
             EdgeTypes[13], EdgeTypes[14], EdgeTypes[15], EdgeTypes[16], EdgeTypes[17], EdgeTypes[18]}
        BY <2>2
    <2>. QED  BY <2>3, <2>4 DEF EdgeTypes
<1>2. \A t : ContextEdgeType(t) \in
        {"routes_to", "invokes", "attached_to", "contained_in", "allows_ingress", "allows_egress", "protects",
         "can_assume", "can_pass_role", "reads_secret", "encrypts_with", "grants_permission", "depends_on"}
    BY DEF ContextEdgeType
<1>. QED  BY <1>1, <1>2

-----------------------------------------------------------------------------
(***************************************************************************)
(* MergeContext: one resource, one relationship, and all of them.          *)
(***************************************************************************)

\* A graph with other nodes has the same edges.
LEMMA GraphWithNodes ==
    ASSUME NEW g, g = [nodes |-> g.nodes, edges |-> g.edges], NEW nodes
    PROVE  [g EXCEPT !.nodes = nodes] = [nodes |-> nodes, edges |-> g.edges]
<1>1. PICK N, E : g = [nodes |-> N, edges |-> E]
    OBVIOUS
<1>. QED  BY <1>1

\* A graph with one more node, or another node in the place of one it holds.
LEMMA WithNode ==
    ASSUME NEW g, IsGraph(g), NEW id \in IDs, NEW node, IsNode(node), NEW live,
           id \in DOMAIN g.nodes => Keeps(g.nodes[id], node, live)
    PROVE  LET with == [g EXCEPT !.nodes = Over([n \in {id} |-> node], @)]
           IN  IsGraph(with) /\ Holds(g, with, live)
<1>. DEFINE nodes == Over([n \in {id} |-> node], g.nodes)
            with == [g EXCEPT !.nodes = nodes]
<1>1. /\ DOMAIN nodes = DOMAIN g.nodes \union {id}
      /\ nodes[id] = node
      /\ \A n \in DOMAIN g.nodes : n # id => nodes[n] = g.nodes[n]
    BY DEF Over
<1>. HIDE DEF nodes
<1>2. with = [nodes |-> nodes, edges |-> g.edges]
    BY GraphWithNodes DEF IsGraph
<1>3. with.nodes = nodes /\ with.edges = g.edges
    BY <1>2
<1>. HIDE DEF with
<1>4. AreNodes(nodes)
    <2>1. \A n \in DOMAIN g.nodes : n \in IDs /\ IsNode(g.nodes[n])
        BY DEF IsGraph, AreNodes
    <2>. QED  BY <1>1, <2>1 DEF AreNodes
<1>5. IsGraph(with)
    <2>1. \A e \in DOMAIN g.edges : e \in EdgeKeysOf /\ g.edges[e] \in Provenances
        BY DEF IsGraph
    <2>. QED  BY <1>2, <1>3, <1>4, <2>1 DEF IsGraph
<1>6. Holds(g, with, live)
    <2>1. ASSUME NEW n \in DOMAIN g.nodes
          PROVE  n \in DOMAIN with.nodes /\ Keeps(g.nodes[n], with.nodes[n], live)
        <3>1. CASE n = id
            BY <1>1, <1>3, <3>1
        <3>2. CASE n # id
            BY <1>1, <1>3, <3>2, KeepsItself
        <3>. QED  BY <3>1, <3>2
    <2>2. ASSUME NEW e \in DOMAIN g.edges
          PROVE  /\ e \in DOMAIN with.edges
                 /\ ConfidenceRank(with.edges[e].confidence) >= ConfidenceRank(g.edges[e].confidence)
        <3>0. Holds(g, g, live)
            BY HoldsItself
        <3>1. ConfidenceRank(g.edges[e].confidence) >= ConfidenceRank(g.edges[e].confidence)
            BY <3>0 DEF Holds
        <3>2. with.edges = g.edges
            BY <1>3
        <3>3. with.edges[e] = g.edges[e]
            BY <3>2
        <3>4. e \in DOMAIN with.edges
            BY <3>2
        <3>5. ConfidenceRank(with.edges[e].confidence) >= ConfidenceRank(g.edges[e].confidence)
            BY <3>1, <3>3
        <3>. QED  BY <3>4, <3>5
    <2>. QED  BY <2>1, <2>2 DEF Holds
<1>. QED  BY <1>5, <1>6 DEF with, nodes

\* What a live resource becomes is a node.
LEMMA ContextNodeIsNode ==
    ASSUME NEW id, NEW resource
    PROVE  IsNode(ContextNode(id, resource))
<1>. DEFINE kind == ContextNodeKind(resource, {})
            environment == EnvironmentFromTags(resource.tags)
            names == ContextNames(resource)
                     \union {<<"address", IF resource.address # "" THEN resource.address ELSE id>>}
            flags == ContextFlags(resource)
<1>1. ContextNode(id, resource) =
        [type |-> resource.type, kind |-> kind, tags |-> resource.tags, environment |-> environment,
         names |-> names, refs |-> {}, flags |-> flags, policy |-> << >>,
         observed |-> resource.actions, changed |-> FALSE, synthetic |-> TRUE]
    BY DEF ContextNode
<1>. HIDE DEF kind, environment, names, flags
<1>. QED  BY <1>1 DEF IsNode

\* A live resource is merged.
LEMMA MergeResourceHolds ==
    ASSUME NEW state, IsMergeState(state), NEW key \in IDs, NEW live, NEW resource \in live, IsResource(resource)
    PROVE  /\ IsMergeState(MergeResource(state, key, resource))
           /\ Holds(state.graph, MergeResource(state, key, resource).graph, live)
<1>. DEFINE found == ResolveResourceID(state.index.aliases, key, resource)
            id == found.id
            known == id \in DOMAIN state.graph.nodes
            matched == known /\ found.matched
            node == IF known THEN MergeContextIntoNode(state.graph.nodes[id], resource)
                    ELSE ContextNode(id, resource)
            with == [state.graph EXCEPT !.nodes = Over([n \in {id} |-> node], @)]
            named == {key} \union IF ~matched /\ LooksTerraformAddress(resource.address)
                                  THEN {resource.address} ELSE {}
            public == ResourcePublic(resource)
            conflict == matched /\ public /\ ~HasPublicInboundEdge(with, id)
            entry == <<Internet, "has_public_access", id>>
            graphOf == IF public THEN AddEdge(with, entry, FromContext("high")) ELSE with
            aliases == AddAliases(state.index.aliases, ResourceAliases(resource, key), id)
            idsOf == Over([n \in named |-> id], state.ids)
            told == state.diagnostics
                    \union IF conflict THEN {Diagnostic("public_conflict", "public", {id})} ELSE {}
            after == MergeResource(state, key, resource)
<1>1. id \in IDs
    BY ResolvedIsID DEF IsMergeState
<1>2. IsNode(node) /\ (known => Keeps(state.graph.nodes[id], node, live))
    <2>1. CASE known
        <3>1. IsNode(state.graph.nodes[id]) /\ node = MergeContextIntoNode(state.graph.nodes[id], resource)
            BY <2>1 DEF IsMergeState, IsGraph, AreNodes
        <3>. HIDE DEF node, id
        <3>. QED  BY <3>1, MergedNodeKeeps
    <2>2. CASE ~known
        <3>1. node = ContextNode(id, resource)
            BY <2>2
        <3>. HIDE DEF node, id, known
        <3>. QED  BY <2>2, <3>1, ContextNodeIsNode
    <2>. QED  BY <2>1, <2>2
<1>3. after = [graph |-> graphOf, index |-> [state.index EXCEPT !.aliases = aliases], ids |-> idsOf, diagnostics |-> told]
    BY DEF MergeResource
<1>. HIDE DEF id, node, told
<1>4. IsGraph(with) /\ Holds(state.graph, with, live)
    <2>1. IsGraph(state.graph)
        BY DEF IsMergeState
    <2>. QED  BY <1>1, <1>2, <2>1, WithNode
<1>. HIDE DEF with, public, known, named
<1>5. IsGraph(graphOf) /\ Holds(state.graph, graphOf, live)
    <2>1. CASE public
        <3>1. entry \in EdgeKeysOf
            BY <1>1, EdgeTypesKnown, GraphAssumption DEF EdgeKeysOf
        <3>2. FromContext("high") \in Provenances
            BY ContextProvenances
        <3>. HIDE DEF entry
        <3>3. graphOf = AddEdge(with, entry, FromContext("high"))
            BY <2>1
        <3>4. IsGraph(graphOf) /\ Holds(with, graphOf, live)
            BY <1>4, <3>1, <3>2, <3>3, AddEdgeHolds
        <3>5. IsGraph(state.graph)
            BY DEF IsMergeState
        <3>. QED  BY <1>4, <3>4, <3>5, HoldsOn
    <2>2. CASE ~public
        BY <1>4, <2>2
    <2>. QED  BY <2>1, <2>2
<1>6. \A a \in DOMAIN aliases : aliases[a] \in IDs
    <2>1. \A a \in DOMAIN state.index.aliases : state.index.aliases[a] \in IDs
        BY DEF IsMergeState
    <2>. QED  BY <1>1, <2>1 DEF AddAliases, Over
<1>7. \A k \in DOMAIN idsOf : idsOf[k] \in IDs
    <2>1. \A k \in DOMAIN state.ids : state.ids[k] \in IDs
        BY DEF IsMergeState
    <2>. QED  BY <1>1, <2>1 DEF Over
<1>8. [state.index EXCEPT !.aliases = aliases] = [aliases |-> aliases, managed |-> state.index.managed]
    BY DEF IsMergeState
<1>. HIDE DEF graphOf, aliases, idsOf
<1>. DEFINE indexOf == [aliases |-> aliases, managed |-> state.index.managed]
<1>9. /\ indexOf.aliases = aliases
      /\ indexOf = [aliases |-> indexOf.aliases, managed |-> indexOf.managed]
    OBVIOUS
<1>10. after = [graph |-> graphOf, index |-> indexOf, ids |-> idsOf, diagnostics |-> told]
    BY <1>3, <1>8
<1>. HIDE DEF indexOf, after
<1>11. after.graph = graphOf /\ after.index = indexOf /\ after.ids = idsOf /\ after.diagnostics = told
    BY <1>10
<1>12. IsMergeState(after)
    BY <1>5, <1>6, <1>7, <1>9, <1>10, <1>11 DEF IsMergeState
<1>. QED  BY <1>5, <1>11, <1>12 DEF after

IsRelationship(rel) == {rel.from, rel.to} \subseteq IDs /\ rel.confidence \in Range(Confidences)

\* resolveContextEndpoint finds an ID.
LEMMA EndpointIsID ==
    ASSUME NEW state, IsMergeState(state), NEW endpoint \in IDs
    PROVE  ResolveEndpoint(state, endpoint) \in IDs
BY DEF ResolveEndpoint, IsMergeState

\* A relationship is merged.
LEMMA MergeRelationshipHolds ==
    ASSUME NEW state, IsMergeState(state), NEW rel, IsRelationship(rel), NEW live
    PROVE  /\ IsMergeState(MergeRelationship(state, rel))
           /\ Holds(state.graph, MergeRelationship(state, rel).graph, live)
<1>. DEFINE from == ResolveEndpoint(state, rel.from)
            to == ResolveEndpoint(state, rel.to)
            key == <<from, ContextEdgeType(rel.type), to>>
            managed == {id \in {from, to} : id \in state.index.managed}
            attachment == rel.type \in AttachmentRelationships
            absent == attachment /\ managed # {} /\ key \notin DOMAIN state.graph.edges
            unmanaged == attachment /\ Cardinality(managed) = 1
            told == {Diagnostic(code, rel.type, {from, to}) :
                        code \in (IF absent THEN {"attachment_conflict"} ELSE {})
                                 \union (IF unmanaged THEN {"unmanaged_relationship"} ELSE {})}
            graphOf == AddEdge(state.graph, key, FromContext(rel.confidence))
            linked == [state EXCEPT !.graph = graphOf, !.diagnostics = state.diagnostics \union told]
            after == MergeRelationship(state, rel)
<1>1. after = IF from = to THEN state ELSE linked
    BY DEF MergeRelationship
<1>2. from \in IDs /\ to \in IDs
    BY EndpointIsID DEF IsRelationship
<1>. HIDE DEF from, to, told
<1>3. key \in EdgeKeysOf /\ FromContext(rel.confidence) \in Provenances
    <2>1. key \in EdgeKeysOf
        BY <1>2, EdgeTypesKnown DEF EdgeKeysOf
    <2>2. rel.confidence \in {"low", "medium", "high"}
        BY Ranks DEF IsRelationship
    <2>. QED  BY <2>1, <2>2, ContextProvenances
<1>. HIDE DEF key
<1>4. IsGraph(state.graph)
    BY DEF IsMergeState
<1>5. IsGraph(graphOf) /\ Holds(state.graph, graphOf, live)
    BY <1>3, <1>4, AddEdgeHolds
<1>. HIDE DEF graphOf
<1>6. linked = [graph |-> graphOf, index |-> state.index, ids |-> state.ids,
                diagnostics |-> state.diagnostics \union told]
    <2>1. PICK G, I, K, D : state = [graph |-> G, index |-> I, ids |-> K, diagnostics |-> D]
        BY DEF IsMergeState
    <2>2. state.index = I /\ state.ids = K
        BY <2>1
    <2>. DEFINE more == state.diagnostics \union told
    <2>3. linked = [[state EXCEPT !.graph = graphOf] EXCEPT !.diagnostics = more]
        OBVIOUS
    <2>. HIDE DEF linked, more
    <2>4. [state EXCEPT !.graph = graphOf] = [graph |-> graphOf, index |-> I, ids |-> K, diagnostics |-> D]
        BY <2>1
    <2>5. linked = [graph |-> graphOf, index |-> I, ids |-> K, diagnostics |-> more]
        BY <2>3, <2>4
    <2>. QED  BY <2>2, <2>5 DEF more
<1>. HIDE DEF linked
<1>7. /\ linked.graph = graphOf /\ linked.index = state.index /\ linked.ids = state.ids
      /\ linked.diagnostics = state.diagnostics \union told
    BY <1>6
<1>8. IsMergeState(linked) /\ Holds(state.graph, linked.graph, live)
    BY <1>5, <1>6, <1>7 DEF IsMergeState
<1>. HIDE DEF after
<1>9. IsMergeState(after) /\ Holds(state.graph, after.graph, live)
    BY <1>1, <1>4, <1>8, HoldsItself
<1>. QED  BY <1>9 DEF after

-----------------------------------------------------------------------------
(***************************************************************************)
(* Each of the recursive functions of the model exists, and so satisfies   *)
(* its equation.                                                           *)
(***************************************************************************)

\* The state after some of the resources.
LEMMA MergeResourcesEquation ==
    ASSUME NEW start, NEW resources
    PROVE  LET after == MergeResources(start, resources)
           IN  after = [n \in 0..Len(Keys) |->
                            IF n = 0 THEN start ELSE IF Keys[n] \in DOMAIN resources THEN MergeResource(after[n - 1], Keys[n], resources[Keys[n]]) ELSE after[n - 1]]
<1>. DEFINE Step(last, n) == IF Keys[n] \in DOMAIN resources THEN MergeResource(last, Keys[n], resources[Keys[n]]) ELSE last
            IsUpTo(f, N) == f = [n \in 0..N |-> IF n = 0 THEN start ELSE Step(f[n - 1], n)]
            Defined == {N \in Nat : \E f : IsUpTo(f, N)}
<1>1. 0 \in Defined
    <2>. DEFINE f == [n \in 0..0 |-> start]
    <2>1. IsUpTo(f, 0)
        OBVIOUS
    <2>. QED  BY <2>1
<1>2. ASSUME NEW N \in Nat, N \in Defined PROVE N + 1 \in Defined
    <2>1. PICK f : IsUpTo(f, N)
        BY <1>2
    <2>. DEFINE h == [n \in 0..N + 1 |-> IF n \in 0..N THEN f[n] ELSE Step(f[N], N + 1)]
    <2>. HIDE DEF Step
    <2>2. ASSUME NEW n \in 0..N + 1 PROVE h[n] = IF n = 0 THEN start ELSE Step(h[n - 1], n)
        <3>1. CASE n \in 0..N
            <4>1. h[n] = f[n] /\ (n # 0 => n - 1 \in 0..N /\ h[n - 1] = f[n - 1])
                BY <3>1
            <4>. QED  BY <2>1, <3>1, <4>1
        <3>2. CASE n \notin 0..N
            <4>1. n = N + 1 /\ n - 1 = N /\ n # 0 /\ N \in 0..N
                BY <3>2
            <4>2. h[n] = Step(f[N], N + 1) /\ h[n - 1] = f[N]
                BY <3>2, <4>1
            <4>. QED  BY <4>1, <4>2
        <3>. QED  BY <3>1, <3>2
    <2>3. IsUpTo(h, N + 1)
        <3>1. h = [n \in 0..N + 1 |-> h[n]]
            OBVIOUS
        <3>. HIDE DEF h
        <3>. QED  BY <2>2, <3>1
    <2>. HIDE DEF h, IsUpTo
    <2>4. \E up : IsUpTo(up, N + 1)
        BY <2>3
    <2>. QED  BY <2>4
<1>3. Len(Keys) \in Nat
    BY KeysAssumption
<1>4. Nat \subseteq Defined
    <2>. HIDE DEF Defined
    <2>. QED  BY <1>1, <1>2, AllNumbers
<1>5. PICK f : IsUpTo(f, Len(Keys))
    BY <1>3, <1>4
<1>6. \E up : up = [n \in 0..Len(Keys) |-> IF n = 0 THEN start ELSE IF Keys[n] \in DOMAIN resources THEN MergeResource(up[n - 1], Keys[n], resources[Keys[n]]) ELSE up[n - 1]]
    BY <1>5
<1>. QED  BY <1>6 DEF MergeResources

\* And after some of the relationships.
LEMMA MergeRelationshipsEquation ==
    ASSUME NEW start, NEW relationships,
           Len(relationships) \in Nat
    PROVE  LET after == MergeRelationships(start, relationships)
           IN  after = [n \in 0..Len(relationships) |->
                            IF n = 0 THEN start ELSE MergeRelationship(after[n - 1], relationships[n])]
<1>. DEFINE Step(last, n) == MergeRelationship(last, relationships[n])
            IsUpTo(f, N) == f = [n \in 0..N |-> IF n = 0 THEN start ELSE Step(f[n - 1], n)]
            Defined == {N \in Nat : \E f : IsUpTo(f, N)}
<1>1. 0 \in Defined
    <2>. DEFINE f == [n \in 0..0 |-> start]
    <2>1. IsUpTo(f, 0)
        OBVIOUS
    <2>. QED  BY <2>1
<1>2. ASSUME NEW N \in Nat, N \in Defined PROVE N + 1 \in Defined
    <2>1. PICK f : IsUpTo(f, N)
        BY <1>2
    <2>. DEFINE h == [n \in 0..N + 1 |-> IF n \in 0..N THEN f[n] ELSE Step(f[N], N + 1)]
    <2>. HIDE DEF Step
    <2>2. ASSUME NEW n \in 0..N + 1 PROVE h[n] = IF n = 0 THEN start ELSE Step(h[n - 1], n)
        <3>1. CASE n \in 0..N
            <4>1. h[n] = f[n] /\ (n # 0 => n - 1 \in 0..N /\ h[n - 1] = f[n - 1])
                BY <3>1
            <4>. QED  BY <2>1, <3>1, <4>1
        <3>2. CASE n \notin 0..N
            <4>1. n = N + 1 /\ n - 1 = N /\ n # 0 /\ N \in 0..N
                BY <3>2
            <4>2. h[n] = Step(f[N], N + 1) /\ h[n - 1] = f[N]
                BY <3>2, <4>1
            <4>. QED  BY <4>1, <4>2
        <3>. QED  BY <3>1, <3>2
    <2>3. IsUpTo(h, N + 1)
        <3>1. h = [n \in 0..N + 1 |-> h[n]]
            OBVIOUS
        <3>. HIDE DEF h
        <3>. QED  BY <2>2, <3>1
    <2>. HIDE DEF h, IsUpTo
    <2>4. \E up : IsUpTo(up, N + 1)
        BY <2>3
    <2>. QED  BY <2>4
<1>3. Len(relationships) \in Nat
    OBVIOUS
<1>4. Nat \subseteq Defined
    <2>. HIDE DEF Defined
    <2>. QED  BY <1>1, <1>2, AllNumbers
<1>5. PICK f : IsUpTo(f, Len(relationships))
    BY <1>3, <1>4
<1>6. \E up : up = [n \in 0..Len(relationships) |-> IF n = 0 THEN start ELSE MergeRelationship(up[n - 1], relationships[n])]
    BY <1>5
<1>. QED  BY <1>6 DEF MergeRelationships

\* The walks of a length.
LEMMA WalksEquation ==
    ASSUME NEW g, NEW from, NEW allowed, NEW depth,
           depth \in Nat
    PROVE  LET after == Walks(g, from, allowed, depth)
           IN  after = [n \in 0..depth |->
                            IF n = 0 THEN {<< >>} ELSE LET shorter == after[n - 1] IN shorter \union Extensions(g, from, allowed, {p \in shorter : Len(p) = n - 1})]
<1>. DEFINE Step(last, n) == LET shorter == last IN shorter \union Extensions(g, from, allowed, {p \in shorter : Len(p) = n - 1})
            IsUpTo(f, N) == f = [n \in 0..N |-> IF n = 0 THEN {<< >>} ELSE Step(f[n - 1], n)]
            Defined == {N \in Nat : \E f : IsUpTo(f, N)}
<1>1. 0 \in Defined
    <2>. DEFINE f == [n \in 0..0 |-> {<< >>}]
    <2>1. IsUpTo(f, 0)
        OBVIOUS
    <2>. QED  BY <2>1
<1>2. ASSUME NEW N \in Nat, N \in Defined PROVE N + 1 \in Defined
    <2>1. PICK f : IsUpTo(f, N)
        BY <1>2
    <2>. DEFINE h == [n \in 0..N + 1 |-> IF n \in 0..N THEN f[n] ELSE Step(f[N], N + 1)]
    <2>. HIDE DEF Step
    <2>2. ASSUME NEW n \in 0..N + 1 PROVE h[n] = IF n = 0 THEN {<< >>} ELSE Step(h[n - 1], n)
        <3>1. CASE n \in 0..N
            <4>1. h[n] = f[n] /\ (n # 0 => n - 1 \in 0..N /\ h[n - 1] = f[n - 1])
                BY <3>1
            <4>. QED  BY <2>1, <3>1, <4>1
        <3>2. CASE n \notin 0..N
            <4>1. n = N + 1 /\ n - 1 = N /\ n # 0 /\ N \in 0..N
                BY <3>2
            <4>2. h[n] = Step(f[N], N + 1) /\ h[n - 1] = f[N]
                BY <3>2, <4>1
            <4>. QED  BY <4>1, <4>2
        <3>. QED  BY <3>1, <3>2
    <2>3. IsUpTo(h, N + 1)
        <3>1. h = [n \in 0..N + 1 |-> h[n]]
            OBVIOUS
        <3>. HIDE DEF h
        <3>. QED  BY <2>2, <3>1
    <2>. HIDE DEF h, IsUpTo
    <2>4. \E up : IsUpTo(up, N + 1)
        BY <2>3
    <2>. QED  BY <2>4
<1>3. depth \in Nat
    OBVIOUS
<1>4. Nat \subseteq Defined
    <2>. HIDE DEF Defined
    <2>. QED  BY <1>1, <1>2, AllNumbers
<1>5. PICK f : IsUpTo(f, depth)
    BY <1>3, <1>4
<1>6. \E up : up = [n \in 0..depth |-> IF n = 0 THEN {<< >>} ELSE LET shorter == up[n - 1] IN shorter \union Extensions(g, from, allowed, {p \in shorter : Len(p) = n - 1})]
    BY <1>5
<1>. QED  BY <1>6 DEF Walks

-----------------------------------------------------------------------------
(***************************************************************************)
(* What the merge of a snapshot leaves.                                    *)
(***************************************************************************)

\* All resources leave a state that holds all there was.
LEMMA ResourcesHold ==
    ASSUME NEW start, IsMergeState(start), NEW resources, \A r \in Range(resources) : IsResource(r)
    PROVE  LET merged == MergeResources(start, resources)[Len(Keys)]
           IN  IsMergeState(merged) /\ Holds(start.graph, merged.graph, Range(resources))
<1>. DEFINE after == MergeResources(start, resources)
            live == Range(resources)
            Good == {n \in 0..Len(Keys) : IsMergeState(after[n]) /\ Holds(start.graph, after[n].graph, live)}
<1>1. after = [n \in 0..Len(Keys) |->
                  IF n = 0 THEN start
                  ELSE IF Keys[n] \in DOMAIN resources THEN MergeResource(after[n - 1], Keys[n], resources[Keys[n]])
                  ELSE after[n - 1]]
    BY MergeResourcesEquation
<1>. HIDE DEF after
<1>2. Len(Keys) \in Nat /\ \A n \in 1..Len(Keys) : Keys[n] \in IDs
    BY KeysAssumption
<1>3. IsGraph(start.graph)
    BY DEF IsMergeState
<1>4. 0 \in Good
    <2>1. 0 \in 0..Len(Keys)
        BY <1>2
    <2>2. after[0] = start
        BY <1>1, <2>1
    <2>. QED  BY <1>3, <2>1, <2>2, HoldsItself
<1>5. ASSUME NEW n \in 0..Len(Keys), n # Len(Keys), n \in Good PROVE n + 1 \in Good
    <2>1. n + 1 \in 0..Len(Keys) /\ n + 1 \in 1..Len(Keys) /\ (n + 1) - 1 = n /\ n + 1 # 0
        BY <1>2, <1>5
    <2>. DEFINE key == Keys[n + 1]
    <2>2. after[n + 1] = IF key \in DOMAIN resources THEN MergeResource(after[n], key, resources[key]) ELSE after[n]
        BY <1>1, <2>1
    <2>3. key \in IDs
        BY <1>2, <2>1
    <2>4. IsMergeState(after[n]) /\ Holds(start.graph, after[n].graph, live)
        BY <1>5
    <2>. HIDE DEF key
    <2>5. CASE key \in DOMAIN resources
        <3>1. resources[key] \in live /\ IsResource(resources[key])
            BY <2>5 DEF Range
        <3>. HIDE DEF live
        <3>2. IsMergeState(after[n + 1]) /\ Holds(after[n].graph, after[n + 1].graph, live)
            BY <2>2, <2>3, <2>4, <2>5, <3>1, MergeResourceHolds
        <3>3. IsGraph(after[n].graph) /\ IsGraph(after[n + 1].graph)
            BY <2>4, <3>2 DEF IsMergeState
        <3>4. Holds(start.graph, after[n + 1].graph, live)
            BY <1>3, <2>4, <3>2, <3>3, HoldsOn
        <3>. QED  BY <2>1, <3>2, <3>4
    <2>6. CASE key \notin DOMAIN resources
        BY <2>1, <2>2, <2>4, <2>6
    <2>. QED  BY <2>5, <2>6
<1>. HIDE DEF Good
<1>6. 0..Len(Keys) \subseteq Good
    BY <1>2, <1>4, <1>5, AllNumbersUpTo
<1>7. Len(Keys) \in Good
    BY <1>2, <1>6
<1>. QED  BY <1>7 DEF Good, after, live

\* So do all relationships.
LEMMA RelationshipsHold ==
    ASSUME NEW start, IsMergeState(start), NEW relationships, Len(relationships) \in Nat,
           \A n \in 1..Len(relationships) : IsRelationship(relationships[n]), NEW live
    PROVE  LET linked == MergeRelationships(start, relationships)[Len(relationships)]
           IN  IsMergeState(linked) /\ Holds(start.graph, linked.graph, live)
<1>. DEFINE N == Len(relationships)
            after == MergeRelationships(start, relationships)
            Good == {n \in 0..N : IsMergeState(after[n]) /\ Holds(start.graph, after[n].graph, live)}
<1>1. after = [n \in 0..N |-> IF n = 0 THEN start ELSE MergeRelationship(after[n - 1], relationships[n])]
    BY MergeRelationshipsEquation
<1>2. N \in Nat /\ \A n \in 1..N : IsRelationship(relationships[n])
    OBVIOUS
<1>. HIDE DEF after, N
<1>3. IsGraph(start.graph)
    BY DEF IsMergeState
<1>4. 0 \in Good
    <2>1. 0 \in 0..N
        BY <1>2
    <2>2. after[0] = start
        BY <1>1, <2>1
    <2>. QED  BY <1>3, <2>1, <2>2, HoldsItself
<1>5. ASSUME NEW n \in 0..N, n # N, n \in Good PROVE n + 1 \in Good
    <2>1. n + 1 \in 0..N /\ n + 1 \in 1..N /\ (n + 1) - 1 = n /\ n + 1 # 0
        BY <1>2, <1>5
    <2>2. after[n + 1] = MergeRelationship(after[n], relationships[n + 1])
        BY <1>1, <2>1
    <2>3. IsRelationship(relationships[n + 1])
        BY <1>2, <2>1
    <2>4. IsMergeState(after[n]) /\ Holds(start.graph, after[n].graph, live)
        BY <1>5
    <2>5. IsMergeState(after[n + 1]) /\ Holds(after[n].graph, after[n + 1].graph, live)
        BY <2>2, <2>3, <2>4, MergeRelationshipHolds
    <2>6. IsGraph(after[n].graph) /\ IsGraph(after[n + 1].graph)
        BY <2>4, <2>5 DEF IsMergeState
    <2>7. Holds(start.graph, after[n + 1].graph, live)
        BY <1>3, <2>4, <2>5, <2>6, HoldsOn
    <2>. QED  BY <2>1, <2>5, <2>7
<1>. HIDE DEF Good
<1>6. 0..N \subseteq Good
    BY <1>2, <1>4, <1>5, AllNumbersUpTo
<1>7. N \in Good
    BY <1>2, <1>6
<1>. QED  BY <1>7 DEF Good, after, N

\* Nothing of a graph is lost when a snapshot is merged into it, in whatever order its nodes are visited.
LEMMA MergeContextHolds ==
    ASSUME NEW g, IsGraph(g), NEW s, IsSnapshot(s), NEW early
    PROVE  /\ IsGraph(MergeContext(g, s, early).graph)
           /\ Holds(g, MergeContext(g, s, early).graph, Range(s.resources))
<1>. DEFINE live == Range(s.resources)
            index == NewContextIndex(g, early)
            start == [graph |-> g, index |-> index, ids |-> << >>, diagnostics |-> {}]
            merged == MergeResources(start, s.resources)[Len(Keys)]
            linked == MergeRelationships(merged, s.relationships)[Len(s.relationships)]
            context == [graph |-> linked.graph, diagnostics |-> linked.diagnostics]
<1>1. MergeContext(g, s, early) = context
    BY DEF MergeContext
<1>2. /\ index = [aliases |-> index.aliases, managed |-> index.managed]
      /\ \A a \in DOMAIN index.aliases : index.aliases[a] \in IDs
    BY IndexNamesNodes
<1>. HIDE DEF index
<1>3. start.graph = g /\ start.index = index /\ start.ids = << >> /\ start.diagnostics = {}
    OBVIOUS
<1>4. IsMergeState(start)
    BY <1>2, <1>3 DEF IsMergeState
<1>. HIDE DEF start
<1>5. \A r \in Range(s.resources) : IsResource(r)
    BY DEF IsSnapshot, IsResource
<1>6. IsMergeState(merged) /\ Holds(g, merged.graph, live)
    BY <1>3, <1>4, <1>5, ResourcesHold
<1>. HIDE DEF merged
<1>7. Len(s.relationships) \in Nat /\ \A n \in 1..Len(s.relationships) : IsRelationship(s.relationships[n])
    BY DEF IsSnapshot, IsRelationship, Range
<1>8. IsMergeState(linked) /\ Holds(merged.graph, linked.graph, live)
    BY <1>6, <1>7, RelationshipsHold
<1>. HIDE DEF linked
<1>9. IsGraph(merged.graph) /\ IsGraph(linked.graph)
    BY <1>6, <1>8 DEF IsMergeState
<1>10. Holds(g, linked.graph, live)
    BY <1>6, <1>8, <1>9, HoldsOn
<1>11. context.graph = linked.graph
    OBVIOUS
<1>. QED  BY <1>1, <1>9, <1>10, <1>11

-----------------------------------------------------------------------------
(***************************************************************************)
(* The graph of the plan: its nodes.                                       *)
(***************************************************************************)

\* withTags, and what a change makes of a node.
LEMMA WithTagsIsNode ==
    ASSUME NEW node, IsNode(node), NEW tags
    PROVE  IsNode(WithTags(node, tags))
<1>. DEFINE relabelled == [node EXCEPT !.tags = tags]
            environment == IF relabelled.environment = "" THEN EnvironmentFromTags(tags) ELSE relabelled.environment
            tagged == [relabelled EXCEPT !.environment = environment]
<1>1. WithTags(node, tags) = tagged
    BY DEF WithTags
<1>2. IsNode(relabelled)
    BY ExceptTags
<1>. HIDE DEF relabelled, environment
<1>3. IsNode(tagged)
    BY <1>2, ExceptEnvironment
<1>. QED  BY <1>1, <1>3

\* A node that a change is about is a node.
LEMMA ChangedIsNode ==
    ASSUME NEW node, IsNode(node), NEW change
    PROVE  IsNode(Changed(node, change))
<1>. DEFINE after == change.after
            values == IF node.refs # {} \/ node.flags # {} \/ node.policy # << >> THEN node ELSE after
            tags == Over(after.tags, node.tags)
            kind == KindOf(node.type, values.flags)
            changed == change.actions \intersect MaterialActions # {}
            n1 == WithTags(node, tags)
            n2 == [n1 EXCEPT !.refs = values.refs]
            n3 == [n2 EXCEPT !.flags = values.flags]
            n4 == [n3 EXCEPT !.policy = values.policy]
            n5 == [n4 EXCEPT !.names = values.names]
            n6 == [n5 EXCEPT !.kind = kind]
            n7 == [n6 EXCEPT !.changed = changed]
<1>1. Changed(node, change) = [n1 EXCEPT !.refs = values.refs, !.flags = values.flags, !.policy = values.policy,
                                         !.names = values.names, !.kind = kind, !.changed = changed]
    BY DEF Changed
<1>2. IsNode(n1)
    BY WithTagsIsNode
<1>. HIDE DEF n1, values, kind, changed
<1>3. Changed(node, change) = n7
    BY <1>1
<1>4. IsNode(n2)
    BY <1>2, ExceptRefs
<1>. HIDE DEF n2
<1>5. IsNode(n3)
    BY <1>4, ExceptFlags
<1>. HIDE DEF n3
<1>6. IsNode(n4)
    BY <1>5, ExceptPolicy
<1>. HIDE DEF n4
<1>7. IsNode(n5)
    BY <1>6, ExceptNames
<1>. HIDE DEF n5
<1>8. IsNode(n6)
    BY <1>7, ExceptKind
<1>. HIDE DEF n6
<1>9. IsNode(n7)
    BY <1>8, ExceptChanged
<1>. QED  BY <1>3, <1>9

\* The resources of the prior state and of the plan become nodes.
LEMMA PlanNodesAreNodes ==
    ASSUME NEW p, IsPlan(p)
    PROVE  AreNodes(PlanNodes(p))
<1>. DEFINE first == [id \in DOMAIN p.resources |-> NodeOf(p.resources[id])]
            second == AddPrior(first, p.prior)
            third == AddChanges(second, p.changes)
<1>1. AreNodes(first)
    BY NodeOfIsNode DEF IsPlan, AreNodes
<1>. HIDE DEF first
<1>2. AreNodes(second)
    <2>1. DOMAIN second = DOMAIN first \union DOMAIN p.prior
        BY DEF AddPrior
    <2>2. ASSUME NEW id \in DOMAIN second PROVE IsNode(second[id])
        <3>. DEFINE tags == MergeTags(first[id].tags, p.prior[id].tags)
        <3>1. second[id] = IF id \notin DOMAIN first THEN NodeOf(p.prior[id])
                           ELSE IF id \in DOMAIN p.prior THEN WithTags(first[id], tags) ELSE first[id]
            BY <2>1, <2>2 DEF AddPrior
        <3>. HIDE DEF tags, second
        <3>2. IsNode(NodeOf(p.prior[id]))
            BY NodeOfIsNode
        <3>3. id \in DOMAIN first => IsNode(first[id])
            BY <1>1 DEF AreNodes
        <3>4. id \in DOMAIN first => IsNode(WithTags(first[id], tags))
            BY <3>3, WithTagsIsNode
        <3>. QED  BY <3>1, <3>2, <3>3, <3>4
    <2>. QED  BY <1>1, <2>1, <2>2 DEF AreNodes, IsPlan
<1>. HIDE DEF second
<1>3. AreNodes(third)
    <2>1. DOMAIN third = DOMAIN second \union DOMAIN p.changes
        BY DEF AddChanges
    <2>2. ASSUME NEW id \in DOMAIN third PROVE IsNode(third[id])
        <3>. DEFINE fresh == NodeOf(p.changes[id].after)
                    changed == p.changes[id].actions \intersect MaterialActions # {}
        <3>1. third[id] = IF id \notin DOMAIN p.changes THEN second[id]
                          ELSE IF id \in DOMAIN second THEN Changed(second[id], p.changes[id])
                          ELSE [fresh EXCEPT !.changed = changed]
            BY <2>1, <2>2 DEF AddChanges
        <3>2. id \in DOMAIN second => IsNode(second[id])
            BY <1>2 DEF AreNodes
        <3>3. id \in DOMAIN second => IsNode(Changed(second[id], p.changes[id]))
            BY <3>2, ChangedIsNode
        <3>4. IsNode(fresh)
            BY NodeOfIsNode
        <3>. HIDE DEF fresh, changed
        <3>5. IsNode([fresh EXCEPT !.changed = changed])
            BY <3>4, ExceptChanged
        <3>6. id \in DOMAIN second \/ id \in DOMAIN p.changes
            BY <2>1, <2>2
        <3>. HIDE DEF third
        <3>. QED  BY <3>1, <3>2, <3>3, <3>5, <3>6
    <2>. QED  BY <1>2, <2>1, <2>2 DEF AreNodes, IsPlan
<1>. HIDE DEF third
<1>4. AreNodes(ApplySensitivity(third))
    <2>. DEFINE fourth == ApplySensitivity(third)
    <2>1. DOMAIN fourth = DOMAIN third
        BY DEF ApplySensitivity
    <2>2. ASSUME NEW id \in DOMAIN third PROVE IsNode(fourth[id])
        <3>. DEFINE node == third[id]
                    stored == [node EXCEPT !.kind = "data_store"]
                    marked == [stored EXCEPT !.flags = stored.flags \union {"sensitive_data"}]
        <3>1. IsNode(node)
            BY <1>3 DEF AreNodes
        <3>2. fourth[id] = node \/ fourth[id] = [node EXCEPT !.kind = "data_store", !.flags = node.flags \union {"sensitive_data"}]
            BY DEF ApplySensitivity
        <3>. HIDE DEF node, fourth
        <3>3. stored.flags = node.flags /\ IsNode(stored)
            BY <3>1, ExceptKind
        <3>4. [node EXCEPT !.kind = "data_store", !.flags = node.flags \union {"sensitive_data"}] = marked
            BY <3>3
        <3>. HIDE DEF stored
        <3>5. IsNode(marked)
            BY <3>3, ExceptFlags
        <3>. QED  BY <3>1, <3>2, <3>4, <3>5
    <2>. QED  BY <1>3, <2>1, <2>2 DEF AreNodes
<1>. QED  BY <1>4 DEF PlanNodes, first, second, third

\* addEdge: edges of the plan lead between nodes.
LEMMA WithEdgesIsGraph ==
    ASSUME NEW nodes, AreNodes(nodes), NEW keys, keys \subseteq EdgeKeysOf
    PROVE  /\ IsGraph(WithEdges(nodes, keys, FromPlan))
           /\ DOMAIN WithEdges(nodes, keys, FromPlan).edges = {e \in keys : e[1] # e[3]}
<1>. DEFINE kept == {e \in keys : e[1] # e[3]}
            endpoints == {e[1] : e \in kept} \union {e[3] : e \in kept}
            synthetic == [id \in endpoints |-> SyntheticNode(id)]
            all == Over(nodes, synthetic)
            between == [e \in kept |-> FromPlan]
            g == WithEdges(nodes, keys, FromPlan)
<1>1. g = [nodes |-> all, edges |-> between]
    BY DEF WithEdges
<1>2. endpoints \subseteq IDs
    BY DEF EdgeKeysOf
<1>3. DOMAIN synthetic = endpoints /\ \A id \in endpoints : IsNode(synthetic[id])
    BY SyntheticIsNode
<1>. HIDE DEF endpoints, synthetic
<1>4. AreNodes(all)
    <2>1. /\ DOMAIN all = DOMAIN nodes \union DOMAIN synthetic
          /\ \A x \in DOMAIN nodes : all[x] = nodes[x]
          /\ \A x \in DOMAIN synthetic : x \notin DOMAIN nodes => all[x] = synthetic[x]
        BY OverFacts
    <2>. HIDE DEF all
    <2>. QED  BY <1>2, <1>3, <2>1 DEF AreNodes
<1>5. DOMAIN between = kept /\ \A e \in kept : between[e] \in Provenances /\ e \in EdgeKeysOf
    BY ContextProvenances
<1>. HIDE DEF all, between, kept, g
<1>6. g.nodes = all /\ g.edges = between
    BY <1>1
<1>7. IsGraph(g) /\ DOMAIN g.edges = kept
    BY <1>1, <1>4, <1>5, <1>6 DEF IsGraph
<1>. QED  BY <1>7 DEF g, kept

-----------------------------------------------------------------------------
(***************************************************************************)
(* The graph of the plan: every step of inference leads from an ID to an   *)
(* ID by an edge of a known type.                                          *)
(***************************************************************************)
TypeNames == Range(EdgeTypes)

\* What is found by an identifier is a node.
LEMMA TargetsAreNodes ==
    ASSUME NEW nodes, AreNodes(nodes), NEW id, NEW attributes, NEW types
    PROVE  Targets(nodes, id, attributes, types) \subseteq IDs
<1>1. ASSUME NEW value PROVE FindByIDLike(nodes, value, types) \subseteq IDs
    <2>. DEFINE hits == {n \in DOMAIN nodes : /\ types = {} \/ nodes[n].type \in types
                                              /\ value \in KnownAs(nodes[n], IDLike)}
    <2>1. FindByIDLike(nodes, value, types) = IF hits = {} THEN {} ELSE {First(hits)}
        BY DEF FindByIDLike
    <2>2. hits \subseteq IDs
        BY DEF AreNodes
    <2>. HIDE DEF hits
    <2>3. hits # {} => First(hits) \in IDs
        BY <2>2, FirstIsOne
    <2>. QED  BY <2>1, <2>3
<1>. QED  BY <1>1 DEF Targets

\* Edges from some nodes to what their attributes name.
LEMMA NamedAreEdges ==
    ASSUME NEW nodes, AreNodes(nodes), NEW ids, ids \subseteq IDs, NEW attributes, NEW types, NEW edge \in TypeNames
    PROVE  UNION {{<<id, edge, t>> : t \in Targets(nodes, id, attributes, types)} : id \in ids} \subseteq EdgeKeysOf
<1>1. ASSUME NEW id \in ids, NEW t \in Targets(nodes, id, attributes, types)
      PROVE  <<id, edge, t>> \in EdgeKeysOf
    <2>1. id \in IDs /\ t \in IDs
        BY TargetsAreNodes
    <2>. QED  BY <2>1 DEF EdgeKeysOf, TypeNames
<1>. QED  BY <1>1

\* The edges that attributes spell out.
LEMMA SpelledOut ==
    ASSUME NEW nodes, AreNodes(nodes), NEW from, NEW attributes, NEW types, NEW flags, NEW edge \in TypeNames
    PROVE  /\ OfType(nodes, types) \subseteq IDs
           /\ To(nodes, from, attributes, types, edge) \subseteq EdgeKeysOf
           /\ Back(nodes, from, attributes, types, edge) \subseteq EdgeKeysOf
           /\ Public(nodes, types, flags, edge) \subseteq EdgeKeysOf
           /\ AlwaysPublic(nodes, types, edge) \subseteq EdgeKeysOf
<1>1. \A t : OfType(nodes, t) \subseteq IDs
    BY DEF OfType, AreNodes
<1>2. To(nodes, from, attributes, types, edge) \subseteq EdgeKeysOf
    BY <1>1, NamedAreEdges DEF To
<1>3. Back(nodes, from, attributes, types, edge) \subseteq EdgeKeysOf
    <2>. SUFFICES ASSUME NEW e \in To(nodes, from, attributes, types, edge) PROVE <<e[3], edge, e[1]>> \in EdgeKeysOf
        BY DEF Back
    <2>. QED  BY <1>2 DEF EdgeKeysOf, TypeNames
<1>4. \A id \in IDs : <<Internet, edge, id>> \in EdgeKeysOf
    BY GraphAssumption DEF EdgeKeysOf, TypeNames
<1>5. Public(nodes, types, flags, edge) \subseteq EdgeKeysOf
    BY <1>1, <1>4 DEF Public
<1>6. AlwaysPublic(nodes, types, edge) \subseteq EdgeKeysOf
    BY <1>1, <1>4 DEF AlwaysPublic
<1>. QED  BY <1>1, <1>2, <1>3, <1>5, <1>6

\* Explicit dependencies and references.
LEMMA DependenciesAreEdges ==
    ASSUME NEW p, IsPlan(p), NEW nodes, AreNodes(nodes)
    PROVE  /\ InferExplicitDependencies(p) \subseteq EdgeKeysOf
           /\ InferGenericReferences(nodes) \subseteq EdgeKeysOf
<1>1. "depends_on" \in TypeNames
    BY EdgeTypesKnown DEF TypeNames
<1>2. InferExplicitDependencies(p) \subseteq EdgeKeysOf
    <2>. DEFINE resources == Over(p.resources, p.prior)
    <2>1. /\ DOMAIN resources = DOMAIN p.resources \union DOMAIN p.prior
          /\ \A x \in DOMAIN p.resources : resources[x] = p.resources[x]
          /\ \A x \in DOMAIN p.prior : x \notin DOMAIN p.resources => resources[x] = p.prior[x]
        BY OverFacts
    <2>2. InferExplicitDependencies(p) =
            UNION {{<<id, "depends_on", ref[2]>> : ref \in {x \in resources[id].refs : x[1] = "depends_on"}} :
                      id \in DOMAIN resources}
        BY DEF InferExplicitDependencies
    <2>. HIDE DEF resources
    <2>3. ASSUME NEW id \in DOMAIN resources, NEW ref \in resources[id].refs, ref[1] = "depends_on"
          PROVE  <<id, "depends_on", ref[2]>> \in EdgeKeysOf
        <3>1. id \in IDs
            BY <2>1 DEF IsPlan
        <3>2. resources[id] \in Range(p.resources) \union Range(p.prior)
            BY <2>1 DEF Range
        <3>3. ref[2] \in IDs
            BY <2>3, <3>2 DEF IsPlan
        <3>. QED  BY <1>1, <3>1, <3>3 DEF EdgeKeysOf, TypeNames
    <2>. QED  BY <2>2, <2>3
<1>3. InferGenericReferences(nodes) \subseteq EdgeKeysOf
    <2>. SUFFICES ASSUME NEW id \in DOMAIN nodes, NEW ref \in nodes[id].refs, ref[2] \in DOMAIN nodes
                  PROVE  <<id, "depends_on", ref[2]>> \in EdgeKeysOf
        BY DEF InferGenericReferences
    <2>. QED  BY <1>1 DEF AreNodes, EdgeKeysOf, TypeNames
<1>. QED  BY <1>2, <1>3

\* Networks.
LEMMA NetworkAreEdges ==
    ASSUME NEW nodes, AreNodes(nodes)
    PROVE  InferAWSNetwork(nodes) \subseteq EdgeKeysOf
<1>. DEFINE rules == {"aws_vpc_security_group_ingress_rule"}
            open == {id \in OfType(nodes, rules) : "public_cidr" \in nodes[id].flags}
            ruleTargets == UNION {SecurityGroupTarget(nodes, id) : id \in open}
            routes == {id \in OfType(nodes, {"aws_route"}) : "public_cidr" \in nodes[id].flags}
            Routed(attribute, type) ==
                UNION {{<<id, "routes_to", g>> : g \in Targets(nodes, id, {attribute}, {type})} : id \in routes}
            toGateways == Routed("gateway_id", "aws_internet_gateway")
            attached ==
                UNION {{<<s, "attached_to", t>> : s \in Targets(nodes, a, {"subnet_id"}, Subnet),
                                                  t \in Targets(nodes, a, {"route_table_id"}, RouteTable)} :
                          a \in OfType(nodes, {"aws_route_table_association"})}
            entering == {<<Internet, edge, g>> : edge \in {"allows_ingress", "has_public_access"}, g \in ruleTargets}
            gates == {<<Internet, "routes_to", e[1]>> : e \in toGateways}
<1>1. {"routes_to", "attached_to", "allows_ingress", "allows_egress", "has_public_access", "contained_in"} \subseteq TypeNames
    BY EdgeTypesKnown DEF TypeNames
<1>2. \A types : OfType(nodes, types) \subseteq IDs
    BY DEF OfType, AreNodes
<1>3. \A attribute, type : Routed(attribute, type) \subseteq EdgeKeysOf
    BY <1>1, <1>2, NamedAreEdges
<1>4. attached \subseteq EdgeKeysOf
    <2>. SUFFICES ASSUME NEW a, NEW s \in Targets(nodes, a, {"subnet_id"}, Subnet),
                         NEW t \in Targets(nodes, a, {"route_table_id"}, RouteTable)
                  PROVE  <<s, "attached_to", t>> \in EdgeKeysOf
        OBVIOUS
    <2>1. s \in IDs /\ t \in IDs
        BY TargetsAreNodes
    <2>. QED  BY <1>1, <2>1 DEF EdgeKeysOf, TypeNames
<1>5. entering \subseteq EdgeKeysOf
    <2>. SUFFICES ASSUME NEW edge \in {"allows_ingress", "has_public_access"}, NEW g \in ruleTargets
                  PROVE  <<Internet, edge, g>> \in EdgeKeysOf
        OBVIOUS
    <2>1. g \in IDs
        BY TargetsAreNodes DEF SecurityGroupTarget
    <2>. QED  BY <1>1, <2>1, GraphAssumption DEF EdgeKeysOf, TypeNames
<1>6. gates \subseteq EdgeKeysOf
    <2>. SUFFICES ASSUME NEW e \in toGateways PROVE <<Internet, "routes_to", e[1]>> \in EdgeKeysOf
        OBVIOUS
    <2>0. toGateways \subseteq EdgeKeysOf
        BY <1>1, <1>2, NamedAreEdges
    <2>. HIDE DEF toGateways
    <2>1. e \in EdgeKeysOf
        BY <2>0
    <2>2. e[1] \in IDs
        BY <2>1 DEF EdgeKeysOf
    <2>. QED  BY <1>1, <2>2, GraphAssumption DEF EdgeKeysOf, TypeNames
<1>7. InferAWSNetwork(nodes) = UNION {
            Public(nodes, SG, {"public_ingress"}, "allows_ingress"),
            Public(nodes, SG, {"public_ingress"}, "has_public_access"),
            To(nodes, SG, {"security_groups"}, SG, "attached_to"),
            entering,
            Back(nodes, Placed, GroupsOf, SG, "allows_ingress"),
            To(nodes, Placed, GroupsOf, SG, "allows_egress"),
            To(nodes, Placed, {"subnet_id", "network_configuration.subnets"}, Subnet, "contained_in"),
            To(nodes, Subnet, {"vpc_id"}, {"aws_vpc"}, "contained_in"),
            attached,
            Back(nodes, {"aws_route"}, {"route_table_id"}, RouteTable, "attached_to"),
            toGateways, gates,
            Routed("nat_gateway_id", "aws_nat_gateway")}
    BY DEF InferAWSNetwork
<1>. HIDE DEF entering, attached, Routed, gates
<1>8. /\ Public(nodes, SG, {"public_ingress"}, "allows_ingress") \subseteq EdgeKeysOf
      /\ Public(nodes, SG, {"public_ingress"}, "has_public_access") \subseteq EdgeKeysOf
      /\ To(nodes, SG, {"security_groups"}, SG, "attached_to") \subseteq EdgeKeysOf
    BY <1>1, SpelledOut
<1>9. /\ Back(nodes, Placed, GroupsOf, SG, "allows_ingress") \subseteq EdgeKeysOf
      /\ To(nodes, Placed, GroupsOf, SG, "allows_egress") \subseteq EdgeKeysOf
      /\ To(nodes, Placed, {"subnet_id", "network_configuration.subnets"}, Subnet, "contained_in") \subseteq EdgeKeysOf
    BY <1>1, SpelledOut
<1>10. /\ To(nodes, Subnet, {"vpc_id"}, {"aws_vpc"}, "contained_in") \subseteq EdgeKeysOf
       /\ Back(nodes, {"aws_route"}, {"route_table_id"}, RouteTable, "attached_to") \subseteq EdgeKeysOf
    BY <1>1, SpelledOut
<1>. QED  BY <1>3, <1>4, <1>5, <1>6, <1>7, <1>8, <1>9, <1>10

\* Pairs of a set of IDs and another, joined by one type of edge.
LEMMA JoinedAreEdges ==
    ASSUME NEW S, S \subseteq IDs, NEW T, T \subseteq IDs, NEW edge \in TypeNames
    PROVE  {<<s, edge, t>> : s \in S, t \in T} \subseteq EdgeKeysOf
<1>. QED  BY DEF EdgeKeysOf, TypeNames

\* Load balancers, gateways and function URLs.
LEMMA LoadBalancingAreEdges ==
    ASSUME NEW nodes, AreNodes(nodes)
    PROVE  InferAWSLoadBalancing(nodes) \subseteq EdgeKeysOf
<1>. DEFINE lb == {"aws_lb"}
            targetGroup == {"aws_lb_target_group"}
            attachments == OfType(nodes, {"aws_lb_target_group_attachment"})
            v2 == {"aws_apigatewayv2_integration"}
            v1 == {"aws_api_gateway_integration"}
            url == {"aws_lambda_function_url"}
            Joined(a) == {<<g, "routes_to", t>> : g \in Targets(nodes, a, {"target_group_arn"}, targetGroup),
                                                  t \in Targets(nodes, a, {"target_id"}, {})}
            joined == UNION {Joined(a) : a \in attachments}
            enabled == {e \in AlwaysPublic(nodes, {"aws_cloudfront_distribution"}, "routes_to") :
                           "disabled" \notin nodes[e[3]].flags}
<1>1. {"routes_to", "has_public_access", "allows_ingress", "invokes"} \subseteq TypeNames
    BY EdgeTypesKnown DEF TypeNames
<1>2. joined \subseteq EdgeKeysOf
    <2>1. ASSUME NEW a PROVE Joined(a) \subseteq EdgeKeysOf
        BY <1>1, TargetsAreNodes, JoinedAreEdges
    <2>. HIDE DEF Joined, attachments
    <2>. QED  BY <2>1
<1>3. enabled \subseteq EdgeKeysOf
    BY <1>1, SpelledOut
<1>4. InferAWSLoadBalancing(nodes) = UNION {
            Public(nodes, lb, {"internet_facing"}, "routes_to"),
            Public(nodes, lb, {"internet_facing"}, "has_public_access"),
            Back(nodes, lb, {"security_groups"}, SG, "allows_ingress"),
            Back(nodes, {"aws_lb_listener"}, {"load_balancer_arn"}, lb, "routes_to"),
            To(nodes, {"aws_lb_listener"}, {"target_group_arn"}, targetGroup, "routes_to"),
            joined, enabled,
            To(nodes, {"aws_cloudfront_distribution"}, {"domain_name"}, {}, "routes_to"),
            AlwaysPublic(nodes, {"aws_api_gateway_rest_api", "aws_apigatewayv2_api"}, "routes_to"),
            Back(nodes, v2, {"api_id"}, {"aws_apigatewayv2_api"}, "routes_to"),
            To(nodes, v2, {"integration_uri"}, Lambda, "invokes"),
            Back(nodes, v1, {"rest_api_id"}, {"aws_api_gateway_rest_api"}, "routes_to"),
            To(nodes, v1, {"uri"}, Lambda, "invokes"),
            Public(nodes, url, {"authorization_none"}, "routes_to"),
            Public(nodes, url, {"authorization_none"}, "has_public_access"),
            To(nodes, url, {"function_name"}, Lambda, "invokes")}
    BY DEF InferAWSLoadBalancing
<1>. HIDE DEF joined, enabled, lb, targetGroup, v1, v2, url
<1>5. /\ Public(nodes, lb, {"internet_facing"}, "routes_to") \subseteq EdgeKeysOf
      /\ Public(nodes, lb, {"internet_facing"}, "has_public_access") \subseteq EdgeKeysOf
      /\ Public(nodes, url, {"authorization_none"}, "routes_to") \subseteq EdgeKeysOf
      /\ Public(nodes, url, {"authorization_none"}, "has_public_access") \subseteq EdgeKeysOf
      /\ AlwaysPublic(nodes, {"aws_api_gateway_rest_api", "aws_apigatewayv2_api"}, "routes_to") \subseteq EdgeKeysOf
    BY <1>1, SpelledOut
<1>6. /\ Back(nodes, lb, {"security_groups"}, SG, "allows_ingress") \subseteq EdgeKeysOf
      /\ Back(nodes, {"aws_lb_listener"}, {"load_balancer_arn"}, lb, "routes_to") \subseteq EdgeKeysOf
      /\ Back(nodes, v2, {"api_id"}, {"aws_apigatewayv2_api"}, "routes_to") \subseteq EdgeKeysOf
      /\ Back(nodes, v1, {"rest_api_id"}, {"aws_api_gateway_rest_api"}, "routes_to") \subseteq EdgeKeysOf
    BY <1>1, SpelledOut
<1>7. /\ To(nodes, {"aws_lb_listener"}, {"target_group_arn"}, targetGroup, "routes_to") \subseteq EdgeKeysOf
      /\ To(nodes, {"aws_cloudfront_distribution"}, {"domain_name"}, {}, "routes_to") \subseteq EdgeKeysOf
      /\ To(nodes, v2, {"integration_uri"}, Lambda, "invokes") \subseteq EdgeKeysOf
      /\ To(nodes, v1, {"uri"}, Lambda, "invokes") \subseteq EdgeKeysOf
      /\ To(nodes, url, {"function_name"}, Lambda, "invokes") \subseteq EdgeKeysOf
    BY <1>1, SpelledOut
<1>. QED  BY <1>2, <1>3, <1>4, <1>5, <1>6, <1>7

\* Services, functions, databases, buckets and what protects them.
LEMMA ServicesAreEdges ==
    ASSUME NEW nodes, AreNodes(nodes)
    PROVE  /\ InferAWSECS(nodes) \subseteq EdgeKeysOf
           /\ InferAWSLambda(nodes) \subseteq EdgeKeysOf
           /\ InferAWSRDS(nodes) \subseteq EdgeKeysOf
           /\ InferAWSS3(nodes) \subseteq EdgeKeysOf
           /\ InferAWSDataProtection(nodes) \subseteq EdgeKeysOf
<1>1. {"routes_to", "depends_on", "can_pass_role", "can_assume", "encrypts_with", "reads_secret", "has_public_access",
       "allows_ingress", "attached_to", "can_read_data", "replicates_to", "protects"} \subseteq TypeNames
    BY EdgeTypesKnown DEF TypeNames
<1>2. InferAWSECS(nodes) \subseteq EdgeKeysOf
    <2>1. /\ Back(nodes, {"aws_ecs_service"}, {"target_group_arn"}, {"aws_lb_target_group"}, "routes_to") \subseteq EdgeKeysOf
          /\ To(nodes, {"aws_ecs_service"}, {"task_definition"}, {"aws_ecs_task_definition"}, "depends_on") \subseteq EdgeKeysOf
          /\ To(nodes, {"aws_ecs_task_definition"}, {"task_role_arn", "execution_role_arn"}, Role, "can_pass_role")
                \subseteq EdgeKeysOf
        BY <1>1, SpelledOut
    <2>. QED  BY <2>1 DEF InferAWSECS
<1>3. InferAWSLambda(nodes) \subseteq EdgeKeysOf
    <2>. DEFINE secrets == {id \in DOMAIN nodes : nodes[id].kind = "secret"}
                read == {<<p[1], "reads_secret", p[2]>> : p \in
                           {q \in OfType(nodes, Lambda) \X secrets :
                               \E ref \in nodes[q[1]].refs :
                                   ref[2] \in KnownAs(nodes[q[2]], {"address", "name", "arn", "id"})}}
    <2>1. To(nodes, Lambda, {"role"}, Role, "can_assume") \subseteq EdgeKeysOf
          /\ To(nodes, Lambda, {"kms_key_arn"}, Key, "encrypts_with") \subseteq EdgeKeysOf
        BY <1>1, SpelledOut
    <2>2. read \subseteq EdgeKeysOf
        <3>1. secrets \subseteq IDs /\ OfType(nodes, Lambda) \subseteq IDs
            BY DEF AreNodes, OfType
        <3>. HIDE DEF secrets
        <3>2. ASSUME NEW p \in OfType(nodes, Lambda) \X secrets PROVE <<p[1], "reads_secret", p[2]>> \in EdgeKeysOf
            BY <1>1, <3>1 DEF EdgeKeysOf, TypeNames
        <3>. QED  BY <3>2
    <2>3. InferAWSLambda(nodes) = To(nodes, Lambda, {"role"}, Role, "can_assume")
                \union To(nodes, Lambda, {"kms_key_arn"}, Key, "encrypts_with") \union read
        BY DEF InferAWSLambda
    <2>. HIDE DEF read
    <2>. QED  BY <2>1, <2>2, <2>3
<1>4. InferAWSRDS(nodes) \subseteq EdgeKeysOf
    <2>. DEFINE databases == {"aws_db_instance", "aws_rds_cluster"}
    <2>1. /\ Public(nodes, databases, {"publicly_accessible"}, "routes_to") \subseteq EdgeKeysOf
          /\ Public(nodes, databases, {"publicly_accessible"}, "has_public_access") \subseteq EdgeKeysOf
          /\ Back(nodes, databases, {"vpc_security_group_ids"}, SG, "allows_ingress") \subseteq EdgeKeysOf
        BY <1>1, SpelledOut
    <2>. QED  BY <2>1 DEF InferAWSRDS
<1>5. InferAWSS3(nodes) \subseteq EdgeKeysOf
    <2>. DEFINE policies == {p \in OfType(nodes, {"aws_s3_bucket_policy"}) : "public_principal" \in nodes[p].flags}
                open == UNION {Targets(nodes, p, {"bucket"}, Bucket) : p \in policies}
                entering == {<<Internet, edge, b>> : edge \in {"can_read_data", "has_public_access"}, b \in open}
    <2>1. To(nodes, {"aws_s3_bucket_public_access_block"}, {"bucket"}, Bucket, "attached_to") \subseteq EdgeKeysOf
        BY <1>1, SpelledOut
    <2>2. open \subseteq IDs
        BY TargetsAreNodes
    <2>3. InferAWSS3(nodes) =
            To(nodes, {"aws_s3_bucket_public_access_block"}, {"bucket"}, Bucket, "attached_to") \union entering
        BY DEF InferAWSS3
    <2>. HIDE DEF open
    <2>4. entering \subseteq EdgeKeysOf
        BY <1>1, <2>2, GraphAssumption DEF EdgeKeysOf, TypeNames
    <2>. HIDE DEF entering
    <2>. QED  BY <2>1, <2>3, <2>4
<1>6. InferAWSDataProtection(nodes) \subseteq EdgeKeysOf
    <2>. DEFINE encrypted == DataStoreTypes \union {"aws_secretsmanager_secret"}
    <2>. HIDE DEF encrypted
    <2>1. /\ To(nodes, encrypted, {"kms_key_id", "kms_key_arn", "key_id"}, Key, "encrypts_with") \subseteq EdgeKeysOf
          /\ To(nodes, encrypted, {"replica_kms_key_id"}, Key, "replicates_to") \subseteq EdgeKeysOf
          /\ To(nodes, {"aws_s3_bucket_public_access_block"}, {"bucket"}, Bucket, "protects") \subseteq EdgeKeysOf
        BY <1>1, SpelledOut
    <2>. QED  BY <2>1 DEF InferAWSDataProtection, encrypted
<1>. QED  BY <1>2, <1>3, <1>4, <1>5, <1>6

\* What a policy grants to a principal, and the edges of an attachment.
LEMMA GrantsAreEdges ==
    ASSUME NEW nodes, AreNodes(nodes), NEW principal \in IDs, NEW policy \in IDs, NEW statements
    PROVE  /\ InferInlinePolicyAccess(nodes, principal, statements) \subseteq EdgeKeysOf
           /\ Attach(nodes, principal, policy) \subseteq EdgeKeysOf
<1>1. {"can_read_data", "reads_secret", "can_write_data", "writes_to", "can_assume", "can_pass_role",
       "attached_to", "grants_permission"} \subseteq TypeNames
    BY EdgeTypesKnown DEF TypeNames
<1>2. ASSUME NEW s PROVE InferInlinePolicyAccess(nodes, principal, s) \subseteq EdgeKeysOf
    <2>. DEFINE Allowed(ids, required) == {id \in ids : GraphPolicyAllows(s, required, nodes[id])}
                Edges(ids, required, edge) == {<<principal, edge, id>> : id \in Allowed(ids, required)}
                sensitive == {id \in DOMAIN nodes : IsSensitiveKind(nodes[id].kind)}
                secrets == {id \in sensitive : nodes[id].kind = "secret"}
                roles == OfType(nodes, Role)
    <2>1. sensitive \subseteq IDs /\ secrets \subseteq IDs /\ roles \subseteq IDs
        BY DEF AreNodes, OfType
    <2>2. InferInlinePolicyAccess(nodes, principal, s) =
            UNION {Edges(sensitive, ReadActions, "can_read_data"), Edges(secrets, ReadActions, "reads_secret"),
                   Edges(sensitive, WriteActions, "can_write_data"), Edges(sensitive, WriteActions, "writes_to"),
                   Edges(roles, {AssumeRole}, "can_assume"), Edges(roles, {PassRole}, "can_pass_role")}
        BY DEF InferInlinePolicyAccess
    <2>. HIDE DEF sensitive, secrets, roles
    <2>3. ASSUME NEW ids, ids \subseteq IDs, NEW required, NEW edge \in TypeNames
          PROVE  Edges(ids, required, edge) \subseteq EdgeKeysOf
        BY <2>3 DEF EdgeKeysOf, TypeNames
    <2>. HIDE DEF Edges
    <2>4. /\ Edges(sensitive, ReadActions, "can_read_data") \subseteq EdgeKeysOf
          /\ Edges(secrets, ReadActions, "reads_secret") \subseteq EdgeKeysOf
          /\ Edges(sensitive, WriteActions, "can_write_data") \subseteq EdgeKeysOf
        BY <1>1, <2>1, <2>3
    <2>5. /\ Edges(sensitive, WriteActions, "writes_to") \subseteq EdgeKeysOf
          /\ Edges(roles, {AssumeRole}, "can_assume") \subseteq EdgeKeysOf
          /\ Edges(roles, {PassRole}, "can_pass_role") \subseteq EdgeKeysOf
        BY <1>1, <2>1, <2>3
    <2>. QED  BY <2>2, <2>4, <2>5
<1>3. Attach(nodes, principal, policy) \subseteq EdgeKeysOf
    <2>1. {<<principal, "attached_to", policy>>, <<policy, "grants_permission", principal>>} \subseteq EdgeKeysOf
        BY <1>1 DEF EdgeKeysOf, TypeNames
    <2>2. InferInlinePolicyAccess(nodes, principal, nodes[policy].policy) \subseteq EdgeKeysOf
        BY <1>2
    <2>. QED  BY <2>1, <2>2 DEF Attach
<1>. QED  BY <1>2, <1>3

\* Policies, their attachments and who may assume a role.
LEMMA IAMAreEdges ==
    ASSUME NEW nodes, AreNodes(nodes)
    PROVE  InferAWSIAM(nodes) \subseteq EdgeKeysOf
<1>. DEFINE attachments == OfType(nodes, DOMAIN PrincipalFields)
            inline == OfType(nodes, {"aws_iam_role_policy", "aws_iam_policy"})
            Attached(a) == UNION {Attach(nodes, r, p) : r \in PrincipalFor(nodes, a),
                                                        p \in Targets(nodes, a, {"policy_arn"}, {"aws_iam_policy"})}
            Granted(p) == UNION {InferInlinePolicyAccess(nodes, r, nodes[p].policy) :
                                    r \in Targets(nodes, p, {"role"}, Role)}
            trusts == Back(nodes, Role, {"assume_role_policy"}, {}, "can_assume")
<1>1. ASSUME NEW a PROVE Attached(a) \subseteq EdgeKeysOf
    <2>1. PrincipalFor(nodes, a) \subseteq IDs
        BY TargetsAreNodes DEF PrincipalFor
    <2>2. Targets(nodes, a, {"policy_arn"}, {"aws_iam_policy"}) \subseteq IDs
        BY TargetsAreNodes
    <2>3. ASSUME NEW r \in IDs, NEW p \in IDs PROVE Attach(nodes, r, p) \subseteq EdgeKeysOf
        BY GrantsAreEdges
    <2>. QED  BY <2>1, <2>2, <2>3
<1>2. ASSUME NEW p PROVE Granted(p) \subseteq EdgeKeysOf
    <2>1. Targets(nodes, p, {"role"}, Role) \subseteq IDs
        BY TargetsAreNodes
    <2>2. ASSUME NEW r \in IDs PROVE InferInlinePolicyAccess(nodes, r, nodes[p].policy) \subseteq EdgeKeysOf
        BY GrantsAreEdges
    <2>. QED  BY <2>1, <2>2
<1>3. trusts \subseteq EdgeKeysOf
    BY SpelledOut, EdgeTypesKnown DEF TypeNames
<1>4. InferAWSIAM(nodes) = UNION {UNION {Attached(a) : a \in attachments}, UNION {Granted(p) : p \in inline}, trusts}
    BY DEF InferAWSIAM
<1>. HIDE DEF Attached, Granted, trusts, attachments, inline
<1>5. UNION {Attached(a) : a \in attachments} \subseteq EdgeKeysOf /\ UNION {Granted(p) : p \in inline} \subseteq EdgeKeysOf
    BY <1>1, <1>2
<1>. QED  BY <1>3, <1>4, <1>5

\* What the configuration refers to where the plan knows no value.
LEMMA ConfigurationAreEdges ==
    ASSUME NEW nodes, AreNodes(nodes), NEW config
    PROVE  InferConfigurationReferences(nodes, config) \subseteq EdgeKeysOf
<1>. DEFINE Fwd(from, key, types, edge) ==
                UNION {{<<id, edge, t>> : t \in ConfigTargets(nodes, config, id, key, types)} :
                          id \in OfType(nodes, from)}
            Rev(from, key, types, edge) == {<<e[3], edge, e[1]>> : e \in Fwd(from, key, types, edge)}
            service == {"aws_ecs_service"}
            listener == {"aws_lb_listener"}
            attachments == OfType(nodes, {"aws_iam_role_policy_attachment"})
            inline == OfType(nodes, {"aws_iam_role_policy"})
            controls == {"aws_s3_bucket_public_access_block", "aws_s3_bucket_versioning",
                         "aws_s3_bucket_logging", "aws_s3_bucket_server_side_encryption_configuration"}
            Attached(a) == UNION {Attach(nodes, r, p) :
                             r \in ConfigTargets(nodes, config, a, "role", Role),
                             p \in ConfigTargets(nodes, config, a, "policy_arn", {"aws_iam_policy"})}
            Granted(p) == UNION {InferInlinePolicyAccess(nodes, r, nodes[p].policy) :
                             r \in ConfigTargets(nodes, config, p, "role", Role)}
<1>1. {"routes_to", "allows_ingress", "allows_egress", "depends_on", "can_assume", "invokes", "protects", "attached_to"}
        \subseteq TypeNames
    BY EdgeTypesKnown DEF TypeNames
<1>2. ASSUME NEW id, NEW key, NEW types PROVE ConfigTargets(nodes, config, id, key, types) \subseteq IDs
    BY DEF ConfigTargets, OfType, AreNodes
<1>3. ASSUME NEW from, NEW key, NEW types, NEW edge \in TypeNames
      PROVE  /\ Fwd(from, key, types, edge) \subseteq EdgeKeysOf
             /\ Rev(from, key, types, edge) \subseteq EdgeKeysOf
    <2>1. ASSUME NEW id \in OfType(nodes, from), NEW t \in ConfigTargets(nodes, config, id, key, types)
          PROVE  <<id, edge, t>> \in EdgeKeysOf
        <3>1. id \in IDs /\ t \in IDs
            BY <1>2 DEF OfType, AreNodes
        <3>. QED  BY <3>1 DEF EdgeKeysOf, TypeNames
    <2>2. Fwd(from, key, types, edge) \subseteq EdgeKeysOf
        BY <2>1
    <2>. HIDE DEF Fwd
    <2>. QED  BY <2>2 DEF EdgeKeysOf, TypeNames
<1>4. ASSUME NEW a PROVE Attached(a) \subseteq EdgeKeysOf
    <2>1. ASSUME NEW r \in IDs, NEW p \in IDs PROVE Attach(nodes, r, p) \subseteq EdgeKeysOf
        BY GrantsAreEdges
    <2>. QED  BY <1>2, <2>1
<1>5. ASSUME NEW p PROVE Granted(p) \subseteq EdgeKeysOf
    <2>1. ASSUME NEW r \in IDs PROVE InferInlinePolicyAccess(nodes, r, nodes[p].policy) \subseteq EdgeKeysOf
        BY GrantsAreEdges
    <2>. QED  BY <1>2, <2>1
<1>6. InferConfigurationReferences(nodes, config) = UNION {
            Rev({"aws_lb"}, "security_groups", SG, "allows_ingress"),
            Rev(listener, "load_balancer_arn", {"aws_lb"}, "routes_to"),
            Fwd(listener, "target_group_arn", {"aws_lb_target_group"}, "routes_to"),
            Rev(service, "security_groups", SG, "allows_ingress"),
            Fwd(service, "security_groups", SG, "allows_egress"),
            Rev(service, "target_group_arn", {"aws_lb_target_group"}, "routes_to"),
            Fwd(service, "task_definition", {"aws_ecs_task_definition"}, "depends_on"),
            Rev({"aws_db_instance", "aws_rds_cluster"}, "vpc_security_group_ids", SG, "allows_ingress"),
            Fwd(Lambda, "role", Role, "can_assume"),
            Fwd({"aws_lambda_function_url"}, "function_name", Lambda, "invokes"),
            Fwd(controls, "bucket", Bucket, "protects"),
            Fwd({"aws_s3_bucket_policy"}, "bucket", Bucket, "attached_to"),
            UNION {Attached(a) : a \in attachments},
            UNION {Granted(p) : p \in inline}}
    BY DEF InferConfigurationReferences
<1>. HIDE DEF Fwd, Rev, Attached, Granted, attachments, inline, service, listener, controls
<1>7. /\ Rev({"aws_lb"}, "security_groups", SG, "allows_ingress") \subseteq EdgeKeysOf
      /\ Rev(listener, "load_balancer_arn", {"aws_lb"}, "routes_to") \subseteq EdgeKeysOf
      /\ Rev(service, "security_groups", SG, "allows_ingress") \subseteq EdgeKeysOf
      /\ Rev(service, "target_group_arn", {"aws_lb_target_group"}, "routes_to") \subseteq EdgeKeysOf
      /\ Rev({"aws_db_instance", "aws_rds_cluster"}, "vpc_security_group_ids", SG, "allows_ingress") \subseteq EdgeKeysOf
    BY <1>1, <1>3
<1>8. /\ Fwd(listener, "target_group_arn", {"aws_lb_target_group"}, "routes_to") \subseteq EdgeKeysOf
      /\ Fwd(service, "security_groups", SG, "allows_egress") \subseteq EdgeKeysOf
      /\ Fwd(service, "task_definition", {"aws_ecs_task_definition"}, "depends_on") \subseteq EdgeKeysOf
      /\ Fwd(Lambda, "role", Role, "can_assume") \subseteq EdgeKeysOf
    BY <1>1, <1>3
<1>9. /\ Fwd({"aws_lambda_function_url"}, "function_name", Lambda, "invokes") \subseteq EdgeKeysOf
      /\ Fwd(controls, "bucket", Bucket, "protects") \subseteq EdgeKeysOf
      /\ Fwd({"aws_s3_bucket_policy"}, "bucket", Bucket, "attached_to") \subseteq EdgeKeysOf
    BY <1>1, <1>3
<1>10. UNION {Attached(a) : a \in attachments} \subseteq EdgeKeysOf /\ UNION {Granted(p) : p \in inline} \subseteq EdgeKeysOf
    BY <1>4, <1>5
<1>. QED  BY <1>6, <1>7, <1>8, <1>9, <1>10

\* Every step of BuildWithOptions.
LEMMA StepsAreEdges ==
    ASSUME NEW nodes, AreNodes(nodes), NEW p, IsPlan(p)
    PROVE  UNION Range(Inferred(nodes, p)) \subseteq EdgeKeysOf
<1>. DEFINE steps == Inferred(nodes, p)
<1>1. /\ steps[1] = InferExplicitDependencies(p) /\ steps[2] = InferGenericReferences(nodes)
      /\ steps[3] = InferConfigurationReferences(nodes, p.config) /\ steps[4] = InferAWSNetwork(nodes)
      /\ steps[5] = InferAWSLoadBalancing(nodes) /\ steps[6] = InferAWSECS(nodes)
      /\ steps[7] = InferAWSLambda(nodes) /\ steps[8] = InferAWSRDS(nodes)
      /\ steps[9] = InferAWSS3(nodes) /\ steps[10] = InferAWSDataProtection(nodes) /\ steps[11] = InferAWSIAM(nodes)
      /\ DOMAIN steps = 1..11
    BY DEF Inferred
<1>2. \A i \in 1..11 : \/ i = 1 \/ i = 2 \/ i = 3 \/ i = 4 \/ i = 5 \/ i = 6 \/ i = 7 \/ i = 8 \/ i = 9 \/ i = 10 \/ i = 11
    OBVIOUS
<1>3. /\ InferExplicitDependencies(p) \subseteq EdgeKeysOf /\ InferGenericReferences(nodes) \subseteq EdgeKeysOf
      /\ InferConfigurationReferences(nodes, p.config) \subseteq EdgeKeysOf /\ InferAWSNetwork(nodes) \subseteq EdgeKeysOf
    BY DependenciesAreEdges, ConfigurationAreEdges, NetworkAreEdges
<1>4. /\ InferAWSLoadBalancing(nodes) \subseteq EdgeKeysOf /\ InferAWSECS(nodes) \subseteq EdgeKeysOf
      /\ InferAWSLambda(nodes) \subseteq EdgeKeysOf /\ InferAWSRDS(nodes) \subseteq EdgeKeysOf
      /\ InferAWSS3(nodes) \subseteq EdgeKeysOf /\ InferAWSDataProtection(nodes) \subseteq EdgeKeysOf
      /\ InferAWSIAM(nodes) \subseteq EdgeKeysOf
    BY LoadBalancingAreEdges, ServicesAreEdges, IAMAreEdges
<1>. HIDE DEF steps
<1>5. \A i \in 1..11 : steps[i] \subseteq EdgeKeysOf
    BY <1>1, <1>2, <1>3, <1>4
<1>6. \A s \in Range(steps) : s \subseteq EdgeKeysOf
    BY <1>1, <1>5 DEF Range
<1>. QED  BY <1>6 DEF steps

\* The graph of the plan, before its edges and after them.
LEMMA BuiltIsGraph ==
    ASSUME NEW nodes, AreNodes(nodes), NEW p, IsPlan(p), NEW sequence
    PROVE  /\ IsGraph(BuiltFrom(nodes, Inferred(nodes, p), sequence))
           /\ AreNodes(NamedNodes(p))
<1>. DEFINE keys == UNION Range(Inferred(nodes, p))
            built == WithEdges(nodes, keys, FromPlan)
            environments == PropagateEnvironment(built.nodes, sequence)
            after == [id \in DOMAIN built.nodes |-> [built.nodes[id] EXCEPT !.environment = environments[id]]]
            g == BuiltFrom(nodes, Inferred(nodes, p), sequence)
<1>1. IsGraph(built)
    BY StepsAreEdges, WithEdgesIsGraph
<1>2. g = [built EXCEPT !.nodes = after]
    BY DEF BuiltFrom
<1>. HIDE DEF environments, built, g
<1>3. built = [nodes |-> built.nodes, edges |-> built.edges] /\ AreNodes(built.nodes)
      /\ \A e \in DOMAIN built.edges : e \in EdgeKeysOf /\ built.edges[e] \in Provenances
    BY <1>1 DEF IsGraph
<1>4. AreNodes(after)
    <2>1. ASSUME NEW id \in DOMAIN built.nodes PROVE IsNode(after[id])
        <3>1. IsNode(built.nodes[id])
            BY <1>3 DEF AreNodes
        <3>2. after[id] = [built.nodes[id] EXCEPT !.environment = environments[id]]
            OBVIOUS
        <3>3. IsNode([built.nodes[id] EXCEPT !.environment = environments[id]])
            BY <3>1, ExceptEnvironment
        <3>. HIDE DEF after
        <3>. QED  BY <3>2, <3>3
    <2>2. DOMAIN after = DOMAIN built.nodes
        OBVIOUS
    <2>. HIDE DEF after
    <2>. QED  BY <1>3, <2>1, <2>2 DEF AreNodes
<1>. HIDE DEF after
<1>5. g = [nodes |-> after, edges |-> built.edges]
    BY <1>2, <1>3, GraphWithNodes
<1>6. IsGraph(g)
    BY <1>3, <1>4, <1>5 DEF IsGraph
<1>7. AreNodes(NamedNodes(p))
    <2>1. AreNodes(PlanNodes(p)) /\ InferExplicitDependencies(p) \subseteq EdgeKeysOf
        <3>1. AreNodes(PlanNodes(p))
            BY PlanNodesAreNodes
        <3>. QED  BY <3>1, DependenciesAreEdges
    <2>2. IsGraph(WithEdges(PlanNodes(p), InferExplicitDependencies(p), FromPlan))
        BY <2>1, WithEdgesIsGraph
    <2>. QED  BY <2>2 DEF IsGraph, NamedNodes
<1>. QED  BY <1>6, <1>7 DEF g

-----------------------------------------------------------------------------
(***************************************************************************)
(* The snapshot takes nothing away.  What is given and the graphs keep     *)
(* their shapes, and the merge starts from a snapshot and from the graph   *)
(* of the plan.                                                            *)
(***************************************************************************)
GraphsInv ==
    /\ IsPlan(plan)
    /\ snapshot # << >> => IsSnapshot(snapshot[1])
    /\ IsGraph(planGraph) /\ IsGraph(graph)
    /\ stage = "merge" => snapshot # << >>

\* The invariant holds to begin with, and every step keeps it.
LEMMA GraphsStay ==
    /\ Init => GraphsInv
    /\ GraphsInv /\ [Next]_vars => GraphsInv'
<1>1. ASSUME NEW nodes, AreNodes(nodes) PROVE IsGraph([EmptyGraph EXCEPT !.nodes = nodes])
    <2>1. [EmptyGraph EXCEPT !.nodes = nodes] = [nodes |-> nodes, edges |-> << >>]
        BY DEF EmptyGraph
    <2>. QED  BY <1>1, <2>1 DEF IsGraph
<1>2. IsGraph(EmptyGraph)
    BY DEF EmptyGraph, IsGraph, AreNodes
<1>3. Init => GraphsInv
    <2>. SUFFICES ASSUME Init PROVE GraphsInv
        OBVIOUS
    <2>1. PICK s \in Scenarios : plan = s.plan /\ snapshot = s.snapshot
        BY DEF Init
    <2>2. IsPlan(plan) /\ (snapshot # << >> => IsSnapshot(snapshot[1]))
        BY <2>1, ScenariosAssumption
    <2>3. planGraph = EmptyGraph /\ graph = EmptyGraph /\ stage = "resources"
        BY DEF Init
    <2>. QED  BY <1>2, <2>2, <2>3 DEF GraphsInv
<1>4. GraphsInv /\ [Next]_vars => GraphsInv'
    <2>. SUFFICES ASSUME GraphsInv, [Next]_vars PROVE GraphsInv'
        OBVIOUS
    <2>1. CASE AddResources
        <3>1. planGraph' = [EmptyGraph EXCEPT !.nodes = NamedNodes(plan)] /\ stage' = "build"
              /\ UNCHANGED <<plan, snapshot, graph>>
            BY <2>1 DEF AddResources
        <3>2. IsGraph(planGraph')
            BY <1>1, <3>1, BuiltIsGraph, PlanNodesAreNodes DEF GraphsInv, AreNodes
        <3>. QED  BY <3>1, <3>2 DEF GraphsInv
    <2>2. CASE AddDependencies \/ AddReference
        <3>1. UNCHANGED <<plan, snapshot, stage, planGraph, graph>>
            BY <2>2 DEF AddDependencies, AddReference
        <3>. QED  BY <3>1 DEF GraphsInv
    <2>3. CASE InferRelationships
        <3>1. PICK sequence : /\ planGraph' = BuiltFrom(planGraph.nodes, Inferred(planGraph.nodes, plan), sequence)
                              /\ graph' = planGraph'
            BY <2>3 DEF InferRelationships
        <3>2. IsGraph(planGraph')
            BY <3>1, BuiltIsGraph DEF GraphsInv, IsGraph
        <3>3. UNCHANGED <<plan, snapshot>> /\ (stage' = "merge" => snapshot # << >>)
            BY <2>3 DEF InferRelationships
        <3>. QED  BY <3>1, <3>2, <3>3 DEF GraphsInv
    <2>4. CASE MergeSnapshot
        <3>1. PICK early : graph' = MergeContext(planGraph, snapshot[1], early).graph
            BY <2>4 DEF MergeSnapshot
        <3>2. UNCHANGED <<plan, snapshot, planGraph>> /\ stage = "merge" /\ stage' = "rules"
            BY <2>4 DEF MergeSnapshot
        <3>3. IsGraph(graph')
            BY <3>1, <3>2, MergeContextHolds DEF GraphsInv
        <3>. QED  BY <3>2, <3>3 DEF GraphsInv
    <2>5. CASE EvaluateRules \/ EnrichFromSnapshot \/ ApplyConflicts \/ DetectAttackPaths \/ SuppressFindings
        <3>1. UNCHANGED <<plan, snapshot, planGraph, graph>> /\ stage' # "merge"
            BY <2>5 DEF EvaluateRules, EnrichFromSnapshot, ApplyConflicts, DetectAttackPaths, SuppressFindings
        <3>. QED  BY <3>1 DEF GraphsInv
    <2>6. CASE Finished \/ UNCHANGED vars
        <3>1. UNCHANGED <<plan, snapshot, stage, planGraph, graph>>
            BY <2>6 DEF Finished, vars
        <3>. QED  BY <3>1 DEF GraphsInv
    <2>. QED  BY <2>1, <2>2, <2>3, <2>4, <2>5, <2>6 DEF Next
<1>. QED  BY <1>3, <1>4

\* The graphs keep their shapes.
THEOREM GraphsAreGraphs == Spec => []GraphsInv
BY GraphsStay, PTL DEF Spec

\* Live context can add to the graph of the plan, and no node, edge or certainty is lost,
\* whatever the plan and the snapshot; of a node a live resource replaces the value of a tag
\* and the name it gives, and the kind where it is sensitive or public, and nothing else.
THEOREM ContextAddsOnly == Spec => ContextOnlyAdds
<1>1. GraphsInv /\ [Next]_vars =>
        [stage = "merge" =>
           /\ \A id \in DOMAIN planGraph.nodes :
                 /\ id \in DOMAIN graph'.nodes
                 /\ Keeps(planGraph.nodes[id], graph'.nodes[id], Range(snapshot[1].resources))
           /\ \A e \in DOMAIN planGraph.edges :
                 /\ e \in DOMAIN graph'.edges
                 /\ ConfidenceRank(graph'.edges[e].confidence) >= ConfidenceRank(planGraph.edges[e].confidence)]_vars
    <2>. SUFFICES ASSUME GraphsInv, Next, stage = "merge"
                  PROVE  Holds(planGraph, graph', Range(snapshot[1].resources))
        BY DEF Holds
    <2>1. MergeSnapshot
        BY DEF Next, AddResources, AddDependencies, AddReference, InferRelationships, EvaluateRules,
               EnrichFromSnapshot, ApplyConflicts, DetectAttackPaths, SuppressFindings, Finished
    <2>2. PICK early : graph' = MergeContext(planGraph, snapshot[1], early).graph
        BY <2>1 DEF MergeSnapshot
    <2>. QED  BY <2>2, MergeContextHolds DEF GraphsInv
<1>. QED  BY <1>1, GraphsAreGraphs, PTL DEF Spec, ContextOnlyAdds

-----------------------------------------------------------------------------
(***************************************************************************)
(* Findings.  A rule reports no path, and nothing that is done to a        *)
(* finding afterwards touches its path.                                    *)
(***************************************************************************)
IsFinding(f) ==
    f = [rule |-> f.rule, resource |-> f.resource, severity |-> f.severity, confidence |-> f.confidence,
         touches |-> f.touches, path |-> f.path, suppressed |-> f.suppressed]

ArePathless(found) == \A f \in found : IsFinding(f) /\ f.path = << >>

\* The rules that are about single resources find no paths.
LEMMA SevereArePathless ==
    ASSUME NEW rule, NEW ids
    PROVE  ArePathless(Severe(rule, ids))
<1>. SUFFICES ASSUME NEW id \in ids
              PROVE  LET f == RuleFinding(rule, id, "high", "high", {}) IN IsFinding(f) /\ f.path = << >>
    BY DEF ArePathless, Severe
<1>. QED  BY DEF RuleFinding, IsFinding

\* Nor do those about paths, which keep the nodes of a path as evidence.
LEMMA RuleFindingsArePathless ==
    ASSUME NEW rule, NEW resource, NEW severity, NEW confidence, NEW touches
    PROVE  LET f == RuleFinding(rule, resource, severity, confidence, touches) IN IsFinding(f) /\ f.path = << >>
BY DEF RuleFinding, IsFinding

\* The rules about paths, one by one.
LEMMA PathRulesArePathless ==
    ASSUME NEW g, NEW given
    PROVE  /\ ArePathless(PublicToDatastore(g))
           /\ \A rule, entrypoints : ArePathless(EntrypointToData(g, rule, entrypoints))
           /\ ArePathless(WorkloadToData(g, given))
           /\ ArePathless(PassRoleGrants(g, given))
<1>1. \A rule, severity, from, path :
        LET f == PathFinding(rule, severity, from, path) IN IsFinding(f) /\ f.path = << >>
    BY RuleFindingsArePathless DEF PathFinding
<1>2. \A f \in PublicToDatastore(g) : \E rule, severity, from, path : f = PathFinding(rule, severity, from, path)
    BY DEF PublicToDatastore
<1>3. \A rule, entrypoints : \A f \in EntrypointToData(g, rule, entrypoints) :
        \E severity, from, path : f = PathFinding(rule, severity, from, path)
    BY DEF EntrypointToData
<1>4. ASSUME NEW f \in WorkloadToData(g, given)
      PROVE  \E rule, severity, from, path : f = PathFinding(rule, severity, from, path)
    BY DEF WorkloadToData
<1>5. \A f \in PassRoleGrants(g, given) : \E rule, id : f = RuleFinding(rule, id, "high", "medium", {})
    BY DEF PassRoleGrants
<1>. QED  BY <1>1, <1>2, <1>3, <1>4, <1>5, RuleFindingsArePathless DEF ArePathless

\* All the rules together.
LEMMA RulesArePathless ==
    ASSUME NEW g, NEW given, NEW disabled
    PROVE  ArePathless(EvaluateBuiltIn(g, given, disabled)) /\ ArePathless(EvaluateCustom(g, given, disabled))
<1>1. /\ ArePathless(Replacements(given)) /\ ArePathless(FinalSnapshot(given)) /\ ArePathless(ConfigRecorder(given))
      /\ ArePathless(WeakListeners(given)) /\ ArePathless(BucketLogging(given)) /\ ArePathless(BucketVersioning(given))
    BY SevereArePathless
       DEF Replacements, FinalSnapshot, ConfigRecorder, WeakListeners, BucketLogging, BucketVersioning, ArePathless
<1>2. ArePathless(EvaluateChanges(given))
    BY SevereArePathless DEF EvaluateChanges, ArePathless
<1>3. /\ ArePathless(RDSPublicSubnetGroup(g, given)) /\ ArePathless(PublicInstances(g, given))
      /\ ArePathless(CloudFrontMismatch(g)) /\ ArePathless(AssumeAdmin(g))
    BY SevereArePathless DEF RDSPublicSubnetGroup, PublicInstances, CloudFrontMismatch, AssumeAdmin
<1>4. ArePathless(ExposedServices(g)) /\ ArePathless(OpenStores(g, given))
    BY SevereArePathless DEF ExposedServices, OpenStores, OpenSecurityGroup, ArePathless
<1>5. ArePathless(EvaluateBuiltIn(g, given, disabled))
    BY <1>1, <1>2, <1>3, <1>4, PathRulesArePathless DEF EvaluateBuiltIn, ArePathless
<1>. DEFINE Told(r, id) == [rule |-> r.id, resource |-> id, severity |-> r.severity, confidence |-> r.confidence,
                            touches |-> {id}, path |-> << >>, suppressed |-> FALSE]
<1>6. ArePathless(EvaluateCustom(g, given, disabled))
    <2>1. \A r, id : IsFinding(Told(r, id)) /\ Told(r, id).path = << >>
        BY DEF IsFinding
    <2>2. \A f \in EvaluateCustom(g, given, disabled) : \E r, id : f = Told(r, id)
        BY DEF EvaluateCustom
    <2>. HIDE DEF Told
    <2>. QED  BY <2>1, <2>2 DEF ArePathless
<1>. QED  BY <1>5, <1>6

\* A finding with another severity has the path it had.
LEMMA SeverityKeepsPath ==
    ASSUME NEW f, IsFinding(f), NEW x
    PROVE  IsFinding([f EXCEPT !.severity = x]) /\ [f EXCEPT !.severity = x].path = f.path
BY DEF IsFinding

\* So has one with another confidence.
LEMMA ConfidenceKeepsPath ==
    ASSUME NEW f, IsFinding(f), NEW x
    PROVE  IsFinding([f EXCEPT !.confidence = x]) /\ [f EXCEPT !.confidence = x].path = f.path
BY DEF IsFinding

\* One that is set aside keeps the rest as well.
LEMMA SetAsideKeepsPath ==
    ASSUME NEW f, IsFinding(f), NEW x
    PROVE  LET h == [f EXCEPT !.suppressed = x]
           IN  /\ IsFinding(h) /\ h.path = f.path /\ h.confidence = f.confidence /\ h.resource = f.resource
               /\ h.severity = f.severity /\ h.touches = f.touches
BY DEF IsFinding

\* upgrade and downgrade change severity and confidence.
LEMMA GradedKept ==
    ASSUME NEW f, IsFinding(f)
    PROVE  /\ IsFinding(UpgradeFinding(f)) /\ UpgradeFinding(f).path = f.path
           /\ IsFinding(DowngradeFinding(f)) /\ DowngradeFinding(f).path = f.path
<1>1. PICK x : UpgradeFinding(f) = [f EXCEPT !.severity = x]
    BY DEF UpgradeFinding
<1>2. PICK s, c : DowngradeFinding(f) = [f EXCEPT !.severity = s, !.confidence = c]
    BY DEF DowngradeFinding
<1>. DEFINE milder == [f EXCEPT !.severity = s]
<1>3. IsFinding(milder) /\ milder.path = f.path
    BY SeverityKeepsPath
<1>4. DowngradeFinding(f) = [milder EXCEPT !.confidence = c]
    BY <1>2 DEF IsFinding
<1>. HIDE DEF milder
<1>5. IsFinding([milder EXCEPT !.confidence = c]) /\ [milder EXCEPT !.confidence = c].path = milder.path
    BY <1>3, ConfidenceKeepsPath
<1>6. IsFinding([f EXCEPT !.severity = x]) /\ [f EXCEPT !.severity = x].path = f.path
    BY SeverityKeepsPath
<1>. QED  BY <1>1, <1>3, <1>4, <1>5, <1>6

\* EnrichFindings
LEMMA EnrichedArePathless ==
    ASSUME NEW found, ArePathless(found), NEW resources, NEW index
    PROVE  ArePathless(EnrichFindings(found, resources, index))
<1>1. ASSUME NEW f \in found, NEW resource
      PROVE  IsFinding(Enriched(f, resource)) /\ Enriched(f, resource).path = << >>
    <2>. DEFINE raised == IF resource.drift \/ resource.sensitive THEN UpgradeFinding(f) ELSE f
                excused == IF resource.expected /\ f.rule \in PublicExposureRules
                           THEN DowngradeFinding(raised) ELSE raised
                bare == resource.encrypted = "no" \/ (resource.blocked = "no" /\ f.rule \in S3Rules)
    <2>1. IsFinding(f) /\ f.path = << >>
        BY DEF ArePathless
    <2>2. IsFinding(raised) /\ raised.path = << >>
        BY <2>1, GradedKept
    <2>3. Enriched(f, resource) = IF bare THEN UpgradeFinding(excused) ELSE excused
        BY DEF Enriched
    <2>. HIDE DEF raised, bare
    <2>4. IsFinding(excused) /\ excused.path = << >>
        BY <2>2, GradedKept
    <2>. HIDE DEF excused
    <2>. QED  BY <2>3, <2>4, GradedKept
<1>2. ASSUME NEW h \in EnrichFindings(found, resources, index)
      PROVE  h \in found \/ \E f \in found : \E resource : h = Enriched(f, resource)
    BY DEF EnrichFindings
<1>. QED  BY <1>1, <1>2 DEF ArePathless

\* applyGraphConflictDiagnostics
LEMMA ConflictsArePathless ==
    ASSUME NEW found, ArePathless(found), NEW conflicts
    PROVE  ArePathless(ApplyGraphConflicts(found, conflicts))
<1>1. ASSUME NEW f \in found, NEW times
      PROVE  LET h == UpgradeForGraphConflict(f, times) IN IsFinding(h) /\ h.path = << >>
    <2>1. IsFinding(f) /\ f.path = << >>
        BY DEF ArePathless
    <2>2. PICK s : UpgradeForGraphConflict(f, times) \in {f, [f EXCEPT !.severity = s, !.confidence = "high"]}
        BY DEF UpgradeForGraphConflict
    <2>. DEFINE other == [f EXCEPT !.severity = s]
    <2>3. IsFinding(other) /\ other.path = << >>
        BY <2>1, SeverityKeepsPath
    <2>4. [f EXCEPT !.severity = s, !.confidence = "high"] = [other EXCEPT !.confidence = "high"]
        BY <2>1 DEF IsFinding
    <2>. HIDE DEF other
    <2>5. IsFinding([other EXCEPT !.confidence = "high"]) /\ [other EXCEPT !.confidence = "high"].path = << >>
        BY <2>3, ConfidenceKeepsPath
    <2>. QED  BY <2>1, <2>2, <2>4, <2>5
<1>2. ASSUME NEW h \in ApplyGraphConflicts(found, conflicts)
      PROVE  \E f \in found : \E times : h = UpgradeForGraphConflict(f, times)
    BY DEF ApplyGraphConflicts
<1>. QED  BY <1>1, <1>2 DEF ArePathless

-----------------------------------------------------------------------------
(***************************************************************************)
(* Orders.  What is taken by its key, or by its merits, is one of those it *)
(* is taken from.                                                          *)
(***************************************************************************)

\* Lexicographic order of four numbers.
NotAfter(m, t) ==
    \/ m[1] < t[1]
    \/ m[1] = t[1] /\ m[2] < t[2]
    \/ m[1] = t[1] /\ m[2] = t[2] /\ m[3] < t[3]
    \/ m[1] = t[1] /\ m[2] = t[2] /\ m[3] = t[3] /\ m[4] <= t[4]

\* A nonempty set of quadruples of numbers has a least one.
LEMMA LeastQuadruple ==
    ASSUME NEW T, T \subseteq Nat \X Nat \X Nat \X Nat, T # {}
    PROVE  \E m \in T : \A t \in T : NotAfter(m, t)
<1>. DEFINE A == {t[1] : t \in T}
<1>0. \A t \in T : t[1] \in Nat /\ t[2] \in Nat /\ t[3] \in Nat /\ t[4] \in Nat
    OBVIOUS
<1>1. PICK a \in A : \A n \in A : a <= n
    <2>1. A \subseteq Nat /\ A # {}
        BY <1>0
    <2>. HIDE DEF A
    <2>. QED  BY <2>1, LeastNatural
<1>. DEFINE Ta == {t \in T : t[1] = a}
            B == {t[2] : t \in Ta}
<1>2. PICK b \in B : \A n \in B : b <= n
    <2>1. B \subseteq Nat /\ B # {}
        BY <1>0, <1>1
    <2>. HIDE DEF B
    <2>. QED  BY <2>1, LeastNatural
<1>. DEFINE Tb == {t \in Ta : t[2] = b}
            C == {t[3] : t \in Tb}
<1>3. PICK c \in C : \A n \in C : c <= n
    <2>1. C \subseteq Nat /\ C # {}
        BY <1>0, <1>2
    <2>. HIDE DEF C
    <2>. QED  BY <2>1, LeastNatural
<1>. DEFINE Tc == {t \in Tb : t[3] = c}
            D == {t[4] : t \in Tc}
<1>4. PICK d \in D : \A n \in D : d <= n
    <2>1. D \subseteq Nat /\ D # {}
        BY <1>0, <1>3
    <2>. HIDE DEF D
    <2>. QED  BY <2>1, LeastNatural
<1>5. PICK m \in Tc : m[4] = d
    BY <1>4
<1>6. m \in T /\ m[1] = a /\ m[2] = b /\ m[3] = c
    BY <1>5
<1>7. ASSUME NEW t \in T PROVE NotAfter(m, t)
    <2>1. a <= t[1] /\ (t[1] = a => b <= t[2]) /\ (t[1] = a /\ t[2] = b => c <= t[3])
          /\ (t[1] = a /\ t[2] = b /\ t[3] = c => d <= t[4])
        BY <1>1, <1>2, <1>3, <1>4
    <2>2. a \in Nat /\ b \in Nat /\ c \in Nat /\ d \in Nat
        BY <1>0, <1>5, <1>6
    <2>. QED  BY <1>0, <1>5, <1>6, <2>1, <2>2 DEF NotAfter
<1>. QED  BY <1>6, <1>7

\* The order of two keys of the same length is the lexicographic one.
LEMMA BeforeTriple ==
    ASSUME NEW x1 \in Int, NEW x2 \in Int, NEW x3 \in Int, NEW y1 \in Int, NEW y2 \in Int, NEW y3 \in Int,
           SequenceBefore(<<x1, x2, x3>>, <<y1, y2, y3>>)
    PROVE  x1 < y1 \/ (x1 = y1 /\ x2 < y2) \/ (x1 = y1 /\ x2 = y2 /\ x3 < y3)
<1>. DEFINE a == <<x1, x2, x3>>
            b == <<y1, y2, y3>>
<1>1. /\ DOMAIN a = 1..3 /\ a[1] = x1 /\ a[2] = x2 /\ a[3] = x3
      /\ DOMAIN b = 1..3 /\ b[1] = y1 /\ b[2] = y2 /\ b[3] = y3
    OBVIOUS
<1>. HIDE DEF a, b
<1>2. PICK i \in 1..3 : (\A j \in 1..i - 1 : a[j] = b[j]) /\ a[i] < b[i]
    BY <1>1 DEF SequenceBefore, a, b
<1>3. i = 1 \/ i = 2 \/ i = 3
    OBVIOUS
<1>4. (i > 1 => a[1] = b[1]) /\ (i > 2 => a[2] = b[2])
    BY <1>2, <1>3
<1>. QED  BY <1>1, <1>2, <1>3, <1>4

\* The same of four numbers.
LEMMA BeforeQuadruple ==
    ASSUME NEW x1 \in Int, NEW x2 \in Int, NEW x3 \in Int, NEW x4 \in Int,
           NEW y1 \in Int, NEW y2 \in Int, NEW y3 \in Int, NEW y4 \in Int,
           SequenceBefore(<<x1, x2, x3, x4>>, <<y1, y2, y3, y4>>)
    PROVE  \/ x1 < y1 \/ (x1 = y1 /\ x2 < y2) \/ (x1 = y1 /\ x2 = y2 /\ x3 < y3)
           \/ (x1 = y1 /\ x2 = y2 /\ x3 = y3 /\ x4 < y4)
<1>. DEFINE a == <<x1, x2, x3, x4>>
            b == <<y1, y2, y3, y4>>
<1>1. /\ DOMAIN a = 1..4 /\ a[1] = x1 /\ a[2] = x2 /\ a[3] = x3 /\ a[4] = x4
      /\ DOMAIN b = 1..4 /\ b[1] = y1 /\ b[2] = y2 /\ b[3] = y3 /\ b[4] = y4
    OBVIOUS
<1>. HIDE DEF a, b
<1>2. PICK i \in 1..4 : (\A j \in 1..i - 1 : a[j] = b[j]) /\ a[i] < b[i]
    BY <1>1 DEF SequenceBefore, a, b
<1>3. i = 1 \/ i = 2 \/ i = 3 \/ i = 4
    OBVIOUS
<1>4. (i > 1 => a[1] = b[1]) /\ (i > 2 => a[2] = b[2]) /\ (i > 3 => a[3] = b[3])
    BY <1>2, <1>3
<1>. QED  BY <1>1, <1>2, <1>3, <1>4

\* The key of an edge, in numbers that have a bound.
LEMMA KeyOfEdge ==
    ASSUME NEW e \in EdgeKeysOf
    PROVE  /\ Position(e[1]) \in 1..Len(Addresses) /\ Position(e[3]) \in 1..Len(Addresses)
           /\ TypePosition(e[2]) \in 1..18
           /\ EdgeKey(e) = <<Position(e[1]), TypePosition(e[2]), Position(e[3])>>
<1>1. e[1] \in IDs /\ e[2] \in Range(EdgeTypes) /\ e[3] \in IDs
    BY DEF EdgeKeysOf
<1>2. ASSUME NEW id \in IDs PROVE Position(id) \in 1..Len(Addresses)
    <2>1. \E i \in DOMAIN Addresses : Addresses[i] = id
        BY DEF IDs, Range
    <2>2. DOMAIN Addresses = 1..Len(Addresses)
        BY GraphAssumption
    <2>. QED  BY <2>1, <2>2 DEF Position
<1>3. TypePosition(e[2]) \in 1..18
    <2>1. DOMAIN EdgeTypes = 1..18
        BY DEF EdgeTypes
    <2>2. \E i \in DOMAIN EdgeTypes : EdgeTypes[i] = e[2]
        BY <1>1 DEF Range
    <2>. QED  BY <2>1, <2>2 DEF TypePosition
<1>. QED  BY <1>1, <1>2, <1>3 DEF EdgeKey

\* The first edge by key, and the last.
LEMMA EdgesByKey ==
    ASSUME NEW S, S \subseteq EdgeKeysOf, S # {}
    PROVE  FirstEdge(S) \in S /\ LastEdge(S) \in S
<1>. DEFINE L == Len(Addresses)
            Up(e) == <<Position(e[1]), TypePosition(e[2]), Position(e[3]), 0>>
            Down(e) == <<L - Position(e[1]), 18 - TypePosition(e[2]), L - Position(e[3]), 0>>
<1>1. L \in Nat
    BY GraphAssumption
<1>2. ASSUME NEW e \in S
      PROVE  /\ Position(e[1]) \in 1..L /\ Position(e[3]) \in 1..L /\ TypePosition(e[2]) \in 1..18
             /\ EdgeKey(e) = <<Position(e[1]), TypePosition(e[2]), Position(e[3])>>
    BY KeyOfEdge
<1>. HIDE DEF L
<1>3. \E e \in S : \A x \in S : NotAfter(Up(e), Up(x))
    <2>. DEFINE T == {Up(e) : e \in S}
    <2>0. ASSUME NEW e \in S PROVE Up(e) \in Nat \X Nat \X Nat \X Nat
        <3>1. Position(e[1]) \in Nat /\ TypePosition(e[2]) \in Nat /\ Position(e[3]) \in Nat /\ 0 \in Nat
            BY <1>1, <1>2
        <3>. QED  BY <3>1
    <2>1. T \subseteq Nat \X Nat \X Nat \X Nat /\ T # {}
        <3>. HIDE DEF Up
        <3>. QED  BY <2>0
    <2>. HIDE DEF T
    <2>2. PICK m \in T : \A t \in T : NotAfter(m, t)
        BY <2>1, LeastQuadruple
    <2>. QED  BY <2>2 DEF T
<1>4. \E e \in S : \A x \in S : NotAfter(Down(e), Down(x))
    <2>. DEFINE T == {Down(e) : e \in S}
    <2>0. ASSUME NEW e \in S PROVE Down(e) \in Nat \X Nat \X Nat \X Nat
        <3>1. L - Position(e[1]) \in Nat /\ 18 - TypePosition(e[2]) \in Nat /\ L - Position(e[3]) \in Nat /\ 0 \in Nat
            BY <1>1, <1>2
        <3>. QED  BY <3>1
    <2>1. T \subseteq Nat \X Nat \X Nat \X Nat /\ T # {}
        <3>. HIDE DEF Down
        <3>. QED  BY <2>0
    <2>. HIDE DEF T
    <2>2. PICK m \in T : \A t \in T : NotAfter(m, t)
        BY <2>1, LeastQuadruple
    <2>. QED  BY <2>2 DEF T
<1>5. ASSUME NEW e \in S, NEW x \in S, SequenceBefore(EdgeKey(x), EdgeKey(e))
      PROVE  ~NotAfter(Up(e), Up(x)) /\ ~NotAfter(Down(x), Down(e))
    <2>. DEFINE x1 == Position(x[1])
                x2 == TypePosition(x[2])
                x3 == Position(x[3])
                e1 == Position(e[1])
                e2 == TypePosition(e[2])
                e3 == Position(e[3])
    <2>1. x1 \in 1..L /\ x2 \in 1..18 /\ x3 \in 1..L /\ e1 \in 1..L /\ e2 \in 1..18 /\ e3 \in 1..L
          /\ EdgeKey(x) = <<x1, x2, x3>> /\ EdgeKey(e) = <<e1, e2, e3>>
        BY <1>2
    <2>2. Up(x) = <<x1, x2, x3, 0>> /\ Up(e) = <<e1, e2, e3, 0>>
          /\ Down(x) = <<L - x1, 18 - x2, L - x3, 0>> /\ Down(e) = <<L - e1, 18 - e2, L - e3, 0>>
        OBVIOUS
    <2>. HIDE DEF x1, x2, x3, e1, e2, e3, Up, Down
    <2>3. x1 < e1 \/ (x1 = e1 /\ x2 < e2) \/ (x1 = e1 /\ x2 = e2 /\ x3 < e3)
        BY <1>1, <1>5, <2>1, BeforeTriple
    <2>4. ~NotAfter(Up(e), Up(x))
        BY <1>1, <2>1, <2>2, <2>3 DEF NotAfter
    <2>5. ~NotAfter(Down(x), Down(e))
        BY <1>1, <2>1, <2>2, <2>3 DEF NotAfter
    <2>. QED  BY <2>4, <2>5
<1>. HIDE DEF Up, Down
<1>6. \E e \in S : ~ \E x \in S : SequenceBefore(EdgeKey(x), EdgeKey(e))
    BY <1>3, <1>5
<1>7. \E e \in S : ~ \E x \in S : SequenceBefore(EdgeKey(e), EdgeKey(x))
    BY <1>4, <1>5
<1>. QED  BY <1>6, <1>7 DEF FirstEdge, LastEdge

-----------------------------------------------------------------------------
(***************************************************************************)
(* Walks.  A path that a search finds is a walk along edges of the graph.  *)
(***************************************************************************)

\* What one step of the search in breadth makes of the paths that it has.
NextShortest(g, from, to, allowed, shorter, n) ==
    LET BestOf(paths, id) == FirstOf({p \in paths : End(from, p) = id}, 1, FoundBefore)
        reached == {End(from, p) : p \in shorter}
        next == Extensions(g, from, allowed, {p \in shorter : Len(p) = n - 1})
        new == {End(from, p) : p \in next} \ reached
    IN  IF to \in reached \/ new = {} THEN shorter
        ELSE shorter \union UNION {BestOf(next, id) : id \in new}

\* The shortest walks, by the length that they have come to.
LEMMA ShortestEquation ==
    ASSUME NEW g, NEW from, NEW to, NEW allowed, NEW depth,
           depth \in Nat
    PROVE  LET after == ShortestWalks(g, from, to, allowed, depth)
           IN  after = [n \in 0..depth |->
                            IF n = 0 THEN {<< >>} ELSE NextShortest(g, from, to, allowed, after[n - 1], n)]
<1>. DEFINE Step(last, n) == NextShortest(g, from, to, allowed, last, n)
            IsUpTo(f, N) == f = [n \in 0..N |-> IF n = 0 THEN {<< >>} ELSE Step(f[n - 1], n)]
            Defined == {N \in Nat : \E f : IsUpTo(f, N)}
<1>1. 0 \in Defined
    <2>. DEFINE f == [n \in 0..0 |-> {<< >>}]
    <2>1. IsUpTo(f, 0)
        OBVIOUS
    <2>. QED  BY <2>1
<1>2. ASSUME NEW N \in Nat, N \in Defined PROVE N + 1 \in Defined
    <2>1. PICK f : IsUpTo(f, N)
        BY <1>2
    <2>. DEFINE h == [n \in 0..N + 1 |-> IF n \in 0..N THEN f[n] ELSE Step(f[N], N + 1)]
    <2>. HIDE DEF Step
    <2>2. ASSUME NEW n \in 0..N + 1 PROVE h[n] = IF n = 0 THEN {<< >>} ELSE Step(h[n - 1], n)
        <3>1. CASE n \in 0..N
            <4>1. h[n] = f[n] /\ (n # 0 => n - 1 \in 0..N /\ h[n - 1] = f[n - 1])
                BY <3>1
            <4>. QED  BY <2>1, <3>1, <4>1
        <3>2. CASE n \notin 0..N
            <4>1. n = N + 1 /\ n - 1 = N /\ n # 0 /\ N \in 0..N
                BY <3>2
            <4>2. h[n] = Step(f[N], N + 1) /\ h[n - 1] = f[N]
                BY <3>2, <4>1
            <4>. QED  BY <4>1, <4>2
        <3>. QED  BY <3>1, <3>2
    <2>3. IsUpTo(h, N + 1)
        <3>1. h = [n \in 0..N + 1 |-> h[n]]
            OBVIOUS
        <3>. HIDE DEF h
        <3>. QED  BY <2>2, <3>1
    <2>. HIDE DEF h, IsUpTo
    <2>4. \E up : IsUpTo(up, N + 1)
        BY <2>3
    <2>. QED  BY <2>4
<1>3. depth \in Nat
    OBVIOUS
<1>4. Nat \subseteq Defined
    <2>. HIDE DEF Defined
    <2>. QED  BY <1>1, <1>2, AllNumbers
<1>5. PICK f : IsUpTo(f, depth)
    BY <1>3, <1>4
<1>6. \E up : up = [n \in 0..depth |-> IF n = 0 THEN {<< >>} ELSE NextShortest(g, from, to, allowed, up[n - 1], n)]
    BY <1>5
<1>. QED  BY <1>6 DEF ShortestWalks, NextShortest

\* A step in breadth takes some of the extensions.
LEMMA NextShortestOf ==
    ASSUME NEW g, NEW from, NEW to, NEW allowed, NEW shorter, NEW n
    PROVE  NextShortest(g, from, to, allowed, shorter, n)
             \subseteq shorter \union Extensions(g, from, allowed, {p \in shorter : Len(p) = n - 1})
<1>. DEFINE BestOf(paths, id) == FirstOf({p \in paths : End(from, p) = id}, 1, FoundBefore)
            reached == {End(from, p) : p \in shorter}
            next == Extensions(g, from, allowed, {p \in shorter : Len(p) = n - 1})
            new == {End(from, p) : p \in next} \ reached
<1>1. NextShortest(g, from, to, allowed, shorter, n) =
        IF to \in reached \/ new = {} THEN shorter ELSE shorter \union UNION {BestOf(next, id) : id \in new}
    BY DEF NextShortest
<1>. HIDE DEF next, new, reached
<1>2. \A id : BestOf(next, id) \subseteq next
    BY DEF FirstOf
<1>. HIDE DEF BestOf
<1>. QED  BY <1>1, <1>2 DEF next

\* A walk: from one node along edges of the graph, each from where the last one led.
IsWalk(g, from, p) ==
    /\ p \in Seq(EdgeKeysOf)
    /\ \A i \in DOMAIN p : p[i] \in DOMAIN g.edges /\ p[i][1] = IF i = 1 THEN from ELSE p[i - 1][3]

\* To stay is a walk.
LEMMA EmptyWalk ==
    ASSUME NEW g, NEW from
    PROVE  IsWalk(g, from, << >>) /\ Len(<< >>) = 0 /\ End(from, << >>) = from
BY DEF IsWalk, End

\* A walk and an edge from its end are a walk.
LEMMA WalkOn ==
    ASSUME NEW g, IsGraph(g), NEW from, NEW p, IsWalk(g, from, p), NEW e \in DOMAIN g.edges, e[1] = End(from, p)
    PROVE  IsWalk(g, from, Append(p, e)) /\ Len(Append(p, e)) = Len(p) + 1
<1>. DEFINE q == Append(p, e)
<1>1. e \in EdgeKeysOf /\ p \in Seq(EdgeKeysOf) /\ Len(p) \in Nat
    BY DEF IsGraph, IsWalk
<1>2. q \in Seq(EdgeKeysOf) /\ Len(q) = Len(p) + 1 /\ q[Len(p) + 1] = e /\ \A i \in 1..Len(p) : q[i] = p[i]
    BY <1>1
<1>3. DOMAIN q = 1..Len(p) + 1 /\ DOMAIN p = 1..Len(p)
    BY <1>1, <1>2
<1>. HIDE DEF q
<1>4. ASSUME NEW i \in DOMAIN q
      PROVE  q[i] \in DOMAIN g.edges /\ q[i][1] = IF i = 1 THEN from ELSE q[i - 1][3]
    <2>1. CASE i \in 1..Len(p)
        <3>1. q[i] = p[i] /\ (i # 1 => i - 1 \in 1..Len(p) /\ q[i - 1] = p[i - 1])
            BY <1>1, <1>2, <2>1
        <3>. QED  BY <1>3, <2>1, <3>1 DEF IsWalk
    <2>2. CASE i = Len(p) + 1
        <3>1. q[i] = e
            BY <1>2, <2>2
        <3>2. CASE p = << >>
            <4>1. i = 1
                BY <2>2, <3>2
            <4>. QED  BY <3>1, <3>2, <4>1 DEF End
        <3>3. CASE p # << >>
            <4>1. i # 1 /\ i - 1 = Len(p) /\ Len(p) \in 1..Len(p)
                BY <1>1, <2>2, <3>3
            <4>2. q[i - 1] = p[Len(p)] /\ End(from, p) = p[Len(p)][3]
                BY <1>2, <3>3, <4>1 DEF End, Last
            <4>. QED  BY <3>1, <4>1, <4>2
        <3>. QED  BY <3>2, <3>3
    <2>. QED  BY <1>1, <1>3, <2>1, <2>2
<1>. QED  BY <1>2, <1>4 DEF IsWalk, q

AreWalks(g, from, paths, n) == \A p \in paths : IsWalk(g, from, p) /\ Len(p) \in 0..n

\* Extensions of walks are walks, longer by one edge.
LEMMA ExtensionsAreWalks ==
    ASSUME NEW g, IsGraph(g), NEW from, NEW allowed, NEW n \in Nat, NEW paths, AreWalks(g, from, paths, n)
    PROVE  AreWalks(g, from, Extensions(g, from, allowed, paths), n + 1)
<1>1. ASSUME NEW q \in Extensions(g, from, allowed, paths)
      PROVE  \E p \in paths : \E e \in DOMAIN g.edges : q = Append(p, e) /\ e[1] = End(from, p)
    BY DEF Extensions, Outgoing
<1>2. ASSUME NEW q \in Extensions(g, from, allowed, paths)
      PROVE  IsWalk(g, from, q) /\ Len(q) \in 0..n + 1
    <2>1. PICK p \in paths, e \in DOMAIN g.edges : q = Append(p, e) /\ e[1] = End(from, p)
        BY <1>1
    <2>2. IsWalk(g, from, p) /\ Len(p) \in 0..n
        BY DEF AreWalks
    <2>3. IsWalk(g, from, q) /\ Len(q) = Len(p) + 1
        BY <2>1, <2>2, WalkOn
    <2>. QED  BY <2>2, <2>3
<1>. QED  BY <1>2 DEF AreWalks

\* The search in depth finds walks.
LEMMA SimplePathsAreWalks ==
    ASSUME NEW g, IsGraph(g), NEW from, NEW allowed, NEW depth \in Nat
    PROVE  AreWalks(g, from, SimplePaths(g, from, allowed, depth), depth)
<1>. DEFINE upTo == Walks(g, from, allowed, depth)
            S == {n \in Nat : AreWalks(g, from, upTo[n], n)}
<1>1. upTo = [n \in 0..depth |-> IF n = 0 THEN {<< >>}
                                 ELSE LET shorter == upTo[n - 1]
                                      IN  shorter \union Extensions(g, from, allowed, {p \in shorter : Len(p) = n - 1})]
    BY WalksEquation
<1>. HIDE DEF upTo
<1>2. upTo[0] = {<< >>}
    BY <1>1
<1>3. 0 \in S
    BY <1>2, EmptyWalk DEF AreWalks
<1>4. ASSUME NEW n \in 0..depth, n # depth, n \in S PROVE n + 1 \in S
    <2>. DEFINE longest == {p \in upTo[n] : Len(p) = n}
    <2>1. n + 1 \in 0..depth /\ n + 1 # 0 /\ (n + 1) - 1 = n /\ n \in Nat
        BY <1>4
    <2>2. upTo[n + 1] = upTo[n] \union Extensions(g, from, allowed, longest)
        <3>. DEFINE before == upTo[(n + 1) - 1]
                    last == {p \in before : Len(p) = (n + 1) - 1}
        <3>1. before = upTo[n] /\ last = longest
            BY <2>1
        <3>2. upTo[n + 1] = before \union Extensions(g, from, allowed, last)
            BY <1>1, <2>1
        <3>. HIDE DEF before, last, longest
        <3>. QED  BY <3>1, <3>2
    <2>3. AreWalks(g, from, upTo[n], n) /\ AreWalks(g, from, longest, n)
        BY <1>4 DEF AreWalks
    <2>. HIDE DEF longest
    <2>4. AreWalks(g, from, Extensions(g, from, allowed, longest), n + 1)
        BY <2>1, <2>3, ExtensionsAreWalks
    <2>. QED  BY <2>1, <2>2, <2>3, <2>4 DEF AreWalks
<1>5. 0..depth \subseteq S
    <2>. HIDE DEF S
    <2>. QED  BY <1>3, <1>4, AllNumbersUpTo
<1>. QED  BY <1>5 DEF SimplePaths, upTo

\* So does the search in breadth.
LEMMA ShortestWalksAreWalks ==
    ASSUME NEW g, IsGraph(g), NEW from, NEW to, NEW allowed, NEW depth \in Nat
    PROVE  AreWalks(g, from, ShortestWalks(g, from, to, allowed, depth)[depth], depth)
<1>. DEFINE upTo == ShortestWalks(g, from, to, allowed, depth)
            S == {n \in Nat : AreWalks(g, from, upTo[n], n)}
<1>1. upTo = [n \in 0..depth |-> IF n = 0 THEN {<< >>} ELSE NextShortest(g, from, to, allowed, upTo[n - 1], n)]
    BY ShortestEquation
<1>. HIDE DEF upTo
<1>2. upTo[0] = {<< >>}
    BY <1>1
<1>3. 0 \in S
    BY <1>2, EmptyWalk DEF AreWalks
<1>4. ASSUME NEW n \in 0..depth, n # depth, n \in S PROVE n + 1 \in S
    <2>. DEFINE longest == {p \in upTo[n] : Len(p) = n}
    <2>1. n + 1 \in 0..depth /\ n + 1 # 0 /\ (n + 1) - 1 = n /\ n \in Nat
        BY <1>4
    <2>2. upTo[n + 1] = NextShortest(g, from, to, allowed, upTo[n], n + 1)
        BY <1>1, <2>1
    <2>3. AreWalks(g, from, upTo[n], n) /\ AreWalks(g, from, longest, n)
        BY <1>4 DEF AreWalks
    <2>4. upTo[n + 1] \subseteq upTo[n] \union Extensions(g, from, allowed, longest)
        <3>. DEFINE last == {p \in upTo[n] : Len(p) = (n + 1) - 1}
        <3>1. last = longest
            BY <2>1
        <3>2. NextShortest(g, from, to, allowed, upTo[n], n + 1)
                \subseteq upTo[n] \union Extensions(g, from, allowed, last)
            BY NextShortestOf
        <3>. HIDE DEF last, longest
        <3>. QED  BY <2>2, <3>1, <3>2
    <2>. HIDE DEF longest
    <2>5. AreWalks(g, from, Extensions(g, from, allowed, longest), n + 1)
        BY <2>1, <2>3, ExtensionsAreWalks
    <2>. QED  BY <2>1, <2>3, <2>4, <2>5 DEF AreWalks
<1>5. 0..depth \subseteq S
    <2>. HIDE DEF S
    <2>. QED  BY <1>3, <1>4, AllNumbersUpTo
<1>. QED  BY <1>5 DEF upTo

-----------------------------------------------------------------------------
(***************************************************************************)
(* Steps.  What a walk becomes in a report, with what leads to it from the *)
(* internet.                                                               *)
(***************************************************************************)
Grades == {"low", "medium", "high"}
StepSources == {"plan", "cloud_context", "mixed", "inferred"}

AreSteps(steps, n) ==
    /\ steps \in Seq(Range(steps)) /\ Len(steps) \in 0..n
    /\ \A i \in DOMAIN steps : steps[i].confidence \in Grades /\ steps[i].source \in StepSources

\* What is not supposed follows the edges of the graph, one after the other.
Follow(g, steps) ==
    \A i \in DOMAIN steps :
        steps[i].action[1] = "graph" /\ steps[i].source # "inferred" =>
            /\ <<steps[i].from, steps[i].action[2], steps[i].to>> \in DOMAIN g.edges
            /\ g.edges[<<steps[i].from, steps[i].action[2], steps[i].to>>].confidence = steps[i].confidence
            /\ i > 1 => steps[i - 1].to = steps[i].from

\* confidenceForPath: what is certain is certain in every step, and nothing of it supposed.
LEMMA ConfidenceOfSteps ==
    ASSUME NEW steps, NEW n, AreSteps(steps, n)
    PROVE  /\ ConfidenceForPath(steps) \in Grades
           /\ ConfidenceForPath(steps) = "high" =>
                 \A i \in DOMAIN steps : steps[i].confidence = "high" /\ steps[i].source # "inferred"
<1>1. ConfidenceForPath(steps) \in Grades
    BY DEF ConfidenceForPath, Grades
<1>2. ASSUME ConfidenceForPath(steps) = "high", NEW i \in DOMAIN steps
      PROVE  steps[i].confidence = "high" /\ steps[i].source # "inferred"
    <2>1. steps[i].confidence # "low" /\ steps[i].confidence # "medium" /\ steps[i].source # "inferred"
        BY <1>2 DEF ConfidenceForPath
    <2>. QED  BY <2>1 DEF AreSteps, Grades
<1>. QED  BY <1>1, <1>2

\* stepsFromGraphPath
LEMMA StepsOfWalk ==
    ASSUME NEW g, IsGraph(g), NEW from, NEW p, IsWalk(g, from, p)
    PROVE  LET steps == StepsOf(g, p)
           IN  /\ AreSteps(steps, Len(p)) /\ Follow(g, steps)
               /\ DOMAIN steps = 1..Len(p) /\ Len(p) \in Nat
               /\ p # << >> => steps[1].from = from /\ Len(p) \in DOMAIN steps /\ steps[Len(p)].to = End(from, p)
<1>. DEFINE steps == StepsOf(g, p)
            n == Len(p)
<1>1. p \in Seq(EdgeKeysOf) /\ n \in Nat /\ DOMAIN p = 1..n
    BY DEF IsWalk
<1>2. DOMAIN steps = 1..n
    BY <1>1 DEF StepsOf
<1>3. ASSUME NEW i \in 1..n
      PROVE  /\ p[i] \in DOMAIN g.edges /\ p[i] = <<p[i][1], p[i][2], p[i][3]>>
             /\ p[i][1] = IF i = 1 THEN from ELSE p[i - 1][3]
    <2>1. p[i] \in EdgeKeysOf
        BY <1>1
    <2>2. p[i] = <<p[i][1], p[i][2], p[i][3]>>
        BY <2>1 DEF EdgeKeysOf
    <2>. QED  BY <1>1, <2>2 DEF IsWalk
<1>4. steps \in Seq(Range(steps)) /\ Len(steps) = n
    <2>1. steps = [i \in 1..n |-> steps[i]]
        BY <1>2 DEF StepsOf
    <2>. HIDE DEF steps
    <2>2. \A i \in 1..n : steps[i] \in Range(steps)
        BY <1>2 DEF Range
    <2>3. steps \in [1..n -> Range(steps)]
        BY <2>1, <2>2
    <2>4. steps \in Seq(Range(steps))
        BY <1>1, <2>3
    <2>. QED  BY <1>1, <1>2, <2>4
<1>. HIDE DEF steps, n
<1>5. ASSUME NEW i \in 1..n
      PROVE  /\ steps[i].confidence \in Grades /\ steps[i].source \in StepSources
             /\ steps[i].from = p[i][1] /\ steps[i].to = p[i][3] /\ steps[i].action[2] = p[i][2]
             /\ steps[i].confidence = g.edges[p[i]].confidence
    <2>1. g.edges[p[i]] \in Provenances
        BY <1>3 DEF IsGraph
    <2>2. g.edges[p[i]].confidence \in Grades /\ g.edges[p[i]].source \in StepSources
        BY <2>1 DEF Provenances, Grades, StepSources
    <2>3. steps[i] = [from |-> p[i][1], to |-> p[i][3], action |-> <<"graph", p[i][2]>>,
                      source |-> g.edges[p[i]].source, confidence |-> g.edges[p[i]].confidence]
        BY <1>1 DEF StepsOf, steps
    <2>4. /\ steps[i].from = p[i][1] /\ steps[i].to = p[i][3] /\ steps[i].action = <<"graph", p[i][2]>>
          /\ steps[i].source = g.edges[p[i]].source /\ steps[i].confidence = g.edges[p[i]].confidence
        BY <2>3
    <2>. QED  BY <2>2, <2>4
<1>6. ASSUME NEW i \in 1..n, i > 1 PROVE steps[i - 1].to = steps[i].from
    <2>1. i - 1 \in 1..n /\ i # 1
        BY <1>1, <1>6
    <2>2. steps[i - 1].to = p[i - 1][3] /\ steps[i].from = p[i][1] /\ p[i][1] = p[i - 1][3]
        BY <1>3, <1>5, <2>1
    <2>. QED  BY <2>2
<1>7. Follow(g, steps)
    <2>. SUFFICES ASSUME NEW i \in 1..n
                  PROVE  /\ <<steps[i].from, steps[i].action[2], steps[i].to>> \in DOMAIN g.edges
                         /\ g.edges[<<steps[i].from, steps[i].action[2], steps[i].to>>].confidence = steps[i].confidence
                         /\ i > 1 => steps[i - 1].to = steps[i].from
        BY <1>2 DEF Follow
    <2>1. <<steps[i].from, steps[i].action[2], steps[i].to>> = p[i]
        BY <1>3, <1>5
    <2>2. p[i] \in DOMAIN g.edges /\ g.edges[p[i]].confidence = steps[i].confidence
        BY <1>3, <1>5
    <2>. QED  BY <1>6, <2>1, <2>2
<1>8. AreSteps(steps, n)
    BY <1>1, <1>2, <1>4, <1>5 DEF AreSteps
<1>9. ASSUME p # << >> PROVE steps[1].from = from /\ n \in 1..n /\ steps[n].to = End(from, p)
    <2>1. n # 0
        BY <1>1, <1>9 DEF n
    <2>2. 1 \in 1..n /\ n \in 1..n
        BY <1>1, <2>1
    <2>3. End(from, p) = p[n][3]
        BY <1>9 DEF End, Last, n
    <2>. QED  BY <1>3, <1>5, <2>2, <2>3
<1>. QED  BY <1>1, <1>2, <1>7, <1>8, <1>9 DEF steps, n

\* One sequence after another.
LEMMA Concatenated ==
    ASSUME NEW T, NEW first \in Seq(T), NEW steps \in Seq(T)
    PROVE  /\ (first \o steps) \in Seq(T) /\ Len(first \o steps) = Len(first) + Len(steps)
           /\ \A i \in 1..Len(first) + Len(steps) :
                 (first \o steps)[i] = IF i <= Len(first) THEN first[i] ELSE steps[i - Len(first)]
OBVIOUS

\* One step, and others after it.
LEMMA OneAndOthers ==
    ASSUME NEW T, NEW first \in Seq(T), Len(first) = 1, NEW steps \in Seq(T), NEW m, m = Len(steps)
    PROVE  /\ Len(first \o steps) = m + 1 /\ DOMAIN (first \o steps) = 1..m + 1
           /\ (first \o steps)[1] = first[1] /\ \A i \in 1..m : (first \o steps)[i + 1] = steps[i]
<1>. DEFINE all == first \o steps
<1>1. m \in Nat
    OBVIOUS
<1>2. /\ all \in Seq(T) /\ Len(all) = Len(first) + Len(steps)
      /\ \A i \in 1..Len(first) + Len(steps) : all[i] = IF i <= Len(first) THEN first[i] ELSE steps[i - Len(first)]
    BY Concatenated
<1>. HIDE DEF all
<1>3. Len(all) = m + 1 /\ DOMAIN all = 1..m + 1
    BY <1>1, <1>2
<1>4. all[1] = first[1]
    BY <1>1, <1>2
<1>5. ASSUME NEW i \in 1..m PROVE all[i + 1] = steps[i]
    <2>1. i + 1 \in 1..1 + m /\ ~(i + 1 <= 1) /\ (i + 1) - 1 = i
        BY <1>1
    <2>. QED  BY <1>2, <2>1
<1>. QED  BY <1>3, <1>4, <1>5 DEF all

\* withPublicIngress: what comes first leads to where the rest begins.
LEMMA StepsWithIngress ==
    ASSUME NEW g, IsGraph(g), NEW entrypoint, NEW steps, NEW n \in Nat, AreSteps(steps, n), Follow(g, steps),
           steps # << >> => steps[1].from = entrypoint,
           NEW all, all = WithPublicIngress(g, entrypoint, steps)
    PROVE  /\ AreSteps(all, n + 1) /\ Follow(g, all)
           /\ \A i \in DOMAIN steps : \E j \in DOMAIN all : all[j].to = steps[i].to
           /\ HasPublicInboundEdge(g, entrypoint) => \E j \in DOMAIN all : all[j].to = entrypoint
<1>. DEFINE ingress == {e \in Incoming(g, entrypoint) : e[1] = Internet}
<1>1. CASE ingress = {}
    <2>1. all = steps
        BY <1>1 DEF WithPublicIngress
    <2>2. ~HasPublicInboundEdge(g, entrypoint)
        BY <1>1 DEF HasPublicInboundEdge, Incoming
    <2>3. AreSteps(steps, n + 1)
        BY DEF AreSteps
    <2>. QED  BY <2>1, <2>2, <2>3
<1>2. CASE ingress # {}
    <2>. DEFINE e == FirstEdge(ingress)
                first == StepsOf(g, <<e>>)
                m == Len(steps)
    <2>1. ingress \subseteq EdgeKeysOf
        BY DEF Incoming, IsGraph
    <2>2. e \in DOMAIN g.edges /\ e \in EdgeKeysOf /\ e[3] = entrypoint
        <3>. HIDE DEF ingress
        <3>1. e \in ingress
            BY <1>2, <2>1, EdgesByKey
        <3>. QED  BY <2>1, <3>1 DEF ingress, Incoming
    <2>3. all = first \o steps
        BY <1>2 DEF WithPublicIngress
    <2>. HIDE DEF ingress, e
    <2>4. IsWalk(g, e[1], <<e>>)
        BY <2>2 DEF IsWalk
    <2>5. Len(<<e>>) = 1 /\ <<e>> # << >> /\ End(e[1], <<e>>) = e[3]
        BY DEF End, Last
    <2>6. /\ AreSteps(first, 1) /\ Follow(g, first) /\ DOMAIN first = 1..1 /\ first[1].to = entrypoint
        BY <2>2, <2>4, <2>5, StepsOfWalk
    <2>. HIDE DEF first
    <2>7. first \in Seq(Range(first)) /\ Len(first) = 1 /\ steps \in Seq(Range(steps)) /\ m \in 0..n
          /\ DOMAIN steps = 1..m
        BY <2>6 DEF AreSteps
    <2>8. Len(all) = m + 1 /\ DOMAIN all = 1..m + 1 /\ all[1] = first[1] /\ \A i \in 1..m : all[i + 1] = steps[i]
        <3>. DEFINE both == Range(first) \union Range(steps)
        <3>1. first \in Seq(both) /\ steps \in Seq(both)
            BY <2>7
        <3>. HIDE DEF both
        <3>2. Len(first) = 1 /\ m = Len(steps)
            BY <2>7
        <3>. HIDE DEF m
        <3>. QED  BY <2>3, <3>1, <3>2, OneAndOthers
    <2>9. ASSUME NEW i \in 2..m + 1 PROVE i - 1 \in 1..m /\ all[i] = steps[i - 1]
        <3>1. i - 1 \in 1..m /\ (i - 1) + 1 = i
            BY <2>7
        <3>. QED  BY <2>8, <3>1
    <2>10. \A i \in 1..m + 1 : i = 1 \/ i \in 2..m + 1
        BY <2>7
    <2>11. all \in Seq(Range(all))
        <3>1. all \in Seq(Range(first) \union Range(steps))
            BY <2>3, <2>7
        <3>2. all = [i \in 1..m + 1 |-> all[i]]
            BY <2>8, <3>1
        <3>3. \A i \in 1..m + 1 : all[i] \in Range(all)
            BY <2>8 DEF Range
        <3>4. all \in [1..m + 1 -> Range(all)]
            BY <3>2, <3>3
        <3>. QED  BY <2>7, <3>4
    <2>12. AreSteps(all, n + 1)
        <3>1. ASSUME NEW i \in DOMAIN all PROVE all[i].confidence \in Grades /\ all[i].source \in StepSources
            <4>1. CASE i = 1
                <5>1. first[1].confidence \in Grades /\ first[1].source \in StepSources
                    BY <2>6 DEF AreSteps
                <5>. QED  BY <2>8, <4>1, <5>1
            <4>2. CASE i \in 2..m + 1
                <5>1. all[i] = steps[i - 1] /\ i - 1 \in DOMAIN steps
                    BY <2>7, <2>9, <4>2
                <5>. QED  BY <5>1 DEF AreSteps
            <4>. QED  BY <2>8, <2>10, <4>1, <4>2
        <3>. QED  BY <2>7, <2>8, <2>11, <3>1 DEF AreSteps
    <2>13. Follow(g, all)
        <3>. SUFFICES ASSUME NEW i \in DOMAIN all, all[i].action[1] = "graph", all[i].source # "inferred"
                      PROVE  /\ <<all[i].from, all[i].action[2], all[i].to>> \in DOMAIN g.edges
                             /\ g.edges[<<all[i].from, all[i].action[2], all[i].to>>].confidence = all[i].confidence
                             /\ i > 1 => all[i - 1].to = all[i].from
            BY DEF Follow
        <3>1. CASE i = 1
            <4>1. all[i] = first[1] /\ 1 \in DOMAIN first
                BY <2>6, <2>8, <3>1
            <4>. QED  BY <2>6, <3>1, <4>1 DEF Follow
        <3>2. CASE i \in 2..m + 1
            <4>1. all[i] = steps[i - 1] /\ i - 1 \in DOMAIN steps
                BY <2>7, <2>9, <3>2
            <4>2. /\ <<all[i].from, all[i].action[2], all[i].to>> \in DOMAIN g.edges
                  /\ g.edges[<<all[i].from, all[i].action[2], all[i].to>>].confidence = all[i].confidence
                  /\ i - 1 > 1 => steps[(i - 1) - 1].to = all[i].from
                BY <4>1 DEF Follow
            <4>3. all[i - 1].to = all[i].from
                <5>1. CASE i = 2
                    <6>1. i - 1 = 1 /\ steps # << >>
                        BY <2>7, <4>1, <5>1
                    <6>. QED  BY <2>6, <2>8, <4>1, <6>1
                <5>2. CASE i # 2
                    <6>1. i - 1 \in 2..m + 1 /\ i - 1 > 1
                        BY <2>7, <3>2, <5>2
                    <6>. QED  BY <2>9, <4>2, <6>1
                <5>. QED  BY <5>1, <5>2
            <4>. QED  BY <4>2, <4>3
        <3>. QED  BY <2>8, <2>10, <3>1, <3>2
    <2>14. ASSUME NEW i \in DOMAIN steps PROVE \E j \in DOMAIN all : all[j].to = steps[i].to
        <3>1. i + 1 \in DOMAIN all /\ all[i + 1] = steps[i]
            BY <2>7, <2>8
        <3>. QED  BY <3>1
    <2>15. \E j \in DOMAIN all : all[j].to = entrypoint
        <3>1. 1 \in DOMAIN all
            BY <2>7, <2>8
        <3>. QED  BY <2>6, <2>8, <3>1
    <2>. QED  BY <2>12, <2>13, <2>14, <2>15
<1>. QED  BY <1>1, <1>2

-----------------------------------------------------------------------------
(***************************************************************************)
(* Attack paths from the internet.                                         *)
(***************************************************************************)

\* What is certain leads to its target along certain steps, without a gap.
SoundPath(g, p) ==
    p.confidence = "high" =>
        /\ \A i \in DOMAIN p.steps :
              /\ p.steps[i].confidence = "high" /\ p.steps[i].source # "inferred"
              /\ p.steps[i].action[1] = "graph" =>
                    /\ <<p.steps[i].from, p.steps[i].action[2], p.steps[i].to>> \in DOMAIN g.edges
                    /\ CertainEdge(g, <<p.steps[i].from, p.steps[i].action[2], p.steps[i].to>>)
                    /\ i > 1 => p.steps[i - 1].to = p.steps[i].from
        /\ \E i \in DOMAIN p.steps : p.steps[i].to = p.target
        /\ p.type = PublicToSensitive /\ p.decision = "block" =>
              IsSensitiveKind(g.nodes[p.target].kind) \/ p.pattern = "public_eks_cluster_admin"

IsAttackPath(g, p, n) == p.confidence \in Grades /\ AreSteps(p.steps, n) /\ SoundPath(g, p)

\* A path whose confidence is that of its steps.
LEMMA PathByItsSteps ==
    ASSUME NEW g, NEW n, NEW p, AreSteps(p.steps, n), Follow(g, p.steps), p.confidence = ConfidenceForPath(p.steps),
           \E i \in DOMAIN p.steps : p.steps[i].to = p.target,
           p.type = PublicToSensitive /\ p.decision = "block" =>
              IsSensitiveKind(g.nodes[p.target].kind) \/ p.pattern = "public_eks_cluster_admin"
    PROVE  IsAttackPath(g, p, n)
<1>1. p.confidence \in Grades
    BY ConfidenceOfSteps
<1>2. ASSUME p.confidence = "high", NEW i \in DOMAIN p.steps
      PROVE  /\ p.steps[i].confidence = "high" /\ p.steps[i].source # "inferred"
             /\ p.steps[i].action[1] = "graph" =>
                    /\ <<p.steps[i].from, p.steps[i].action[2], p.steps[i].to>> \in DOMAIN g.edges
                    /\ CertainEdge(g, <<p.steps[i].from, p.steps[i].action[2], p.steps[i].to>>)
                    /\ i > 1 => p.steps[i - 1].to = p.steps[i].from
    <2>1. p.steps[i].confidence = "high" /\ p.steps[i].source # "inferred"
        BY <1>2, ConfidenceOfSteps
    <2>. QED  BY <2>1 DEF Follow, CertainEdge
<1>3. SoundPath(g, p)
    BY <1>2 DEF SoundPath
<1>. QED  BY <1>1, <1>3 DEF IsAttackPath

\* A path from an entrypoint, of steps and what leads to them.
LEMMA PublicPathIsOne ==
    ASSUME NEW g, IsGraph(g), NEW entrypoint, NEW steps, NEW n \in Nat, AreSteps(steps, n), Follow(g, steps),
           steps # << >> => steps[1].from = entrypoint,
           NEW target, NEW verdict, NEW pattern,
           verdict.decision = "block" => IsSensitiveKind(g.nodes[target].kind) \/ pattern = "public_eks_cluster_admin",
           \/ \E i \in DOMAIN steps : steps[i].to = target
           \/ target = entrypoint /\ HasPublicInboundEdge(g, entrypoint)
    PROVE  IsAttackPath(g, PublicPath(entrypoint, target, WithPublicIngress(g, entrypoint, steps), verdict, pattern), n + 1)
<1>. DEFINE all == WithPublicIngress(g, entrypoint, steps)
            p == PublicPath(entrypoint, target, all, verdict, pattern)
<1>0. all = WithPublicIngress(g, entrypoint, steps)
    OBVIOUS
<1>. HIDE DEF all
<1>1. /\ AreSteps(all, n + 1) /\ Follow(g, all)
      /\ \A i \in DOMAIN steps : \E j \in DOMAIN all : all[j].to = steps[i].to
      /\ HasPublicInboundEdge(g, entrypoint) => \E j \in DOMAIN all : all[j].to = entrypoint
    BY <1>0, StepsWithIngress
<1>2. p.steps = all /\ p.target = target /\ p.confidence = ConfidenceForPath(all) /\ p.decision = verdict.decision
      /\ p.pattern = pattern
    BY DEF PublicPath
<1>. HIDE DEF p
<1>3. \E j \in DOMAIN all : all[j].to = target
    BY <1>1
<1>. QED  BY <1>1, <1>2, <1>3, PathByItsSteps DEF p, all

\* What a blast radius keeps are walks that lead somewhere.
LEMMA RadiusOfWalks ==
    ASSUME NEW g, IsGraph(g), NEW from, NEW depth \in Nat, NEW cap
    PROVE  \A p \in BlastRadius(g, from, depth, cap).paths : IsWalk(g, from, p) /\ Len(p) \in 0..depth /\ p # << >>
<1>. DEFINE simple == SimplePaths(g, from, ReachabilityEdges, depth)
<1>1. BlastRadius(g, from, depth, cap).paths \subseteq simple \ {<< >>}
    BY DEF BlastRadius, FirstOf
<1>2. AreWalks(g, from, simple, depth)
    BY SimplePathsAreWalks
<1>. QED  BY <1>1, <1>2 DEF AreWalks

\* DetectPublicToSensitive, for one entrypoint.
LEMMA FromEntrypointPaths ==
    ASSUME NEW g, IsGraph(g), NEW entrypoint, HasPublicInboundEdge(g, entrypoint),
           NEW depth \in Nat, NEW cap, NEW n \in Nat, depth + 1 <= n, Len(Addresses) + 1 <= n, 2 <= n
    PROVE  \A p \in FromEntrypoint(g, entrypoint, depth, cap) : IsAttackPath(g, p, n)
<1>. DEFINE radius == BlastRadius(g, entrypoint, depth, cap)
<1>1. ASSUME NEW m \in Nat, m + 1 <= n, NEW p, IsAttackPath(g, p, m + 1) PROVE IsAttackPath(g, p, n)
    BY <1>1 DEF IsAttackPath, AreSteps
<1>2. ASSUME NEW path, IsWalk(g, entrypoint, path), NEW verdict, NEW pattern, path # << >>, Len(path) \in 0..depth,
             verdict.decision = "block" => IsSensitiveKind(g.nodes[End(entrypoint, path)].kind)
      PROVE  IsAttackPath(g, PublicPath(entrypoint, End(entrypoint, path),
                                        WithPublicIngress(g, entrypoint, StepsOf(g, path)), verdict, pattern), n)
    <2>. DEFINE steps == StepsOf(g, path)
    <2>1. /\ AreSteps(steps, Len(path)) /\ Follow(g, steps) /\ Len(path) \in Nat
          /\ steps[1].from = entrypoint /\ Len(path) \in DOMAIN steps /\ steps[Len(path)].to = End(entrypoint, path)
        BY <1>2, StepsOfWalk
    <2>. HIDE DEF steps
    <2>2. Len(path) + 1 <= n
        BY <1>2
    <2>. QED  BY <1>1, <1>2, <2>1, <2>2, PublicPathIsOne DEF steps
<1>3. ASSUME NEW p \in DetectSensitivePaths(g, entrypoint, radius) PROVE IsAttackPath(g, p, n)
    <2>. DEFINE StepsTo(path) == WithPublicIngress(g, entrypoint, StepsOf(g, path))
                Verdict(path) == [decision |-> IF ConfidenceForPath(StepsTo(path)) = "high" THEN "block" ELSE "warn",
                                  severity |-> IF ConfidenceForPath(StepsTo(path)) = "high" THEN "critical" ELSE "high"]
    <2>1. PICK path \in radius.paths :
            /\ IsSensitiveKind(g.nodes[End(entrypoint, path)].kind)
            /\ p = PublicPath(entrypoint, End(entrypoint, path), StepsTo(path), Verdict(path), "sensitive")
        BY DEF DetectSensitivePaths
    <2>2. IsWalk(g, entrypoint, path) /\ Len(path) \in 0..depth /\ path # << >>
        BY RadiusOfWalks
    <2>. HIDE DEF Verdict
    <2>. QED  BY <1>2, <2>1, <2>2
<1>4. ASSUME NEW p \in DetectPublicWorkloadWarnings(g, entrypoint, radius) PROVE IsAttackPath(g, p, n)
    <2>. DEFINE verdict == [decision |-> "warn", severity |-> "medium"]
    <2>1. PICK path \in radius.paths :
            p = PublicPath(entrypoint, End(entrypoint, path), WithPublicIngress(g, entrypoint, StepsOf(g, path)),
                           verdict, "workload")
        BY DEF DetectPublicWorkloadWarnings
    <2>2. IsWalk(g, entrypoint, path) /\ Len(path) \in 0..depth /\ path # << >>
        BY RadiusOfWalks
    <2>3. verdict.decision # "block"
        OBVIOUS
    <2>. HIDE DEF verdict
    <2>. QED  BY <1>2, <2>1, <2>2, <2>3
<1>5. ASSUME NEW p \in DetectPublicEKSClusterAdminRisk(g, entrypoint) PROVE IsAttackPath(g, p, n)
    <2>. DEFINE Supposed(role) == <<[from |-> entrypoint, to |-> role, action |-> <<"graph", "can_assume">>,
                                     source |-> "inferred", confidence |-> "medium"]>>
                Found(role) == ShortestPath(g, entrypoint, role, Range(EdgeTypes), Len(Addresses))
                Before(role) == IF Found(role) = {} THEN Supposed(role) ELSE StepsOf(g, CHOOSE w \in Found(role) : TRUE)
                Steps(role) == WithPublicIngress(g, entrypoint, Before(role))
                Verdict(role) == IAMDecision(ConfidenceForPath(Steps(role)), g.nodes[role])
    <2>1. PICK role : p = PublicPath(entrypoint, role, Steps(role), Verdict(role), "public_eks_cluster_admin")
        BY DEF DetectPublicEKSClusterAdminRisk
    <2>2. Len(Addresses) \in Nat
        BY GraphAssumption
    <2>3. CASE Found(role) = {}
        <3>. DEFINE step == Supposed(role)[1]
        <3>1. /\ Supposed(role) \in Seq(Range(Supposed(role))) /\ Len(Supposed(role)) = 1
              /\ DOMAIN Supposed(role) = 1..1
            <4>1. Supposed(role) = <<step>>
                OBVIOUS
            <4>. HIDE DEF step, Supposed
            <4>2. Range(<<step>>) = {step}
                BY DEF Range
            <4>. QED  BY <4>1, <4>2
        <3>2. /\ step.from = entrypoint /\ step.to = role /\ step.source = "inferred" /\ step.confidence = "medium"
            OBVIOUS
        <3>. HIDE DEF Supposed
        <3>3. AreSteps(Supposed(role), 1)
            BY <3>1, <3>2 DEF AreSteps, Grades, StepSources
        <3>4. Follow(g, Supposed(role))
            BY <3>1, <3>2 DEF Follow
        <3>5. Before(role) = Supposed(role) /\ 1 \in DOMAIN Supposed(role)
            BY <2>3, <3>1
        <3>. HIDE DEF Verdict, Before
        <3>6. IsAttackPath(g, p, 1 + 1)
            BY <2>1, <3>2, <3>3, <3>4, <3>5, PublicPathIsOne
        <3>. QED  BY <1>1, <3>6
    <2>4. CASE Found(role) # {}
        <3>. DEFINE w == CHOOSE x \in Found(role) : TRUE
                    steps == StepsOf(g, w)
                    m == Len(w)
        <3>1. w \in Found(role)
            BY <2>4
        <3>. HIDE DEF w
        <3>2. w \in ShortestWalks(g, entrypoint, role, Range(EdgeTypes), Len(Addresses))[Len(Addresses)]
              /\ End(entrypoint, w) = role
            BY <3>1 DEF ShortestPath
        <3>3. IsWalk(g, entrypoint, w) /\ m \in 0..Len(Addresses)
            BY <2>2, <3>2, ShortestWalksAreWalks DEF AreWalks
        <3>4. /\ AreSteps(steps, m) /\ Follow(g, steps) /\ m \in Nat /\ DOMAIN steps = 1..m
              /\ w # << >> => steps[1].from = entrypoint /\ m \in DOMAIN steps /\ steps[m].to = role
            BY <3>2, <3>3, StepsOfWalk
        <3>5. w = << >> => role = entrypoint /\ steps = << >>
            <4>1. w = << >> => role = entrypoint
                BY <3>2 DEF End
            <4>2. w = << >> => m = 0
                OBVIOUS
            <4>3. AreSteps(steps, m) /\ m = 0 => steps = << >>
                BY DEF AreSteps
            <4>. QED  BY <3>4, <4>1, <4>2, <4>3
        <3>6. Before(role) = steps
            BY <2>4 DEF w
        <3>7. m + 1 <= n
            BY <2>2, <3>3
        <3>. HIDE DEF steps, m, Before, Found, Verdict
        <3>8. \/ \E i \in DOMAIN steps : steps[i].to = role
              \/ role = entrypoint /\ HasPublicInboundEdge(g, entrypoint)
            BY <3>4, <3>5
        <3>9. steps # << >> => steps[1].from = entrypoint
            BY <3>4, <3>5
        <3>10. IsAttackPath(g, p, m + 1)
            BY <2>1, <3>4, <3>6, <3>8, <3>9, PublicPathIsOne
        <3>. QED  BY <1>1, <3>4, <3>7, <3>10
    <2>. QED  BY <2>3, <2>4
<1>6. FromEntrypoint(g, entrypoint, depth, cap)
        \subseteq UNION {DetectPublicEKSClusterAdminRisk(g, entrypoint), DetectSensitivePaths(g, entrypoint, radius),
                         DetectPublicWorkloadWarnings(g, entrypoint, radius)}
    BY DEF FromEntrypoint
<1>. QED  BY <1>3, <1>4, <1>5, <1>6

-----------------------------------------------------------------------------
(***************************************************************************)
(* Normalize keeps, of the paths of one meaning, one of the best; there is *)
(* a best one because merits are four numbers of which three are bounded.  *)
(***************************************************************************)

\* The preferences of sources.
LEMMA Preferences ==
    \A s \in StepSources : SourcePreference[s] \in 1..4
BY DEF SourcePreference, StepSources

\* What betterAttackPath compares.
LEMMA MeritsOfPath ==
    ASSUME NEW p, NEW n \in Nat, p.confidence \in Grades, AreSteps(p.steps, n)
    PROVE  \E a \in 1..3 : \E b \in 1..4 : \E c \in Nat : \E d \in 0..n : Merits(p) = <<a, b, -c, d>>
<1>. DEFINE steps == p.steps
            sources == {steps[i].source : i \in DOMAIN steps}
            live == {i \in DOMAIN steps : steps[i].source = "cloud_context"}
<1>1. ConfidenceRank(p.confidence) \in 1..3
    BY Ranks DEF Grades
<1>2. SourceFromSteps(steps) \in StepSources
    <2>1. sources \subseteq StepSources
        BY DEF AreSteps
    <2>2. SourceFromSteps(steps) = IF Cardinality(sources) = 1 THEN CHOOSE s \in sources : TRUE ELSE "mixed"
        BY DEF SourceFromSteps
    <2>. HIDE DEF sources
    <2>3. Cardinality(sources) = 1 => sources # {}
        BY FS_EmptySet
    <2>. QED  BY <2>1, <2>2, <2>3 DEF StepSources
<1>3. SourcePreference[SourceFromSteps(steps)] \in 1..4
    BY <1>2, Preferences
<1>4. Cardinality(live) \in Nat
    <2>1. DOMAIN steps = 1..Len(steps) /\ Len(steps) \in Nat
        BY DEF AreSteps
    <2>2. IsFiniteSet(DOMAIN steps)
        BY <2>1, FS_Interval
    <2>3. live \subseteq DOMAIN steps
        OBVIOUS
    <2>. HIDE DEF live, steps
    <2>. QED  BY <2>2, <2>3, FS_Subset, FS_CardinalityType
<1>5. Len(steps) \in 0..n
    BY DEF AreSteps
<1>6. Merits(p) = <<ConfidenceRank(p.confidence), SourcePreference[SourceFromSteps(steps)], -Cardinality(live), Len(steps)>>
    BY DEF Merits
<1>. HIDE DEF live, steps
<1>. QED  BY <1>1, <1>3, <1>4, <1>5, <1>6

\* Of some paths there is one that no other surpasses.
LEMMA BestThereIs ==
    ASSUME NEW paths, paths # {}, NEW n \in Nat,
           \A p \in paths : p.confidence \in Grades /\ AreSteps(p.steps, n)
    PROVE  \E p \in paths : \A q \in paths : ~SequenceBefore(Merits(p), Merits(q))
<1>. DEFINE A(p) == Merits(p)[1]
            B(p) == Merits(p)[2]
            C(p) == -Merits(p)[3]
            D(p) == Merits(p)[4]
            Missing(p) == <<3 - A(p), 4 - B(p), C(p), n - D(p)>>
            T == {Missing(p) : p \in paths}
<1>1. ASSUME NEW p \in paths
      PROVE  A(p) \in 1..3 /\ B(p) \in 1..4 /\ C(p) \in Nat /\ D(p) \in 0..n /\ Merits(p) = <<A(p), B(p), -C(p), D(p)>>
    <2>1. PICK a \in 1..3, b \in 1..4, c \in Nat, d \in 0..n : Merits(p) = <<a, b, -c, d>>
        BY MeritsOfPath
    <2>2. A(p) = a /\ B(p) = b /\ C(p) = c /\ D(p) = d
        BY <2>1
    <2>. QED  BY <2>1, <2>2
<1>. HIDE DEF A, B, C, D
<1>2. ASSUME NEW p \in paths PROVE Missing(p) \in Nat \X Nat \X Nat \X Nat
    <2>1. 3 - A(p) \in Nat /\ 4 - B(p) \in Nat /\ C(p) \in Nat /\ n - D(p) \in Nat
        BY <1>1
    <2>. QED  BY <2>1
<1>3. T \subseteq Nat \X Nat \X Nat \X Nat /\ T # {}
    <2>. HIDE DEF Missing
    <2>. QED  BY <1>2
<1>4. PICK m \in T : \A t \in T : NotAfter(m, t)
    <2>. HIDE DEF T
    <2>. QED  BY <1>3, LeastQuadruple
<1>5. PICK p \in paths : m = Missing(p)
    BY <1>4
<1>6. ASSUME NEW q \in paths, SequenceBefore(Merits(p), Merits(q)) PROVE FALSE
    <2>1. NotAfter(Missing(p), Missing(q))
        BY <1>4, <1>5
    <2>2. \/ 3 - A(p) < 3 - A(q)
          \/ 3 - A(p) = 3 - A(q) /\ 4 - B(p) < 4 - B(q)
          \/ 3 - A(p) = 3 - A(q) /\ 4 - B(p) = 4 - B(q) /\ C(p) < C(q)
          \/ 3 - A(p) = 3 - A(q) /\ 4 - B(p) = 4 - B(q) /\ C(p) = C(q) /\ n - D(p) <= n - D(q)
        BY <2>1 DEF NotAfter
    <2>3. /\ A(p) \in 1..3 /\ B(p) \in 1..4 /\ C(p) \in Nat /\ D(p) \in 0..n
          /\ A(q) \in 1..3 /\ B(q) \in 1..4 /\ C(q) \in Nat /\ D(q) \in 0..n
        BY <1>1
    <2>4. SequenceBefore(<<A(p), B(p), -C(p), D(p)>>, <<A(q), B(q), -C(q), D(q)>>)
        BY <1>1, <1>6
    <2>5. \/ A(p) < A(q) \/ (A(p) = A(q) /\ B(p) < B(q)) \/ (A(p) = A(q) /\ B(p) = B(q) /\ -C(p) < -C(q))
          \/ (A(p) = A(q) /\ B(p) = B(q) /\ -C(p) = -C(q) /\ D(p) < D(q))
        <3>. DEFINE x == -C(p)
                    y == -C(q)
        <3>1. /\ A(p) \in Int /\ B(p) \in Int /\ x \in Int /\ D(p) \in Int
              /\ A(q) \in Int /\ B(q) \in Int /\ y \in Int /\ D(q) \in Int
            BY <2>3
        <3>2. SequenceBefore(<<A(p), B(p), x, D(p)>>, <<A(q), B(q), y, D(q)>>)
            BY <2>4
        <3>. HIDE DEF x, y
        <3>3. \/ A(p) < A(q) \/ (A(p) = A(q) /\ B(p) < B(q)) \/ (A(p) = A(q) /\ B(p) = B(q) /\ x < y)
              \/ (A(p) = A(q) /\ B(p) = B(q) /\ x = y /\ D(p) < D(q))
            BY <3>1, <3>2, BeforeQuadruple
        <3>. QED  BY <3>3 DEF x, y
    <2>. QED  BY <2>2, <2>3, <2>5
<1>. QED  BY <1>6

\* dedupeSemanticAttackPaths keeps some of the paths it is given.
LEMMA NormalizeKeepsSome ==
    ASSUME NEW paths, NEW n \in Nat, \A p \in paths : p.confidence \in Grades /\ AreSteps(p.steps, n)
    PROVE  Normalize(paths) \subseteq paths
<1>. DEFINE Best(same) == {p \in same : \A q \in same : ~SequenceBefore(Merits(p), Merits(q))}
            Same(m) == {q \in paths : Meaning(q) = m}
<1>1. Normalize(paths) = {CHOOSE p \in Best(Same(m)) : TRUE : m \in {Meaning(p) : p \in paths}}
    BY DEF Normalize
<1>2. ASSUME NEW p \in paths PROVE Best(Same(Meaning(p))) # {}
    <2>1. Same(Meaning(p)) # {} /\ Same(Meaning(p)) \subseteq paths
        OBVIOUS
    <2>. HIDE DEF Same
    <2>2. \E x \in Same(Meaning(p)) : \A q \in Same(Meaning(p)) : ~SequenceBefore(Merits(x), Merits(q))
        BY <2>1, BestThereIs
    <2>. QED  BY <2>2
<1>3. \A m : Best(Same(m)) \subseteq paths
    OBVIOUS
<1>. HIDE DEF Best, Same
<1>. QED  BY <1>1, <1>2, <1>3

-----------------------------------------------------------------------------
(***************************************************************************)
(* Privilege escalation.                                                   *)
(***************************************************************************)

\* What is granted is granted with a grade of confidence.
LEMMA GrantsAreGraded ==
    ASSUME NEW g, IsGraph(g), NEW grant \in CollectIAMGrants(g)
    PROVE  grant.confidence \in Grades
<1>1. ASSUME NEW id, NEW x \in GrantFromObservedActions(g, id) PROVE x.confidence \in Grades
    BY DEF GrantFromObservedActions, Grades
<1>2. ASSUME NEW id, NEW x \in GrantsFromCloudActionEdges(g, id) PROVE x.confidence \in Grades
    <2>. DEFINE taken == {e \in Outgoing(g, id, {"grants_permission"}) : e[3] \in DOMAIN ActionNodes}
                uncertain == {e \in taken : g.edges[e].confidence # "high"}
    <2>1. x.confidence = IF uncertain = {} THEN "high" ELSE g.edges[LastEdge(uncertain)].confidence
        BY DEF GrantsFromCloudActionEdges
    <2>2. uncertain \subseteq DOMAIN g.edges /\ uncertain \subseteq EdgeKeysOf
        BY DEF Outgoing, IsGraph
    <2>. HIDE DEF uncertain
    <2>3. uncertain # {} => LastEdge(uncertain) \in DOMAIN g.edges
        BY <2>2, EdgesByKey
    <2>. QED  BY <2>1, <2>3, RankOfEdge DEF Grades
<1>3. ASSUME NEW principal, NEW policy, NEW statements
      PROVE  GrantFromStatements(principal, policy, statements).confidence \in Grades
    BY DEF GrantFromStatements, Grades
<1>. DEFINE Seen(id) == GrantFromObservedActions(g, id) \union GrantsFromCloudActionEdges(g, id)
            Told(id) == {GrantFromStatements(p, id, g.nodes[id].policy) : p \in PrincipalsForPolicyNode(g, id)}
            withPolicy == {x \in Nodes(g, "policy") : g.nodes[x].policy # << >>}
<1>4. CollectIAMGrants(g) =
        UNION {UNION {Seen(id) : id \in Nodes(g, "principal")}, UNION {Told(id) : id \in withPolicy}}
    BY DEF CollectIAMGrants
<1>5. \A id : \A x \in Told(id) : x.confidence \in Grades
    BY <1>3
<1>6. \A id : \A x \in Seen(id) : x.confidence \in Grades
    BY <1>1, <1>2
<1>. HIDE DEF Seen, Told, withPolicy
<1>. QED  BY <1>4, <1>5, <1>6

\* And a path has that grade, or a weaker one.
LEMMA WeakerIsGrade ==
    ASSUME NEW grant, grant.confidence \in Grades
    PROVE  GrantConfidence(grant) \in Grades /\ Weaker("medium", GrantConfidence(grant)) \in Grades
BY DEF GrantConfidence, Weaker, Grades

\* A path of actions that are granted: every step of it is as certain as the grant.
LEMMA GrantPathIsOne ==
    ASSUME NEW g, NEW grant, NEW target, NEW hops, NEW k \in Nat, NEW n \in Nat, k <= n, DOMAIN hops = 1..k,
           \A i \in 1..k : hops[i][3][1] # "graph", \E i \in 1..k : hops[i][2] = target,
           NEW confidence \in Grades, NEW pattern
    PROVE  IsAttackPath(g, GrantPath(g, grant, target, hops, confidence, pattern), n)
<1>. DEFINE steps == [i \in DOMAIN hops |-> IAMStep(hops[i][1], hops[i][2], hops[i][3], confidence)]
            p == GrantPath(g, grant, target, hops, confidence, pattern)
<1>1. p.steps = steps /\ p.confidence = confidence /\ p.target = target /\ p.type = Escalation
    BY DEF GrantPath, IAMPath
<1>2. DOMAIN steps = 1..k
    OBVIOUS
<1>3. ASSUME NEW i \in 1..k
      PROVE  /\ steps[i].confidence = confidence /\ steps[i].source = "plan" /\ steps[i].to = hops[i][2]
             /\ steps[i].action = hops[i][3]
    BY DEF IAMStep
<1>4. steps \in Seq(Range(steps)) /\ Len(steps) = k
    <2>1. steps = [i \in 1..k |-> steps[i]]
        OBVIOUS
    <2>. HIDE DEF steps
    <2>2. \A i \in 1..k : steps[i] \in Range(steps)
        BY <1>2 DEF Range
    <2>3. steps \in [1..k -> Range(steps)]
        BY <2>1, <2>2
    <2>4. steps \in Seq(Range(steps))
        BY <2>3
    <2>. QED  BY <1>2, <2>4
<1>. HIDE DEF steps, p
<1>5. AreSteps(steps, n)
    BY <1>2, <1>3, <1>4 DEF AreSteps, StepSources
<1>6. PublicToSensitive # Escalation
    BY DEF PublicToSensitive, Escalation
<1>7. SoundPath(g, p)
    <2>1. ASSUME NEW i \in DOMAIN steps PROVE steps[i].action[1] # "graph" /\ steps[i].source # "inferred"
        BY <1>2, <1>3
    <2>2. \E i \in DOMAIN steps : steps[i].to = target
        BY <1>2, <1>3
    <2>. QED  BY <1>1, <1>2, <1>3, <1>6, <2>1, <2>2 DEF SoundPath
<1>. QED  BY <1>1, <1>5, <1>7 DEF IsAttackPath, p

\* What the provers need to know of the actions that steps are about.
LEMMA ActionsOfIAM ==
    /\ PassRole[1] # "graph" /\ AssumeRole[1] # "graph" /\ UpdateCode[1] # "graph" /\ UpdateService[1] # "graph"
    /\ DOMAIN ComputeMutations = 1..6 /\ \A i \in 1..6 : ComputeMutations[i][1] # "graph"
<1>1. PassRole[1] # "graph" /\ AssumeRole[1] # "graph" /\ UpdateCode[1] # "graph" /\ UpdateService[1] # "graph"
    BY DEF PassRole, AssumeRole, UpdateCode, UpdateService
<1>2. DOMAIN ComputeMutations = 1..6
    BY DEF ComputeMutations
<1>3. /\ ComputeMutations[1][1] # "graph" /\ ComputeMutations[2][1] # "graph" /\ ComputeMutations[3][1] # "graph"
      /\ ComputeMutations[4][1] # "graph" /\ ComputeMutations[5][1] # "graph" /\ ComputeMutations[6][1] # "graph"
    BY DEF ComputeMutations, UpdateCode, UpdateConfiguration, UpdateService, CreateFunction
<1>4. \A i \in 1..6 : i = 1 \/ i = 2 \/ i = 3 \/ i = 4 \/ i = 5 \/ i = 6
    OBVIOUS
<1>. QED  BY <1>1, <1>2, <1>3, <1>4

\* The patterns of the program itself.
LEMMA PatternsOfIAM ==
    ASSUME NEW p \in DOMAIN NativePatterns
    PROVE  \E k \in 1..2 : DOMAIN NativePatterns[p] = 1..k /\ \A i \in 1..k : NativePatterns[p][i][1] # "graph"
<1>1. AssumeRole[1] # "graph" /\ \A verb : IAM(verb)[1] # "graph"
    BY ActionsOfIAM DEF IAM
<1>2. ASSUME NEW a, a[1] # "graph", NativePatterns[p] = <<a>>
      PROVE  DOMAIN NativePatterns[p] = 1..1 /\ \A i \in 1..1 : NativePatterns[p][i][1] # "graph"
    BY <1>2
<1>3. ASSUME NEW a, NEW b, a[1] # "graph", b[1] # "graph", NativePatterns[p] = <<a, b>>
      PROVE  DOMAIN NativePatterns[p] = 1..2 /\ \A i \in 1..2 : NativePatterns[p][i][1] # "graph"
    <2>1. \A i \in 1..2 : i = 1 \/ i = 2
        OBVIOUS
    <2>. QED  BY <1>3, <2>1
<1>4. \/ \E verb : NativePatterns[p] = <<IAM(verb)>>
      \/ \E v, w : NativePatterns[p] = <<IAM(v), IAM(w)>>
      \/ \E v : NativePatterns[p] = <<IAM(v), AssumeRole>>
    BY DEF NativePatterns
<1>. QED  BY <1>1, <1>2, <1>3, <1>4

\* What runs code as a role is an action of those.
LEMMA MutationsAreActions ==
    ASSUME NEW g, NEW grant, NEW role, NEW m \in ValidComputeMutation(g, grant, role)
    PROVE  m[1] # "graph"
<1>1. \E i \in DOMAIN ComputeMutations : m = ComputeMutations[i]
    BY DEF ValidComputeMutation
<1>. QED  BY <1>1, ActionsOfIAM

\* A path of one step.
LEMMA OneStepGrantPath ==
    ASSUME NEW g, NEW grant, NEW target, NEW n \in Nat, 2 <= n, NEW confidence \in Grades, NEW pattern,
           NEW a, NEW b, a[1] # "graph", NEW hops, hops = <<<<b, target, a>>>>
    PROVE  IsAttackPath(g, GrantPath(g, grant, target, hops, confidence, pattern), n)
<1>1. DOMAIN hops = 1..1 /\ (\A i \in 1..1 : hops[i][3][1] # "graph") /\ hops[1][2] = target
    OBVIOUS
<1>2. \E i \in 1..1 : hops[i][2] = target
    BY <1>1
<1>3. 1 \in Nat /\ 1 <= n
    OBVIOUS
<1>. QED  BY <1>1, <1>2, <1>3, GrantPathIsOne

\* A path of two steps.
LEMMA TwoStepGrantPath ==
    ASSUME NEW g, NEW grant, NEW target, NEW n \in Nat, 2 <= n, NEW confidence \in Grades, NEW pattern,
           NEW a, NEW b, NEW c, NEW x, NEW y, NEW z, a[1] # "graph", x[1] # "graph", target \in {b, y},
           NEW hops, hops = <<<<c, b, a>>, <<z, y, x>>>>
    PROVE  IsAttackPath(g, GrantPath(g, grant, target, hops, confidence, pattern), n)
<1>1. DOMAIN hops = 1..2 /\ hops[1] = <<c, b, a>> /\ hops[2] = <<z, y, x>>
    OBVIOUS
<1>2. hops[1][3] = a /\ hops[2][3] = x /\ hops[1][2] = b /\ hops[2][2] = y
    BY <1>1
<1>3. \A i \in 1..2 : i = 1 \/ i = 2
    OBVIOUS
<1>4. 1 \in 1..2 /\ 2 \in 1..2 /\ 2 \in Nat
    OBVIOUS
<1>5. \A i \in 1..2 : hops[i][3][1] # "graph"
    BY <1>2, <1>3
<1>6. \E i \in 1..2 : hops[i][2] = target
    BY <1>2, <1>4
<1>. QED  BY <1>1, <1>4, <1>5, <1>6, GrantPathIsOne

\* Several actions on one target.
LEMMA CombinedPaths ==
    ASSUME NEW g, NEW grant, grant.confidence \in Grades, NEW targets, NEW actions, NEW k \in Nat, k # 0,
           NEW n \in Nat, k <= n, DOMAIN actions = 1..k, \A i \in 1..k : actions[i][1] # "graph", NEW pattern
    PROVE  \A p \in Combined(g, grant, targets, actions, pattern) : IsAttackPath(g, p, n)
<1>. SUFFICES ASSUME NEW p \in Combined(g, grant, targets, actions, pattern) PROVE IsAttackPath(g, p, n)
    OBVIOUS
<1>. DEFINE confidence == IF grant.notAction THEN "medium" ELSE GrantConfidence(grant)
            Hops(id) == [i \in DOMAIN actions |-> <<grant.principal, id, actions[i]>>]
<1>1. PICK id : p = GrantPath(g, grant, id, Hops(id), confidence, pattern)
    BY DEF Combined
<1>2. confidence \in Grades
    BY WeakerIsGrade DEF Grades
<1>3. DOMAIN Hops(id) = 1..k /\ \A i \in 1..k : Hops(id)[i][3] = actions[i] /\ Hops(id)[i][2] = id
    OBVIOUS
<1>4. 1 \in 1..k
    OBVIOUS
<1>. HIDE DEF confidence, Hops
<1>5. (\A i \in 1..k : Hops(id)[i][3][1] # "graph") /\ \E i \in 1..k : Hops(id)[i][2] = id
    BY <1>3, <1>4
<1>. QED  BY <1>1, <1>2, <1>3, <1>5, GrantPathIsOne

LongEnough(n) == n \in Nat /\ 4 <= n /\ \A e \in Catalog : Len(e.actions) <= n

\* What a grant leads to.
LEMMA GrantPathsAreSound ==
    ASSUME NEW g, NEW grant, grant.confidence \in Grades, NEW n, LongEnough(n)
    PROVE  /\ \A p \in DetectPassRoleComputeMutation(g, grant) : IsAttackPath(g, p, n)
           /\ \A p \in DetectAssumeAdminRole(g, grant) : IsAttackPath(g, p, n)
           /\ \A p \in DetectFunctionUpdate(g, grant) : IsAttackPath(g, p, n)
           /\ \A p \in DetectECSUpdateService(g, grant) : IsAttackPath(g, p, n)
           /\ \A p \in DetectIAMPolicyMutation(g, grant) : IsAttackPath(g, p, n)
           /\ \A p \in DetectPathfindingCatalog(g, grant) : IsAttackPath(g, p, n)
<1>0. n \in Nat /\ 2 <= n
    BY DEF LongEnough
<1>1. ASSUME NEW p \in DetectPassRoleComputeMutation(g, grant) PROVE IsAttackPath(g, p, n)
    <2>. DEFINE Confidence(m) == IF m = CreateFunction /\ ~GrantAllows(grant, <<"lambda", "InvokeFunction">>)
                                 THEN Weaker("medium", GrantConfidence(grant)) ELSE GrantConfidence(grant)
                Via(role, m) == GrantPath(g, grant, role,
                                          <<<<grant.principal, role, PassRole>>, <<grant.principal, "compute", m>>>>,
                                          Confidence(m), "passrole_compute_mutation")
                roles == {r \in MatchingRoles(g, grant, PassRole) : PrivilegedOrSensitiveRole(g, r)}
    <2>1. DetectPassRoleComputeMutation(g, grant)
            \subseteq UNION {{Via(role, m) : m \in ValidComputeMutation(g, grant, role)} : role \in roles}
        BY DEF DetectPassRoleComputeMutation
    <2>. HIDE DEF Via, roles
    <2>2. PICK role, m : m \in ValidComputeMutation(g, grant, role) /\ p = Via(role, m)
        BY <2>1
    <2>. DEFINE confidence == Confidence(m)
    <2>3. /\ m \in ValidComputeMutation(g, grant, role)
          /\ p = GrantPath(g, grant, role, <<<<grant.principal, role, PassRole>>, <<grant.principal, "compute", m>>>>,
                           confidence, "passrole_compute_mutation")
        BY <2>2 DEF Via
    <2>4. confidence \in Grades
        BY WeakerIsGrade
    <2>. HIDE DEF confidence
    <2>5. m[1] # "graph" /\ PassRole[1] # "graph"
        BY <2>3, MutationsAreActions, ActionsOfIAM
    <2>. DEFINE hops == <<<<grant.principal, role, PassRole>>, <<grant.principal, "compute", m>>>>
    <2>6. hops = <<<<grant.principal, role, PassRole>>, <<grant.principal, "compute", m>>>>
        OBVIOUS
    <2>7. p = GrantPath(g, grant, role, hops, confidence, "passrole_compute_mutation")
        BY <2>3
    <2>. HIDE DEF hops
    <2>8. IsAttackPath(g, GrantPath(g, grant, role, hops, confidence, "passrole_compute_mutation"), n)
        BY <1>0, <2>4, <2>5, <2>6, TwoStepGrantPath
    <2>. QED  BY <2>7, <2>8
<1>2. ASSUME NEW p \in DetectAssumeAdminRole(g, grant) PROVE IsAttackPath(g, p, n)
    <2>1. PICK role : p = GrantPath(g, grant, role, <<<<grant.principal, role, AssumeRole>>>>, GrantConfidence(grant),
                                    "assume_privileged_role")
        BY DEF DetectAssumeAdminRole
    <2>. DEFINE hops == <<<<grant.principal, role, AssumeRole>>>>
    <2>2. hops = <<<<grant.principal, role, AssumeRole>>>>
        OBVIOUS
    <2>3. GrantConfidence(grant) \in Grades /\ AssumeRole[1] # "graph"
        BY WeakerIsGrade, ActionsOfIAM
    <2>4. p = GrantPath(g, grant, role, hops, GrantConfidence(grant), "assume_privileged_role")
        BY <2>1
    <2>. HIDE DEF hops
    <2>5. IsAttackPath(g, GrantPath(g, grant, role, hops, GrantConfidence(grant), "assume_privileged_role"), n)
        BY <1>0, <2>2, <2>3, OneStepGrantPath
    <2>. QED  BY <2>4, <2>5
<1>3. ASSUME NEW p \in DetectFunctionUpdate(g, grant) PROVE IsAttackPath(g, p, n)
    <2>. DEFINE act == <<"workload", "role">>
    <2>1. PICK fn, role :
            p = GrantPath(g, grant, role, <<<<grant.principal, fn, UpdateCode>>, <<fn, role, act>>>>,
                          GrantConfidence(grant), "lambda_update_execution_role")
        BY DEF DetectFunctionUpdate
    <2>2. act[1] # "graph"
        OBVIOUS
    <2>. HIDE DEF act
    <2>. DEFINE hops == <<<<grant.principal, fn, UpdateCode>>, <<fn, role, act>>>>
    <2>3. hops = <<<<grant.principal, fn, UpdateCode>>, <<fn, role, act>>>>
        OBVIOUS
    <2>4. GrantConfidence(grant) \in Grades /\ UpdateCode[1] # "graph"
        BY WeakerIsGrade, ActionsOfIAM
    <2>5. p = GrantPath(g, grant, role, hops, GrantConfidence(grant), "lambda_update_execution_role")
        BY <2>1
    <2>. HIDE DEF hops
    <2>6. IsAttackPath(g, GrantPath(g, grant, role, hops, GrantConfidence(grant), "lambda_update_execution_role"), n)
        BY <1>0, <2>2, <2>3, <2>4, TwoStepGrantPath
    <2>. QED  BY <2>5, <2>6
<1>4. ASSUME NEW p \in DetectECSUpdateService(g, grant) PROVE IsAttackPath(g, p, n)
    <2>. DEFINE act == <<"workload", "role">>
    <2>1. PICK s, role :
            p = GrantPath(g, grant, role, <<<<grant.principal, s, UpdateService>>, <<s, role, act>>>>,
                          GrantConfidence(grant), "ecs_update_sensitive_task_role")
        BY DEF DetectECSUpdateService
    <2>2. act[1] # "graph"
        OBVIOUS
    <2>. HIDE DEF act
    <2>. DEFINE hops == <<<<grant.principal, s, UpdateService>>, <<s, role, act>>>>
    <2>3. hops = <<<<grant.principal, s, UpdateService>>, <<s, role, act>>>>
        OBVIOUS
    <2>4. GrantConfidence(grant) \in Grades /\ UpdateService[1] # "graph"
        BY WeakerIsGrade, ActionsOfIAM
    <2>5. p = GrantPath(g, grant, role, hops, GrantConfidence(grant), "ecs_update_sensitive_task_role")
        BY <2>1
    <2>. HIDE DEF hops
    <2>6. IsAttackPath(g, GrantPath(g, grant, role, hops, GrantConfidence(grant), "ecs_update_sensitive_task_role"), n)
        BY <1>0, <2>2, <2>3, <2>4, TwoStepGrantPath
    <2>. QED  BY <2>5, <2>6
<1>5. ASSUME NEW p \in DetectIAMPolicyMutation(g, grant) PROVE IsAttackPath(g, p, n)
    <2>1. PICK x \in DOMAIN NativePatterns : p \in Combined(g, grant, EscalationTargets(g, grant, x), NativePatterns[x], x)
        BY DEF DetectIAMPolicyMutation
    <2>2. PICK k \in 1..2 : DOMAIN NativePatterns[x] = 1..k /\ \A i \in 1..k : NativePatterns[x][i][1] # "graph"
        BY PatternsOfIAM
    <2>3. k \in Nat /\ k # 0 /\ k <= n
        BY <1>0
    <2>. QED  BY <1>0, <2>1, <2>2, <2>3, CombinedPaths
<1>6. ASSUME NEW p \in DetectPathfindingCatalog(g, grant) PROVE IsAttackPath(g, p, n)
    <2>1. PICK e \in Catalog : p \in Combined(g, grant, PathfindingTargets(g, grant, e), e.actions, "pathfinding_catalog")
        BY DEF DetectPathfindingCatalog
    <2>. DEFINE k == Len(e.actions)
                actions == e.actions
    <2>2. k \in Nat /\ k # 0 /\ k <= n /\ DOMAIN actions = 1..k /\ \A i \in 1..k : actions[i][1] # "graph"
        BY CatalogAssumption DEF LongEnough
    <2>. HIDE DEF k, actions
    <2>. QED  BY <1>0, <2>1, <2>2, CombinedPaths DEF actions
<1>. QED  BY <1>1, <1>2, <1>3, <1>4, <1>5, <1>6

\* detectAssumeAdminRole, by an edge of the graph: the step is that edge's.
LEMMA AssumedByEdge ==
    ASSUME NEW g, IsGraph(g), NEW n \in Nat, 4 <= n
    PROVE  \A p \in DetectAssumeAdminRoleByEdge(g) : IsAttackPath(g, p, n)
<1>. DEFINE Step(e) == [StepsOf(g, <<e>>)[1] EXCEPT !.action = AssumeRole]
            Path(e) == IAMPath(g, e[1], e[3], <<Step(e)>>, ConfidenceForPath(<<Step(e)>>), "assume_by_edge", FALSE)
<1>1. DetectAssumeAdminRoleByEdge(g) = {Path(e) : e \in AssumeEdges(g)}
    BY DEF DetectAssumeAdminRoleByEdge
<1>2. ASSUME NEW e \in AssumeEdges(g) PROVE IsAttackPath(g, Path(e), n)
    <2>. DEFINE w == <<e>>
                found == StepsOf(g, w)
                step == Step(e)
                steps == <<step>>
                p == Path(e)
    <2>1. e \in DOMAIN g.edges /\ e \in EdgeKeysOf
        BY DEF AssumeEdges, IsGraph
    <2>2. w \in Seq(EdgeKeysOf) /\ Len(w) = 1 /\ DOMAIN w = 1..1 /\ w[1] = e /\ w # << >>
        BY <2>1
    <2>. HIDE DEF w
    <2>3. IsWalk(g, e[1], w)
        <3>1. \A i \in 1..1 : i = 1
            OBVIOUS
        <3>. QED  BY <2>1, <2>2, <3>1 DEF IsWalk
    <2>4. End(e[1], w) = e[3]
        BY <2>2 DEF End, Last
    <2>5. AreSteps(found, 1) /\ 1 \in DOMAIN found /\ found[1].to = e[3]
        BY <2>2, <2>3, <2>4, StepsOfWalk
    <2>6. found[1] = [from |-> e[1], to |-> e[3], action |-> <<"graph", e[2]>>,
                      source |-> g.edges[e].source, confidence |-> g.edges[e].confidence]
        BY <2>2 DEF StepsOf
    <2>7. step = [from |-> e[1], to |-> e[3], action |-> AssumeRole,
                  source |-> g.edges[e].source, confidence |-> g.edges[e].confidence]
        BY <2>6 DEF w
    <2>8. g.edges[e].confidence \in Grades /\ g.edges[e].source \in StepSources
        BY <2>5, <2>6 DEF AreSteps
    <2>9. step.to = e[3] /\ step.action = AssumeRole /\ step.confidence \in Grades /\ step.source \in StepSources
        BY <2>7, <2>8
    <2>. HIDE DEF found, step
    <2>10. DOMAIN steps = 1..1 /\ Len(steps) = 1 /\ steps[1] = step /\ Range(steps) = {step} /\ steps \in Seq({step})
        BY DEF Range
    <2>11. p.steps = steps /\ p.confidence = ConfidenceForPath(steps) /\ p.target = e[3] /\ p.type = Escalation
        BY DEF IAMPath, step
    <2>. HIDE DEF steps, p
    <2>12. \A i \in 1..1 : steps[i] = step
        BY <2>10
    <2>13. AreSteps(steps, n)
        BY <2>9, <2>10, <2>12 DEF AreSteps
    <2>14. Follow(g, steps)
        BY <2>9, <2>10, <2>12, ActionsOfIAM DEF Follow
    <2>15. (\E i \in DOMAIN steps : steps[i].to = e[3]) /\ PublicToSensitive # Escalation
        BY <2>9, <2>10, <2>12 DEF PublicToSensitive, Escalation
    <2>16. IsAttackPath(g, p, n)
        BY <2>11, <2>13, <2>14, <2>15, PathByItsSteps
    <2>. QED  BY <2>16 DEF p
<1>. HIDE DEF Path
<1>. QED  BY <1>1, <1>2

\* roleAssumptionGraphPaths: the steps of a chain are those of a walk.
LEMMA ChainsAreSound ==
    ASSUME NEW g, IsGraph(g), NEW n \in Nat, 4 <= n
    PROVE  \A p \in DetectRoleAssumptionChains(g) : IsAttackPath(g, p, n)
<1>. DEFINE Path(from, c) == IAMPath(g, from, End(from, c), StepsOf(g, c), ConfidenceForPath(StepsOf(g, c)),
                                     "role_assumption_chain", FALSE)
            Privileged(from) == {x \in Chains(g, from) : PrivilegedOrSensitiveRole(g, End(from, x))}
<1>1. DetectRoleAssumptionChains(g)
        \subseteq UNION {{Path(from, c) : c \in Privileged(from)} : from \in Nodes(g, "principal")}
    BY DEF DetectRoleAssumptionChains
<1>2. ASSUME NEW from, NEW c \in Privileged(from) PROVE IsAttackPath(g, Path(from, c), n)
    <2>. DEFINE steps == StepsOf(g, c)
                p == Path(from, c)
                m == Len(c)
    <2>1. c \in SimplePaths(g, from, {"can_assume"}, 4) /\ m >= 2
        BY DEF Chains
    <2>2. AreWalks(g, from, SimplePaths(g, from, {"can_assume"}, 4), 4)
        BY SimplePathsAreWalks
    <2>3. IsWalk(g, from, c) /\ m \in 0..4
        BY <2>1, <2>2 DEF AreWalks
    <2>4. c # << >>
        BY <2>1
    <2>5. AreSteps(steps, m) /\ Follow(g, steps) /\ m \in DOMAIN steps /\ steps[m].to = End(from, c)
        BY <2>3, <2>4, StepsOfWalk
    <2>6. p.steps = steps /\ p.confidence = ConfidenceForPath(steps) /\ p.target = End(from, c) /\ p.type = Escalation
        BY DEF IAMPath
    <2>. HIDE DEF steps, p, m
    <2>7. AreSteps(steps, n)
        BY <2>3, <2>5 DEF AreSteps
    <2>8. PublicToSensitive # Escalation
        BY DEF PublicToSensitive, Escalation
    <2>9. IsAttackPath(g, p, n)
        BY <2>5, <2>6, <2>7, <2>8, PathByItsSteps
    <2>. QED  BY <2>9 DEF p
<1>. HIDE DEF Path, Privileged
<1>. QED  BY <1>1, <1>2

\* The paths that one grant leads to.
ByOneGrant(g, grant) ==
    UNION {DetectPassRoleComputeMutation(g, grant), DetectAssumeAdminRole(g, grant),
           DetectFunctionUpdate(g, grant), DetectECSUpdateService(g, grant),
           DetectIAMPolicyMutation(g, grant), DetectPathfindingCatalog(g, grant)}

\* DetectIAMPrivilegeEscalation finds what a grant, an edge or a chain leads to, and all of
\* it is sound.
LEMMA EscalationsAreSound ==
    ASSUME NEW g, IsGraph(g), NEW warnings, NEW n, LongEnough(n), NEW p \in DetectIAMPrivilegeEscalation(g, warnings)
    PROVE  /\ IsAttackPath(g, p, n)
           /\ \/ \E grant \in CollectIAMGrants(g) : p \in ByOneGrant(g, grant)
              \/ p \in DetectAssumeAdminRoleByEdge(g) \union DetectRoleAssumptionChains(g)
<1>. DEFINE granted == UNION {ByOneGrant(g, grant) : grant \in CollectIAMGrants(g)}
            byEdge == DetectAssumeAdminRoleByEdge(g)
            chains == DetectRoleAssumptionChains(g)
            kept == {x \in UNION {granted, byEdge, chains} : warnings \/ x.decision # "warn"}
<1>1. DetectIAMPrivilegeEscalation(g, warnings) = Normalize(kept)
    BY DEF DetectIAMPrivilegeEscalation, ByOneGrant
<1>2. ASSUME NEW grant \in CollectIAMGrants(g), NEW x \in ByOneGrant(g, grant) PROVE IsAttackPath(g, x, n)
    <2>1. grant.confidence \in Grades
        BY GrantsAreGraded
    <2>. QED  BY <2>1, GrantPathsAreSound DEF ByOneGrant
<1>3. n \in Nat /\ 4 <= n
    BY DEF LongEnough
<1>4. \A x \in byEdge \union chains : IsAttackPath(g, x, n)
    BY <1>3, AssumedByEdge, ChainsAreSound
<1>. HIDE DEF byEdge, chains
<1>5. \A x \in kept : IsAttackPath(g, x, n)
    BY <1>2, <1>4
<1>6. kept \subseteq UNION {granted, byEdge, chains}
    OBVIOUS
<1>. HIDE DEF kept
<1>7. Normalize(kept) \subseteq kept
    BY <1>3, <1>5, NormalizeKeepsSome DEF IsAttackPath
<1>8. p \in kept
    BY <1>1, <1>7
<1>. QED  BY <1>5, <1>6, <1>8 DEF byEdge, chains

\* The paths from an entrypoint are of one type.
LEMMA TypeOfPublicPaths ==
    ASSUME NEW g, NEW entrypoint, NEW depth, NEW cap, NEW p \in FromEntrypoint(g, entrypoint, depth, cap)
    PROVE  p.type = PublicToSensitive
<1>1. \A target, steps, verdict, pattern :
        PublicPath(entrypoint, target, steps, verdict, pattern).type = PublicToSensitive
    BY DEF PublicPath
<1>. DEFINE radius == BlastRadius(g, entrypoint, depth, cap)
<1>2. p \in UNION {DetectPublicEKSClusterAdminRisk(g, entrypoint), DetectSensitivePaths(g, entrypoint, radius),
                   DetectPublicWorkloadWarnings(g, entrypoint, radius)}
    BY DEF FromEntrypoint
<1>. DEFINE Made(x) == \E target, steps, verdict, pattern : x = PublicPath(entrypoint, target, steps, verdict, pattern)
<1>3. ASSUME NEW x \in DetectPublicEKSClusterAdminRisk(g, entrypoint) PROVE Made(x)
    BY <1>3 DEF DetectPublicEKSClusterAdminRisk
<1>4. ASSUME NEW x \in DetectSensitivePaths(g, entrypoint, radius) PROVE Made(x)
    BY <1>4 DEF DetectSensitivePaths
<1>5. ASSUME NEW x \in DetectPublicWorkloadWarnings(g, entrypoint, radius) PROVE Made(x)
    BY <1>5 DEF DetectPublicWorkloadWarnings
<1>6. Made(p)
    <2>. HIDE DEF Made
    <2>. QED  BY <1>2, <1>3, <1>4, <1>5
<1>. QED  BY <1>1, <1>6

\* DetectPublicToSensitive
LEMMA PublicPathsAreSound ==
    ASSUME NEW g, IsGraph(g), NEW depth \in Nat, NEW cap,
           NEW n \in Nat, depth + 1 <= n, Len(Addresses) + 1 <= n, 2 <= n
    PROVE  \A p \in DetectPublicToSensitive(g, depth, cap) : IsAttackPath(g, p, n) /\ p.type = PublicToSensitive
<1>. DEFINE entrypoints == {x \in PublicEntrypoints(g) : ~AuthenticatedAPI(g, x)}
            all == UNION {FromEntrypoint(g, e, depth, cap) : e \in entrypoints}
<1>1. DetectPublicToSensitive(g, depth, cap) = Normalize(all)
    BY DEF DetectPublicToSensitive
<1>2. \A e \in entrypoints : HasPublicInboundEdge(g, e)
    BY DEF PublicEntrypoints
<1>. HIDE DEF entrypoints
<1>3. \A p \in all : IsAttackPath(g, p, n) /\ p.type = PublicToSensitive
    BY <1>2, FromEntrypointPaths, TypeOfPublicPaths
<1>. HIDE DEF all
<1>4. Normalize(all) \subseteq all
    BY <1>3, NormalizeKeepsSome DEF IsAttackPath
<1>. QED  BY <1>1, <1>3, <1>4

\* The catalog has its longest entry, and the walks have their longest length.
LEMMA Lengths ==
    \E n : LongEnough(n) /\ MaxDepth + 1 <= n /\ Len(Addresses) + 1 <= n
<1>1. PICK listed \in Seq(Catalog) : \A e \in Catalog : \E i \in 1..Len(listed) : listed[i] = e
    BY CatalogAssumption DEF IsFiniteSet
<1>. DEFINE Bound(k, m) == \A i \in 1..k : Len(listed[i].actions) <= m
            S == {k \in Nat : k <= Len(listed) => \E m \in Nat : Bound(k, m)}
<1>2. 0 \in S
    OBVIOUS
<1>3. ASSUME NEW k \in Nat, k \in S PROVE k + 1 \in S
    <2>. SUFFICES ASSUME k + 1 <= Len(listed) PROVE \E m \in Nat : Bound(k + 1, m)
        OBVIOUS
    <2>0. Len(listed) \in Nat
        BY <1>1
    <2>1. PICK m \in Nat : Bound(k, m)
        BY <1>3, <2>0
    <2>2. listed[k + 1] \in Catalog
        BY <1>1, <2>0
    <2>. DEFINE last == Len(listed[k + 1].actions)
    <2>3. last \in Nat
        BY <2>2, CatalogAssumption
    <2>4. \A i \in 1..k : Len(listed[i].actions) \in Nat
        BY <1>1, <2>0, CatalogAssumption
    <2>5. Bound(k + 1, m + last)
        <3>1. ASSUME NEW i \in 1..k + 1 PROVE Len(listed[i].actions) <= m + last
            <4>1. CASE i = k + 1
                BY <2>1, <2>3, <4>1
            <4>2. CASE i # k + 1
                <5>1. i \in 1..k
                    BY <4>2
                <5>. HIDE DEF last
                <5>. QED  BY <2>1, <2>3, <2>4, <5>1
            <4>. QED  BY <4>1, <4>2
        <3>. QED  BY <3>1
    <2>6. m + last \in Nat
        BY <2>3
    <2>. HIDE DEF last, Bound
    <2>. QED  BY <2>5, <2>6
<1>4. Nat \subseteq S
    <2>. HIDE DEF S
    <2>. QED  BY <1>2, <1>3, AllNumbers
<1>5. Len(listed) \in Nat
    BY <1>1
<1>6. PICK m \in Nat : Bound(Len(listed), m)
    <2>1. Len(listed) \in S
        <3>. HIDE DEF S
        <3>. QED  BY <1>4, <1>5
    <2>2. Len(listed) <= Len(listed)
        BY <1>5
    <2>. HIDE DEF Bound
    <2>. QED  BY <2>1, <2>2
<1>7. \A e \in Catalog : Len(e.actions) <= m /\ Len(e.actions) \in Nat
    BY <1>1, <1>6, CatalogAssumption
<1>8. MaxDepth \in Nat /\ Len(Addresses) \in Nat
    BY ScenariosAssumption, GraphAssumption
<1>. DEFINE n == m + MaxDepth + Len(Addresses) + 4
<1>9. n \in Nat /\ 4 <= n /\ MaxDepth + 1 <= n /\ Len(Addresses) + 1 <= n /\ m <= n
    BY <1>8
<1>. HIDE DEF n
<1>10. LongEnough(n)
    BY <1>7, <1>9 DEF LongEnough
<1>. QED  BY <1>9, <1>10

-----------------------------------------------------------------------------
(***************************************************************************)
(* What is granted.  A grant says of an action on a resource what one      *)
(* policy says, or what was seen; a path from it asks for what it says.    *)
(***************************************************************************)
GrantSays(g, grant, action, target) ==
    /\ \E s \in grant.allows :
          ScopeAllowsAction(s, action) /\ (target # "compute" => ResourceScopeCovers(s, g.nodes[target]))
    /\ ~ \E d \in grant.denies :
          /\ ScopeAllowsAction(d, action)
          /\ IF target = "compute" THEN "*" \in d.resources /\ d.notResources = {}
             ELSE ResourceScopeCovers(d, g.nodes[target])

\* What is allowed on a resource is allowed somewhere, and not denied everywhere.
LEMMA AllowedOnSays ==
    ASSUME NEW g, NEW grant, NEW action, NEW id, GrantAllowsOn(grant, action, g.nodes[id])
    PROVE  GrantSays(g, grant, action, id) /\ GrantSays(g, grant, action, "compute")
<1>1. ASSUME NEW d, "*" \in d.resources, d.notResources = {} PROVE ResourceScopeCovers(d, g.nodes[id])
    BY <1>1 DEF ResourceScopeCovers, ResourceCovered
<1>2. GrantSays(g, grant, action, "compute")
    BY <1>1 DEF GrantSays, GrantAllowsOn
<1>3. ASSUME id # "compute" PROVE GrantSays(g, grant, action, id)
    BY <1>3 DEF GrantSays, GrantAllowsOn
<1>. QED  BY <1>2, <1>3

\* So is what is allowed for any target.
LEMMA AllowedSays ==
    ASSUME NEW g, NEW grant, NEW action, GrantAllows(grant, action)
    PROVE  GrantSays(g, grant, action, "compute")
BY DEF GrantSays, GrantAllows

\* A path that is certain, from a grant that is certain and says so for every step.
IsGrantedBy(g, grant, p) ==
    /\ p.type = Escalation /\ p.principal = grant.principal
    /\ p.confidence = "high" =>
          /\ grant.confidence = "high"
          /\ \A i \in DOMAIN p.steps :
                p.steps[i].from = grant.principal => GrantSays(g, grant, p.steps[i].action, p.steps[i].to)

\* A path of hops from a grant.
LEMMA GrantPathIsGranted ==
    ASSUME NEW g, NEW grant, NEW target, NEW hops, NEW confidence, NEW pattern,
           confidence = "high" => grant.confidence = "high",
           \A i \in DOMAIN hops : hops[i][1] = grant.principal => GrantSays(g, grant, hops[i][3], hops[i][2])
    PROVE  IsGrantedBy(g, grant, GrantPath(g, grant, target, hops, confidence, pattern))
<1>. DEFINE steps == [i \in DOMAIN hops |-> IAMStep(hops[i][1], hops[i][2], hops[i][3], confidence)]
            p == GrantPath(g, grant, target, hops, confidence, pattern)
<1>1. p.steps = steps /\ p.confidence = confidence /\ p.principal = grant.principal /\ p.type = Escalation
    BY DEF GrantPath, IAMPath
<1>2. ASSUME NEW i \in DOMAIN hops
      PROVE  steps[i].from = hops[i][1] /\ steps[i].to = hops[i][2] /\ steps[i].action = hops[i][3]
    BY DEF IAMStep
<1>3. DOMAIN steps = DOMAIN hops
    OBVIOUS
<1>. HIDE DEF steps, p
<1>4. IsGrantedBy(g, grant, p)
    BY <1>1, <1>2, <1>3 DEF IsGrantedBy
<1>. QED  BY <1>4 DEF p

\* A certain path is from a certain grant.
LEMMA CertainGrant ==
    ASSUME NEW grant
    PROVE  /\ GrantConfidence(grant) = "high" => grant.confidence = "high"
           /\ Weaker("medium", GrantConfidence(grant)) # "high"
<1>1. GrantConfidence(grant) = "high" => grant.confidence = "high"
    BY DEF GrantConfidence
<1>2. Weaker("medium", GrantConfidence(grant)) # "high"
    BY Ranks DEF Weaker
<1>. QED  BY <1>1, <1>2

\* One step.
LEMMA OneHopIsGranted ==
    ASSUME NEW g, NEW grant, NEW target, NEW confidence, NEW pattern, NEW a, NEW b, NEW c,
           confidence = "high" => grant.confidence = "high",
           GrantSays(g, grant, a, b), NEW hops, hops = <<<<c, b, a>>>>
    PROVE  IsGrantedBy(g, grant, GrantPath(g, grant, target, hops, confidence, pattern))
<1>1. \A i \in DOMAIN hops : hops[i][2] = b /\ hops[i][3] = a
    OBVIOUS
<1>. QED  BY <1>1, GrantPathIsGranted

\* Two steps, of which the second may be another's.
LEMMA TwoHopsAreGranted ==
    ASSUME NEW g, NEW grant, NEW target, NEW confidence, NEW pattern,
           NEW a, NEW b, NEW c, NEW x, NEW y, NEW z,
           confidence = "high" => grant.confidence = "high",
           GrantSays(g, grant, a, b), z = grant.principal => GrantSays(g, grant, x, y),
           NEW hops, hops = <<<<c, b, a>>, <<z, y, x>>>>
    PROVE  IsGrantedBy(g, grant, GrantPath(g, grant, target, hops, confidence, pattern))
<1>1. DOMAIN hops = 1..2 /\ hops[1] = <<c, b, a>> /\ hops[2] = <<z, y, x>>
    OBVIOUS
<1>2. hops[1][3] = a /\ hops[1][2] = b /\ hops[2][1] = z /\ hops[2][2] = y /\ hops[2][3] = x
    BY <1>1
<1>3. \A i \in 1..2 : i = 1 \/ i = 2
    OBVIOUS
<1>4. ASSUME NEW i \in DOMAIN hops, hops[i][1] = grant.principal PROVE GrantSays(g, grant, hops[i][3], hops[i][2])
    <2>1. CASE i = 1
        BY <1>2, <2>1
    <2>2. CASE i = 2
        BY <1>2, <1>4, <2>2
    <2>. QED  BY <1>1, <1>3, <2>1, <2>2
<1>. QED  BY <1>4, GrantPathIsGranted

\* Several actions on one target.
LEMMA CombinedAreGranted ==
    ASSUME NEW g, NEW grant, NEW targets, NEW actions, NEW pattern
    PROVE  \A p \in Combined(g, grant, targets, actions, pattern) : IsGrantedBy(g, grant, p)
<1>. SUFFICES ASSUME NEW p \in Combined(g, grant, targets, actions, pattern) PROVE IsGrantedBy(g, grant, p)
    OBVIOUS
<1>. DEFINE confidence == IF grant.notAction THEN "medium" ELSE GrantConfidence(grant)
            Hops(id) == [i \in DOMAIN actions |-> <<grant.principal, id, actions[i]>>]
<1>1. PICK id : /\ \A i \in DOMAIN actions : GrantAllowsOn(grant, actions[i], g.nodes[id])
                /\ p = GrantPath(g, grant, id, Hops(id), confidence, pattern)
    BY DEF Combined
<1>2. confidence = "high" => grant.confidence = "high"
    BY CertainGrant
<1>3. DOMAIN Hops(id) = DOMAIN actions /\ \A i \in DOMAIN actions : Hops(id)[i][3] = actions[i] /\ Hops(id)[i][2] = id
    OBVIOUS
<1>. HIDE DEF confidence, Hops
<1>4. \A i \in DOMAIN Hops(id) : GrantSays(g, grant, Hops(id)[i][3], Hops(id)[i][2])
    BY <1>1, <1>3, AllowedOnSays
<1>. QED  BY <1>1, <1>2, <1>4, GrantPathIsGranted

\* validComputeMutationForRole: what runs code as the role is allowed somewhere.
LEMMA MutationsAreAllowed ==
    ASSUME NEW g, NEW grant, NEW role, NEW m \in ValidComputeMutation(g, grant, role)
    PROVE  GrantSays(g, grant, m, "compute")
<1>. DEFINE OnSome(action) == \E id \in DOMAIN g.nodes : GrantAllowsOn(grant, action, g.nodes[id])
<1>1. GrantAllows(grant, m) \/ OnSome(m)
    <2>1. OfType(g.nodes, {"aws_lambda_function"}) \subseteq DOMAIN g.nodes
          /\ OfType(g.nodes, {"aws_ecs_service"}) \subseteq DOMAIN g.nodes
        BY DEF OfType
    <2>. QED  BY <2>1 DEF ValidComputeMutation
<1>. QED  BY <1>1, AllowedOnSays, AllowedSays

\* Principals are principals.
LEMMA PrincipalsAreNodes ==
    ASSUME NEW g, IsGraph(g), NEW policy
    PROVE  PrincipalsForPolicyNode(g, policy) \subseteq Nodes(g, "principal")
<1>1. ASSUME NEW name PROVE FindPrincipalByName(g, name) \subseteq Nodes(g, "principal")
    <2>. DEFINE hits == {id \in Nodes(g, "principal") : name \in KnownAs(g.nodes[id], {"address", "name", "id", "arn"})}
    <2>1. hits \subseteq IDs /\ hits \subseteq Nodes(g, "principal")
        BY DEF Nodes, IsGraph, AreNodes
    <2>2. FindPrincipalByName(g, name) = IF hits = {} THEN {} ELSE {First(hits)}
        BY DEF FindPrincipalByName
    <2>. HIDE DEF hits
    <2>3. hits # {} => First(hits) \in hits
        BY <2>1, FirstIsOne
    <2>. QED  BY <2>1, <2>2, <2>3
<1>. QED  BY <1>1 DEF PrincipalsForPolicyNode

\* Who is granted something is a principal.
LEMMA GrantedToPrincipals ==
    ASSUME NEW g, IsGraph(g), NEW grant \in CollectIAMGrants(g)
    PROVE  grant.principal \in Nodes(g, "principal")
<1>. DEFINE Seen(id) == GrantFromObservedActions(g, id) \union GrantsFromCloudActionEdges(g, id)
            Told(id) == {GrantFromStatements(p, id, g.nodes[id].policy) : p \in PrincipalsForPolicyNode(g, id)}
            withPolicy == {x \in Nodes(g, "policy") : g.nodes[x].policy # << >>}
<1>1. CollectIAMGrants(g) =
        UNION {UNION {Seen(id) : id \in Nodes(g, "principal")}, UNION {Told(id) : id \in withPolicy}}
    BY DEF CollectIAMGrants
<1>2. \A id : \A x \in Seen(id) : x.principal = id
    BY DEF GrantFromObservedActions, GrantsFromCloudActionEdges
<1>3. \A id : \A x \in Told(id) : x.principal \in Nodes(g, "principal")
    BY PrincipalsAreNodes DEF GrantFromStatements
<1>. HIDE DEF Seen, Told, withPolicy
<1>. QED  BY <1>1, <1>2, <1>3

\* What a grant leads to asks for what the grant says.
LEMMA GrantPathsAreGranted ==
    ASSUME NEW g, NEW grant, grant.principal \in Nodes(g, "principal")
    PROVE  /\ \A p \in DetectPassRoleComputeMutation(g, grant) : IsGrantedBy(g, grant, p)
           /\ \A p \in DetectAssumeAdminRole(g, grant) : IsGrantedBy(g, grant, p)
           /\ \A p \in DetectFunctionUpdate(g, grant) : IsGrantedBy(g, grant, p)
           /\ \A p \in DetectECSUpdateService(g, grant) : IsGrantedBy(g, grant, p)
           /\ \A p \in DetectIAMPolicyMutation(g, grant) : IsGrantedBy(g, grant, p)
           /\ \A p \in DetectPathfindingCatalog(g, grant) : IsGrantedBy(g, grant, p)
<1>1. ASSUME NEW p \in DetectPassRoleComputeMutation(g, grant) PROVE IsGrantedBy(g, grant, p)
    <2>. DEFINE Confidence(m) == IF m = CreateFunction /\ ~GrantAllows(grant, <<"lambda", "InvokeFunction">>)
                                 THEN Weaker("medium", GrantConfidence(grant)) ELSE GrantConfidence(grant)
                Via(role, m) == GrantPath(g, grant, role,
                                          <<<<grant.principal, role, PassRole>>, <<grant.principal, "compute", m>>>>,
                                          Confidence(m), "passrole_compute_mutation")
                roles == {r \in MatchingRoles(g, grant, PassRole) : PrivilegedOrSensitiveRole(g, r)}
    <2>1. DetectPassRoleComputeMutation(g, grant)
            \subseteq UNION {{Via(role, m) : m \in ValidComputeMutation(g, grant, role)} : role \in roles}
        BY DEF DetectPassRoleComputeMutation
    <2>. HIDE DEF Via, roles
    <2>2. PICK role \in roles : \E m \in ValidComputeMutation(g, grant, role) : p = Via(role, m)
        BY <2>1
    <2>3. PICK m \in ValidComputeMutation(g, grant, role) : p = Via(role, m)
        BY <2>2
    <2>. DEFINE confidence == Confidence(m)
                hops == <<<<grant.principal, role, PassRole>>, <<grant.principal, "compute", m>>>>
    <2>4. p = GrantPath(g, grant, role, hops, confidence, "passrole_compute_mutation")
        BY <2>3 DEF Via
    <2>5. confidence = "high" => grant.confidence = "high"
        BY CertainGrant
    <2>6. GrantSays(g, grant, m, "compute")
        BY MutationsAreAllowed
    <2>7. GrantSays(g, grant, PassRole, role)
        BY AllowedOnSays DEF roles, MatchingRoles
    <2>8. hops = <<<<grant.principal, role, PassRole>>, <<grant.principal, "compute", m>>>>
        OBVIOUS
    <2>. HIDE DEF hops, confidence
    <2>9. IsGrantedBy(g, grant, GrantPath(g, grant, role, hops, confidence, "passrole_compute_mutation"))
        BY <2>5, <2>6, <2>7, <2>8, TwoHopsAreGranted
    <2>. QED  BY <2>4, <2>9
<1>2. ASSUME NEW p \in DetectAssumeAdminRole(g, grant) PROVE IsGrantedBy(g, grant, p)
    <2>1. PICK role \in MatchingRoles(g, grant, AssumeRole) :
            p = GrantPath(g, grant, role, <<<<grant.principal, role, AssumeRole>>>>, GrantConfidence(grant),
                          "assume_privileged_role")
        BY DEF DetectAssumeAdminRole
    <2>. DEFINE hops == <<<<grant.principal, role, AssumeRole>>>>
    <2>2. GrantSays(g, grant, AssumeRole, role)
        BY AllowedOnSays DEF MatchingRoles
    <2>3. hops = <<<<grant.principal, role, AssumeRole>>>>
        OBVIOUS
    <2>4. p = GrantPath(g, grant, role, hops, GrantConfidence(grant), "assume_privileged_role")
        BY <2>1
    <2>. HIDE DEF hops
    <2>5. IsGrantedBy(g, grant, GrantPath(g, grant, role, hops, GrantConfidence(grant), "assume_privileged_role"))
        BY <2>2, <2>3, CertainGrant, OneHopIsGranted
    <2>. QED  BY <2>4, <2>5
<1>3. ASSUME NEW id \in Nodes(g, "workload") PROVE id # grant.principal
    BY DEF Nodes
<1>4. ASSUME NEW p \in DetectFunctionUpdate(g, grant) PROVE IsGrantedBy(g, grant, p)
    <2>. DEFINE act == <<"workload", "role">>
    <2>1. PICK fn, role :
            /\ fn \in Nodes(g, "workload") /\ GrantAllowsOn(grant, UpdateCode, g.nodes[fn])
            /\ p = GrantPath(g, grant, role, <<<<grant.principal, fn, UpdateCode>>, <<fn, role, act>>>>,
                             GrantConfidence(grant), "lambda_update_execution_role")
        BY DEF DetectFunctionUpdate
    <2>. HIDE DEF act
    <2>. DEFINE hops == <<<<grant.principal, fn, UpdateCode>>, <<fn, role, act>>>>
    <2>2. hops = <<<<grant.principal, fn, UpdateCode>>, <<fn, role, act>>>>
        OBVIOUS
    <2>3. GrantSays(g, grant, UpdateCode, fn) /\ fn # grant.principal
        BY <1>3, <2>1, AllowedOnSays
    <2>4. p = GrantPath(g, grant, role, hops, GrantConfidence(grant), "lambda_update_execution_role")
        BY <2>1
    <2>. HIDE DEF hops
    <2>5. IsGrantedBy(g, grant, GrantPath(g, grant, role, hops, GrantConfidence(grant), "lambda_update_execution_role"))
        BY <2>2, <2>3, CertainGrant, TwoHopsAreGranted
    <2>. QED  BY <2>4, <2>5
<1>5. ASSUME NEW p \in DetectECSUpdateService(g, grant) PROVE IsGrantedBy(g, grant, p)
    <2>. DEFINE act == <<"workload", "role">>
    <2>1. PICK s, role :
            /\ s \in Nodes(g, "workload") /\ GrantAllowsOn(grant, UpdateService, g.nodes[s])
            /\ p = GrantPath(g, grant, role, <<<<grant.principal, s, UpdateService>>, <<s, role, act>>>>,
                             GrantConfidence(grant), "ecs_update_sensitive_task_role")
        BY DEF DetectECSUpdateService
    <2>. HIDE DEF act
    <2>. DEFINE hops == <<<<grant.principal, s, UpdateService>>, <<s, role, act>>>>
    <2>2. hops = <<<<grant.principal, s, UpdateService>>, <<s, role, act>>>>
        OBVIOUS
    <2>3. GrantSays(g, grant, UpdateService, s) /\ s # grant.principal
        BY <1>3, <2>1, AllowedOnSays
    <2>4. p = GrantPath(g, grant, role, hops, GrantConfidence(grant), "ecs_update_sensitive_task_role")
        BY <2>1
    <2>. HIDE DEF hops
    <2>5. IsGrantedBy(g, grant, GrantPath(g, grant, role, hops, GrantConfidence(grant), "ecs_update_sensitive_task_role"))
        BY <2>2, <2>3, CertainGrant, TwoHopsAreGranted
    <2>. QED  BY <2>4, <2>5
<1>6. ASSUME NEW p \in DetectIAMPolicyMutation(g, grant) PROVE IsGrantedBy(g, grant, p)
    <2>1. PICK x \in DOMAIN NativePatterns : p \in Combined(g, grant, EscalationTargets(g, grant, x), NativePatterns[x], x)
        BY DEF DetectIAMPolicyMutation
    <2>. QED  BY <2>1, CombinedAreGranted
<1>7. ASSUME NEW p \in DetectPathfindingCatalog(g, grant) PROVE IsGrantedBy(g, grant, p)
    <2>1. PICK e \in Catalog : p \in Combined(g, grant, PathfindingTargets(g, grant, e), e.actions, "pathfinding_catalog")
        BY DEF DetectPathfindingCatalog
    <2>. QED  BY <2>1, CombinedAreGranted
<1>. QED  BY <1>1, <1>2, <1>4, <1>5, <1>6, <1>7

\* A certain grant of a policy is one that its statements leave no doubt about.
LEMMA SaidByPolicy ==
    ASSUME NEW g, NEW principal, NEW policy,
           NEW grant, grant = GrantFromStatements(principal, policy, g.nodes[policy].policy), grant.confidence = "high",
           NEW action, NEW target, GrantSays(g, grant, action, target)
    PROVE  PlainlyAllowed(g, policy, action, target)
<1>. DEFINE all == Range(g.nodes[policy].policy)
            allows == {s \in all : s.effect = "allow"}
            denies == {s \in all : s.effect = "deny"}
            names == KnownAs(g.nodes[target], {"address", "name", "arn", "id"})
<1>1. /\ \A s \in all : ~s.condition
      /\ \A s \in allows \union denies : s.notActions = {}
      /\ grant.allows = {ScopeOf(s) : s \in allows} /\ grant.denies = {ScopeOf(s) : s \in denies}
    BY DEF GrantFromStatements
<1>. HIDE DEF allows, denies, all
<1>2. ASSUME NEW s, s.notActions = {}
      PROVE  /\ ScopeAllowsAction(ScopeOf(s), action) <=> \E a \in s.actions : ActionMatches(a, action)
             /\ ResourceScopeCovers(ScopeOf(s), g.nodes[target]) <=>
                    /\ s.resources = {} \/ s.resources \intersect (names \union {"*"}) # {}
                    /\ s.notResources \intersect (names \union {"*"}) = {}
             /\ "*" \in ScopeOf(s).resources <=> s.resources = {} \/ "*" \in s.resources
             /\ ScopeOf(s).notResources = s.notResources
    BY <1>2 DEF ScopeOf, ScopeAllowsAction, ResourceScopeCovers, ResourceCovered
<1>3. PICK s \in allows : /\ ScopeAllowsAction(ScopeOf(s), action)
                          /\ target # "compute" => ResourceScopeCovers(ScopeOf(s), g.nodes[target])
    BY <1>1 DEF GrantSays
<1>4. ASSUME NEW d \in denies
      PROVE  ~ /\ ScopeAllowsAction(ScopeOf(d), action)
               /\ IF target = "compute" THEN "*" \in ScopeOf(d).resources /\ ScopeOf(d).notResources = {}
                  ELSE ResourceScopeCovers(ScopeOf(d), g.nodes[target])
    BY <1>1 DEF GrantSays
<1>. DEFINE Allowing(x) == IF target = "compute" THEN \E a \in x.actions : ActionMatches(a, action)
                           ELSE IsAbout(x, action, names)
            Denying(x) == IF target = "compute" THEN x.notResources = {} /\ IsAbout(x, action, {})
                          ELSE IsAbout(x, action, names)
<1>5. Allowing(s)
    BY <1>1, <1>2, <1>3 DEF IsAbout
<1>6. ASSUME NEW d \in denies PROVE ~Denying(d)
    BY <1>1, <1>2, <1>4 DEF IsAbout
<1>. HIDE DEF Allowing, Denying
<1>7. s \in {x \in all : x.effect \in {"allow", "deny"}} /\ s.effect = "allow"
    BY DEF allows
<1>8. \A d \in {x \in all : x.effect \in {"allow", "deny"}} : d.effect = "deny" => ~Denying(d)
    BY <1>6 DEF denies
<1>9. \A x \in {y \in all : y.effect \in {"allow", "deny"}} : ~x.condition /\ x.notActions = {}
    BY <1>1 DEF allows, denies
<1>. QED  BY <1>5, <1>7, <1>8, <1>9 DEF PlainlyAllowed, Allowing, Denying, all

\* A certain grant of what was seen is of what was seen together.
LEMMA SightedTogether ==
    ASSUME NEW g, IsGraph(g), NEW id,
           NEW grant \in GrantFromObservedActions(g, id) \union GrantsFromCloudActionEdges(g, id),
           grant.confidence = "high"
    PROVE  \E seen \in SeenTogether(g, id) : grant.allows = {OpenScope(seen)}
<1>. DEFINE certain == {x \in DOMAIN g.edges : x[1] = id /\ x[2] = "grants_permission"
                                               /\ x[3] \in DOMAIN ActionNodes /\ CertainEdge(g, x)}
            led == {ActionNodes[e[3]] : e \in certain}
<1>1. SeenTogether(g, id) = {g.nodes[id].observed, led}
    BY DEF SeenTogether
<1>2. CASE grant \in GrantFromObservedActions(g, id)
    <2>1. grant.allows = {OpenScope(g.nodes[id].observed)}
        BY <1>2 DEF GrantFromObservedActions
    <2>. QED  BY <1>1, <2>1
<1>3. CASE grant \in GrantsFromCloudActionEdges(g, id)
    <2>. DEFINE taken == {e \in Outgoing(g, id, {"grants_permission"}) : e[3] \in DOMAIN ActionNodes}
                uncertain == {e \in taken : g.edges[e].confidence # "high"}
                actions == {ActionNodes[e[3]] : e \in taken}
    <2>1. grant.allows = {OpenScope(actions)}
          /\ grant.confidence = IF uncertain = {} THEN "high" ELSE g.edges[LastEdge(uncertain)].confidence
        BY <1>3 DEF GrantsFromCloudActionEdges
    <2>2. uncertain = {}
        <3>1. uncertain \subseteq EdgeKeysOf /\ \A e \in uncertain : g.edges[e].confidence # "high"
            BY DEF Outgoing, IsGraph
        <3>. HIDE DEF uncertain
        <3>2. uncertain # {} => LastEdge(uncertain) \in uncertain
            BY <3>1, EdgesByKey
        <3>. QED  BY <2>1, <3>1, <3>2
    <2>3. taken = certain
        BY <2>2 DEF Outgoing, CertainEdge
    <2>4. actions = led
        <3>. HIDE DEF taken, certain
        <3>. QED  BY <2>3
    <2>. HIDE DEF actions, led
    <2>. QED  BY <1>1, <2>1, <2>4
<1>. QED  BY <1>2, <1>3

\* And so is whatever it says.
LEMMA SaidBySight ==
    ASSUME NEW g, NEW seen, NEW grant, grant.allows = {OpenScope(seen)},
           NEW action, NEW target, GrantSays(g, grant, action, target)
    PROVE  \E a \in seen : ActionMatches(a, action)
<1>1. ScopeAllowsAction(OpenScope(seen), action)
    BY DEF GrantSays
<1>. QED  BY <1>1 DEF ScopeAllowsAction, OpenScope

\* A certain path that a grant is behind is allowed in every step.
GrantedIfCertain(g, p) ==
    p.confidence = "high" /\ p.type = Escalation /\ p.pattern \in FromGrants => AllowedByOne(g, p)

\* What a certain grant says, one policy says, or what was seen.
LEMMA ByGrantsAllowed ==
    ASSUME NEW g, IsGraph(g), NEW grant \in CollectIAMGrants(g), NEW p \in ByOneGrant(g, grant)
    PROVE  GrantedIfCertain(g, p)
<1>. SUFFICES ASSUME p.confidence = "high" PROVE AllowedByOne(g, p)
    BY DEF GrantedIfCertain
<1>. DEFINE asked == {i \in DOMAIN p.steps : p.steps[i].from = p.principal}
            Seen(id) == GrantFromObservedActions(g, id) \union GrantsFromCloudActionEdges(g, id)
            Told(id) == {GrantFromStatements(x, id, g.nodes[id].policy) : x \in PrincipalsForPolicyNode(g, id)}
            withPolicy == {x \in Nodes(g, "policy") : g.nodes[x].policy # << >>}
<1>1. IsGrantedBy(g, grant, p)
    BY GrantedToPrincipals, GrantPathsAreGranted DEF ByOneGrant
<1>2. /\ p.principal = grant.principal /\ grant.confidence = "high"
      /\ \A i \in asked : GrantSays(g, grant, p.steps[i].action, p.steps[i].to)
    BY <1>1 DEF IsGrantedBy
<1>. HIDE DEF asked
<1>3. CollectIAMGrants(g) =
        UNION {UNION {Seen(id) : id \in Nodes(g, "principal")}, UNION {Told(id) : id \in withPolicy}}
    BY DEF CollectIAMGrants
<1>4. ASSUME NEW id, grant \in Seen(id) PROVE AllowedByOne(g, p)
    <2>1. grant.principal = id
        BY <1>4 DEF GrantFromObservedActions, GrantsFromCloudActionEdges
    <2>2. PICK seen \in SeenTogether(g, p.principal) : grant.allows = {OpenScope(seen)}
        BY <1>2, <1>4, <2>1, SightedTogether
    <2>3. \A i \in asked : \E a \in seen : ActionMatches(a, p.steps[i].action)
        BY <1>2, <2>2, SaidBySight
    <2>. QED  BY <2>3 DEF AllowedByOne, asked
<1>5. ASSUME NEW id \in withPolicy, grant \in Told(id) PROVE AllowedByOne(g, p)
    <2>1. PICK x \in PrincipalsForPolicyNode(g, id) : grant = GrantFromStatements(x, id, g.nodes[id].policy)
        BY <1>5
    <2>2. grant.principal = x
        BY <2>1 DEF GrantFromStatements
    <2>3. \A i \in asked : PlainlyAllowed(g, id, p.steps[i].action, p.steps[i].to)
        BY <1>2, <2>1, SaidByPolicy
    <2>4. id \in Nodes(g, "policy") /\ p.principal \in PrincipalsForPolicyNode(g, id)
        BY <1>2, <2>1, <2>2
    <2>. QED  BY <2>3, <2>4 DEF AllowedByOne, asked
<1>. DEFINE told == UNION {Told(id) : id \in withPolicy}
<1>6. CASE grant \in told
    <2>1. PICK id \in withPolicy : grant \in Told(id)
        BY <1>6
    <2>. QED  BY <2>1, <1>5
<1>7. CASE grant \notin told
    <2>1. grant \in UNION {Seen(id) : id \in Nodes(g, "principal")}
        <3>. HIDE DEF Seen, Told, withPolicy
        <3>. QED  BY <1>3, <1>7
    <2>2. PICK id \in Nodes(g, "principal") : grant \in Seen(id)
        BY <2>1
    <2>. QED  BY <2>2, <1>4
<1>. QED  BY <1>6, <1>7

\* No grant is behind an edge or a chain.
LEMMA OthersAreNotFromGrants ==
    ASSUME NEW g, NEW p \in DetectAssumeAdminRoleByEdge(g) \union DetectRoleAssumptionChains(g)
    PROVE  GrantedIfCertain(g, p)
<1>. DEFINE others == {"assume_by_edge", "role_assumption_chain"}
<1>1. p.pattern \in others
    <2>2. CASE p \in DetectAssumeAdminRoleByEdge(g)
        <3>1. PICK principal, target, steps, confidence :
                p = IAMPath(g, principal, target, steps, confidence, "assume_by_edge", FALSE)
            BY <2>2 DEF DetectAssumeAdminRoleByEdge
        <3>2. p.pattern = "assume_by_edge"
            BY <3>1 DEF IAMPath
        <3>. QED  BY <3>2
    <2>3. CASE p \in DetectRoleAssumptionChains(g)
        <3>1. PICK principal, target, steps, confidence :
                p = IAMPath(g, principal, target, steps, confidence, "role_assumption_chain", FALSE)
            BY <2>3 DEF DetectRoleAssumptionChains
        <3>2. p.pattern = "role_assumption_chain"
            BY <3>1 DEF IAMPath
        <3>. QED  BY <3>2
    <2>. QED  BY <2>2, <2>3
<1>2. "assume_by_edge" \notin FromGrants /\ "role_assumption_chain" \notin FromGrants
    BY DEF FromGrants, NativePatterns
<1>. QED  BY <1>1, <1>2 DEF GrantedIfCertain

-----------------------------------------------------------------------------
(***************************************************************************)
(* Which ways are found.  There are finitely many, so a search within its  *)
(* limits keeps all of them; no way is found before itself.                *)
(***************************************************************************)

\* A graph has finitely many edges.
LEMMA FiniteEdges ==
    ASSUME NEW g, IsGraph(g)
    PROVE  IsFiniteSet(DOMAIN g.edges)
<1>1. IsFiniteSet(IDs)
    <2>1. DOMAIN Addresses = 1..Len(Addresses) /\ Addresses \in Seq(IDs)
        BY GraphAssumption
    <2>2. \A id \in IDs : \E i \in 1..Len(Addresses) : Addresses[i] = id
        BY <2>1 DEF IDs, Range
    <2>. QED  BY <2>1, <2>2 DEF IsFiniteSet
<1>2. IsFiniteSet(Range(EdgeTypes))
    <2>0. \A n \in Nat : IsFiniteSet(1..n)
        BY FS_Interval
    <2>1. DOMAIN EdgeTypes = 1..18
        BY DEF EdgeTypes
    <2>2. EdgeTypes = [i \in 1..18 |-> EdgeTypes[i]]
        BY DEF EdgeTypes
    <2>3. \A i \in 1..18 : EdgeTypes[i] \in Range(EdgeTypes)
        BY <2>1 DEF Range
    <2>4. \A t \in Range(EdgeTypes) : \E i \in 1..18 : EdgeTypes[i] = t
        BY <2>1 DEF Range
    <2>5. IsFiniteSet(1..18)
        BY <2>0
    <2>6. EdgeTypes \in Surjection(1..18, Range(EdgeTypes))
        BY <2>2, <2>3, <2>4 DEF Surjection
    <2>. QED  BY <2>5, <2>6, FS_Surjection
<1>. DEFINE pairs == IDs \X Range(EdgeTypes)
            triples == pairs \X IDs
            f == [x \in triples |-> <<x[1][1], x[1][2], x[2]>>]
<1>3. IsFiniteSet(triples)
    <2>1. IsFiniteSet(pairs)
        BY <1>1, <1>2, FS_Product
    <2>. HIDE DEF pairs
    <2>. QED  BY <1>1, <2>1, FS_Product
<1>4. f \in Surjection(triples, EdgeKeysOf)
    <2>1. \A x \in triples : f[x] \in EdgeKeysOf
        BY DEF EdgeKeysOf
    <2>2. \A e \in EdgeKeysOf : <<<<e[1], e[2]>>, e[3]>> \in triples /\ f[<<<<e[1], e[2]>>, e[3]>>] = e
        BY DEF EdgeKeysOf
    <2>3. f = [x \in triples |-> f[x]]
        OBVIOUS
    <2>. HIDE DEF f, triples
    <2>. QED  BY <2>1, <2>2, <2>3 DEF Surjection
<1>. HIDE DEF f, triples
<1>5. IsFiniteSet(EdgeKeysOf)
    BY <1>3, <1>4, FS_Surjection
<1>6. DOMAIN g.edges \in SUBSET EdgeKeysOf
    BY DEF IsGraph
<1>. QED  BY <1>5, <1>6, FS_Subset

\* Finitely many paths have finitely many extensions.
LEMMA FiniteExtensions ==
    ASSUME NEW g, IsGraph(g), NEW from, NEW allowed, NEW paths, IsFiniteSet(paths)
    PROVE  IsFiniteSet(Extensions(g, from, allowed, paths))
<1>. DEFINE pairs == paths \X DOMAIN g.edges
            f == [x \in pairs |-> Append(x[1], x[2])]
            T == {f[x] : x \in pairs}
<1>1. IsFiniteSet(pairs)
    BY FiniteEdges, FS_Product
<1>2. f \in Surjection(pairs, T)
    <2>1. f = [x \in pairs |-> f[x]]
        OBVIOUS
    <2>. HIDE DEF f, pairs
    <2>. QED  BY <2>1 DEF Surjection
<1>3. IsFiniteSet(T)
    <2>. HIDE DEF f, pairs, T
    <2>. QED  BY <1>1, <1>2, FS_Surjection
<1>4. Extensions(g, from, allowed, paths) \subseteq T
    <2>1. ASSUME NEW q \in Extensions(g, from, allowed, paths)
          PROVE  \E p \in paths : \E e \in DOMAIN g.edges : q = Append(p, e)
        BY <2>1 DEF Extensions, Outgoing
    <2>2. \A p \in paths : \A e \in DOMAIN g.edges : <<p, e>> \in pairs /\ f[<<p, e>>] = Append(p, e)
        OBVIOUS
    <2>. HIDE DEF f, pairs
    <2>. QED  BY <2>1, <2>2
<1>. HIDE DEF T
<1>5. Extensions(g, from, allowed, paths) \in SUBSET T
    BY <1>4
<1>. QED  BY <1>3, <1>5, FS_Subset

\* The search in depth finds finitely many paths.
LEMMA FiniteWays ==
    ASSUME NEW g, IsGraph(g), NEW from, NEW allowed, NEW depth \in Nat
    PROVE  IsFiniteSet(SimplePaths(g, from, allowed, depth))
<1>. DEFINE upTo == Walks(g, from, allowed, depth)
            S == {n \in Nat : IsFiniteSet(upTo[n])}
<1>1. upTo = [n \in 0..depth |-> IF n = 0 THEN {<< >>}
                                 ELSE LET shorter == upTo[n - 1]
                                      IN  shorter \union Extensions(g, from, allowed, {p \in shorter : Len(p) = n - 1})]
    BY WalksEquation
<1>. HIDE DEF upTo
<1>2. 0 \in S
    <2>1. upTo[0] = {<< >>}
        BY <1>1
    <2>. QED  BY <2>1, FS_Singleton
<1>3. ASSUME NEW n \in 0..depth, n # depth, n \in S PROVE n + 1 \in S
    <2>. DEFINE before == upTo[(n + 1) - 1]
                last == {p \in before : Len(p) = (n + 1) - 1}
    <2>1. n + 1 \in 0..depth /\ n + 1 # 0 /\ (n + 1) - 1 = n
        BY <1>3
    <2>2. upTo[n + 1] = before \union Extensions(g, from, allowed, last)
        BY <1>1, <2>1
    <2>3. IsFiniteSet(before)
        BY <1>3, <2>1
    <2>. HIDE DEF before
    <2>4. last \in SUBSET before
        OBVIOUS
    <2>5. IsFiniteSet(last)
        BY <2>3, <2>4, FS_Subset
    <2>. HIDE DEF last
    <2>6. IsFiniteSet(Extensions(g, from, allowed, last))
        BY <2>5, FiniteExtensions
    <2>7. IsFiniteSet(upTo[n + 1])
        BY <2>2, <2>3, <2>6, FS_Union
    <2>. QED  BY <1>3, <2>7
<1>4. 0..depth \subseteq S
    <2>. HIDE DEF S
    <2>. QED  BY <1>2, <1>3, AllNumbersUpTo
<1>. QED  BY <1>4 DEF SimplePaths, upTo

\* FlattenSeq, one sequence after the other.
LEMMA FlattenEquation ==
    ASSUME NEW seqs, Len(seqs) \in Nat \ {0}
    PROVE  \E up : /\ up = [i \in 1..Len(seqs) |-> IF i = 1 THEN seqs[i] ELSE up[i - 1] \o seqs[i]]
                   /\ FlattenSeq(seqs) = up[Len(seqs)]
<1>. DEFINE IsUpTo(f, N) == f = [i \in 1..N |-> IF i = 1 THEN seqs[i] ELSE f[i - 1] \o seqs[i]]
            Defined == {N \in Nat : \E f : IsUpTo(f, N)}
<1>1. 0 \in Defined
    <2>. DEFINE f == [i \in 1..0 |-> 0]
    <2>1. IsUpTo(f, 0)
        OBVIOUS
    <2>. QED  BY <2>1
<1>2. ASSUME NEW N \in Nat, N \in Defined PROVE N + 1 \in Defined
    <2>1. PICK f : IsUpTo(f, N)
        BY <1>2
    <2>. DEFINE h == [i \in 1..N + 1 |-> IF i \in 1..N THEN f[i] ELSE IF i = 1 THEN seqs[i] ELSE f[N] \o seqs[i]]
    <2>2. ASSUME NEW i \in 1..N + 1 PROVE h[i] = IF i = 1 THEN seqs[i] ELSE h[i - 1] \o seqs[i]
        <3>1. CASE i \in 1..N
            <4>1. h[i] = f[i] /\ (i # 1 => i - 1 \in 1..N /\ h[i - 1] = f[i - 1])
                BY <3>1
            <4>. QED  BY <2>1, <3>1, <4>1
        <3>2. CASE i \notin 1..N
            <4>1. i = N + 1 /\ i - 1 = N /\ (i # 1 => N \in 1..N)
                BY <3>2
            <4>2. h[i] = IF i = 1 THEN seqs[i] ELSE f[N] \o seqs[i]
                BY <3>2
            <4>3. i # 1 => h[i - 1] = f[N]
                BY <4>1
            <4>. HIDE DEF h
            <4>. QED  BY <4>2, <4>3
        <3>. QED  BY <3>1, <3>2
    <2>3. IsUpTo(h, N + 1)
        <3>1. h = [i \in 1..N + 1 |-> h[i]]
            OBVIOUS
        <3>. HIDE DEF h
        <3>. QED  BY <2>2, <3>1
    <2>. HIDE DEF h, IsUpTo
    <2>4. \E up : IsUpTo(up, N + 1)
        BY <2>3
    <2>. QED  BY <2>4
<1>3. Len(seqs) \in Defined
    <2>1. Nat \subseteq Defined
        <3>. HIDE DEF Defined
        <3>. QED  BY <1>1, <1>2, AllNumbers
    <2>. QED  BY <2>1
<1>. DEFINE up == CHOOSE f : IsUpTo(f, Len(seqs))
<1>4. IsUpTo(up, Len(seqs))
    <2>1. \E f : IsUpTo(f, Len(seqs))
        BY <1>3
    <2>. HIDE DEF IsUpTo
    <2>. QED  BY <2>1
<1>5. FlattenSeq(seqs) = up[Len(seqs)]
    BY DEF FlattenSeq
<1>. HIDE DEF up
<1>. QED  BY <1>4, <1>5

\* The keys of a way are numbers, so it is not found before itself.
LEMMA NotBeforeItself ==
    ASSUME NEW g, NEW from, NEW p, IsWalk(g, from, p), p # << >>
    PROVE  ~FoundBefore(p, p)
<1>. DEFINE keys == [i \in DOMAIN p |-> EdgeKey(p[i])]
            n == Len(p)
<1>1. n \in Nat /\ n # 0 /\ DOMAIN p = 1..n /\ \A i \in 1..n : p[i] \in EdgeKeysOf
    BY DEF IsWalk
<1>2. DOMAIN keys = 1..n /\ Len(keys) = n /\ \A i \in 1..n : keys[i] \in Seq(Nat)
    <2>1. ASSUME NEW i \in 1..n PROVE keys[i] \in Seq(Nat)
        <3>. DEFINE x == Position(p[i][1])
                    y == TypePosition(p[i][2])
                    z == Position(p[i][3])
        <3>1. p[i] \in EdgeKeysOf
            BY <1>1
        <3>2. Len(Addresses) \in Nat
            BY GraphAssumption
        <3>3. x \in 1..Len(Addresses) /\ y \in 1..18 /\ z \in 1..Len(Addresses) /\ EdgeKey(p[i]) = <<x, y, z>>
            BY <3>1, KeyOfEdge
        <3>4. keys[i] = EdgeKey(p[i])
            BY <1>1
        <3>. HIDE DEF x, y, z, keys
        <3>5. x \in Nat /\ y \in Nat /\ z \in Nat
            BY <3>2, <3>3
        <3>. QED  BY <3>3, <3>4, <3>5
    <2>2. DOMAIN keys = 1..n
        BY <1>1
    <2>3. keys = [i \in 1..n |-> keys[i]]
        BY <1>1
    <2>. HIDE DEF keys
    <2>4. keys \in Seq(Seq(Nat))
        BY <1>1, <2>1, <2>3
    <2>. QED  BY <1>1, <2>1, <2>2, <2>4
<1>3. EdgeKeys(p) = FlattenSeq(keys)
    BY DEF EdgeKeys
<1>. HIDE DEF keys, n
<1>4. PICK up : /\ up = [i \in 1..n |-> IF i = 1 THEN keys[i] ELSE up[i - 1] \o keys[i]]
                /\ FlattenSeq(keys) = up[n]
    BY <1>1, <1>2, FlattenEquation
<1>. DEFINE S == {m \in Nat : m \in 1..n => up[m] \in Seq(Nat)}
<1>5. 0 \in S
    OBVIOUS
<1>6. ASSUME NEW m \in Nat, m \in S PROVE m + 1 \in S
    <2>. SUFFICES ASSUME m + 1 \in 1..n PROVE up[m + 1] \in Seq(Nat)
        OBVIOUS
    <2>1. up[m + 1] = IF m + 1 = 1 THEN keys[m + 1] ELSE up[(m + 1) - 1] \o keys[m + 1]
        BY <1>4
    <2>2. (m + 1) - 1 = m /\ keys[m + 1] \in Seq(Nat)
        BY <1>2
    <2>3. CASE m = 0
        BY <2>1, <2>2, <2>3
    <2>4. CASE m # 0
        <3>1. m \in 1..n
            BY <1>1, <2>4
        <3>2. up[m] \in Seq(Nat)
            BY <1>6, <3>1
        <3>. QED  BY <2>1, <2>2, <2>4, <3>2
    <2>. QED  BY <2>3, <2>4
<1>7. up[n] \in Seq(Nat)
    <2>1. Nat \subseteq S
        <3>. HIDE DEF S
        <3>. QED  BY <1>5, <1>6, AllNumbers
    <2>. QED  BY <1>1, <2>1
<1>8. EdgeKeys(p) \in Seq(Nat)
    BY <1>3, <1>4, <1>7
<1>9. \A i \in DOMAIN EdgeKeys(p) : EdgeKeys(p)[i] \in Nat
    BY <1>8
<1>. QED  BY <1>9 DEF FoundBefore, SequenceBefore

\* Of no more than the cap, all are among the first.
LEMMA FirstOfFew ==
    ASSUME NEW S, IsFiniteSet(S), NEW cap \in Nat, Cardinality(S) <= cap, NEW p \in S, ~FoundBefore(p, p)
    PROVE  p \in FirstOf(S, cap, FoundBefore)
<1>. DEFINE before == {q \in S : FoundBefore(q, p)}
<1>1. before \in SUBSET S /\ before # S
    OBVIOUS
<1>2. Cardinality(before) <= Cardinality(S) /\ Cardinality(before) # Cardinality(S) /\ IsFiniteSet(before)
    BY <1>1, FS_Subset
<1>3. Cardinality(before) \in Nat /\ Cardinality(S) \in Nat
    BY <1>2, FS_CardinalityType
<1>4. Cardinality(before) < cap
    <2>. HIDE DEF before
    <2>. QED  BY <1>2, <1>3
<1>. QED  BY <1>4 DEF FirstOf

\* BlastRadius: within its limits it keeps every way to what is sensitive.
LEMMA SensitiveWaysAreKept ==
    ASSUME NEW g, IsGraph(g), NEW e \in DOMAIN g.nodes, WithinLimits(g, e),
           NEW p \in SimplePaths(g, e, ReachabilityEdges, MaxDepth), p # << >>,
           IsSensitiveKind(g.nodes[End(e, p)].kind)
    PROVE  p \in BlastRadius(g, e, MaxDepth, MaxPaths).paths
<1>. DEFINE simple == SimplePaths(g, e, ReachabilityEdges, MaxDepth)
            all == simple \ {<< >>}
            S == {q \in all : IsSensitiveKind(g.nodes[End(e, q)].kind)}
<1>0. MaxDepth \in Nat /\ MaxPaths \in Nat
    BY ScenariosAssumption
<1>1. IsFiniteSet(simple) /\ AreWalks(g, e, simple, MaxDepth)
    BY <1>0, FiniteWays, SimplePathsAreWalks
<1>2. Cardinality(all) <= VisitLimit(MaxDepth, MaxPaths) /\ Cardinality(S) <= MaxPaths
    BY DEF WithinLimits
<1>3. p \in S /\ ~FoundBefore(p, p)
    BY <1>1, NotBeforeItself DEF AreWalks
<1>4. FirstOf(S, MaxPaths, FoundBefore) \subseteq BlastRadius(g, e, MaxDepth, MaxPaths).paths
    BY <1>2 DEF BlastRadius
<1>5. S \in SUBSET simple
    OBVIOUS
<1>. HIDE DEF S, simple
<1>6. IsFiniteSet(S)
    BY <1>1, <1>5, FS_Subset
<1>7. p \in FirstOf(S, MaxPaths, FoundBefore)
    BY <1>0, <1>2, <1>3, <1>6, FirstOfFew
<1>. QED  BY <1>4, <1>7

\* A certain way from where the internet certainly comes in is certain in every step.
LEMMA CertainStepsAreCertain ==
    ASSUME NEW g, IsGraph(g), NEW e, HasPublicInboundEdge(g, e), CertainlyEntered(g, e),
           NEW p, IsWalk(g, e, p), \A i \in DOMAIN p : CertainEdge(g, p[i])
    PROVE  ConfidenceForPath(WithPublicIngress(g, e, StepsOf(g, p))) = "high"
<1>. DEFINE ingress == {x \in Incoming(g, e) : x[1] = Internet}
            AllCertain(steps) == \A i \in DOMAIN steps : steps[i].confidence = "high" /\ steps[i].source # "inferred"
            first == FirstEdge(ingress)
            before == StepsOf(g, <<first>>)
            after == StepsOf(g, p)
            n == Len(p)
<1>1. \A x \in DOMAIN g.edges : g.edges[x].source # "inferred"
    BY DEF IsGraph, Provenances
<1>2. ingress # {}
    BY DEF HasPublicInboundEdge, Incoming
<1>3. ingress \subseteq EdgeKeysOf /\ ingress \subseteq DOMAIN g.edges
    BY DEF Incoming, IsGraph
<1>4. CertainEdge(g, first)
    BY DEF CertainlyEntered
<1>5. first \in ingress
    <2>. HIDE DEF ingress
    <2>. QED  BY <1>2, <1>3, EdgesByKey
<1>6. WithPublicIngress(g, e, after) = before \o after
    BY <1>2 DEF WithPublicIngress
<1>. HIDE DEF ingress, first
<1>7. Len(before) = 1 /\ before \in Seq(Range(before)) /\ AllCertain(before)
    <2>1. IsWalk(g, first[1], <<first>>) /\ Len(<<first>>) = 1
        BY <1>3, <1>5 DEF IsWalk
    <2>2. AreSteps(before, 1) /\ DOMAIN before = 1..1
        BY <2>1, StepsOfWalk
    <2>3. before[1].confidence = g.edges[first].confidence /\ before[1].source = g.edges[first].source
        BY DEF StepsOf
    <2>. HIDE DEF before
    <2>4. before \in Seq(Range(before)) /\ Len(before) = 1
        BY <2>2 DEF AreSteps
    <2>5. before[1].confidence = "high" /\ before[1].source # "inferred"
        BY <1>1, <1>3, <1>4, <1>5, <2>3 DEF CertainEdge
    <2>. QED  BY <2>2, <2>4, <2>5
<1>8. Len(after) = n /\ n \in Nat /\ after \in Seq(Range(after)) /\ AllCertain(after)
    <2>1. AreSteps(after, n) /\ DOMAIN after = 1..n /\ n \in Nat
        BY StepsOfWalk
    <2>2. \A i \in DOMAIN p : p[i] \in DOMAIN g.edges
        BY DEF IsWalk
    <2>3. DOMAIN p = 1..n
        BY DEF IsWalk
    <2>4. ASSUME NEW i \in 1..n PROVE after[i].confidence = g.edges[p[i]].confidence /\ after[i].source = g.edges[p[i]].source
        BY <2>3 DEF StepsOf
    <2>. HIDE DEF after, n
    <2>5. after \in Seq(Range(after)) /\ Len(after) = n
        BY <2>1 DEF AreSteps
    <2>. QED  BY <1>1, <2>1, <2>2, <2>3, <2>4, <2>5 DEF CertainEdge
<1>. HIDE DEF before, after
<1>9. AllCertain(before \o after)
    <2>. DEFINE all == before \o after
    <2>. HIDE DEF n, AllCertain
    <2>0. before \in Seq(Range(before) \union Range(after)) /\ after \in Seq(Range(before) \union Range(after))
        BY <1>7, <1>8
    <2>1. DOMAIN all = 1..n + 1 /\ all[1] = before[1] /\ \A i \in 1..n : all[i + 1] = after[i]
        <3>1. Len(before) = 1 /\ n = Len(after)
            BY <1>7, <1>8
        <3>. QED  BY <2>0, <3>1, OneAndOthers
    <2>2. DOMAIN before = 1..1 /\ DOMAIN after = 1..n
        BY <1>7, <1>8
    <2>. HIDE DEF all
    <2>. USE DEF AllCertain
    <2>3. ASSUME NEW i \in 1..n + 1 PROVE all[i].confidence = "high" /\ all[i].source # "inferred"
        <3>1. CASE i = 1
            BY <1>7, <2>1, <2>2, <3>1
        <3>2. CASE i # 1
            <4>1. i - 1 \in 1..n /\ (i - 1) + 1 = i
                BY <1>8, <3>2
            <4>2. all[i] = after[i - 1]
                BY <2>1, <4>1
            <4>. QED  BY <1>8, <2>2, <4>1, <4>2
        <3>. QED  BY <3>1, <3>2
    <2>. QED  BY <2>1, <2>3 DEF all
<1>10. WithPublicIngress(g, e, StepsOf(g, p)) = before \o after
    BY <1>6 DEF after
<1>. HIDE DEF n
<1>11. \A steps : AllCertain(steps) => ConfidenceForPath(steps) = "high"
    BY DEF ConfidenceForPath
<1>. QED  BY <1>9, <1>10, <1>11

\* A certain path from an entrypoint to a target.
Leads(x, e, t) ==
    x.type = PublicToSensitive /\ x.principal = "" /\ x.entrypoint = e /\ x.target = t /\ x.confidence = "high"

\* So it is found, as a certain path of its entrypoint and its target.
LEMMA CertainWaysAreFound ==
    ASSUME NEW g, IsGraph(g), NEW e \in PublicEntrypoints(g), NEW t \in SensitiveAssets(g), t # e,
           WithinLimits(g, e), CertainlyEntered(g, e), NEW p \in CertainWays(g, e, t)
    PROVE  \E x \in FromEntrypoint(g, e, MaxDepth, MaxPaths) : Leads(x, e, t)
<1>. DEFINE radius == BlastRadius(g, e, MaxDepth, MaxPaths)
            Steps(path) == WithPublicIngress(g, e, StepsOf(g, path))
            Verdict(path) == [decision |-> IF ConfidenceForPath(Steps(path)) = "high" THEN "block" ELSE "warn",
                              severity |-> IF ConfidenceForPath(Steps(path)) = "high" THEN "critical" ELSE "high"]
            Found(path) == PublicPath(e, End(e, path), Steps(path), Verdict(path), "sensitive")
            x == Found(p)
<1>1. e \in DOMAIN g.nodes /\ HasPublicInboundEdge(g, e)
    BY DEF PublicEntrypoints
<1>2. /\ p \in SimplePaths(g, e, ReachabilityEdges, MaxDepth) /\ End(e, p) = t
      /\ \A i \in DOMAIN p : CertainEdge(g, p[i])
      /\ PathHasWorkload(g, e, p)
    BY DEF CertainWays, PathHasWorkload
<1>3. p # << >>
    BY <1>2 DEF End
<1>4. IsSensitiveKind(g.nodes[End(e, p)].kind)
    BY <1>2 DEF SensitiveAssets
<1>5. p \in radius.paths
    BY <1>1, <1>2, <1>3, <1>4, SensitiveWaysAreKept
<1>. HIDE DEF radius
<1>6. x \in DetectSensitivePaths(g, e, radius)
    <2>1. DetectSensitivePaths(g, e, radius) =
            {Found(path) : path \in {q \in radius.paths : /\ IsSensitiveKind(g.nodes[End(e, q)].kind)
                                                          /\ PathHasWorkload(g, e, q)}}
        BY DEF DetectSensitivePaths
    <2>. HIDE DEF Found
    <2>. QED  BY <1>2, <1>4, <1>5, <2>1
<1>7. DetectSensitivePaths(g, e, radius) \subseteq FromEntrypoint(g, e, MaxDepth, MaxPaths)
    BY <1>6 DEF FromEntrypoint, radius
<1>8. IsWalk(g, e, p)
    BY <1>2, SimplePathsAreWalks, ScenariosAssumption DEF AreWalks
<1>9. ConfidenceForPath(Steps(p)) = "high"
    BY <1>1, <1>2, <1>8, CertainStepsAreCertain
<1>10. /\ x.type = PublicToSensitive /\ x.principal = "" /\ x.entrypoint = e /\ x.target = End(e, p)
       /\ x.confidence = ConfidenceForPath(Steps(p))
    BY DEF PublicPath
<1>. HIDE DEF x
<1>11. Leads(x, e, t)
    BY <1>2, <1>9, <1>10 DEF Leads
<1>. QED  BY <1>6, <1>7, <1>11

\* What is certain of a sensitive target is critical, and blocks.
LEMMA CertainIsCritical ==
    ASSUME NEW g, NEW e, NEW x \in FromEntrypoint(g, e, MaxDepth, MaxPaths),
           x.confidence = "high", x.target \in SensitiveAssets(g)
    PROVE  /\ x.entrypoint = e /\ x.severity = "critical" /\ x.decision = "block" /\ x.pattern = "sensitive"
           /\ x.type = PublicToSensitive /\ ~x.notAction
<1>. DEFINE radius == BlastRadius(g, e, MaxDepth, MaxPaths)
<1>0. \A target, steps, verdict, pattern : PublicPath(e, target, steps, verdict, pattern).target = target
    BY DEF PublicPath
<1>1. x \in UNION {DetectPublicEKSClusterAdminRisk(g, e), DetectSensitivePaths(g, e, radius),
                   DetectPublicWorkloadWarnings(g, e, radius)}
    BY DEF FromEntrypoint
<1>2. g.nodes[x.target].kind \notin {"principal", "workload"}
    BY DEF SensitiveAssets, IsSensitiveKind
<1>. HIDE DEF radius
<1>3. ASSUME x \in DetectPublicEKSClusterAdminRisk(g, e) PROVE FALSE
    <2>1. PICK role \in ClusterAdminRoles(g, e) :
            \E steps, verdict : x = PublicPath(e, role, steps, verdict, "public_eks_cluster_admin")
        BY <1>3 DEF DetectPublicEKSClusterAdminRisk
    <2>2. x.target = role
        BY <1>0, <2>1
    <2>. QED  BY <1>2, <2>2 DEF ClusterAdminRoles
<1>4. ASSUME x \in DetectPublicWorkloadWarnings(g, e, radius) PROVE FALSE
    <2>1. PICK path \in radius.paths : /\ g.nodes[End(e, path)].kind = "workload"
                                       /\ \E steps, verdict : x = PublicPath(e, End(e, path), steps, verdict, "workload")
        BY <1>4 DEF DetectPublicWorkloadWarnings
    <2>2. x.target = End(e, path)
        BY <1>0, <2>1
    <2>. QED  BY <1>2, <2>1, <2>2
<1>5. ASSUME x \in DetectSensitivePaths(g, e, radius)
      PROVE  /\ x.entrypoint = e /\ x.severity = "critical" /\ x.decision = "block" /\ x.pattern = "sensitive"
             /\ x.type = PublicToSensitive /\ ~x.notAction
    <2>. DEFINE Steps(path) == WithPublicIngress(g, e, StepsOf(g, path))
                certain(path) == ConfidenceForPath(Steps(path)) = "high"
                Verdict(path) == [decision |-> IF certain(path) THEN "block" ELSE "warn",
                                  severity |-> IF certain(path) THEN "critical" ELSE "high"]
    <2>1. PICK path \in radius.paths : x = PublicPath(e, End(e, path), Steps(path), Verdict(path), "sensitive")
        BY <1>5 DEF DetectSensitivePaths
    <2>. HIDE DEF Steps
    <2>2. /\ x.entrypoint = e /\ x.confidence = ConfidenceForPath(Steps(path)) /\ x.severity = Verdict(path).severity
          /\ x.decision = Verdict(path).decision /\ x.pattern = "sensitive" /\ x.type = PublicToSensitive /\ x.notAction = FALSE
        BY <2>1 DEF PublicPath
    <2>. QED  BY <2>2
<1>. QED  BY <1>1, <1>3, <1>4, <1>5

\* dedupeSemanticAttackPaths keeps, of the paths of a certain one's meaning, a certain one.
LEMMA NormalizeKeepsCertain ==
    ASSUME NEW paths, NEW n \in Nat, \A p \in paths : p.confidence \in Grades /\ AreSteps(p.steps, n),
           NEW p \in paths, p.confidence = "high"
    PROVE  \E q \in Normalize(paths) : q \in paths /\ Meaning(q) = Meaning(p) /\ q.confidence = "high"
<1>. DEFINE Best(same) == {x \in same : \A y \in same : ~SequenceBefore(Merits(x), Merits(y))}
            Same(m) == {x \in paths : Meaning(x) = m}
            q == CHOOSE x \in Best(Same(Meaning(p))) : TRUE
<1>1. Normalize(paths) = {CHOOSE x \in Best(Same(m)) : TRUE : m \in {Meaning(x) : x \in paths}}
    BY DEF Normalize
<1>2. Best(Same(Meaning(p))) # {}
    <2>1. Same(Meaning(p)) # {} /\ Same(Meaning(p)) \subseteq paths
        OBVIOUS
    <2>. HIDE DEF Same
    <2>2. \E x \in Same(Meaning(p)) : \A y \in Same(Meaning(p)) : ~SequenceBefore(Merits(x), Merits(y))
        BY <2>1, BestThereIs
    <2>. QED  BY <2>2
<1>3. q \in Best(Same(Meaning(p)))
    <2>. HIDE DEF Best, Same
    <2>. QED  BY <1>2
<1>4. q \in Normalize(paths)
    <2>. HIDE DEF Best, Same
    <2>. QED  BY <1>1
<1>. HIDE DEF q
<1>5. q \in paths /\ Meaning(q) = Meaning(p) /\ ~SequenceBefore(Merits(q), Merits(p))
    BY <1>3
<1>6. q.confidence = "high"
    <2>. SUFFICES ASSUME q.confidence # "high" PROVE FALSE
        OBVIOUS
    <2>1. ConfidenceRank(q.confidence) < ConfidenceRank(p.confidence)
        BY <1>5, Ranks DEF Grades
    <2>2. Merits(q)[1] = ConfidenceRank(q.confidence) /\ Merits(p)[1] = ConfidenceRank(p.confidence)
          /\ 1 \in DOMAIN Merits(q) /\ 1 \in DOMAIN Merits(p)
        BY DEF Merits
    <2>3. SequenceBefore(Merits(q), Merits(p))
        <3>. DEFINE a == Merits(q)
                    b == Merits(p)
        <3>1. 1 \in DOMAIN b /\ a[1] < b[1]
            BY <2>1, <2>2
        <3>. HIDE DEF a, b
        <3>2. SequenceBefore(a, b)
            BY <3>1 DEF SequenceBefore
        <3>. QED  BY <3>2 DEF a, b
    <2>. QED  BY <1>5, <2>3
<1>. QED  BY <1>4, <1>5, <1>6

\* Escalations are of the other type.
LEMMA TypeOfEscalations ==
    ASSUME NEW g, IsGraph(g), NEW warnings, NEW n, LongEnough(n), NEW p \in DetectIAMPrivilegeEscalation(g, warnings)
    PROVE  p.type = Escalation
<1>1. CASE \E grant \in CollectIAMGrants(g) : p \in ByOneGrant(g, grant)
    <2>1. PICK grant \in CollectIAMGrants(g) : p \in ByOneGrant(g, grant)
        BY <1>1
    <2>2. IsGrantedBy(g, grant, p)
        BY <2>1, GrantedToPrincipals, GrantPathsAreGranted DEF ByOneGrant
    <2>. QED  BY <2>2 DEF IsGrantedBy
<1>2. CASE p \in DetectAssumeAdminRoleByEdge(g)
    <2>1. PICK principal, target, steps, confidence :
            p = IAMPath(g, principal, target, steps, confidence, "assume_by_edge", FALSE)
        BY <1>2 DEF DetectAssumeAdminRoleByEdge
    <2>. QED  BY <2>1 DEF IAMPath
<1>3. CASE p \in DetectRoleAssumptionChains(g)
    <2>1. PICK principal, target, steps, confidence :
            p = IAMPath(g, principal, target, steps, confidence, "role_assumption_chain", FALSE)
        BY <1>3 DEF DetectRoleAssumptionChains
    <2>. QED  BY <2>1 DEF IAMPath
<1>. QED  BY <1>1, <1>2, <1>3, EscalationsAreSound

\* An entrypoint and what is sensitive, with a certain way that nothing hides.
CertainPair(g, e, t) ==
    /\ e \in PublicEntrypoints(g) /\ t \in SensitiveAssets(g) \ {e}
    /\ ~AuthenticatedAPI(g, e) /\ WithinLimits(g, e) /\ CertainlyEntered(g, e)
    /\ CertainWays(g, e, t) # {}

\* DetectPublicToSensitive: of such a pair, a certain path is what dedupe leaves.
LEMMA CertainPairsAreKept ==
    ASSUME NEW g, IsGraph(g), NEW e, NEW t, CertainPair(g, e, t), NEW paths,
           paths = DetectPublicToSensitive(g, MaxDepth, MaxPaths) \union DetectIAMPrivilegeEscalation(g, TRUE)
    PROVE  \E r \in Normalize(paths) :
              /\ r.entrypoint = e /\ r.target = t /\ r.confidence = "high" /\ r.severity = "critical"
              /\ r.decision = "block" /\ r.pattern = "sensitive" /\ r.type = PublicToSensitive /\ ~r.notAction
<1>. DEFINE entrypoints == {x \in PublicEntrypoints(g) : ~AuthenticatedAPI(g, x)}
            all == UNION {FromEntrypoint(g, x, MaxDepth, MaxPaths) : x \in entrypoints}
            public == DetectPublicToSensitive(g, MaxDepth, MaxPaths)
            escalations == DetectIAMPrivilegeEscalation(g, TRUE)
<1>0. PICK n : LongEnough(n) /\ MaxDepth + 1 <= n /\ Len(Addresses) + 1 <= n
    BY Lengths
<1>1. n \in Nat /\ 2 <= n /\ MaxDepth \in Nat
    BY <1>0, ScenariosAssumption DEF LongEnough
<1>2. paths = public \union escalations
    OBVIOUS
<1>3. public = Normalize(all)
    BY DEF DetectPublicToSensitive
<1>4. e \in entrypoints
    BY DEF CertainPair
<1>5. \A x \in entrypoints : HasPublicInboundEdge(g, x)
    BY DEF PublicEntrypoints
<1>6. ASSUME NEW x \in escalations PROVE IsAttackPath(g, x, n) /\ x.type = Escalation
    BY <1>0, EscalationsAreSound, TypeOfEscalations
<1>. HIDE DEF entrypoints, public, escalations
<1>7. \A x \in all : IsAttackPath(g, x, n)
    BY <1>0, <1>1, <1>5, FromEntrypointPaths
<1>8. PICK x \in FromEntrypoint(g, e, MaxDepth, MaxPaths) : Leads(x, e, t)
    <2>1. /\ e \in PublicEntrypoints(g) /\ t \in SensitiveAssets(g) /\ t # e /\ WithinLimits(g, e)
          /\ CertainlyEntered(g, e)
        BY DEF CertainPair
    <2>2. PICK p : p \in CertainWays(g, e, t)
        BY DEF CertainPair
    <2>. QED  BY <2>1, <2>2, CertainWaysAreFound
<1>9. x \in all /\ x.confidence = "high"
    BY <1>4, <1>8 DEF Leads
<1>10. \A r \in all : \E y \in entrypoints : r \in FromEntrypoint(g, y, MaxDepth, MaxPaths)
    OBVIOUS
<1>. HIDE DEF all
<1>11. PICK q \in public : q \in all /\ Meaning(q) = Meaning(x) /\ q.confidence = "high"
    BY <1>1, <1>3, <1>7, <1>8, <1>9, NormalizeKeepsCertain DEF IsAttackPath
<1>12. public \subseteq all
    BY <1>1, <1>3, <1>7, NormalizeKeepsSome DEF IsAttackPath
<1>13. \A y \in paths : IsAttackPath(g, y, n)
    BY <1>2, <1>6, <1>7, <1>12
<1>14. q \in paths
    BY <1>2
<1>15. \A r \in paths : r \in public \/ r.type = Escalation
    BY <1>2, <1>6
<1>16. PICK r \in Normalize(paths) : r \in paths /\ Meaning(r) = Meaning(q) /\ r.confidence = "high"
    <2>1. \A y \in paths : y.confidence \in Grades /\ AreSteps(y.steps, n)
        BY <1>13 DEF IsAttackPath
    <2>2. q \in paths /\ q.confidence = "high"
        BY <1>11, <1>14
    <2>3. \A T : (\A y \in T : y.confidence \in Grades /\ AreSteps(y.steps, n)) /\ q \in T =>
              \E r \in Normalize(T) : r \in T /\ Meaning(r) = Meaning(q) /\ r.confidence = "high"
        BY <1>1, <2>2, NormalizeKeepsCertain
    <2>. QED  BY <2>1, <2>2, <2>3
<1>17. r.type = PublicToSensitive /\ r.entrypoint = e /\ r.target = t
    <2>1. Meaning(r) = Meaning(x)
        BY <1>11, <1>16
    <2>. QED  BY <1>8, <2>1 DEF Meaning, Leads
<1>18. r \in all
    <2>1. PublicToSensitive # Escalation
        BY DEF PublicToSensitive, Escalation
    <2>. QED  BY <1>12, <1>15, <1>16, <1>17, <2>1
<1>19. PICK y \in entrypoints : r \in FromEntrypoint(g, y, MaxDepth, MaxPaths)
    BY <1>10, <1>18
<1>20. t \in SensitiveAssets(g)
    BY DEF CertainPair
<1>21. r.severity = "critical" /\ r.decision = "block" /\ r.pattern = "sensitive" /\ ~r.notAction
    BY <1>16, <1>17, <1>19, <1>20, CertainIsCritical
<1>. QED  BY <1>16, <1>17, <1>21

-----------------------------------------------------------------------------
(***************************************************************************)
(* What is reported.  Up to the search for attack paths no finding has a   *)
(* path; after it, a path that a finding has is sound, and the finding     *)
(* says of it what it is.                                                  *)
(***************************************************************************)
IsSoundFinding(g, f) ==
    /\ IsFinding(f)
    /\ f.path # << >> => \E p : /\ f.path = <<p>> /\ SoundPath(g, p) /\ GrantedIfCertain(g, p)
                                /\ f.confidence = p.confidence /\ f.resource = p.target

\* attackPathFindings
LEMMA PathFindingsAreSound ==
    ASSUME NEW g, IsGraph(g)
    PROVE  \A f \in PathFindings(g) : IsSoundFinding(g, f)
<1>. DEFINE paths == DetectPublicToSensitive(g, MaxDepth, MaxPaths) \union DetectIAMPrivilegeEscalation(g, TRUE)
<1>1. PICK n : LongEnough(n) /\ MaxDepth + 1 <= n /\ Len(Addresses) + 1 <= n
    BY Lengths
<1>2. n \in Nat /\ 2 <= n /\ MaxDepth \in Nat
    BY <1>1, ScenariosAssumption DEF LongEnough
<1>3. ASSUME NEW p \in paths PROVE IsAttackPath(g, p, n) /\ GrantedIfCertain(g, p)
    <2>1. CASE p \in DetectPublicToSensitive(g, MaxDepth, MaxPaths)
        <3>1. IsAttackPath(g, p, n) /\ p.type = PublicToSensitive
            BY <1>1, <1>2, <2>1, PublicPathsAreSound
        <3>. QED  BY <3>1 DEF GrantedIfCertain, PublicToSensitive, Escalation
    <2>2. CASE p \in DetectIAMPrivilegeEscalation(g, TRUE)
        <3>1. /\ IsAttackPath(g, p, n)
              /\ \/ \E grant \in CollectIAMGrants(g) : p \in ByOneGrant(g, grant)
                 \/ p \in DetectAssumeAdminRoleByEdge(g) \union DetectRoleAssumptionChains(g)
            BY <1>1, <2>2, EscalationsAreSound
        <3>. QED  BY <3>1, ByGrantsAllowed, OthersAreNotFromGrants
    <2>. QED  BY <2>1, <2>2
<1>4. PathFindings(g) = AttackPathFindings(paths, Thresholds, Disabled)
    BY DEF PathFindings
<1>. HIDE DEF paths
<1>5. Normalize(paths) \subseteq paths
    BY <1>2, <1>3, NormalizeKeepsSome DEF IsAttackPath
<1>6. ASSUME NEW f \in PathFindings(g) PROVE \E p \in paths : f = FindingFromPath(p)
    BY <1>4, <1>5, <1>6 DEF AttackPathFindings
<1>7. ASSUME NEW p, SoundPath(g, p), GrantedIfCertain(g, p) PROVE IsSoundFinding(g, FindingFromPath(p))
    <2>. DEFINE f == FindingFromPath(p)
    <2>1. f = [rule |-> f.rule, resource |-> p.target, severity |-> p.severity, confidence |-> p.confidence,
               touches |-> f.touches, path |-> <<p>>, suppressed |-> FALSE]
        BY DEF FindingFromPath
    <2>. HIDE DEF f
    <2>2. IsFinding(f) /\ f.path = <<p>> /\ f.confidence = p.confidence /\ f.resource = p.target
        BY <2>1 DEF IsFinding
    <2>3. IsSoundFinding(g, f)
        BY <1>7, <2>2 DEF IsSoundFinding
    <2>. QED  BY <2>3 DEF f
<1>. QED  BY <1>3, <1>6, <1>7 DEF IsAttackPath

\* SuppressLiveOnly sets findings aside and changes nothing else about them.
LEMMA SetAsideAreSound ==
    ASSUME NEW g, NEW found, \A f \in found : IsSoundFinding(g, f), NEW managed
    PROVE  \A h \in SuppressLiveOnly(found, managed) : IsSoundFinding(g, h)
<1>. SUFFICES ASSUME NEW h \in SuppressLiveOnly(found, managed) PROVE IsSoundFinding(g, h)
    OBVIOUS
<1>1. PICK f \in found : \E x : h \in {f, [f EXCEPT !.suppressed = x]}
    BY DEF SuppressLiveOnly
<1>2. PICK x : h \in {f, [f EXCEPT !.suppressed = x]}
    BY <1>1
<1>3. IsFinding(f)
    BY DEF IsSoundFinding
<1>. DEFINE aside == [f EXCEPT !.suppressed = x]
<1>4. IsFinding(aside) /\ aside.path = f.path /\ aside.confidence = f.confidence /\ aside.resource = f.resource
    BY <1>3, SetAsideKeepsPath
<1>5. h \in {f, aside}
    BY <1>2
<1>. HIDE DEF aside
<1>6. IsFinding(h) /\ h.path = f.path /\ h.confidence = f.confidence /\ h.resource = f.resource
    BY <1>3, <1>4, <1>5
<1>. QED  BY <1>6 DEF IsSoundFinding

\* The findings by the stage of the scan, with the shapes of the graphs.
PathsInv ==
    /\ GraphsInv
    /\ stage \in {"resources", "build", "merge"} => findings = {}
    /\ stage \notin {"suppress", "done"} => ArePathless(findings)
    /\ \A f \in findings : IsSoundFinding(graph, f)

\* What has no path is sound.
LEMMA PathlessAreSound ==
    ASSUME NEW g, NEW found, ArePathless(found)
    PROVE  \A f \in found : IsSoundFinding(g, f)
BY DEF ArePathless, IsSoundFinding

\* The invariant holds to begin with, and every step keeps it.
LEMMA PathsStay ==
    /\ Init => PathsInv
    /\ PathsInv /\ [Next]_vars => PathsInv'
<1>1. Init => PathsInv
    <2>. SUFFICES ASSUME Init PROVE PathsInv
        OBVIOUS
    <2>1. findings = {} /\ stage = "resources"
        BY DEF Init
    <2>2. GraphsInv
        BY GraphsStay
    <2>. QED  BY <2>1, <2>2 DEF PathsInv, ArePathless
<1>2. PathsInv /\ [Next]_vars => PathsInv'
    <2>. SUFFICES ASSUME PathsInv, [Next]_vars PROVE PathsInv'
        OBVIOUS
    <2>0. GraphsInv /\ GraphsInv'
        BY GraphsStay DEF PathsInv
    <2>1. ASSUME ArePathless(findings'), stage' \notin {"resources", "build", "merge"} PROVE PathsInv'
        <3>1. \A f \in findings' : IsSoundFinding(graph', f)
            BY <2>1, PathlessAreSound
        <3>. QED  BY <2>0, <2>1, <3>1 DEF PathsInv
    <2>2. CASE AddResources \/ AddDependencies \/ AddReference \/ InferRelationships \/ MergeSnapshot
        <3>1. findings' = findings /\ stage \in {"resources", "build", "merge"}
            BY <2>2 DEF AddResources, AddDependencies, AddReference, InferRelationships, MergeSnapshot
        <3>2. findings' = {}
            BY <3>1 DEF PathsInv
        <3>. QED  BY <2>0, <3>2 DEF PathsInv, ArePathless
    <2>3. CASE EvaluateRules
        <3>1. findings' = Evaluate(graph) /\ stage' \in {"paths", "enrich"}
            BY <2>3 DEF EvaluateRules
        <3>2. ArePathless(findings')
            BY <3>1, RulesArePathless DEF Evaluate, ArePathless
        <3>. QED  BY <2>1, <3>1, <3>2
    <2>4. CASE EnrichFromSnapshot
        <3>1. stage = "enrich" /\ stage' = "conflicts"
              /\ \E resources, index : findings' = EnrichFindings(findings, resources, index)
            BY <2>4 DEF EnrichFromSnapshot
        <3>2. ArePathless(findings')
            BY <3>1, EnrichedArePathless DEF PathsInv
        <3>. QED  BY <2>1, <3>1, <3>2
    <2>5. CASE ApplyConflicts
        <3>1. stage = "conflicts" /\ stage' = "paths" /\ findings' = ApplyGraphConflicts(findings, diagnostics)
            BY <2>5 DEF ApplyConflicts
        <3>2. ArePathless(findings')
            BY <3>1, ConflictsArePathless DEF PathsInv
        <3>. QED  BY <2>1, <3>1, <3>2
    <2>6. CASE DetectAttackPaths
        <3>1. findings' = findings \union PathFindings(graph) /\ graph' = graph /\ stage' \in {"done", "suppress"}
            BY <2>6 DEF DetectAttackPaths
        <3>2. \A f \in PathFindings(graph) : IsSoundFinding(graph, f)
            BY <2>0, PathFindingsAreSound DEF GraphsInv
        <3>3. \A f \in findings' : IsSoundFinding(graph', f)
            BY <3>1, <3>2 DEF PathsInv
        <3>. QED  BY <2>0, <3>1, <3>3 DEF PathsInv
    <2>7. CASE SuppressFindings
        <3>1. findings' = SuppressLiveOnly(findings, ManagedResources(plan)) /\ graph' = graph /\ stage' = "done"
            BY <2>7 DEF SuppressFindings
        <3>2. \A f \in findings' : IsSoundFinding(graph', f)
            BY <3>1, SetAsideAreSound DEF PathsInv
        <3>. QED  BY <2>0, <3>1, <3>2 DEF PathsInv
    <2>8. CASE Finished \/ UNCHANGED vars
        <3>1. UNCHANGED <<stage, graph, findings>>
            BY <2>8 DEF Finished, vars
        <3>. QED  BY <2>0, <3>1 DEF PathsInv
    <2>. QED  BY <2>2, <2>3, <2>4, <2>5, <2>6, <2>7, <2>8 DEF Next
<1>. QED  BY <1>1, <1>2

\* An attack path that is reported as certain leads to its target along steps that are all
\* certain: each is a certain edge of the graph that begins where the one before it ends, or
\* follows from a policy; and one from the internet that is to block ends at what is sensitive.
THEOREM CertainPathsAreCertain == Spec => []BlockedPathsAreCertain
<1>1. PathsInv => BlockedPathsAreCertain
    <2>. SUFFICES ASSUME PathsInv, NEW f \in findings, IsPath(f), f.confidence = "high"
                  PROVE  LET steps == PathOf(f).steps
                             OnGraph(s) == s.action[1] = "graph"
                         IN  /\ \A i \in DOMAIN steps :
                                   /\ steps[i].confidence = "high" /\ steps[i].source # "inferred"
                                   /\ OnGraph(steps[i]) =>
                                         /\ <<steps[i].from, steps[i].action[2], steps[i].to>> \in DOMAIN graph.edges
                                         /\ CertainEdge(graph, <<steps[i].from, steps[i].action[2], steps[i].to>>)
                                         /\ i > 1 => steps[i - 1].to = steps[i].from
                             /\ \E i \in DOMAIN steps : steps[i].to = PathOf(f).target
                             /\ PathOf(f).type = PublicToSensitive /\ PathOf(f).decision = "block" =>
                                   \/ IsSensitiveKind(graph.nodes[f.resource].kind)
                                   \/ PathOf(f).pattern = "public_eks_cluster_admin"
        BY DEF BlockedPathsAreCertain
    <2>1. PICK p : /\ f.path = <<p>> /\ SoundPath(graph, p)
                   /\ f.confidence = p.confidence /\ f.resource = p.target
        BY DEF PathsInv, IsSoundFinding, IsPath
    <2>2. PathOf(f) = p
        BY <2>1 DEF PathOf
    <2>. QED  BY <2>1, <2>2 DEF SoundPath
<1>. QED  BY <1>1, PathsStay, PTL DEF Spec

\* An escalation that is reported as certain because of a policy is one that a single policy
\* of the plan allows the principal in every step, with no condition and no denial; or the
\* snapshot names all its actions together for the principal, and tells no more of them.
THEOREM CertainGrantsHold == Spec => []CertainGrantsAreGranted
<1>1. PathsInv => CertainGrantsAreGranted
    <2>. SUFFICES ASSUME PathsInv, NEW f \in findings, IsPath(f), f.confidence = "high",
                         PathOf(f).type = Escalation, PathOf(f).pattern \in FromGrants
                  PROVE  AllowedByOne(graph, PathOf(f))
        BY DEF CertainGrantsAreGranted
    <2>1. PICK p : /\ f.path = <<p>> /\ GrantedIfCertain(graph, p)
                   /\ f.confidence = p.confidence /\ f.resource = p.target
        BY DEF PathsInv, IsSoundFinding, IsPath
    <2>2. PathOf(f) = p
        BY <2>1 DEF PathOf
    <2>. QED  BY <2>1, <2>2 DEF GrantedIfCertain
<1>. QED  BY <1>1, PathsStay, PTL DEF Spec

\* A finding that tells of a pair.
Tells(f, e, t) ==
    /\ IsFinding(f) /\ IsPath(f) /\ PathOf(f).entrypoint = e /\ PathOf(f).target = t
    /\ f.confidence = "high" /\ f.severity = "critical"

\* attackPathFindings: so such a pair is reported.
LEMMA CertainPairsAreTold ==
    ASSUME NEW g, IsGraph(g), PolicyTells, NEW e, NEW t, CertainPair(g, e, t)
    PROVE  \E f \in PathFindings(g) : Tells(f, e, t) /\ ~f.suppressed
<1>. DEFINE paths == DetectPublicToSensitive(g, MaxDepth, MaxPaths) \union DetectIAMPrivilegeEscalation(g, TRUE)
<1>1. PICK r \in Normalize(paths) :
        /\ r.entrypoint = e /\ r.target = t /\ r.confidence = "high" /\ r.severity = "critical"
        /\ r.decision = "block" /\ r.pattern = "sensitive" /\ r.type = PublicToSensitive /\ ~r.notAction
    <2>1. paths = DetectPublicToSensitive(g, MaxDepth, MaxPaths) \union DetectIAMPrivilegeEscalation(g, TRUE)
        OBVIOUS
    <2>. HIDE DEF paths
    <2>. QED  BY <2>1, CertainPairsAreKept
<1>3. PathFindings(g) = AttackPathFindings(paths, Thresholds, Disabled)
    BY DEF PathFindings
<1>. HIDE DEF paths
<1>4. AttackPathAllowed(r, Thresholds)
    BY <1>1 DEF PolicyTells, AttackPathAllowed
<1>5. RuleForPath(r) = "AWS_PUBLIC_TO_SENSITIVE_DATA_PATH"
    BY <1>1 DEF RuleForPath, MutationPatterns
<1>. DEFINE f == FindingFromPath(r)
<1>6. f = [rule |-> f.rule, resource |-> r.target, severity |-> r.severity, confidence |-> r.confidence,
           touches |-> f.touches, path |-> <<r>>, suppressed |-> FALSE]
      /\ f.rule = RuleForPath(r)
    BY DEF FindingFromPath
<1>7. f \in PathFindings(g)
    <2>1. f.rule \notin Disabled
        BY <1>5, <1>6 DEF PolicyTells
    <2>2. f \in {FindingFromPath(p) : p \in {q \in Normalize(paths) : AttackPathAllowed(q, Thresholds)}}
        BY <1>1, <1>4
    <2>. QED  BY <1>3, <2>1, <2>2 DEF AttackPathFindings
<1>. HIDE DEF f
<1>8. IsFinding(f) /\ f.path = <<r>> /\ f.confidence = "high" /\ f.severity = "critical" /\ f.suppressed = FALSE
    BY <1>1, <1>6 DEF IsFinding
<1>9. Tells(f, e, t)
    BY <1>1, <1>8 DEF Tells, IsPath, PathOf
<1>. QED  BY <1>7, <1>8, <1>9

\* SuppressLiveOnly: it is not set aside where it touches what the plan manages.
LEMMA ManagedAreNotSetAside ==
    ASSUME NEW found, NEW managed, NEW e, NEW t, NEW f \in found, Tells(f, e, t), ~f.suppressed
    PROVE  \E h \in SuppressLiveOnly(found, managed) :
              Tells(h, e, t) /\ (h.touches \intersect managed # {} => ~h.suppressed)
<1>1. CASE managed = {} \/ f.touches \intersect managed # {}
    BY <1>1 DEF SuppressLiveOnly
<1>2. CASE managed # {} /\ f.touches \intersect managed = {}
    <2>. DEFINE h == [f EXCEPT !.suppressed = TRUE]
    <2>1. h \in SuppressLiveOnly(found, managed)
        BY <1>2 DEF SuppressLiveOnly
    <2>2. IsFinding(h) /\ h.path = f.path /\ h.confidence = f.confidence /\ h.severity = f.severity /\ h.touches = f.touches
        BY SetAsideKeepsPath DEF Tells
    <2>. HIDE DEF h
    <2>3. Tells(h, e, t)
        BY <2>2 DEF Tells, IsPath, PathOf
    <2>. QED  BY <1>2, <2>1, <2>2, <2>3
<1>. QED  BY <1>1, <1>2

\* Once the attack paths are there, each such pair is told of, and it is set aside only
\* where it touches nothing that the plan manages.
WaysInv ==
    /\ PathsInv
    /\ PolicyTells => \A e, t : CertainPair(graph, e, t) =>
          /\ stage = "suppress" => \E f \in findings : Tells(f, e, t) /\ ~f.suppressed
          /\ stage = "done" =>
                \E f \in findings : Tells(f, e, t) /\ (f.touches \intersect ManagedResources(plan) # {} => ~f.suppressed)

\* The invariant holds to begin with, and every step keeps it.
LEMMA WaysStay ==
    /\ Init => WaysInv
    /\ WaysInv /\ [Next]_vars => WaysInv'
<1>1. Init => WaysInv
    BY PathsStay DEF Init, WaysInv
<1>2. WaysInv /\ [Next]_vars => WaysInv'
    <2>. SUFFICES ASSUME WaysInv, [Next]_vars PROVE WaysInv'
        OBVIOUS
    <2>0. PathsInv /\ PathsInv'
        BY PathsStay DEF WaysInv
    <2>1. ASSUME stage' \notin {"suppress", "done"} PROVE WaysInv'
        BY <2>0, <2>1 DEF WaysInv
    <2>2. CASE AddResources \/ AddDependencies \/ AddReference \/ InferRelationships \/ MergeSnapshot
               \/ EvaluateRules \/ EnrichFromSnapshot \/ ApplyConflicts
        <3>1. stage' \notin {"suppress", "done"}
            BY <2>2 DEF AddResources, AddDependencies, AddReference, InferRelationships, MergeSnapshot,
                        EvaluateRules, EnrichFromSnapshot, ApplyConflicts
        <3>. QED  BY <2>1, <3>1
    <2>3. CASE DetectAttackPaths
        <3>1. findings' = findings \union PathFindings(graph) /\ graph' = graph
            BY <2>3 DEF DetectAttackPaths
        <3>2. IsGraph(graph)
            BY <2>0 DEF PathsInv, GraphsInv
        <3>3. ASSUME PolicyTells, NEW e, NEW t, CertainPair(graph', e, t)
              PROVE  \E f \in findings' : Tells(f, e, t) /\ ~f.suppressed
            <4>1. CertainPair(graph, e, t)
                BY <3>1, <3>3
            <4>2. \E f \in PathFindings(graph) : Tells(f, e, t) /\ ~f.suppressed
                BY <3>2, <3>3, <4>1, CertainPairsAreTold
            <4>. QED  BY <3>1, <4>2
        <3>. QED  BY <2>0, <3>3 DEF WaysInv
    <2>4. CASE SuppressFindings
        <3>1. /\ stage = "suppress" /\ stage' = "done" /\ graph' = graph /\ plan' = plan
              /\ findings' = SuppressLiveOnly(findings, ManagedResources(plan))
            BY <2>4 DEF SuppressFindings
        <3>2. ASSUME PolicyTells, NEW e, NEW t, CertainPair(graph', e, t)
              PROVE  \E f \in findings' : Tells(f, e, t) /\ (f.touches \intersect ManagedResources(plan') # {} => ~f.suppressed)
            <4>1. CertainPair(graph, e, t)
                BY <3>1, <3>2
            <4>2. PICK f \in findings : Tells(f, e, t) /\ ~f.suppressed
                BY <3>1, <3>2, <4>1 DEF WaysInv
            <4>. QED  BY <3>1, <4>2, ManagedAreNotSetAside
        <3>. QED  BY <2>0, <3>1, <3>2 DEF WaysInv
    <2>5. CASE Finished \/ UNCHANGED vars
        <3>1. UNCHANGED <<stage, graph, findings, plan>>
            BY <2>5 DEF Finished, vars
        <3>. QED  BY <2>0, <3>1 DEF WaysInv
    <2>. QED  BY <2>2, <2>3, <2>4, <2>5 DEF Next
<1>. QED  BY <1>1, <1>2

\* Where an entrypoint that asks nobody for a name is certainly entered and has a certain way
\* through a workload to what is sensitive, the pair is reported as critical and certain,
\* within the limits of the walk and unless the policy does not want to hear of it.
THEOREM CertainWaysHold == Spec => []CertainWaysAreBlocked
<1>1. WaysInv => CertainWaysAreBlocked
    <2>. SUFFICES ASSUME WaysInv, stage = "done", PolicyTells,
                         NEW e \in PublicEntrypoints(graph), NEW t \in SensitiveAssets(graph) \ {e},
                         ~AuthenticatedAPI(graph, e), WithinLimits(graph, e), CertainlyEntered(graph, e),
                         CertainWays(graph, e, t) # {}
                  PROVE  \E f \in findings :
                            /\ IsPath(f) /\ PathOf(f).entrypoint = e /\ PathOf(f).target = t
                            /\ f.confidence = "high" /\ f.severity = "critical"
                            /\ f.touches \intersect ManagedResources(plan) # {} => ~f.suppressed
        BY DEF CertainWaysAreBlocked
    <2>1. CertainPair(graph, e, t)
        BY DEF CertainPair
    <2>. QED  BY <2>1 DEF WaysInv, Tells
<1>. QED  BY <1>1, WaysStay, PTL DEF Spec

=============================================================================
