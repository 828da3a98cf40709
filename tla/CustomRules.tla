----------------------------- MODULE CustomRules -----------------------------
(***************************************************************************)
(* Custom rules from YAML files (src/internal/custompolicy/yaml_rules.go): *)
(* a selector of changes and a condition on the change and its place in    *)
(* the graph.                                                              *)
(*                                                                         *)
(* A rule is [id, category, severity, confidence, select, where], with ""  *)
(* for what the file does not say.  A selector is [type, address, tags,    *)
(* actions].  A condition is the sequence of its parts, what a part is     *)
(* made of before it and the whole at the end: [all, any, not, fields,     *)
(* routes, exposed, sensitive], three sets of places in the sequence, and  *)
(* sets of tests.  What a file may leave out is empty.                     *)
(***************************************************************************)
EXTENDS GraphQueries

CONSTANT Custom  \* the rules that the files hold

ASSUME CustomAssumption ==
    /\ \A r, s \in Custom : r.id = s.id => r = s
    /\ \A r \in Custom : \A i \in DOMAIN r.where :
          r.where[i].all \union r.where[i].any \union r.where[i].not \subseteq 1..i - 1

\* newYAMLRule: a rule that does not say is of medium severity and confidence.
NewYAMLRule(config) ==
    [config EXCEPT !.category = IF @ = "" THEN "unknown" ELSE @,
                   !.severity = IF @ = "" THEN "medium" ELSE @,
                   !.confidence = IF @ = "" THEN "medium" ELSE @]

-----------------------------------------------------------------------------
(* The change *)

TagValue(tags, key) == IF key \in DOMAIN tags THEN tags[key] ELSE ""

SelectorMatches(select, id, change) ==
    /\ select.type \in {"", change.after.type}
    /\ select.address \in {"", id}
    /\ select.actions = {} \/ select.actions \intersect change.actions # {}
    /\ \A key \in DOMAIN select.tags : TagValue(change.after.tags, key) = select.tags[key]

\* fieldValue, pathValue: a field is <<where, name>>, and one that is not there is "".
FieldValue(id, change, field) ==
    LET Flag(resource) == IF field[2] \in resource.flags THEN "true" ELSE ""
    IN  CASE field[1] = "address" -> id
          [] field[1] = "type" -> change.after.type
          [] field[1] = "tags" -> TagValue(change.after.tags, field[2])
          [] field[1] = "before" -> Flag(change.before)
          [] field[1] = "after" -> Flag(change.after)

\* A test of a field is [field, exists, equals, unequal, in], each a set that may be empty;
\* what contains a text is one of the values that do.
EvalFieldCondition(test, id, change) ==
    LET value == FieldValue(id, change, test.field)
    IN  /\ test.exists \subseteq {value # ""}
        /\ test.equals \subseteq {value}
        /\ value \notin test.unequal
        /\ test.in = {} \/ value \in test.in

-----------------------------------------------------------------------------
(* The graph *)

\* A tag to route to is <<key, value>>.
RoutesToTag(g, id, tag) ==
    \E e \in Outgoing(g, id, {"routes_to", "attached_to"}) : TagValue(g.nodes[e[3]].tags, tag[1]) = tag[2]

EvalCondition(where, id, change, g) ==
    LET holds[i \in DOMAIN where] ==
            LET part == where[i]
            IN  /\ \A child \in part.all : holds[child]
                /\ part.any = {} \/ \E child \in part.any : holds[child]
                /\ \A child \in part.not : ~holds[child]
                /\ \A test \in part.fields : EvalFieldCondition(test, id, change)
                /\ \A tag \in part.routes : RoutesToTag(g, id, tag)
                /\ part.exposed \subseteq {IsInternetExposed(g, id)}
                /\ part.sensitive \subseteq {HasSensitiveDataAccess(g, id)}
    IN  holds[Len(where)]

-----------------------------------------------------------------------------
MatchingChanges(rule, plan) == {id \in DOMAIN plan.changes : SelectorMatches(rule.select, id, plan.changes[id])}

\* yamlRule.Evaluate, with the severity and confidence of the rule's metadata.
EvaluateCustom(g, plan, disabled) ==
    UNION {{[rule |-> r.id, resource |-> id, severity |-> r.severity, confidence |-> r.confidence,
             touches |-> {id}, path |-> << >>, suppressed |-> FALSE] :
                id \in {x \in MatchingChanges(r, plan) : EvalCondition(r.where, x, plan.changes[x], g)}} :
           r \in {NewYAMLRule(c) : c \in {x \in Custom : x.id \notin disabled}}}

\* A condition that asks of the graph only what there is.
Positive(where) ==
    \A i \in DOMAIN where : where[i].not = {} /\ FALSE \notin where[i].exposed \union where[i].sensitive
=============================================================================
