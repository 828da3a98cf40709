-------------------------- MODULE ContextCollector --------------------------
(***************************************************************************)
(* AWSCollector.Collect (src/internal/cloudcontext/aws_collector.go): a    *)
(* snapshot of a live account, taken service by service and region by      *)
(* region while the account changes, permissions are missing and the       *)
(* two-minute time-out may strike; and the file the command writes it to,  *)
(* as Load reads it back (context.go, src/internal/cli/context.go).        *)
(***************************************************************************)
EXTENDS CloudInventory, Functions

CONSTANTS
    RegionNames,     \* the names of regions, in order
    EnabledRegions,  \* the regions of the account
    Requests,        \* command lines: the words of --collect, --regions and --tag
    Volatile,        \* the objects that may change during a collection
    MaxChanges,      \* bound: changes of the account in one collection
    MaxFaults        \* bound: refused reads in one collection

\* The kinds of which the collector learns whether an object is open.
OpenableKinds ==
    {"aws_subnet", "aws_route_table", "aws_security_group", "aws_network_interface", "aws_lb",
     "aws_apigatewayv2_api", "aws_apigatewayv2_route", "aws_lambda_function_url",
     "aws_cloudfront_distribution", "aws_db_instance", "aws_s3_bucket",
     "aws_secretsmanager_secret", "aws_kms_key", "aws_opensearch_domain"}
Openable == {o \in Volatile : Objects[o].kind \in OpenableKinds}

ASSUME CollectorAssumption ==
    /\ RegionNames \in Seq(STRING) /\ EnabledRegions \subseteq Range(RegionNames)
    /\ \A line \in Requests : line.regions \subseteq Range(RegionNames)
    /\ Volatile \subseteq DOMAIN Objects
    /\ MaxChanges \in Nat /\ MaxFaults \in Nat

VARIABLES
    live, exposed,  \* the account: what exists, what is open to the internet
    request,        \* [groups, regions, tags]; no regions asks for the enabled ones
    pc,             \* "identity", "regions", "read", "filter", "write", "writing",
                    \* "done" or "dead"
    visits,         \* what is still to be visited, or being: <<group, region>>
    next,           \* the place of the next service among those of the visit
    inventory,      \* what the visit has yielded so far
    snapshot,       \* [account, regions, resources, edges, capabilities, diagnostics]
    file,           \* the file of --out: its state, "absent", "torn" or "whole", and content
    timedOut,       \* the context of the command is done
    faults, changes,       \* counted for the bounds
    lasting, wasOpen, wasClosed  \* history: existed all along, was ever open, closed

account == <<live, exposed, changes, lasting, wasOpen, wasClosed>>
collector == <<pc, visits, next, inventory, snapshot, file, timedOut, faults>>
vars == <<account, request, collector>>

-----------------------------------------------------------------------------
(* What is asked for *)

Groups == {"identity", "network", "edge", "iam", "data", "compute"}

ParseCollectGroups(words) == IF "all" \in words THEN Groups ELSE words
NormalizeRequestGroups(words) == IF words = {} THEN {"identity"} ELSE ParseCollectGroups(words)

\* A word that names no group is a usage error: nothing is collected.
Accepted == {line \in Requests : line.words \subseteq Groups \union {"all"}}

Parsed(line) ==
    [groups |-> NormalizeRequestGroups(line.words), regions |-> line.regions, tags |-> line.tags]

-----------------------------------------------------------------------------
(* What is read, in order *)

NetworkServices ==
    <<"vpcs", "subnets", "internet_gateways", "nat_gateways", "transit_gateways",
      "route_tables", "security_groups", "network_interfaces">>

\* Mutant: route tables are read first.
NetworkServicesReordered ==
    <<"vpcs", "route_tables", "subnets", "internet_gateways", "nat_gateways",
      "transit_gateways", "security_groups", "network_interfaces">>

NetworkInventory == NetworkServices

EdgeInventory(r) ==
    IF r = "us-east-1"
    THEN <<"load_balancers", "api_gateways", "function_urls", "distributions">>
    ELSE <<"load_balancers", "api_gateways", "function_urls">>

IAMInventory == <<"roles", "instance_profiles", "oidc_providers">>

ComputeInventory == <<"instances", "functions", "ecs", "eks">>

DataInventory == <<"rds", "s3", "secrets", "kms", "opensearch", "elasticache", "efs">>

Services(group, r) ==
    CASE group = "network" -> NetworkInventory
      [] group = "edge" -> EdgeInventory(r)
      [] group = "iam" -> IAMInventory
      [] group = "compute" -> ComputeInventory
      [] group = "data" -> DataInventory

RegionalGroups == <<"network", "edge", "compute", "data">>

\* IAM once, the other groups in every region.
Visits(groups, regions) ==
    ((groups \intersect {"iam"}) \X {"global"}) \union ((groups \intersect Range(RegionalGroups)) \X regions)

Rank(names, name) == CHOOSE i \in DOMAIN names : names[i] = name

\* IAM first, then region by region, group by group.
Place(visit) ==
    IF visit[1] = "iam" THEN 0
    ELSE 4 * Rank(RegionNames, visit[2]) + Rank(RegionalGroups, visit[1])

Visit == CHOOSE v \in visits : \A u \in visits : Place(v) <= Place(u)

Collected(service, inv, view, r) ==
    CASE service = "vpcs" -> CollectVPCs(inv, view, r)
      [] service = "subnets" -> CollectSubnets(inv, view, r)
      [] service = "internet_gateways" -> CollectInternetGateways(inv, view, r)
      [] service = "nat_gateways" -> CollectNATGateways(inv, view, r)
      [] service = "transit_gateways" -> CollectTransitGateways(inv, view, r)
      [] service = "route_tables" -> CollectRouteTables(inv, view, r)
      [] service = "security_groups" -> CollectSecurityGroups(inv, view, r)
      [] service = "network_interfaces" -> CollectNetworkInterfaces(inv, view, r)
      [] service = "load_balancers" -> CollectLoadBalancers(inv, view, r)
      [] service = "api_gateways" -> CollectAPIGatewayV2(inv, view, r)
      [] service = "function_urls" -> CollectLambdaFunctionURLs(inv, view, r)
      [] service = "distributions" -> CollectCloudFront(inv, view, r)
      [] service = "roles" -> CollectIAMRoles(inv, view)
      [] service = "instance_profiles" -> CollectIAMInstanceProfiles(inv, view)
      [] service = "oidc_providers" -> CollectIAMOIDCProviders(inv, view)
      [] service = "instances" -> CollectEC2Instances(inv, view, r)
      [] service = "functions" -> CollectLambdaFunctions(inv, view, r)
      [] service = "ecs" -> CollectECS(inv, view, r)
      [] service = "eks" -> CollectEKS(inv, view, r)
      [] service = "rds" -> CollectRDS(inv, view, r)
      [] service = "s3" -> CollectS3(inv, view, r)
      [] service = "secrets" -> CollectSecrets(inv, view, r)
      [] service = "kms" -> CollectKMS(inv, view, r)
      [] service = "opensearch" -> CollectOpenSearch(inv, view, r)
      [] service = "elasticache" -> CollectElastiCache(inv, view, r)
      [] service = "efs" -> CollectEFS(inv, view, r)

\* The secondary reads of a service, which fail without failing it.
Deniable(service) ==
    CASE service = "rds" -> {"tags"}
      [] service = "s3" -> {"tags", "policies"}
      [] service \in {"secrets", "kms"} -> {"policies"}
      [] OTHER -> {}

\* The objects whose policies a service of a region reads.
PolicyKind(service) ==
    CASE service = "s3" -> "aws_s3_bucket"
      [] service = "secrets" -> "aws_secretsmanager_secret"
      [] service = "kms" -> "aws_kms_key"
      [] OTHER -> "none"

PolicyRead(o, service, r) ==
    Objects[o].kind = PolicyKind(service) /\ (service = "s3" \/ Objects[o].region = r)

\* Denied tags leave no diagnostic, denied policies one for every object read.
PolicyDiagnostics(service, view, r) ==
    IF "policies" \in view.denied /\ (\E o \in view.live : PolicyRead(o, service, r))
    THEN {<<service, r>>} ELSE {}

-----------------------------------------------------------------------------
(* What a finished group and region adds to the snapshot *)

GroupCapabilities(group) ==
    CASE group = "network" -> {"network", "route_tables", "security_groups",
                               "network_interfaces", "transit_gateways"}
      [] group = "edge" -> {"network", "edge", "elbv2", "cloudfront", "api_gateway",
                            "lambda_function_urls"}
      [] group = "iam" -> {"iam", "iam_permission_boundaries"}
      [] group = "compute" -> {"compute", "ec2", "ecs", "lambda", "eks"}
      [] group = "data" -> {"s3", "rds", "kms", "secrets_manager", "rds_subnet_groups",
                            "opensearch", "elasticache", "efs"}

PolicyCapabilities == [s3 |-> "s3_protection", secrets |-> "secrets_policies", kms |-> "kms_policies"]

\* Policy capabilities are assigned anew by every region, the others only set.
MergedCapabilities(capabilities, group, r, diagnostics) ==
    LET denied == {PolicyCapabilities[s] : s \in {t \in DOMAIN PolicyCapabilities : <<t, r>> \in diagnostics}}
        policies == {PolicyCapabilities[s] : s \in DOMAIN PolicyCapabilities}
    IN  IF group = "data"
        THEN (capabilities \union GroupCapabilities(group) \union policies) \ denied
        ELSE capabilities \union GroupCapabilities(group)

\* Mutant: what the collectors noted is dropped when the group succeeds.
MergeWithoutDiagnostics(snap, inv, group, r) ==
    [snap EXCEPT !.resources = Over(inv.resources, @),
                 !.edges = @ \union inv.edges,
                 !.capabilities = MergedCapabilities(@, group, r, inv.diagnostics)]

\* mergeResourceSet: the later region's copy of a resource wins.
Merge(snap, inv, group, r) ==
    [snap EXCEPT !.resources = Over(inv.resources, @),
                 !.edges = @ \union inv.edges,
                 !.diagnostics = @ \union inv.diagnostics,
                 !.capabilities = MergedCapabilities(@, group, r, inv.diagnostics)]

Empty == [resources |-> << >>, edges |-> {}, diagnostics |-> {}]

EmptySnapshot ==
    [account |-> FALSE, regions |-> {}, resources |-> << >>, edges |-> {},
     capabilities |-> {}, diagnostics |-> {}]

AllCapabilities ==
    {"identity"} \union GroupCapabilities("network") \union GroupCapabilities("edge")
    \union GroupCapabilities("iam") \union GroupCapabilities("compute")
    \union GroupCapabilities("data") \union {PolicyCapabilities[s] : s \in DOMAIN PolicyCapabilities}

\* What `context aws validate-permissions` warns about.
ValidatePermissions(snap) == AllCapabilities \ snap.capabilities

TagFiltersMatch(tags, filters) == filters \subseteq tags

\* Relationships stay when both ends do; the internet always does.
ApplyTagFilters(snap, filters) ==
    LET kept == {o \in DOMAIN snap.resources : TagFiltersMatch(snap.resources[o].tags, filters)}
    IN  IF filters = {} THEN snap
        ELSE [snap EXCEPT !.resources = [o \in kept |-> snap.resources[o]],
                          !.edges = {e \in @ : {e.from, e.to} \subseteq kept \union {"internet"}}]

-----------------------------------------------------------------------------
(* The file *)

\* A tag whose key or value looks secret keeps its key only.
LooksSensitive == {"private-restricted"}
RedactValue(tag) == IF tag \in LooksSensitive THEN "(sensitive)" ELSE tag

\* Mutant: sensitivity is inferred anew from the tags that redaction leaves.
NormalizeInferring(snap) ==
    [snap EXCEPT !.resources = [o \in DOMAIN @ |->
        LET tags == {RedactValue(t) : t \in @[o].tags}
        IN  [@[o] EXCEPT !.tags = tags, !.sensitive = InferSensitivity(o, tags)]]]

NormalizeResourceSet(resources) ==
    [o \in DOMAIN resources |-> [resources[o] EXCEPT !.tags = {RedactValue(t) : t \in @}]]
Normalize(snap) == [snap EXCEPT !.resources = NormalizeResourceSet(@)]

Absent == [state |-> "absent", content |-> EmptySnapshot]
Torn == [state |-> "torn", content |-> EmptySnapshot]
Write(snap) == [state |-> "whole", content |-> Normalize(snap)]

\* Load refuses a file that is missing or does not decode.
Loads == file.state = "whole"
Load == Normalize(file.content)

-----------------------------------------------------------------------------
Init ==
    /\ live \in {DOMAIN Objects, DOMAIN Objects \ Volatile}
    /\ exposed \in SUBSET (Openable \intersect live)
    /\ request \in {Parsed(line) : line \in Accepted}
    /\ pc = "identity" /\ visits = {} /\ next = 1 /\ inventory = Empty
    /\ snapshot = EmptySnapshot /\ file = Absent
    /\ timedOut = FALSE /\ faults = 0 /\ changes = 0
    /\ lasting = live /\ wasOpen = exposed /\ wasClosed = live \ exposed

\* A call is refused, for want of permission or because time is up.
Refusal == faults' = faults + 1 /\ (timedOut \/ faults < MaxFaults)
Answered == ~timedOut /\ UNCHANGED faults

WithDiagnostic(snap, d) == [snap EXCEPT !.diagnostics = @ \union {d}]

Identify ==
    /\ pc = "identity"
    /\ pc' = "regions"
    /\ IF "identity" \in request.groups
       THEN \/ Answered /\ snapshot' = [snapshot EXCEPT !.account = TRUE,
                                                        !.capabilities = @ \union {"identity"}]
            \/ Refusal /\ snapshot' = WithDiagnostic(snapshot, <<"identity", "global">>)
       ELSE UNCHANGED <<snapshot, faults>>
    /\ UNCHANGED <<account, request, visits, next, inventory, file, timedOut>>

Start(snap) ==
    /\ snapshot' = snap
    /\ visits' = Visits(request.groups, snap.regions)
    /\ pc' = IF visits' = {} THEN "filter" ELSE "read"

DiscoverRegions ==
    /\ pc = "regions"
    /\ IF request.regions = {}
       THEN \/ Answered /\ Start([snapshot EXCEPT !.regions = EnabledRegions])
            \/ Refusal /\ Start(WithDiagnostic(snapshot, <<"regions", "global">>))
       ELSE Start([snapshot EXCEPT !.regions = request.regions]) /\ UNCHANGED faults
    /\ UNCHANGED <<account, request, next, inventory, file, timedOut>>

Leave ==
    /\ visits' = visits \ {Visit} /\ next' = 1 /\ inventory' = Empty
    /\ pc' = IF visits' = {} THEN "filter" ELSE "read"

(***************************************************************************)
(* One service answers.  After the last one of a group and region its      *)
(* inventory becomes part of the snapshot.                                 *)
(***************************************************************************)
Read(denied) ==
    LET group == Visit[1]  r == Visit[2]
        services == Services(group, r)
        service == services[next]
        view == [live |-> live, exposed |-> exposed, denied |-> denied]
        found == Collected(service, inventory, view, r)
        grown == [resources |-> found.resources, edges |-> found.edges,
                  diagnostics |-> inventory.diagnostics \union PolicyDiagnostics(service, view, r)]
    IN  /\ pc = "read" /\ ~timedOut
        /\ denied \subseteq Deniable(service)
        /\ IF denied = {} THEN UNCHANGED faults ELSE faults < MaxFaults /\ faults' = faults + 1
        /\ \/ /\ next < Len(services)
              /\ next' = next + 1 /\ inventory' = grown
              /\ UNCHANGED <<pc, visits, snapshot>>
           \/ /\ next = Len(services)
              /\ snapshot' = Merge(snapshot, grown, group, r)
              /\ Leave
        /\ UNCHANGED <<account, request, file, timedOut>>

\* Mutant: the failure of a group is not recorded.
ReadFailsSilently ==
    /\ pc = "read" /\ Refusal /\ Leave
    /\ UNCHANGED <<account, request, snapshot, file, timedOut>>

\* A service refuses: what the group has yielded in this region is discarded.
ReadFails ==
    /\ pc = "read" /\ Refusal /\ Leave
    /\ snapshot' = WithDiagnostic(snapshot, Visit)
    /\ UNCHANGED <<account, request, file, timedOut>>

Filter ==
    /\ pc = "filter" /\ pc' = "write"
    /\ snapshot' = Normalize(ApplyTagFilters(snapshot, request.tags))
    /\ UNCHANGED <<account, request, visits, next, inventory, file, timedOut, faults>>

\* os.WriteFile truncates, then writes; the command may be killed in between.
Truncate ==
    /\ pc = "write" /\ pc' = "writing"
    /\ file' = Torn
    /\ UNCHANGED <<account, request, visits, next, inventory, snapshot, timedOut, faults>>

Save ==
    /\ pc = "writing" /\ pc' = "done"
    /\ file' = Write(snapshot)
    /\ UNCHANGED <<account, request, visits, next, inventory, snapshot, timedOut, faults>>

Die ==
    /\ pc = "writing" /\ pc' = "dead"
    /\ UNCHANGED <<account, request, visits, next, inventory, snapshot, file, timedOut, faults>>

TimeOut ==
    /\ pc \in {"identity", "regions", "read"} /\ ~timedOut
    /\ faults < MaxFaults
    /\ timedOut' = TRUE
    /\ UNCHANGED <<account, request, pc, visits, next, inventory, snapshot, file, faults>>

-----------------------------------------------------------------------------
(* Meanwhile, in the account *)

Changing == pc \in {"regions", "read"} /\ changes < MaxChanges /\ changes' = changes + 1

Create(o) ==
    /\ Changing /\ o \notin live
    /\ live' = live \union {o} /\ wasClosed' = wasClosed \union {o}
    /\ UNCHANGED <<exposed, lasting, wasOpen, request, collector>>

Delete(o) ==
    /\ Changing /\ o \in live
    /\ live' = live \ {o} /\ exposed' = exposed \ {o} /\ lasting' = lasting \ {o}
    /\ UNCHANGED <<wasOpen, wasClosed, request, collector>>

Expose(o) ==
    /\ Changing /\ o \in live \ exposed
    /\ exposed' = exposed \union {o} /\ wasOpen' = wasOpen \union {o}
    /\ UNCHANGED <<live, lasting, wasClosed, request, collector>>

Close(o) ==
    /\ Changing /\ o \in exposed
    /\ exposed' = exposed \ {o} /\ wasClosed' = wasClosed \union {o}
    /\ UNCHANGED <<live, lasting, wasOpen, request, collector>>

Step ==
    \/ Identify \/ DiscoverRegions \/ ReadFails \/ Filter \/ Truncate \/ Save
    \/ \E denied \in SUBSET {"tags", "policies"} : Read(denied)

Next ==
    \/ Step \/ TimeOut \/ Die
    \/ \E o \in Volatile : Create(o) \/ Delete(o) \/ Close(o)
    \/ \E o \in Openable : Expose(o)

\* Every SDK call returns or fails: its context has a deadline.
Spec == Init /\ [][Next]_vars /\ WF_vars(Step)

-----------------------------------------------------------------------------
(* Properties *)

TypeOK ==
    /\ live \subseteq DOMAIN Objects /\ exposed \subseteq live
    /\ request.groups \subseteq Groups
    /\ pc \in {"identity", "regions", "read", "filter", "write", "writing", "done", "dead"}
    /\ file.state \in {"absent", "torn", "whole"}
    /\ Loads => DOMAIN Load.resources \subseteq DOMAIN Objects
    /\ pc = "read" <=> visits # {}
    /\ DOMAIN snapshot.resources \union DOMAIN inventory.resources \subseteq DOMAIN Objects
    /\ \A o \in DOMAIN snapshot.resources :
           snapshot.resources[o].public \in {"public", "private", "unknown"}
    /\ timedOut \in BOOLEAN /\ faults \in Nat /\ changes \in 0..MaxChanges

\* The objects a service reports of those that have been there all along.
Lasting(service, r) ==
    DOMAIN Collected(service, EmptyInventory,
                     [live |-> lasting, exposed |-> {}, denied |-> {}], r).resources

(***************************************************************************)
(* What a capability stands for: the service that is read for it.  Policy  *)
(* capabilities also stand for the policies of that service's objects.     *)
(***************************************************************************)
Supplier ==
    [network |-> "vpcs", route_tables |-> "route_tables", security_groups |-> "security_groups",
     network_interfaces |-> "network_interfaces", transit_gateways |-> "transit_gateways",
     edge |-> "load_balancers", elbv2 |-> "load_balancers", cloudfront |-> "distributions",
     api_gateway |-> "api_gateways", lambda_function_urls |-> "function_urls",
     iam |-> "roles", iam_permission_boundaries |-> "roles",
     compute |-> "instances", ec2 |-> "instances", ecs |-> "ecs", lambda |-> "functions", eks |-> "eks",
     s3 |-> "s3", s3_protection |-> "s3", rds |-> "rds", rds_subnet_groups |-> "rds",
     kms |-> "kms", kms_policies |-> "kms", secrets_manager |-> "secrets", secrets_policies |-> "secrets",
     opensearch |-> "opensearch", elasticache |-> "elasticache", efs |-> "efs"]

Supplies(v, c, diagnostics) ==
    /\ Supplier[c] \in Range(Services(v[1], v[2]))
    /\ c \in Range(PolicyCapabilities) => <<Supplier[c], v[2]>> \notin diagnostics

\* What the edge of a region declares, although its VPCs are not read with it, and
\* distributions only in us-east-1.
DeclaredUnread(v, c) == v[1] = "edge" /\ c \in {"network", "cloudfront"}

Founded(c, snap, answered) ==
    \/ c = "identity" /\ snap.account = TRUE
    \/ \E v \in answered : Supplies(v, c, snap.diagnostics) \/ DeclaredUnread(v, c)

(***************************************************************************)
(* Whatever was there during the whole collection, of a kind and in a      *)
(* region that were asked for, is in the snapshot a scan loads, or a       *)
(* diagnostic of that group and region says that its read failed           *)
(* (docs/cloud-context.md: "partial AWS permission failures are written as *)
(* snapshot diagnostics").  And `validate-permissions` keeps silent about a *)
(* capability only if in some region the service it stands for was read,   *)
(* with its policies if it is a capability of policies, in a visit that did*)
(* not fail; the other regions may lack it, and their diagnostics say so.  *)
(* Two capabilities are not as good as that: network and cloudfront are    *)
(* declared by the edge group of every region.                             *)
(***************************************************************************)
NoSilentGaps ==
    Loads =>
        LET made == Visits(request.groups, Load.regions)
        IN  /\ request.tags = {} =>
                  \A v \in made : \A service \in Range(Services(v[1], v[2])) :
                      Lasting(service, v[2]) \subseteq DOMAIN Load.resources \/ v \in Load.diagnostics
            /\ \A c \in AllCapabilities \ ValidatePermissions(Load) :
                  Founded(c, Load, made \ Load.diagnostics)

(***************************************************************************)
(* A resource that was open to the internet during the whole collection is *)
(* not recorded as private or unknown unless a diagnostic says that its    *)
(* policy could not be read, however regions and groups were merged.       *)
(***************************************************************************)
NoSilentExposure ==
    Loads =>
        \A o \in DOMAIN Load.resources \intersect (exposed \ wasClosed) :
            \/ Load.resources[o].public = "public"
            \/ \E d \in Load.diagnostics : PolicyRead(o, d[1], d[2])

(***************************************************************************)
(* Redaction hides what a tag says, not what follows from it: a data store *)
(* that is loaded with any of its tags is marked sensitive whenever one of *)
(* the tags it has in the account says so, even one that was redacted, and *)
(* one whose name or kind says so is marked without tags.                  *)
(***************************************************************************)
SensitivityOutlivesRedaction ==
    Loads =>
        \A o \in DOMAIN Load.resources :
            LET read == IF Load.resources[o].tags = {} THEN {} ELSE Objects[o].tags
            IN  Load.resources[o].sensitive <=> InferSensitivity(o, read)

\* Open itself, or a subnet whose route table is.
EverOpen(o) == o \in wasOpen \/ \E t \in wasOpen : o \in Refs(t, "subnet")

\* What parsePolicyDocument cannot tell from a policy open to everyone.
ReadsAsOpen(o) ==
    LET shape == PolicyShape(Objects[o].policy)
    IN  shape.everyone \/ shape.broad \/ shape.admin

(***************************************************************************)
(* Although its parts are read at different times, the snapshot never says *)
(* what was true at no time of the collection: a resource recorded as      *)
(* public or entered from the internet was open, or its policy reads as if *)
(* it were, and one recorded as private was not open, at some moment since *)
(* the command started.                                                    *)
(***************************************************************************)
SnapshotWasTrue ==
    /\ \A o \in DOMAIN snapshot.resources :
           /\ snapshot.resources[o].public = "public" => EverOpen(o) \/ ReadsAsOpen(o)
           /\ snapshot.resources[o].public = "private" => o \in wasClosed
    /\ \A e \in snapshot.edges : e.from = "internet" => EverOpen(e.to)

(***************************************************************************)
(* A snapshot does not contradict itself: a subnet associated with a route *)
(* table that is recorded as public is public too, whatever changed while  *)
(* the two were read one after the other.  (collectSubnets runs before     *)
(* collectRouteTables.)                                                    *)
(***************************************************************************)
PublicRouteMarksSubnet ==
    \A t, s \in DOMAIN snapshot.resources :
        (/\ Edge(t, s, "associated_with") \in snapshot.edges
         /\ snapshot.resources[t].public = "public")
            => snapshot.resources[s].public = "public"
=============================================================================
