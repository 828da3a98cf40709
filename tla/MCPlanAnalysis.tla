---------------------------- MODULE MCPlanAnalysis ----------------------------
(***************************************************************************)
(* Plans and snapshots for TLC: a web application whose load balancer and  *)
(* function URL lead to a database and a secret, and a small set of IAM    *)
(* principals under every pair of policy statements of interest.           *)
(***************************************************************************)
EXTENDS PlanAnalysis

MCAddresses ==
    <<"act:create", "act:pass", "admin", "alb", "api", "arn:alb", "arn:db", "arn:fn", "arn:old", "arn:url", "attach", "bucket", "bucket_policy", "cdn", "ci",
      "cluster", "db", "definition", "fn", "gateway", "igw_route", "instance", "int", "internet", "k1", "k2", "key", "listener",
      "policy", "role", "route", "rule", "secret", "sg", "subnet", "svc", "table", "table_subnet", "tg", "url", "user", "vault">>
MCKeys == <<"arn:alb", "arn:fn", "k1", "k2">>
MCDotted == {"cluster", "db", "svc", "fn", "secret", "url"}
MCActionNodes == ("act:create" :> <<"lambda", "CreateFunction">>) @@ ("act:pass" :> <<"iam", "PassRole">>)
MCThresholds ==
    {[type |-> t, confidence |-> c] : t \in {PublicToSensitive, Escalation}, c \in {"medium", "high"}}

MCCatalog ==
    {[id |-> "lambda-002", category |-> "new-passrole", services |-> {"iam", "lambda"},
      actions |-> <<PassRole, CreateFunction, <<"lambda", "CreateEventSourceMapping">>>>],
     [id |-> "lambda-003", category |-> "existing-passrole", services |-> {"lambda"}, actions |-> <<UpdateCode>>],
     [id |-> "lambda-005", category |-> "existing-passrole", services |-> {"lambda"},
      actions |-> <<UpdateCode, <<"lambda", "AddPermission">>>>],
     [id |-> "iam-012", category |-> "principal-access", services |-> {"iam"},
      actions |-> <<IAM("UpdateAssumeRolePolicy")>>],
     [id |-> "iam-004", category |-> "self-escalation", services |-> {"iam"},
      actions |-> <<IAM("CreateLoginProfile")>>]}

-----------------------------------------------------------------------------
(* Custom rules *)

Production == [env |-> "production"]
Anything == [type |-> "", address |-> "", tags |-> << >>, actions |-> {}]
Always ==
    [all |-> {}, any |-> {}, not |-> {}, fields |-> {}, routes |-> {}, exposed |-> {}, sensitive |-> {}]
Field(field) == [field |-> field, exists |-> {}, equals |-> {}, unequal |-> {}, in |-> {}]
Exposed(wanted) == [Always EXCEPT !.exposed = {wanted}]

CustomRule(id, select, where) ==
    [id |-> id, category |-> "", severity |-> "", confidence |-> "", select |-> select, where |-> where]

MCCustom ==
    {[CustomRule("ORG_EXPOSED_STORE", [Anything EXCEPT !.tags = Production],
                 <<Exposed(TRUE),
                   [Always EXCEPT !.all = {1},
                                  !.fields = {[Field(<<"type", "">>) EXCEPT !.unequal = {"aws_eks_cluster"}]}]>>)
        EXCEPT !.category = "public_exposure", !.severity = "high", !.confidence = "high"],
     CustomRule("ORG_REACHES_DATA", [Anything EXCEPT !.actions = {"create", "update"}],
                <<[Always EXCEPT !.sensitive = {TRUE}], Exposed(TRUE), [Always EXCEPT !.any = {1, 2}]>>),
     CustomRule("ORG_HIDDEN", [Anything EXCEPT !.type = "aws_db_instance"],
                <<Exposed(TRUE),
                  [Always EXCEPT !.not = {1},
                                 !.fields = {[Field(<<"after", "deletion_protection">>) EXCEPT !.exists = {FALSE}],
                                             [Field(<<"before", "skip_final_snapshot">>) EXCEPT !.in = {"", "true"}]}]>>),
     CustomRule("ORG_ROUTES_TO_DATA", Anything, <<[Always EXCEPT !.routes = {<<"data", "pii">>}]>>)}

-----------------------------------------------------------------------------
(* Resources *)

Resource(type, id, refs, flags) ==
    [type |-> type, tags |-> << >>, names |-> {<<"address", id>>}, refs |-> refs, flags |-> flags,
     policy |-> << >>]
Tagged(resource, tags) == [resource EXCEPT !.tags = tags]
Also(resource, names) == [resource EXCEPT !.names = @ \union names]

Created(after) ==
    [actions |-> {"create"}, before |-> Resource(after.type, "", {}, {}), after |-> after]
Plan(resources, changed, config) ==
    [resources |-> resources, prior |-> << >>,
     changes |-> [id \in changed |-> Created(resources[id])], config |-> config]

-----------------------------------------------------------------------------
(* The web application *)

\* flags of the function URL, of the database, and of the API's route
Web(url, db, route) ==
    [alb |-> Resource("aws_lb", "alb", {<<"depends_on", "tg">>}, {"internet_facing"}),
     listener |-> Resource("aws_lb_listener", "listener",
                      {<<"load_balancer_arn", "alb">>, <<"target_group_arn", "tg">>}, {}),
     tg |-> Resource("aws_lb_target_group", "tg", {}, {}),
     svc |-> Also(Resource("aws_ecs_service", "svc",
                      {<<"target_group_arn", "tg">>, <<"security_groups", "sg">>, <<"depends_on", "db">>},
                      {"admin_text"}),
                  {<<"tag", "app">>}),
     sg |-> Also(Resource("aws_security_group", "sg", {}, {}), {<<"tag", "app">>}),
     db |-> Tagged(Resource("aws_db_instance", "db", {<<"vpc_security_group_ids", "sg">>}, db), Production),
     url |-> Resource("aws_lambda_function_url", "url", {<<"function_name", "fn">>}, url),
     api |-> Resource("aws_apigatewayv2_api", "api", {}, {}),
     int |-> Resource("aws_apigatewayv2_integration", "int",
                 {<<"api_id", "api">>, <<"integration_uri", "fn">>}, {}),
     route |-> Resource("aws_apigatewayv2_route", "route", {<<"api_id", "api">>}, route),
     fn |-> Resource("aws_lambda_function", "fn", {<<"environment", "secret">>}, {}),
     secret |-> Resource("aws_secretsmanager_secret", "secret", {}, {})]

WebPlans ==
    {Plan(Web({"authorization_none"}, {"encryption_disabled"}, {}), {"db", "url"}, {}),
     Plan(Web({}, {"deletion_protection"}, {"anonymous"}), {"db", "fn", "svc"}, {})}

\* A public subnet, buckets, a cluster and a database that is being replaced.
Account(group, bucketPolicy, configuration) ==
    LET resources ==
            [instance |-> Resource("aws_instance", "instance",
                              {<<"vpc_security_group_ids", "sg">>, <<"subnet_id", "subnet">>}, {"public_ip"}),
             sg |-> Resource("aws_security_group", "sg", {}, group),
             rule |-> Resource("aws_vpc_security_group_ingress_rule", "rule", {<<"referenced_security_group_id", "sg">>},
                          IF group = {} THEN {"public_cidr"} ELSE {}),
             subnet |-> Resource("aws_subnet", "subnet", {}, {}),
             table |-> Resource("aws_route_table", "table", {}, {}),
             table_subnet |-> Resource("aws_route_table_association", "table_subnet",
                                  {<<"subnet_id", "subnet">>, <<"route_table_id", "table">>}, {}),
             igw_route |-> Resource("aws_route", "igw_route",
                               {<<"route_table_id", "table">>, <<"gateway_id", "gateway">>}, {"public_cidr", "to_igw"}),
             gateway |-> Resource("aws_internet_gateway", "gateway", {}, {}),
             bucket |-> Tagged(Resource("aws_s3_bucket", "bucket", {<<"kms_key_id", "key">>}, {"sensitive_bucket"}),
                               [data |-> "pii"]),
             bucket_policy |-> Resource("aws_s3_bucket_policy", "bucket_policy", {<<"bucket", "bucket">>}, bucketPolicy),
             cdn |-> Resource("aws_cloudfront_distribution", "cdn", {<<"domain_name", "bucket">>}, {}),
             key |-> Resource("aws_kms_key", "key", {}, {}),
             cluster |-> Tagged(Resource("aws_eks_cluster", "cluster", {}, {"endpoint_public_access"}), Production),
             role |-> Resource("aws_iam_role", "role", {<<"cluster", "cluster">>}, {"admin", "cluster_admin"})]
        old == Tagged(Resource("aws_db_instance", "db", {<<"vpc_security_group_ids", "sg">>},
                               {"skip_final_snapshot"}), Production)
        deleted == [actions |-> {"delete"}, before |-> old,
                    after |-> Tagged(Resource("aws_db_instance", "db", {}, {}), Production)]
    IN  [Plan(resources, {"bucket", "bucket_policy", "cluster", "instance", "sg"}, configuration)
            EXCEPT !.prior = "db" :> old, !.changes = ("db" :> deleted) @@ @]

AccountPlans ==
    {Account({"public_ingress", "admin_port"}, {"public_principal", "data_actions"}, {}),
     Account({}, {}, {<<"bucket_policy", "bucket", "bucket">>})}

-----------------------------------------------------------------------------
(* Live resources *)

Live(type, address, arn) ==
    [address |-> address, arn |-> arn, type |-> type, names |-> {}, tags |-> << >>, public |-> "private",
     sensitive |-> FALSE, blocked |-> "unknown", encrypted |-> "unknown", drift |-> FALSE, expected |-> FALSE,
     actions |-> {}]

LiveDB == [Live("aws_db_instance", "db", "arn:db") EXCEPT !.encrypted = "no"]
LiveURL == [Live("aws_lambda_function_url", "url", "arn:url") EXCEPT !.public = "public", !.expected = TRUE]
LiveALB == [Live("aws_lb", "", "arn:alb") EXCEPT !.public = "public"]
LiveFn == Live("aws_lambda_function", "", "arn:fn")
LiveVault == [Live("aws_secretsmanager_secret", "", "vault") EXCEPT !.sensitive = TRUE]
LiveWeb == [Live("aws_ecs_service", "svc", "") EXCEPT !.names = {<<"tag", "web">>}]
LiveApp == [Live("aws_ecs_service", "", "") EXCEPT !.names = {<<"tag", "app">>}, !.drift = TRUE]

LiveResourceSets ==
    {<< >>, "k1" :> LiveDB, "k1" :> [LiveDB EXCEPT !.drift = TRUE],
     "k1" :> [LiveDB EXCEPT !.expected = TRUE, !.encrypted = "unknown"],
     "k1" :> [LiveDB EXCEPT !.public = "public", !.tags = [data |-> "open", env |-> "staging"]],
     ("k1" :> LiveURL) @@ ("k2" :> LiveVault), ("k1" :> LiveApp) @@ ("k2" :> LiveDB),
     ("k1" :> LiveDB) @@ ("k2" :> [LiveDB EXCEPT !.arn = "arn:old", !.encrypted = "yes"]),
     "k1" :> LiveWeb, ("arn:alb" :> LiveALB) @@ ("arn:fn" :> LiveFn)}

Relates(from, type, to, confidence) == [from |-> from, type |-> type, to |-> to, confidence |-> confidence]

LiveRelationships ==
    {<< >>,
     <<Relates("svc", "routes_to", "db", "medium")>>,
     <<Relates("url", "routes_to", "secret", "low"), Relates("svc", "reads_secret", "secret", "high")>>,
     <<Relates("sg", "attached_to", "db", "high"), Relates("sg", "protects", "db", "high"),
       Relates("sg", "allows_ingress", "db", "low")>>,
     <<Relates("arn:alb", "routes_to", "arn:fn", "high"), Relates("arn:fn", "reads_secret", "vault", "high"),
       Relates("arn:fn", "reads_secret", "secret", "medium")>>,
     <<Relates("svc", "reads_secret", "vault", "high")>>,
     <<Relates("internet", "allows_ingress", "alb", "medium")>>}

Snapshots == [resources : LiveResourceSets, relationships : LiveRelationships]

WebScenarios ==
    [plan : WebPlans, snapshot : {<< >>} \union {<<s>> : s \in Snapshots}]

AccountSnapshots ==
    [resources : {<< >>, "k1" :> [LiveDB EXCEPT !.expected = TRUE],
                  "k1" :> [Live("aws_eks_cluster", "cluster", "") EXCEPT !.public = "endpoint"]},
     relationships : {<< >>, <<Relates("instance", "reads_secret", "vault", "high")>>,
                      <<Relates("sg", "attached_to", "db", "high"), Relates("sg", "protects", "db", "high")>>}]
AccountScenarios ==
    [plan : AccountPlans, snapshot : {<< >>} \union {<<s>> : s \in AccountSnapshots}]

-----------------------------------------------------------------------------
(* Principals and policies *)

Statement(effect, actions, resources, condition) ==
    [effect |-> effect, actions |-> actions, notActions |-> {}, resources |-> resources, notResources |-> {},
     condition |-> condition]
Allow(actions, resources) == Statement("allow", actions, resources, FALSE)

AllowStatements ==
    {Allow({PassRole, <<"lambda", "*">>}, {"*"}), Allow({AssumeRole}, {"admin"}), Allow({AnyAction}, {"*"}),
     Allow({PassRole}, {"admin"}),
     Allow({UpdateCode}, {"fn"}), Allow({IAM("PutRolePolicy"), IAM("UpdateAssumeRolePolicy")}, {"admin"}),
     Statement("allow", {PassRole, CreateFunction, AssumeRole}, {"*"}, TRUE),
     [Allow({}, {"*"}) EXCEPT !.notActions = {<<"s3", "*">>}]}
OtherStatements ==
    {Statement("deny", {PassRole}, {"admin"}, FALSE), Statement("deny", {<<"iam", "*">>}, {"*"}, FALSE),
     [Statement("deny", {<<"iam", "*">>}, {}, FALSE) EXCEPT !.notResources = {"admin"}],
     Allow({CreateFunction, <<"lambda", "InvokeFunction">>}, {"fn"}),
     Allow({<<"secretsmanager", "GetSecretValue">>}, {"secret"})}

Principals(statements, inline) ==
    [admin |-> Tagged(Resource("aws_iam_role", "admin", {<<"assume_role_policy", "ci">>}, {"admin"}), Production),
     ci |-> Resource("aws_iam_role", "ci", {}, {}),
     policy |-> [Resource(IF inline THEN "aws_iam_role_policy" ELSE "aws_iam_policy", "policy",
                          IF inline THEN {<<"role", "role">>} ELSE {}, {}) EXCEPT !.policy = statements],
     attach |-> Resource("aws_iam_user_policy_attachment", "attach",
                         IF inline THEN {} ELSE {<<"user", "user">>, <<"policy_arn", "policy">>}, {}),
     role |-> Resource("aws_iam_role", "role", {<<"assume_role_policy", "user">>}, {}),
     user |-> Resource("aws_iam_user", "user", {}, {}),
     fn |-> Resource("aws_lambda_function", "fn", {<<"role", "admin">>}, {}),
     secret |-> Resource("aws_secretsmanager_secret", "secret", {}, {})]

IAMPlans ==
    {Plan(Principals(<<a, b>>, inline), {"policy", "fn"}, {}) :
        a \in AllowStatements, b \in OtherStatements, inline \in BOOLEAN}

\* What the snapshot says of the policies of a user, of roles of the plan and of one that
\* only the account has.
NamingActions(type, address, arn, actions) == [Live(type, address, arn) EXCEPT !.actions = actions]
NamedActions ==
    {[resources |-> r, relationships |-> << >>] :
        r \in {"k1" :> NamingActions("aws_iam_user", "user", "", {PassRole, <<"lambda", "*">>}),
               ("k1" :> NamingActions("aws_iam_user", "user", "", {AssumeRole}))
                  @@ ("k2" :> NamingActions("aws_iam_user", "user", "", {AnyAction})),
               ("k1" :> NamingActions("aws_iam_role", "role", "", {<<"iam", "*">>}))
                  @@ ("k2" :> NamingActions("aws_iam_role", "", "arn:old", {IAM("PutRolePolicy"), UpdateCode})),
               ("k1" :> NamingActions("aws_iam_role", "ci", "", {<<"sts", "*">>}))
                  @@ ("k2" :> NamingActions("aws_iam_user", "user", "", {PassRole}))}}

\* What the live account saw the user do.
SeenActions(c1, c2) ==
    [resources |-> << >>,
     relationships |-> <<Relates("user", "grants_action", "act:pass", c1),
                         Relates("user", "grants_action", "act:create", c2)>>]

IAMScenarios ==
    [plan : IAMPlans, snapshot : {<< >>}]
    \union [plan : {Plan(Principals(<<Allow({UpdateCode}, {"fn"})>>, TRUE), {}, {})},
            snapshot : {<<SeenActions(c1, c2)>> : c1 \in {"medium", "high"}, c2 \in {"low", "high"}}]
    \union [plan : {Plan(Principals(<<a, b>>, TRUE), {"policy"}, {}) :
                       a \in {Allow({PassRole}, {"admin"}), Allow({UpdateCode}, {"fn"})},
                       b \in {Statement("deny", {PassRole}, {"admin"}, FALSE), Allow({CreateFunction}, {"fn"})}},
            snapshot : {<<s>> : s \in NamedActions}]

MCScenarios == WebScenarios \union AccountScenarios \union IAMScenarios

-----------------------------------------------------------------------------
(* For the claims *)

ConditionalScenarios ==
    {[plan |-> Plan([Principals(<<Statement("allow", {AssumeRole}, {"admin"}, TRUE)>>, TRUE)
                        EXCEPT !.admin.refs = {}], {"policy"}, {}),
      snapshot |-> << >>]}

\* A resource that belongs to both environments by reference.
Environments ==
    {[plan |-> Plan(
        [bucket |-> Resource("aws_custom", "bucket", {<<"a", "fn">>, <<"b", "svc">>}, {}),
         fn |-> Tagged(Resource("aws_lambda_function", "fn", {}, {}), Production),
         svc |-> Tagged(Resource("aws_ecs_service", "svc", {}, {}), [env |-> "development"])], {"bucket"}, {}),
      snapshot |-> << >>]}
=============================================================================
