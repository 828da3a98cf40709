------------------------- MODULE MCContextCollector -------------------------
(***************************************************************************)
(* An account with an object of every kind the collector reads, in two     *)
(* regions, for TLC.  Few of them change.                                  *)
(***************************************************************************)
EXTENDS ContextCollector, TLC

Object(kind, region, refs) ==
    [kind |-> kind, region |-> region, refs |-> refs, tags |-> {}, name |-> "plain", policy |-> << >>]
Owned(object) == [object EXCEPT !.tags = {"team"}]
Named(object) == [object EXCEPT !.name = "customer"]

Statement(effect, actions, resources) ==
    [effect |-> effect, actions |-> actions, resources |-> resources,
     everyone |-> FALSE, conditional |-> FALSE]
When(statement) == [statement EXCEPT !.conditional = TRUE]
Under(object, statements) == [object EXCEPT !.policy = statements]

East == "us-east-1"
West == "eu-west-1"

MCNetwork ==
    [vpc |-> Object("aws_vpc", East, {}),
     subnet |-> Owned(Object("aws_subnet", East, {<<"vpc", "vpc">>})),
     igw |-> Object("aws_internet_gateway", East, {<<"vpc", "vpc">>}),
     nat |-> Object("aws_nat_gateway", East, {<<"subnet", "subnet">>}),
     tgw |-> Object("aws_ec2_transit_gateway", East, {}),
     table |-> Owned(Object("aws_route_table", East,
                   {<<"vpc", "vpc">>, <<"subnet", "subnet">>, <<"gateway", "igw">>})),
     sg |-> Object("aws_security_group", East, {<<"vpc", "vpc">>, <<"peer", "sg">>}),
     eni |-> Object("aws_network_interface", East,
                   {<<"subnet", "subnet">>, <<"group", "sg">>, <<"instance", "vm">>})]

MCEdge ==
    [lb |-> Owned(Object("aws_lb", East,
                   {<<"group", "sg">>, <<"subnet", "subnet">>, <<"listener", "listener">>})),
     listener |-> Object("listener", East, {<<"target_group", "tg">>}),
     tg |-> Object("aws_lb_target_group", East, {<<"lb", "lb">>, <<"target", "vm">>}),
     api |-> Object("aws_apigatewayv2_api", West, {}),
     integration |-> Object("aws_apigatewayv2_integration", West,
                   {<<"api", "api">>, <<"target", "fn">>, <<"role", "role">>}),
     route |-> Object("aws_apigatewayv2_route", West,
                   {<<"api", "api">>, <<"integration", "integration">>}),
     url |-> Object("aws_lambda_function_url", West, {<<"function", "fn">>}),
     cdn |-> Object("aws_cloudfront_distribution", East, {<<"origin", "lb">>})]

MCIAM ==
    [role |-> Under(Object("aws_iam_role", "global", {<<"boundary", "policy">>}),
                   <<Statement("allow", {"sts:assumerole"}, {})>>),
     policy |-> Under(Object("aws_iam_policy", "global", {<<"role", "role">>}),
                   <<Statement("allow", {"s3:*"}, {"bucket"}), Statement("deny", {"iam:*"}, {"*"})>>),
     inline |-> Under(Object("aws_iam_role_policy", "global", {<<"role", "role">>}),
                   <<When(Statement("allow", {"kms:*"}, {"key"}))>>),
     profile |-> Object("aws_iam_instance_profile", "global", {<<"role", "role">>}),
     oidc |-> Object("aws_iam_openid_connect_provider", "global", {})]

MCCompute ==
    [vm |-> Owned(Object("aws_instance", East, {<<"group", "sg">>, <<"profile", "profile">>})),
     fn |-> Object("aws_lambda_function", West, {<<"role", "role">>, <<"key", "key">>}),
     ecs |-> Object("aws_ecs_cluster", West, {}),
     service |-> Object("aws_ecs_service", West, {<<"cluster", "ecs">>, <<"definition", "task">>}),
     task |-> Object("aws_ecs_task_definition", West, {<<"role", "role">>, <<"secret", "secret">>}),
     eks |-> Object("aws_eks_cluster", East, {<<"role", "role">>}),
     nodes |-> Object("aws_eks_node_group", East, {<<"cluster", "eks">>, <<"role", "role">>})]

MCData ==
    [db |-> Owned(Object("aws_db_instance", East, {<<"key", "key">>, <<"subnet_group", "dbgroup">>})),
     aurora |-> Object("aws_rds_cluster", East, {<<"key", "key">>}),
     dbgroup |-> Object("aws_db_subnet_group", East, {<<"subnet", "subnet">>}),
     bucket |-> [Under(Object("aws_s3_bucket", East, {}), <<Statement("allow", {"s3:getobject"}, {"bucket"})>>)
                   EXCEPT !.tags = {"team", "private-restricted"}],
     secret |-> Under(Object("aws_secretsmanager_secret", East, {<<"key", "key">>}),
                   <<Statement("deny", {"*"}, {"secret"})>>),
     key |-> Under(Object("aws_kms_key", East, {}), <<Statement("allow", {"kms:*"}, {"*"})>>),
     search |-> Object("aws_opensearch_domain", East, {<<"subnet", "subnet">>, <<"group", "sg">>}),
     cache |-> Named(Object("aws_elasticache_cluster", West, {<<"group", "sg">>})),
     replicas |-> Object("aws_elasticache_replication_group", West, {<<"key", "key">>, <<"member", "cache">>}),
     efs |-> Owned(Object("aws_efs_file_system", West, {<<"key", "key">>})),
     mount |-> Object("aws_efs_mount_target", West, {<<"system", "efs">>, <<"subnet", "subnet">>})]

MCObjects == MCNetwork @@ MCEdge @@ MCIAM @@ MCCompute @@ MCData

MCRegionNames == <<West, East>>
MCEnabledRegions == {West, East}
MCVolatile == {"table", "subnet", "bucket", "lb", "secret"}

Asked(words, regions, tags) == [words |-> words, regions |-> regions, tags |-> tags]
MCRequests ==
    {Asked({"identity", "network"}, {East}, {}),
     Asked({"edge", "data"}, {}, {}),
     Asked({"iam", "compute", "network"}, {East}, {"team"}),
     Asked({"iam", "compute"}, {}, {}),
     Asked({"all"}, {West}, {}),
     Asked({"storage"}, {}, {}),
     Asked({}, {West, East}, {})}
=============================================================================
