---------------------------- MODULE MCLifecycle ----------------------------
(* Lifecycle with the catalogues of all services.                          *)
EXTENDS Lifecycle, TLC

RDS           == INSTANCE Rds
EC2           == INSTANCE Ec2
ECS           == INSTANCE Ecs
EKS           == INSTANCE Eks
IAM           == INSTANCE Iam
S3            == INSTANCE S3
COGNITO       == INSTANCE Cognito
ELB           == INSTANCE Elb
APIGW         == INSTANCE ApiGateway
COMPUTE       == INSTANCE Compute
EDGE          == INSTANCE Edge
DATA          == INSTANCE Data
MESSAGING     == INSTANCE Messaging
SECURITY      == INSTANCE Security
OBSERVABILITY == INSTANCE Observability

Resources ==
  RDS!Resources @@ EC2!Resources @@ ECS!Resources @@ EKS!Resources @@ IAM!Resources
  @@ S3!Resources @@ COGNITO!Resources @@ ELB!Resources @@ APIGW!Resources
  @@ COMPUTE!Resources @@ EDGE!Resources @@ DATA!Resources @@ MESSAGING!Resources
  @@ SECURITY!Resources @@ OBSERVABILITY!Resources

(* The rules hold of every resource as a whole too, with all of its inputs  *)
(* watched together: what follows from them does not rest on the views.     *)
Whole == [n \in DOMAIN Resources |-> [Resources[n] EXCEPT !.together = {Resources[n].inputs}]]

(* Three excepted, where it takes more than two inputs to see it, or where  *)
(* AWS takes an input from another: what a replication group of a global    *)
(* one has no input of its own for.                                         *)
Intertwined ==
  {"cognito_idp_user_pool_client", "cognito_idp_user_pool_domain", "elasticache_replication_group"}

ASSUME WholeAssumption ==
  \A seen \in {Views(Whole)} : \A v \in DOMAIN seen :
    Lawful(seen[v]) /\ (v[1] \in Intertwined \/ Applies(seen[v]))

(* An EC2 instance, of which only the tags are watched.                     *)
InstanceTags == [ec2_instance |-> About(EC2!Instance, {"tags"})]
=============================================================================
