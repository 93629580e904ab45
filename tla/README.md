# TLA+ models of unobin-library-aws

unobin-library-aws is a Go library of AWS resources, data sources and actions
for Unobin, an infrastructure-as-code runtime. The runtime
(`github.com/cloudboss/unobin`, not part of the repository) reconciles a stack:
it reads what it recorded for each resource, and calls the resource's `Create`,
`Read`, `Update` or `Delete`. Each resource is reconciled in a goroutine of its
own. The library keeps almost no state between calls. What it must get right is
the order of its AWS calls, what it does when one of them fails, is refused,
is answered late or is not yet visible, and what two goroutines do to one AWS
object at once. That is what these modules model.

All modules are plain TLA+, checked by TLC; the eight `_proofs` modules are
checked by TLAPS. Run, in this directory,

    tlc -config WebACL.cfg WebACL        # any run of the table below
    tlapm LambdaPermission_proofs.tla    # any proof module

## The system

### Parts and how they interact

The runtime calls a resource with its configuration (inputs) and what it
recorded (`runtime.Prior`: `Inputs`, `Outputs` and, at apply time, `Observed`,
what the plan's `Read` returned). It records outputs when `Create` or `Update`
succeeds, forgets them when `Delete` does, and takes `runtime.ErrNotFound` from
`Read` for drift: the resource is created again. A failed `Create` records
nothing. Whatever failed is applied again by the next run.

A resource calls AWS through the SDK, which resends a call whose answer was
lost. It polls with `internal/wait`, retries with `internal/retry`, and
reconciles tags with `internal/tagsync`, passing callbacks that make the
service's own calls. In four places an in-process lock stands between the
goroutines of resources that share an AWS object: Lambda permissions (per
function), EKS Fargate profiles (per cluster), EFS mount targets (per file
system and zone) and CloudWatch Logs metric filters (per log group).

| Component | State it keeps or changes | Operations | What is hard | Correct when |
| --- | --- | --- | --- | --- |
| `internal/wait` | deadline, run counter | `Until`, `UntilStable` | deadline against sleep, cancellation, resets | succeeds exactly at the first full run of ready looks, ends, never early |
| `internal/retry` | deadline | `OnError` | which errors end it, when | as `Until` for one success; reports the last error |
| `internal/tagsync` | the tags of a resource | `Diff`, `Sync` | failure between two calls, tag limit, other writers | ends with the desired tags; touches nothing else |
| Lambda permission | statements of a function's policy, `functionLocks` | `Create`, `Read`, `Delete` | Lambda's own read-modify-write, lag, lock over retries | no statement lost or revived, no false drift |
| WAFv2 web ACL | the ACL, its lock token, tags | `Create`, `Read`, `Update`, `Delete` | optimistic lock, other writers, lost answers, Shield's rules | success means applied or gone; foreign rules kept; never fights |
| Secret version | staging labels over versions | `Create`, `Read`, `Update`, `Delete` | label moves one at a time, several resources per secret | always a current version; converges |
| EKS Fargate profile | the profile, a lock per cluster | `Create` (with rollback), `Read`, `Delete` | one change per cluster, lag, rollback | operations never overlap, results true |
| every other resource, 123 in 15 catalogues | one AWS object each | `Create`, `Read`, `Update`, `Delete` of up to a hundred inputs in up to forty calls | order of calls, waits between them, a failure, lost answer or crash at each, what is compared with what when the run is repeated | what is recorded is applied; deleted is gone; no false drift; a repeated run gets there |
| IAM policy versions | up to five versions of a policy | `applyNewVersion`, `pruneVersions` | a limit that counts the default version | a full policy is pruned |
| `internal/ptr`, `internal/partition`, `internal/meta`, `config`, `meta`, `service` | none | conversions, registration, schema | nothing that runs over time | not modelled |

`PROJECT.json` lists every component with its files, every hazard with its
line, and which property covers it.

### What stays outside

* Formatting, parsing, validation of inputs and conversion of input blocks to
  requests: they hold no state and their answers decide no control flow of the
  modelled operations beyond "refused before any call".
* The runtime and AWS. Both appear as environment actions, written from how the
  code uses them, and are marked external in the map: a service may refuse,
  fail, carry a call out and lose its answer, and show old state.
* How often a wait polls, in the resource modules. `Poll` is about that; there
  a wait is a location that is left when the observation settles it or, at any
  moment, by a failure.

## Modules

### `Await`, `Poll`, `Retry`

`Await` is the abstract promise of the polling helpers, without a clock: a
sequence of observations `seen` and a `result`. Success comes at the first
moment the last `Consecutive` observations are ready, an error ends the wait at
once, and giving up needs a look first. It is the case distinction in the
comments of `Until` and `UntilStable`.

`Poll` is `until` in `internal/wait/wait.go`, one call of it. `pc` is the next
statement: the probe, the deadline check, the `select`. `now` counts ticks; a
probe takes up to `MaxProbe`, a sleep may overrun `Interval` by up to `Slack`,
and `Cancel` may happen at any time, so that `Abandon` and `Wake` race.
`started` and `seen` are history. `KeepsPromise` says that `Poll` implements
`Await`, with `seen` and `result` under their own names.

`Retry` is `onError` in `internal/retry/retry.go` in the same form. Its
`KeepsPromise` maps success to ready, a transient error to not-yet, any other
error to an error, and a transient error *returned* to a timeout.

### `TagSync`

`Sync` in `internal/tagsync/tagsync.go`: `Read`, `Remove` and `Put` with the
sets of `Diff` (`Upsert`, `Removals`). A tag map is a function from `Keys` to
values, `NoTag` where absent. `Fault` makes the call in progress fail, carried
out or not; `Foreign` is another writer; the service refuses a `Put` over
`Limit`; a failed `Sync` is applied again from the read. `disturbed` is history
and tells a run that others interfered with from one they did not.

### `LambdaPermission`, `MCLambdaPermission`

`internal/service/lambda/permission_rsrc.go`. A process is one resource.
`Start` is the runtime, `Acquire` is `lock.Lock()`, `BeginAdd`/`FinishAdd` are
an `AddPermission` at Lambda (which reads the policy, `Snapshot`, and writes it
back, `WriteBack`, with nothing between to stop another), `AddNotYet` and
`AddFails` are its two kinds of error, `Appear` the wait of the create-path
`read`, `BeginRemove`/`FinishRemove` and `Vanish` the delete. `Propagate` is
`GetPolicy` catching up. `lock` is indexed by the *string* in `function-name`,
as `functionLocks` is. A call whose answer was lost is sent again by the SDK or
ends the operation. `MCLambdaPermission` gives the spellings for TLC.

### `WebACL`

The web ACL resource of `internal/service/wafv2`. One ACL with a token that
every accepted write changes. `Start` dispatches on what is recorded and
desired, as the runtime and the head of `update` do; `Prepare` is
`prepareWebACLUpdateInput`, which merges the live Shield rules and takes the
token found with them; `Update` is `UpdateWebACL` at WAF, `Conflict` the two
reactions to a lock conflict, `Refresh` the one refresh; `Delete` and
`RefreshDelete` the same for the delete. `ForeignWrite` is Shield or anyone
else. `sent`, `atRefresh`, `disturbed` and `turned` are history. `turned` is the
exception of `UpdateApplied` for the tags: `update` compares the tags wanted with
those recorded, so that a goal changed after an update that wrote tags and failed
may find them unchanged, skip the sync and succeed with what the failed update
wrote. The configuration has the same gap (web_acl_update.go:196), for which the
property speaks of updates that wrote. A configuration is one
model value; the Shield rules a configuration itself names are `own`.

### `SecretVersion`

`internal/service/secretsmanager/secret_version_rsrc.go`. Several version
resources of one secret. `stages` is which labels each version has; `Attach`
is what Secrets Manager does with a label that moves, including the automatic
`AWSPREVIOUS`. `Put` and `Readable` are `Create`; `ReadEntry`, `NextAdd`,
`LookUp`, `Move`, `Remove` and `Read` are `Update` with `reconcileStages`,
`addStage` and `removeStage`; `ReadDeleteEntry`, `Detach` and `Detached` are
`Delete`, and `VersionGone` its two not-found answers, which it takes for success:
Secrets Manager drops a version that has no label left. `Settled` is what makes the runtime leave a resource alone.

### `FargateProfile`, `MCFargateProfile`

`internal/service/eks/fargate_profile_lifecycle.go` and `..._wait.go`. `lock` is
`fargateProfileClusterLocks`. `Create`, `CreateInUse` and `CreateFails` are the
first call, `FinishCreate`/`FinishCreateFails` the wait, `Rollback` and
`AwaitRollback` the rollback, `Delete` and `AwaitDeleted` the delete, `Drift`
the plan's read. `Progress` and `Show` are EKS: a profile settles, and
`DescribeFargateProfile` catches up. `Update` only syncs tags, which is
`TagSync`, and is left out.

### `Steps`, `Lifecycle` and the catalogues

The other resources, 123 with those that are listed once for each way
of creating or finding them, have one shape: each looks after one AWS object, with a
`Create`, an `Update` and a `Delete` that make a fixed sequence of calls and
waits under guards. What differs is which calls, in which order, sending what,
under which guards, and what each makes of an object that is gone or busy. So
there is one state machine, `Lifecycle`, and catalogues of programs for it.

`Steps` is the language of the programs. A program is a sequence of steps, one
for each AWS call, wait or read in the order of the code. A step says what it
does (`Create`, a write such as `Send`, `Put` or `Diff`, `Delete`, `Await`,
`Gone`, `Look`, `Reject`), which operation it calls, which inputs it sends and
how (all of them, those given, those changed, the elements added since), and
modifiers say how it is addressed and what it makes of trouble: `AbsentOk` is a
not-found error that is ignored, `Retried` a call inside `retry.OnError`,
`ByPrior` a call on `r.Prior.Inputs`' name, `Matched` a call with an ETag or a
revision. Guards are the `if`s around a call: `Changed` (`runtime.Changed`, or a
comparison with `Prior.Inputs`), `Given` (the pointer is not nil), `Drifted` (a
comparison with `Prior.Observed`), and for what the code looks up first, `Has`
and `Differs`, which are evaluated when the step is reached (`WhenLive`). Where the
code compares amounts, `Raised` and `Lowered` compare with what is recorded, `Over`
and `Under` with what the plan's `Read` observed, and `Raise` and `Lower` are calls
that only go one way: `Strict` ones are refused for what AWS has beyond.

To read a catalogue against its source, take

    VolumeUpdate == When(Changed(VolumeModifyFields), VolumeModify) \o SyncTags \o VolumeRead

as: if one of these inputs changed, call `ModifyVolume` and do what `VolumeModify`
says of it; then `tagsync.Sync`; then `read`. The record at the end of each resource says what
is true of the whole: which inputs `ReplaceFields` names, which calls put the
object in transition (`slow`: those after which the code waits), which inputs
make AWS refuse a delete (`protect`, `holds`), whether the identifier is a name
(`name`, `reads`), whether AWS takes a second object of that name (`named`),
whether the code waits for a new object to show (`lags`), what a failed
`Create` takes back (`cleanup`), and which inputs the code knowingly leaves out
of a call (`gaps`, below).

| Module | Services |
| --- | --- |
| `Rds` | instances and clusters (each way of creating one is a resource of its own), cluster instances, parameter and subnet groups |
| `Ec2` | VPC, subnets, gateways, routes and route tables, security groups and rules, addresses, endpoints, key pairs, launch templates, instances (running, or found stopped), volumes |
| `Ecs`, `Eks` | ECS clusters, capacity providers, services, task definitions; EKS clusters, add-ons, node groups |
| `Iam` | roles, users, groups, their policies and attachments, access keys, instance profiles, OpenID Connect providers |
| `S3` | buckets, bucket policies and notifications, objects |
| `Cognito` | user pools, clients, domains, users |
| `ApiGateway`, `Elb` | APIs, stages, routes, integrations, authorizers, domains, mappings; load balancers, listeners, certificates, rules, target groups and attachments |
| `Compute` | Auto Scaling groups, hooks, policies; Lambda functions, aliases, URLs, event source mappings; microVM images |
| `Edge` | CloudFront distributions, functions, access controls, header policies; Route 53 zones and record sets |
| `Data` | EFS, Kinesis, DSQL, DynamoDB, ElastiCache, OpenSearch |
| `Messaging` | SNS, SQS, EventBridge, Scheduler, Step Functions |
| `Security` | KMS, Secrets Manager (secret), ACM, SSM, ECR, the WAFv2 association |
| `Observability` | CloudWatch, CloudWatch Logs, CloudTrail |

`Lifecycle` runs one resource, `res`, which `Init` picks with the inputs that
vary (`view`). `goal` is what the stack says, `recorded` is
`Prior.Inputs`, `thing` the object at AWS; `op` is the operation and `todo` the
numbers of the steps of its program that are left, of which `First(todo)` is next.
`Begin`, `Drift`, `Succeed` and `ChangeGoal` are the runtime and whoever edits the
stack. `Write`, `CreateNew`, `CreateTwice`,
`Remove`, `Refused`, `Missing`, `Satisfied`, `InVain`, `Rejects` and `Skip` are the
next step, by what it is and what AWS makes of it. `Answered` lets any call be
carried out and its answer be lost; `StepFails` fails any step; `Crash` ends the
process between any two; `Vanish` is another client's delete; `Settle` and
`Show` are AWS, in its own time. `calm`, `torn` and `turned` are history.

An input is a set: of its elements, of one for a scalar, empty when not given.
That is all the properties tell apart of it, and what makes "nil is not sent"
and "clearing needs a call" different things. Of an amount {} is the least and
{2} more than {1} (`Exceeds`); of all inputs but those in `Ranked`, for which this
matters, `Init` takes 1 and 2 for alike.

### `Rules`

What all programs have in common and can be read off a program without running
it. `WaitsStand`: between a call that starts a transition and the next one AWS
would refuse for it stands a wait that is made whenever both are. `CreateConfirms`:
where a new object may be late to show, `Create` looks until it does.
`NameIsKept`: where an input names the object, `Create` sends it with the call that
makes it, `Update` sends it whenever it changed, and nothing else touches it.
`DeleteLeavesNothing`: a deletion has a last step, the delete or the wait for its
end, that no guard keeps from being made but the inputs in `keeps`.
`OnlyCreateMakes` and `Spelled` say that only `Create` makes objects and that
steps are well formed, their tests known ones.

`Applies` is the rule behind `SettledMeansApplied`. `Holds` and `Written`, what a guard
and a call mean, are in this module for its sake. It looks at one element of one
input with at most one other input, in every combination of what was and what is
wanted, and asks that every input outside `gaps` has, in `Create` and in `Update`, a
step that makes the element right from whatever is there (`Settles`): no guard keeps
the step from being made but where the element is right already, and no step after
it undoes it. In `Update` it is also enough that what was is right and nothing
hurts it, that the update is rejected, or that of two steps one makes it right
whatever the plan's `Read` observed (`EitherSettles`): clusters of a replication
group are added at the start of an update and taken away at its end, each by a
comparison with what was observed. What may be left of this are the
exceptions that the property names too: `Sticky` and `Forgetful` inputs.

`Lifecycle` assumes them of its catalogue (`CatalogueAssumption`), and
`Lifecycle_proofs` derives its theorems from them. They are no axioms: TLC
evaluates them on every view that the run picks and, in `WholeAssumption` of
`MCLifecycle`, on each of the 123 resources with all of its inputs watched
together, which is far beyond what a run can reach. Taking a wait out of a
catalogue, or the look at the end of a `Create`, makes them false, and so does a
call left out or put under the wrong guard. `Applies` holds of the views of all
resources, but of three as a whole it cannot be told (`Intertwined`): in a Cognito
user pool client and domain it takes more than two inputs at a time, and so it does
for the engine, its version and the logs of an ElastiCache replication group, which
has its engine settings from elsewhere when it joins a global one.

### `PolicyVersions`

The versions of one IAM policy: `Update` prunes one `DeletePolicyVersion` at a
time (`pruneVersions`, `Prune`) and then creates a version that is the default
(`CreateVersion`, as `applyNewVersion`); `Delete` prunes to none.

### What is assumed of AWS

These assumptions decide what holds, and none can be read from the repository
alone; each is written at the action or helper it concerns.

* Lambda has finished a call by the time the client stops waiting for its answer
  (`FinishAdd`, `FinishRemove`): a write that landed later would escape any lock.
* WAF changes the token on every write and refuses any other token.
* Secrets Manager keeps a label on at most one version, and refuses a move that
  does not name the version the label is on.
* EKS refuses a create or delete while a profile of the cluster is changing, and
  `DescribeFargateProfile` shows nothing of an earlier profile of a name once a
  new one is accepted; it may be late in every other way.
* In `Lifecycle`: a call puts the object in transition only if the code waits
  after it somewhere, and a new object may be late to show only where the code
  waits for it to show (`lags`). Where the code waits nowhere, it relies on AWS
  answering at once, and so does the model. An object in transition refuses
  every call not marked `Anytime` (tags, and calls AWS documents as accepted).
  A delete is refused for what `protect` and `holds` name. An input a call does not
  send is left as it was. A call marked `Strict` is refused when it adds an element
  that is there, drops or changes one that is not, raises an amount above which the
  object is already, or lowers one below which it is (`Clash`): Kinesis refuses to
  increase a retention to less, DynamoDB to take warm throughput back, ElastiCache to
  increase a count to fewer. Raising or lowering to what is there already is accepted,
  and so is promoting a cluster that is the primary, and a DynamoDB call that after its
  guards has nothing to say.

### Composition

`Poll` and `Retry` implement `Await`. The resource modules use waits and retries
as `Await` promises them: a wait is left on what settles it, or given up after
at least one look. `WebACL` and `Lifecycle` take tag reconciliation as one step,
which `TagSync` shows it is for an undisturbed resource once it succeeds.
`MCLifecycle` composes `Lifecycle` with all catalogues: `Init` picks the resource.

## Runs

`CHECK_DEADLOCK FALSE` is in every cfg because the systems do stop: a helper has
returned, or everything asked for is done and the bounds on faults, foreign
writes and changes of mind are used up.

| Run | Module, cfg | Bounds | Shows |
| --- | --- | --- | --- |
| poll | `Poll` | timeout 5, interval 2, two in a row, slack and probe 1 | the promise `KeepsPromise`; `DeadlineKept`, `Terminates` |
| retry | `Retry` | timeout 3, interval 2, two transient errors, one fatal | the promise `KeepsPromise`; `LatestInTime`, `Terminates` |
| tagsync | `TagSync` | three user keys and a reserved one, two values, limit 2, one fault, one foreign change | `Converged`, `NeverOverLimit`, `RightTagsLeftAlone` (reserved keys included), `EventuallySynced` |
| lambda_permission | `MCLambdaPermission`, `LambdaPermission.cfg` | two resources, one function, two calls a wait | `CallsExclude`, `NoLostStatement`, `StaysDeleted`, `NoFalseDrift`, `EveryOperationReturns` |
| lambda_permission_two_names | `MCLambdaPermission`, `LambdaPermissionTwoNames.cfg` | a name and an ARN of one function | **violated**: `OneLockPerFunction` |
| web_acl | `WebACL` | two configurations, two tag maps, one Shield rule, two foreign writes, two changes of mind, one fault | `UpdateApplied`, `PlanAgainMeansChanged` (which holds the one refresh), `DeletedMeansGone`, `ShieldKeptAtFirst`, `EventuallySucceeds` |
| web_acl_shield | `WebACL`, `WebACLShield.cfg` | two foreign writes | **violated**: `UpdatePreservesShieldRules` |
| secret_version | `SecretVersion` | two resources, four versions, one label of the user's, one change of mind, one fault | `CurrentNeverLost`, `PromotionSeen`, `DeletedIsBare`, `Converges` |
| fargate_profile | `MCFargateProfile`, `FargateProfile.cfg` | two profiles of one cluster | `OneOperation`, `ReturnsSettled`, `InUseMeansFailure`, `EveryOperationReturns` |
| lifecycle | `MCLifecycle`, `Lifecycle.cfg` | 123 resources in 581 views, one fault, two changes of the goal | `SettledMeansApplied`, `NeverTooEarly`, `NoFalseDrift`, `DeletedIsGone`, `Converges` |
| policy_versions | `PolicyVersions` | limit 5, seven versions ever | **violated**: `RoomIsMade` |
| instance_tags | `MCLifecycle`, `InstanceTags.cfg` | one resource, one input, one change of the goal, no fault | **violated**: `EveryInputApplied` |

The passing runs but retry also check `TypeOK` of their module. The sizes go from
546 states (retry) to 594,476 (web_acl); secret_version has 304,086 and lifecycle
448,321. Lifecycle takes about two minutes, every other run less than one.

The five properties of `Lifecycle` are one set of questions put to every resource:

* `SettledMeansApplied`: when the runtime has nothing to do, the object holds what
  the stack says. It fails for a missing call, for a call under the wrong guard,
  for an input sent on create and not on update, for one taken back by leaving it
  out, and for an update that stopped half-way and is repeated with a guard that
  no longer holds.
* `NeverTooEarly`: no call is made while the object is in the transition an earlier
  call of the same operation began.
* `NoFalseDrift`: a plan never takes for gone what an operation has just made.
* `DeletedIsGone`: a delete that succeeded, and a create that says it was undone,
  leave nothing behind.
* `Converges`: whatever failed, repeating the run gets there, or stops for good at
  one of the obstacles that `Hindered` names.

Why the bounds are enough. A lost update needs two writers, and
`LambdaPermission_proofs` has the result for any number. A lock conflict
refreshes once and then gives up, so two foreign writes reach every branch, and
a fault more gives the self-inflicted conflict. Label moves are pairwise, and
four versions allow each of two resources to be deleted and put again. Three
user keys against a limit of two is the least at which the order of removal and
write matters. In `Poll` the deadline falls between two looks and more than
`Consecutive` looks fit before it. In `Lifecycle` one fault stops an operation at
any point and the next is the recovery from it; two changes of the goal are
enough for a create, an update that fails and one that takes it back, or a delete;
a second fault would be a failed recovery, which starts from states the first has
already reached. A view is a resource with one input of each kind, where two inputs
are of a kind when no step, guard or aspect tells them apart, and with the joint
sets named in `together` for the inputs whose calls depend on each other; views of
one input that differ only in names are merged. Two values of an input are
enough to tell old from new and given from absent. The proofs below take away most of these
bounds: of `Lifecycle`, those on faults and goals for every property but
`Converges`, and with `WholeAssumption` the restriction to views (for
`SettledMeansApplied`, but of the three resources in `Intertwined`).

The bounds themselves: `MaxTries` (calls a wait makes), `MaxFaults`,
`MaxForeign`, `MaxGoals`, `MaxVersions`, `MaxUpdates`, `MaxProbe`, `MaxCall` and
`Slack`. None of them is
in the code; each is a constant of its module, in the guard of the action it
bounds. `MaxTries` stands for the deadline, which `Poll` shows to bound the
number of looks.

### Fairness

* A goroutine that can run does: weak fairness of the steps of an operation that
  has started (`AfterLock`, `Call`, `Step`). The steps that could wait forever
  are AWS calls; the SDK's own timeouts and the wait's deadline end them, which
  in the models is the failing disjunct of the same action.
* `sync.Mutex` serves a waiter that has waited a millisecond before any
  newcomer, so a waiter is not overtaken for ever: strong fairness of `Acquire`.
* `Start` is fair only where the claim is convergence (`WebACL`,
  `SecretVersion`): it says that what failed is applied again. Likewise an ACL
  to be destroyed is at some time disassociated, and the plan's read of a
  missing one happens. In the permission and profile modules, whose claim is
  that operations return, the runtime is under no obligation.
* In `Lifecycle` the work of the resource is fair as a whole (`Work`: at most one
  action of it is enabled at a time but for the outcomes of a call), with `Begin`
  in it because the claim is convergence, and so are `Settle` and `Show`: a
  transition ends and a new object shows, without which every wait of the library
  is in vain.
* Nothing in the environment is otherwise fair: `GetPolicy` and
  `DescribeFargateProfile` need never catch up, faults need never happen.

### What the four violations say

`lambda_permission_two_names`. The comment on `functionLock`
(permission_rsrc.go:38-40) says that all resources naming the same function
share a lock. The key is the string in the configuration, so a resource that
gives the name and one that gives the ARN take two locks; their calls overlap,
which is what the lock is there to prevent.

`web_acl_shield`. `prepareWebACLUpdateInput` merges the live Shield rules into
the update, and the test of the update says it preserves them. After a lock
conflict, `update` replaces the token (web_acl_update.go:58) and sends the rules
merged before. The write that caused the conflict may have been Shield adding a
rule: the second attempt removes it. `ShieldKeptAtFirst` shows that the first
attempt never does.

`policy_versions`. The comment on `applyNewVersion` (iam/policy_rsrc.go:199-200)
says that a full policy is pruned. It prunes to four versions, and
`pruneVersions` counts those that are not the default, of which a full policy has
exactly four: nothing is pruned, IAM refuses the sixth version, and so it does
at every later update.

`instance_tags`. The comment on `ReplaceFields` of the EC2 instance
(ec2/instance_rsrc.go:111-113) says that tags are reconciled in place. `Update`
syncs the volume tags and every other input, and never `r.Tags`: the change is
recorded as applied and is not.

### What the excuses in the properties say

An excuse in a property is a behaviour of the code, kept where a reader finds it.

* `gaps` are inputs a resource accepts and some operation leaves out. Most only
  steer a call (`force-destroy`, `publish`). The others are at the record of each
  resource, such as `secondary-private-ip-addresses` of a NAT gateway,
  `volume-initialization-rate` of a volume, the egress fields of an EKS cluster,
  the tags of an event source mapping (sent on create only) and what the snapshot,
  S3 and point-in-time creates of RDS do not send.
* `Sticky` are inputs that stay in AWS when they are no longer given, since a nil
  pointer is not sent and nothing else clears them.
* `turned`: an update wrote, failed, and the stack was set back. The runtime
  compares inputs with recorded inputs and sees no change, so what was written
  stays. `torn` is such an update before it is repeated.
* `Hindered` are obstacles no repetition gets past: an object whose create lost its
  answer and whose name is taken; an update the code rejects; a protected object;
  holdings no output knows of (a replica of a secret added by a failed
  update); a brittle delete, of what is already gone, that takes the not-found
  answer for an error (dashboards, IAM policies, load balancer attachments);
  a version nobody recorded, after the answer with the new ETag or revision was
  lost (CloudFront, the Logs resource policy); a rename made or an element added
  by an update that failed, where AWS refuses it a second time; a call that goes one
  way, chosen by what is recorded and not by what there is. Of the last: a Kinesis
  retention recorded as 24 hours and raised to 48 by a call whose answer was lost, with
  a goal of 36 after it, is sent as an increase for good (stream_lifecycle.go:270). The
  warm throughput of a DynamoDB table and of its indexes, and an index that was added
  or dropped, behave alike. Counts of an ElastiCache group do not last as obstacles:
  they are compared with what the plan observed, which the next plan observes again.

## Proofs

The proof modules prove, for all values of the constants, what the runs show on
small instances. The constants' assumptions are named in the modules
(`PollAssumption`, `RetryAssumption`, `TagAssumption`, `LambdaAssumption`,
`FargateAssumption`, `WebACLAssumption`, `SecretAssumption`, `BoundsAssumption`,
`CatalogueAssumption`), and TLC evaluates them in every run.

| Module | Theorems | Argument |
| --- | --- | --- |
| `Poll_proofs` | `TypeCorrect`, `RunsAreCounted`, `DeadlineIsKept`, `PollImplementsAwait` | `RunsCounted` is inductive but for the step that returns. The clock results need `Paced` (each look is an interval after the one before, and the next after the last) and `Looked` (a deadline check follows a look). The refinement: `Probe` is `Observe`, `CheckDeadline` and `Abandon` that return are `GiveUp`, the rest stutters; `RunsCounted` is what makes `runs >= Consecutive` and `EndsReady` the same |
| `Retry_proofs` | `TypeCorrect`, `WindowIsKept`, `RetryImplementsAwait` | `Pending`: while `onError` runs, every answer was a transient error, and what it returned of `fn`'s is the last of them. `Paced` as in `Poll_proofs`. The refinement: `Call` is `Observe` under the renaming of answers, what returns at the deadline or on a cancelled context is `GiveUp` |
| `TagSync_proofs` | `TypeCorrect`, `SyncConverges`, `RemovingFirstFits`, `RightTagsStay` | `AsPlanned`: in an undisturbed run the user tags are those read, less what has been removed, so that at `put` the result is the desired map; its number of tags is within the limit because that of the desired one is |
| `LambdaPermission_proofs` | `TypeCorrect`, `Exclusion`, `NoStatementLost`, `DeletedForGood`, `NoDriftFromLag` | `HoldsLock`: whoever calls holds the lock of its name. `SnapshotFresh`: the policy Lambda read for a call in progress is still the policy. `PolicyRight`: created means in the policy and shown, deleted means not in the policy |
| `FargateProfile_proofs` | `TypeCorrect`, `ClusterExclusion`, `ReturnsAreSettled`, `InUseOnlyAfterFailure` | `HoldsLock`, and `Lives`: for each location and outcome, what the profile's status and the shown one can be. A wait trusts what it sees because the shown status can only be one the profile had since the call |
| `WebACL_proofs` | `TypeCorrect`, `UpdateIsApplied`, `RefreshesOnce`, `DeletedIsGone`, `ShieldIsKept` | The lock token only grows. `TokensOK`: what an operation has presented, and that a second attempt presents the token of the one refresh, so that `plan_again` means a write in between. `InputOK`: an update that owns no rules carries those found with its token, and if the token is still the ACL's, so are the rules. `AppliedOK`: a write that was accepted and that nobody followed is still there. `TagsOK`: the tags are those recorded, or those an update that failed wrote, while the goal that asked for them stands |
| `SecretVersion_proofs` | `TypeCorrect`, `CurrentIsKept`, `PromotionIsSeen`, `DeletedIsDetached` | `OwnOK`: no two resources have a version in common. `OneHolder`: a label is on one version at most. `SeenOK`: `AWSCURRENT` may move between the look for its holder and the promotion, but some version keeps it. A step attaches labels, takes one off that is not `AWSCURRENT`, or touches none |
| `Lifecycle_proofs` | `TypeCorrect`, `WaitsSuffice`, `PlansSeeWhatIsThere`, `DeletionIsComplete`, `SuccessMeansApplied` | From the rules. `Ahead(j)`: no failing guard on what AWS shows can make the code pass over step `j`, which is therefore to come until it is made. `OrderOK`, `GuardOK`: a transition that began in this operation has its wait ahead, before the next call AWS would refuse. `ShowsOK`: what is recorded shows, since the step of `Create` that confirms is still to come or has seen it. `NameOK`: under which name the object is found. `GoingOK`, `LastOK`: as long as there is an object the last step of its deletion is ahead. On top of this invariant stands a second one, `Faithful`, for `SuccessMeansApplied`: see below |

None of the safety invariants is inductive as it stands. `CallsExclude` says
nothing about who holds the lock, `NoLostStatement` nothing about a write under
way, `ReturnsSettled` nothing about a wait that is still to return,
`PlanAgainMeansChanged` nothing about the token a retry presents, `NeverTooEarly` nothing about the waits that are left, and `SettledMeansApplied`
nothing about an operation that runs; the conjuncts above close
these gaps, and each was checked by TLC before it was proved.

Three of the permission theorems assume `OneSpelling`: resources of one
function give the same string. Without it they are false, as the violation run
shows; with it no bound on resources, functions or calls is left.

`Lifecycle_proofs` first reclassifies the steps of the machine (`StepKinds`): a call
that starts a transition, one that is passed, the end of a program, a guard that
skips, a failure, and what the runtime and AWS do. Its lemmas are about these kinds,
one for each conjunct of the invariant. No theorem looks into a catalogue, so a
resource that is added has them as soon as TLC finds that it keeps the rules.

`SuccessMeansApplied` is `SettledMeansApplied` for any number of faults and changes of
the goal. Its invariant `Faithful` holds of every element of every input, in terms
of `Applies`. During an operation, the step that settles the element is either still
to come, with what it needs, or the element is right and no step left can hurt it:
`CreateOK` and `BornOK` say so of a create, `UpdateOK`, `EitherOK` and `KeepOK` of an update,
`MayOK` says that the steps left are those whose guards can hold, and `RejectOK` that
a rejected update does not get past the step that rejects it. When the program has ended this is what
the object holds: `HeldOK` and `AppliedOK` carry it through the time in which
the runtime does nothing, a refresh, and the next plan. `RuntimeOK` and `MadeOK` tie
what the runtime has recorded to what there is. The
lemmas about single steps, `CertainPasses`, `PassesPossible`, `SureHolds`, `Fixing` and
`Harmless`, go from the three-valued reading of a guard in `Rules` to the guard as
`Lifecycle` evaluates it.

What is only model-checked:

* Everything temporal beyond `[]`: `Terminates`, `EventuallySynced`,
  `EveryOperationReturns`, `EventuallySucceeds` and `Converges`. Liveness under
  fairness is out of the prover's reach, as is `ENABLED`.
* That the catalogues keep the rules. It is a question about finitely many values,
  which TLC decides by evaluating the assumptions; of the three `Intertwined`
  resources it decides `Applies` for the views of the run only.

Facts that need induction over data are avoided: no module has a RECURSIVE
operator, and the steps left are a set, of which the least is taken by the
well-foundedness of the naturals.

## Not modelled

* Two resources of one object, beyond Lambda permissions, secret versions and
  Fargate profiles: the EFS lock per file system and zone, which deletes do not
  take; the lock of a log group around metric filters; the notification
  configuration and the policy of a bucket or a queue, which are replaced as a whole
  and of which the code promises nothing to two resources; two listener rules that
  are given the next free priority at once.
* Data sources (reads without state) and actions (a single call: `invoke`,
  `invalidation`, commands to a microVM).
* Conversions, validation and the bodies of requests. An input in a catalogue is
  the input as a whole; that the fields of a nested block reach the right fields of
  the request is left to unit tests.
* What the objects are about: how S3 deletes the objects of a bucket, how RDS
  promotes, the limits on shard counts of Kinesis, whose shard count is taken to be
  given in provisioned mode and in no other. Of the two orders in which
  CloudTrail writes selectors, the one that clears first is taken.
* Of a DynamoDB table: a billing mode that is not given; that an index which is
  created again has its other settings from that call, which the model sends once
  more with the main update.
* Of an ElastiCache replication group: the strategy DELETE of an auth token; cluster
  mode that skips `compatible` or is disabled explicitly (rejections beyond the one
  modelled); which engine versions can turn transit encryption on or deliver slow
  logs (any change to a version given delivers them here); a Multi-AZ that no input
  asks for, which the promotion clears and gives back and which is here left alone.
* Of an EC2 instance: the root block device taken away as a whole; and that the sync
  of the root device's tags and that of the volume tags write the same tags of the
  root volume: here they are separate inputs. A configuration gives one of the two,
  and an update that goes from the root device's tags to volume tags syncs the volume
  tags first and then the root device's tags, to none (instance_rsrc.go:1069), which
  takes the volume tags off the root volume until they are changed again.
* The fallback of partitions that refuse tags on a create: the object is created
  again without them and tagged by a call of its own. A catalogue has the create that
  takes the tags.
* `internal/ptr`, `internal/partition`, `internal/meta`, the registration in
  `config`, `meta` and `service`: nothing that runs over time. Documentation,
  examples and scenarios: no code of the library.

## Plan

Done: the helpers, the modules with a state machine of their own (Lambda
permission, web ACL, secret version, Fargate profile, policy versions), `Lifecycle`
with the catalogues of the other resources, and the proofs above: every invariant
that a passing run checks is a theorem.

What is left, in order of weight:

1. `MountTarget` (EFS: create under a lock held over its wait, delete without) and
   `MetricFilter`, with the lock lemmas of `FargateProfile_proofs` as the pattern.
2. Two catalogues' resources at once, for those that write one AWS object.

One gap is common to what is modelled: a `Create` whose first call was carried
out and reported as failed leaves an object nobody recorded. The models reach
these states; `EventuallySucceeds` and `Converges` name them as exceptions
(`Orphaned`, `Stranded`, `Hindered`).
