--------------------------------- MODULE S3 ---------------------------------
(* internal/service/s3: buckets and what is configured in them, objects.    *)
EXTENDS Steps

---------------------------------------------------------------------------
(* bucket_rsrc.go.  Each configuration of a bucket is put when it changed,  *)
(* and retried while another operation on the bucket is in progress.        *)

BucketReplaceFields == {"bucket", "object-lock-enabled"}

BucketWaitExists == Await
BucketRead       == Look

BucketConfigPut(call, f) == When(ChangedTo({f}), Retried(Send(call, {f})))
BucketConfigDelete(call, f) == When(Removed({f}), Retried(Clear(call, {f})))

(* Versioning and acceleration cannot be taken away: they are suspended.    *)
ReconcileVersioning ==
  BucketConfigPut("PutBucketVersioning", "versioning")
  \o BucketConfigDelete("PutBucketVersioning", "versioning")

ReconcilePublicAccessBlock ==
  BucketConfigPut("PutPublicAccessBlock", "public-access-block")
  \o BucketConfigDelete("DeletePublicAccessBlock", "public-access-block")

ReconcileOwnershipControls ==
  BucketConfigPut("PutBucketOwnershipControls", "ownership-controls")
  \o BucketConfigDelete("DeleteBucketOwnershipControls", "ownership-controls")

ReconcileAcl == BucketConfigPut("PutBucketAcl", "acl")

ReconcileAccelerate ==
  BucketConfigPut("PutBucketAccelerateConfiguration", "accelerate")
  \o BucketConfigDelete("PutBucketAccelerateConfiguration", "accelerate")

ReconcileEncryption ==
  BucketConfigPut("PutBucketEncryption", "encryption")
  \o BucketConfigDelete("DeleteBucketEncryption", "encryption")

ReconcileCors ==
  BucketConfigPut("PutBucketCors", "cors") \o BucketConfigDelete("DeleteBucketCors", "cors")

ReconcileWebsite ==
  BucketConfigPut("PutBucketWebsite", "website")
  \o BucketConfigDelete("DeleteBucketWebsite", "website")

ReconcileLogging ==
  BucketConfigPut("PutBucketLogging", "logging")
  \o BucketConfigDelete("PutBucketLogging", "logging")

ReconcileLifecycle ==
  BucketConfigPut("PutBucketLifecycleConfiguration", "lifecycle")
  \o BucketConfigDelete("DeleteBucketLifecycle", "lifecycle")

ReconcileObjectLock == BucketConfigPut("PutObjectLockConfiguration", "object-lock")

BucketReconcile ==
  ReconcileVersioning \o ReconcilePublicAccessBlock \o ReconcileOwnershipControls \o ReconcileAcl
  \o ReconcileAccelerate \o ReconcileEncryption \o ReconcileCors \o ReconcileWebsite
  \o ReconcileLogging \o ReconcileLifecycle \o ReconcileObjectLock

(* Tags go with the first call, or where it does not take them with one of  *)
(* their own.                                                               *)
BucketCreateCall == Create("CreateBucket", BucketReplaceFields \cup Tags)

BucketCreate == BucketCreateCall \o BucketWaitExists \o BucketReconcile \o BucketRead

BucketSyncTags == When(Changed(Tags), Put("PutBucketTagging", Tags))

BucketUpdate == BucketSyncTags \o BucketReconcile \o BucketRead

BucketEmptyAll == AbsentOk(Anytime(Poke("DeleteObjects")))

BucketDelete ==
  When(Given({"empty-on-destroy"}), BucketEmptyAll)
  \o GoingOk(Retried(AbsentEnds(Delete("DeleteBucket")))) \o Gone

Bucket ==
  [Resource({"bucket", "object-lock-enabled", "tags", "versioning", "public-access-block",
             "ownership-controls", "acl", "accelerate", "encryption", "cors", "website",
             "logging", "lifecycle", "object-lock", "empty-on-destroy"},
            BucketReplaceFields, BucketCreate, BucketUpdate, BucketDelete)
   EXCEPT !.required = {"bucket"}, !.gaps = {"empty-on-destroy"}, !.slow = {"DeleteBucket"},
          !.lags = TRUE]

---------------------------------------------------------------------------
(* bucket_policy_rsrc.go: the policy is put over what is there.             *)

BucketPolicyPut == Retried(Put("PutBucketPolicy", {"policy"}))

BucketPolicyCreate ==
  Create("PutBucketPolicy", {"bucket", "policy"}) \o Await

BucketPolicyUpdate == BucketPolicyPut

BucketPolicyDelete == GoingOk(Retried(AbsentOk(Delete("DeleteBucketPolicy")))) \o Gone

BucketPolicy ==
  [Resource({"bucket", "policy"}, {"bucket"}, BucketPolicyCreate, BucketPolicyUpdate,
            BucketPolicyDelete)
   EXCEPT !.required = {"bucket", "policy"}, !.slow = {"DeleteBucketPolicy"},
          !.named = FALSE, !.lags = TRUE]

---------------------------------------------------------------------------
(* bucket_notification_rsrc.go.  The configuration is put as a whole.  One  *)
(* that names no destination reads as none, and the wait for it runs out;   *)
(* that there is a destination is assumed here.                             *)

BucketNotificationDestinations == {"eventbridge", "lambda-function", "queue", "topic"}

BucketNotificationPut ==
  Retried(Put("PutBucketNotificationConfiguration", BucketNotificationDestinations))

WaitForObservedNotification == Await

BucketNotificationCreate ==
  Create("PutBucketNotificationConfiguration", BucketNotificationDestinations \cup {"bucket"})
  \o WaitForObservedNotification

BucketNotificationNeedsPut == Astray(BucketNotificationDestinations)

BucketNotificationUpdate ==
  When(BucketNotificationNeedsPut, BucketNotificationPut \o WaitForObservedNotification)
  \o Look

BucketNotificationDelete == Retried(AbsentOk(Delete("PutBucketNotificationConfiguration")))

BucketNotification ==
  [Resource(BucketNotificationDestinations \cup {"bucket"}, {"bucket"}, BucketNotificationCreate,
            BucketNotificationUpdate, BucketNotificationDelete)
   EXCEPT !.required = {"bucket"}, !.named = FALSE, !.lags = TRUE,
          !.together = {{"lambda-function", "queue"}}]

---------------------------------------------------------------------------
(* object_rsrc.go: any change puts the whole object again.                  *)

ObjectContent ==
  {"body-content", "body-path", "body-base64"} \cup
  {"acl", "bucket-key-enabled", "cache-control", "checksum-algorithm", "content-disposition",
   "content-encoding", "content-language", "content-type", "kms-key-id", "metadata",
   "server-side-encryption", "storage-class", "website-redirect", "object-lock-mode",
   "object-lock-retain-until-date", "object-lock-legal-hold-status", "tags"}

ObjectPut  == Put("PutObject", ObjectContent)
ObjectRead == Look

ObjectCreate == Create("PutObject", ObjectContent \cup {"bucket", "key"}) \o ObjectRead

ObjectUpdate == When(Changed(ObjectContent), ObjectPut) \o ObjectRead

(* Held versions are released and deleted one by one.                       *)
ObjectRetryDenied    == AbsentOk(Poke("PutObjectLegalHold"))
ObjectPurgeVersions  == ObjectRetryDenied \o AbsentOk(Delete("DeleteObjects"))

ObjectDelete ==
  When(Given({"purge-on-destroy"}), ObjectPurgeVersions)
  \o When(Absent({"purge-on-destroy"}), AbsentOk(Delete("DeleteObject")))

Object ==
  [Resource(ObjectContent \cup {"bucket", "key", "purge-on-destroy"}, {"bucket", "key"},
            ObjectCreate, ObjectUpdate, ObjectDelete)
   EXCEPT !.required = {"bucket", "key"}, !.gaps = {"purge-on-destroy"}, !.named = FALSE]

---------------------------------------------------------------------------
Resources ==
  [s3_bucket |-> Bucket, s3_bucket_policy |-> BucketPolicy,
   s3_bucket_notification |-> BucketNotification, s3_object |-> Object]
=============================================================================
