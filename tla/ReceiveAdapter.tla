--------------------------- MODULE ReceiveAdapter ---------------------------
(* The Deployment of the receive adapter that a KinesisSource asks for        *)
(* (resources/receive_adapter.go), and the comparison with which the          *)
(* reconciler decides whether an existing one is up to date                   *)
(* (kinesissource.go).  Of the spec only the fields are kept that take part   *)
(* in a decision; stream name and region go into the environment like the     *)
(* sink does, and image and name never change.                                *)

CONSTANTS
    Empty,   \* the empty string
    Value    \* values of the string fields, the addresses of sinks included

ASSUME ReceiveAdapterAssumption == Empty \notin Value

StringValue == Value \cup {Empty}

(* KinesisSourceSpec: AwsCredsSecret with its two fields, KIAMOptions with    *)
(* AssignedIAMRole and KCLIAMRoleARN, and ServiceAccountName.                 *)
SourceSpec == [secretName     : StringValue,
               secretKey      : StringValue,
               assignedRole   : StringValue,
               kclRole        : StringValue,
               serviceAccount : StringValue]

(* The guard of createReceiveAdapter: nothing at all is configured.           *)
ConfigurationError(spec) ==
    /\ spec.secretName = Empty
    /\ spec.secretKey = Empty
    /\ spec.assignedRole = Empty
    /\ spec.kclRole = Empty

(* makeDeploymentSpec takes the credentials from the secret if both of its    *)
(* fields are set, and from KIAM otherwise.                                   *)
UsesSecret(spec) == spec.secretName # Empty /\ spec.secretKey # Empty

(* The environment of the container: AWS_APPLICATION_CREDENTIALS or           *)
(* KCL_IAM_ROLE_ARN, and SINK_URI.                                            *)
Environment(spec, uri) ==
    [credsFile |-> IF UsesSecret(spec) THEN spec.secretKey ELSE Empty,
     kclRole   |-> IF UsesSecret(spec) THEN Empty ELSE spec.kclRole,
     sink      |-> uri]

PodSpec(spec, uri) ==
    [serviceAccount |-> spec.serviceAccount,
     volume         |-> IF UsesSecret(spec) THEN spec.secretName ELSE Empty,
     env            |-> Environment(spec, uri)]

(* MakeReceiveAdapter: the pod template, whose annotation gives the pod its   *)
(* role (iam.amazonaws.com/role).                                             *)
Template(spec, uri) ==
    [role |-> IF UsesSecret(spec) THEN Empty ELSE spec.assignedRole,
     pod  |-> PodSpec(spec, uri)]

EnvironmentType == [credsFile : StringValue, kclRole : StringValue, sink : StringValue]
PodSpecType == [serviceAccount : StringValue, volume : StringValue, env : EnvironmentType]
TemplateType == [role : StringValue, pod : PodSpecType]

(* What is empty in the new pod spec is no difference to DeepDerivative.      *)
Differs(new, old) == new # Empty /\ new # old

(* Bug variant: the environment is not compared.                              *)
PodSpecDerivative(old, new) ==
    \/ Differs(new.serviceAccount, old.serviceAccount)
    \/ Differs(new.volume, old.volume)

(* podSpecChanged: DeepDerivative passes over what is empty in the new pod    *)
(* spec; only the environment is compared for equality.                       *)
PodSpecChanged(old, new) ==
    \/ Differs(new.serviceAccount, old.serviceAccount)
    \/ Differs(new.volume, old.volume)
    \/ new.env # old.env

(* Adapter.Start returns an error at once unless its environment names a      *)
(* credentials file or a role to assume.                                      *)
CanStart(env) == env.credsFile # Empty \/ env.kclRole # Empty

=============================================================================
