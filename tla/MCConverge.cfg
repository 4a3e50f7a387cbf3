\* What the controller owes one source that is edited or deleted, with a sink that
\* moves unwatched and requests that fail.
SPECIFICATION FairSpec

CONSTANTS
    v1 = v1
    v2 = v2
    empty = empty
    ours = ours
    foreign = foreign
    Empty = empty
    Value = {v1, v2}
    Specs <- SecretRoleOrNothing
    Addresses = {v1, v2}
    Ours = ours
    Foreign = foreign
    Faults = {"create", "update"}
    MaxUID = 1
    MaxDeployments = 1
    MaxChanges = 2

CHECK_DEADLOCK FALSE

INVARIANTS
    TypeOK
    DeployedMeansCreated
PROPERTIES
    UserSpecKept
    DeletionCompletes
    Converges
