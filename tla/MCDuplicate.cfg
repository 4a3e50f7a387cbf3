\* A Deployment created while the cache does not show the first one yet.
SPECIFICATION Spec

CONSTANTS
    v1 = v1
    v2 = v2
    empty = empty
    ours = ours
    foreign = foreign
    Empty = empty
    Value = {v1, v2}
    Specs <- OneRole
    Addresses = {v1}
    Ours = ours
    Foreign = foreign
    Faults = {}
    MaxUID = 1
    MaxDeployments = 2
    MaxChanges = 0

CHECK_DEADLOCK FALSE

INVARIANT
    OneAdapter
