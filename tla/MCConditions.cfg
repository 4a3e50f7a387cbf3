\* Three dependent conditions and one outside the set, marked in any order.
SPECIFICATION Spec

CONSTANTS
    c1 = c1
    c2 = c2
    c3 = c3
    ready = ready
    info = info
    Happy = ready
    Dependents = {c1, c2, c3}
    Others = {info}

INVARIANTS
    HappySummarises
