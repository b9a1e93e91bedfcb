SPECIFICATION Spec
CONSTANTS
    s = s
    d = d
    e = e
    n1 = n1
    n2 = n2
    None = None
    Conns = {c1, c2}
    Ids <- MCIds
    Namespaces = {n1}
    Keys <- MCKeys
    Objs <- MCObjs
    IdOf <- MCIdOf
    KeyNs <- MCKeyNs
    RegNs <- MCRegNs
    Statics <- MCStatics
    Dynamic = TRUE
    Policy = "sticky"
    DirectRouting = FALSE
SYMMETRY ConnSymmetry
INVARIANTS
    LoadBounded
    StaticLoadExact
PROPERTIES
    FreshNeverPruned
    LeaseRefinement
CHECK_DEADLOCK TRUE
