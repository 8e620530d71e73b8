CONSTANTS
    p = p
    q = q
    f = f
    e = e
    v = v
    g = g
    h = h
    t = t
    Ours = {p, q, f, h, e}
    Theirs = {v, g, t}
    KindOf <- MCKind
    NoMessage = NoMessage
    MaxActs = 3
    MaxFaults = 1
SPECIFICATION LivelySpec
INVARIANT MediaInv
INVARIANT ReferencesResolve
INVARIANT CanBeResent
PROPERTY ShownIsWiped
CHECK_DEADLOCK FALSE
