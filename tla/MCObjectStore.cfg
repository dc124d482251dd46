CONSTANTS
    Procs = {p1, p2}
    Contents = {c1, c2}
    Sources = {s1}
    Dests = {d1}
    None = None
    MaxFaults = 2
SPECIFICATION Spec
INVARIANT ObjectsAreIntact
PROPERTY AskedIsGiven
SYMMETRY Symmetry
