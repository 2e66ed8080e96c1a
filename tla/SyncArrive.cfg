SPECIFICATION RunSpec
INVARIANT
    MissingRowsArrive
CONSTANTS
    a = a
    b = b
    p1 = p1
    p2 = p2
    e1 = e1
    e2 = e2
    e3 = e3
    e4 = e4
    N1 = N1
    N2 = N2
    L1 = L1
    o1 = o1
    o2 = o2
    o3 = o3
    s1 = s1
    r1 = r1
    r2 = r2
    f1 = f1
    x1 = x1
    Node = {a, b}
    Project = {p1, p2}
    Entity = {e1, e2, e3, e4}
    Name = {N1, N2}
    Link = {L1}
    HomeOf <- OneHome
    LinkOf <- OneLink
    NameOf <- Names
    Observation = {o1, o2, o3}
    Episode = {s1}
    Relation = {r1, r2}
    Fact = {f1}
    Error = {x1}
    Procedure = {}
    MaxExports <- FourEach
    Sources <- Everyone
    AlarmFloor = 2
    AlarmInverse = 2
    Reinforced = TRUE
CHECK_DEADLOCK FALSE
