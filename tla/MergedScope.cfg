SPECIFICATION WorkSpec
PROPERTY
    MergesKeepScope
CONSTANTS
    a1 = a1
    k1 = k1
    d1 = d1
    d2 = d2
    h1 = h1
    h2 = h2
    None = None
    Account = {a1}
    Code = {k1}
    Device = {d1, d2}
    Handler = {h1, h2}
    MaxOffers = 2
    MaxFailures = 1
    MaxActive = 2
    Resends = TRUE
    ann = ann
    bob = bob
    eve = eve
    cursor = cursor
    here = here
    there = there
    chat = chat
    p = p
    q = q
    m1 = m1
    m2 = m2
    Caller = {ann, bob, eve}
    LabelOf <- OneLabel
    MachineOf <- EveApart
    ChatOf <- BobChats
    Declares = {ann, eve}
    Here = here
    NoChat = NoChat
    Title = {p, q}
    Memory = {m1, m2}
    Carried = {m1}
    Filled = {m1}
    NameOf <- NamesDiffer
    MaxProjects = 2
    MaxSessions = 2
CHECK_DEADLOCK FALSE
