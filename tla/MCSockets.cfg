SPECIFICATION Spec
CONSTANTS
    Pipe = {p1, p2}
    Late = {p3}
    NoPipe = NoPipe
    Child = {o1, o2}
    Dish = {d1}
    Group = {g1, g2}
    NoGroup = NoGroup
SYMMETRY Interchangeable
INVARIANTS
    PeersConsistent
    MessagesWhole
    RepliesToAskers
    SubscribersAgree
    SubscriptionsTold
    CallsReturn
CHECK_DEADLOCK FALSE
