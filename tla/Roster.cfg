SPECIFICATION MCSpec
CONSTANTS
    MemberIds = {"m1", "m2", n1, n2}
    Events = {"conf", "expo"}
    Users = {"ann", "bob", "cy"}
    Live = {"conf"}
    Seated <- TwoAdmins
    SignedIn = {"ann", "bob"}
    Requests = {1, 2, 3}
    n1 = n1
    n2 = n2
    Droppable = {2}
    Inputs <- AllInputs
    NoMember = NoMember
    NoWrite = NoWrite
INVARIANTS AtLeastOneAdmin AuditTrail AnswersTellTruth
PROPERTIES LastAdminAnswerTrue FrozenWhileLocked ImplementsMembership EveryRequestAnswered
