SPECIFICATION MCSpec
CONSTANTS
    Requests = {1, 2, 3}
    Conns = {c1, c2}
    c1 = c1
    c2 = c2
    Subjects = {"ada", "bob", "cy", "dee"}
    Emails = {"a", "b", "n"}
    Roles = {"admin", "attendee"}
    Tables <- MCTables
    Inputs <- MCInputs
    Registered <- MCRegistered
    Members <- MCMembers
    Droppable = {1}
    MaxChanges = 1
    None = None
INVARIANTS NextRequestDenied GracefulExit
PROPERTIES IdentitySetOnce ServedUnlessStarved
CHECK_DEADLOCK FALSE
