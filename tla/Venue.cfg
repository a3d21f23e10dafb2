SPECIFICATION FairSpec
CONSTANTS
    Events = {"conf", "other"}
    RoomIds = {"hall", "lab", "annex", "nowhere", r1, r2, r3}
    Names = {"big", "small"}
    Keep = Keep
    Requests = {r1, r2, r3}
    r1 = r1
    r2 = r2
    r3 = r3
    Droppable = {r1}
    Inputs <- MCInputs
    Furnished <- MCFurnished
    InUse <- MCInUse
    NoRoom = NoRoom
    NoOne = NoOne
INVARIANTS ReferencesHold AuditTrail AnswersTellTruth
PROPERTIES ImplementsFloorPlan EveryRequestAnswered
