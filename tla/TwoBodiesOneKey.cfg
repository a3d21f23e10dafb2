SPECIFICATION Spec
CONSTANTS
    Events = {"conf"}
    Actors = {"ann", "bob"}
    Emails = {"x", "y"}
    Keys = {"k"}
    Requests = {1, 2}
    Droppable = {}
    Inputs <- TwoBodies
    Standing <- MCStanding
    NotStored = NotStored
INVARIANTS RejectedOutright
