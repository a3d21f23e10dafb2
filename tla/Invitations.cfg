SPECIFICATION MCSpec
CONSTANTS
    Events = {"conf", "expo"}
    Actors = {"ann", "bob"}
    Emails = {"x", "y"}
    Keys = {"k"}
    Requests = {1, 2, 3}
    Droppable = {3}
    Inputs <- AllInputs
    Standing <- MCStanding
    NotStored = NotStored
INVARIANTS InvitedOnce StableResults ItemsTrue NoEscalation SingleAnswersTrue
PROPERTIES EveryRequestAnswered
