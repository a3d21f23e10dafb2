SPECIFICATION MCSpec
CONSTANTS
    Ids = {"s1", "s2", "s3", "s4", "s5"}
    EventOf <- MCEventOf
    Speakers <- MCSpeakers
    Events = {"conf", "other"}
    RoomRefs <- MCRoomRefs
    SpeakerRefs <- MCSpeakerRefs
    SeriesIds = {1, 2, 3, 4}
    Requests = {1, 2, 3}
    Droppable = {3}
    Inputs <- AllInputs
    Booked <- TwoBooked
    NoSeries = NoSeries
    NoRow = NoRow
    NoOne = NoOne
    NoWrite = NoWrite
INVARIANTS NoDoubleBooking AuditTrail AnswersTellTruth ExceptionsMatchAudit SeriesAsAnswered
PROPERTIES ImplementsCalendar EveryRequestAnswered
