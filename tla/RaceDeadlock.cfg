SPECIFICATION Spec
CONSTANTS
    Ids = {"s1", "s2", "s3"}
    EventOf <- MCEventOf
    Speakers <- MCSpeakers
    Events = {"conf", "other"}
    RoomRefs <- MCRoomRefs
    SpeakerRefs <- MCSpeakerRefs
    SeriesIds = {1, 2, 4}
    Requests = {1, 2}
    Droppable = {}
    Inputs <- SameSlot
    Booked <- EmptyTable
    NoSeries = NoSeries
    NoRow = NoRow
    NoOne = NoOne
    NoWrite = NoWrite
INVARIANTS OneCreatedOneConflict
