SPECIFICATION Spec
CONSTANTS
    Rows <- MCRows
    Others = {}
    Asked = {Absent, 0, 1, 2, 3}
    Absent = Absent
    DefaultLimit = 1
    MaxLimit = 2
    MaxClock = 2
    NoCursor = NoCursor
PROPERTIES NothingMissed
