SPECIFICATION Spec
CONSTANTS
    Day = 48
    Half = 24000
    Zones <- MCZones
    Requests <- MCRequests
    Inputs <- MCInputs
    MaxOccurrences = 3
    MaxZoneChanges = 0
    NoZone = NoZone
    NoRow = NoRow
    NoView = NoView
INVARIANTS EarlierOfTwo
