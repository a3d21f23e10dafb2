SPECIFICATION Spec
CONSTANTS
    Day = 48
    Half = 24000
    Zones <- MCZones
    Requests <- MCRequests
    Inputs <- MCInputs
    MaxOccurrences = 2
    MaxZoneChanges = 1
    NoZone = NoZone
    NoRow = NoRow
    NoView = NoView
INVARIANTS RejectedIffUnreal ReadBack OnTheirDays
