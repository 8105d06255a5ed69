SPECIFICATION Spec
CONSTANT Scans <- MCScans
INVARIANTS
    CalendarRight
    AgeWithinHour
    ChangeNoticed
    FixTimeRight
