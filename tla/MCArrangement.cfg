\* What a restart brings back is what was saved.
SPECIFICATION ArrangementSpec
CONSTANTS
    Volts = volts
    Mode = mode
    Params = {volts, mode}
    Definitions <- MCDefinitions
    Sheets <- MCSheets
    Depths = {0, 2}
    MaxPlots = 2
INVARIANTS
    PlottedIsWatched
    RestartRestores
PROPERTIES
    OrphansAreKept
    ReportIsHonest
