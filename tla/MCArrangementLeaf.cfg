\* A parameter a hand-written layout plots by its leaf name is unwatched.
SPECIFICATION ArrangementSpec
CONSTANTS
    Volts = volts
    Mode = mode
    Params = {volts, mode}
    Definitions <- MCDefinitions
    Sheets <- MCLeafSheets
    Depths = {2}
    MaxPlots = 1
INVARIANT PlottedIsWatched
