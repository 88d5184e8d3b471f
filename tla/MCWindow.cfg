\* What the window draws is what the session filed, whoever runs when.
SPECIFICATION WindowSpec
CONSTANTS
    Volts = volts
    Mode = mode
    Params = {volts, mode}
    Numeric = {volts}
    Containers <- MCContainers
    InitialPlots <- MCPlots
    Depths = {1, 2}
    Texts <- MCTexts
    Windows <- MCWindows
    Lines = {l1, l2}
    LogCapacity = 1
    MaxPlots = 2
    StartDepth = 2
    Budgets <- MCBudgets
INVARIANTS
    DrawnIsCurrent
    WindowIsCovered
    PanelIsTheLog
PROPERTIES
    RowsAct
    TimerCatchesUp
