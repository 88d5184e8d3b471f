CONSTANTS
    None = None
    MantissaBits = 7
    Series <- OneSpike
    Budgets = {9, 13}
    Ratios = {4}
    Tolerances = {1}
SPECIFICATION DecimationSpec
INVARIANT SpikeSurvives
CHECK_DEADLOCK FALSE
