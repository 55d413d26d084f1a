SPECIFICATION SettingsSpec
CONSTANTS
    Keys = {k1, k2}
    Readers = {r1}
    Default = default
    MaxReplaces = 2
    MaxOpened = 2
CHECK_DEADLOCK FALSE
INVARIANTS SettingsTypeOK AnswersInForce
PROPERTY TrueStays
