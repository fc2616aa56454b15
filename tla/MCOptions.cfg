CONSTANTS
    HaveUsb = TRUE
    HaveV4l2 = TRUE
    Themes <- MCThemes
    SdkVersions <- MCSdkVersions
SPECIFICATION OptionsSpec
INVARIANTS
    ServerGetsOptions
    ServerUnderstands
    EveryStreamHasASink
    InputModesUsable
CHECK_DEADLOCK FALSE
