CONSTANTS
    HaveUsb = TRUE
    HaveV4l2 = TRUE
    Themes <- MCStartup
    SdkVersions <- MCSdkVersions
SPECIFICATION OptionsSpec
INVARIANT StartupMessagesHandled
CHECK_DEADLOCK FALSE
