SPECIFICATION Spec
CONSTANTS
    MaxVersion = 3
    MaxFaults = 3
    RemoteFile <- Published
    LocalFile <- Overrides
    Remote <- Meant
    Local <- MeantLocally
INVARIANTS
    LocalPrevails
    VersionIsShown
PROPERTIES
    NextVersionHeals
CHECK_DEADLOCK FALSE
