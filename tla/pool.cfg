SPECIFICATION FairSpec
CONSTANTS
    Threads = {t1, t2, t3}
    Handles = {h1, h2, h3, h4}
    Size = 2
    Flags = {timeout, no_block}
    Copied = {timeout, no_block}
    Unset = unset
    Failures = TRUE
    MaxChanges = 2
INVARIANTS
    TypeOK
    OneOwner
    NoneLost
    NoLostWakeup
    VersionMeansSettings
PROPERTIES
    HeldUntouched
    WaitsEndUnlessOvertaken
