SPECIFICATION Spec
CONSTANTS
    Threads = {t1, t2}
    Handles = {h1, h2, h3}
    Size = 2
    Flags = {timeout, number_of_n}
    Copied = {timeout}
    Unset = unset
    Failures = FALSE
    MaxChanges = 1
INVARIANT
    AllConnectionsSet
