SPECIFICATION Spec
CONSTANTS
    big = big
    small = small
    k = k
    l = l
    mail = mail
    Releases = {one, two}
    Builds = {big, small}
    Caps = {mail}
    CodeOf <- MCCodeOf
    CapsOf <- MCCapsOf
    PartsOf <- MCPartsOf
    MaxParts = 2
    Requests = {r1, r2, r3}
    None = None
SYMMETRY Symmetry
INVARIANTS SettledIsTrue GrantsArePruned
PROPERTIES VersionsAreImmutable ImplementsPromise
CHECK_DEADLOCK FALSE
