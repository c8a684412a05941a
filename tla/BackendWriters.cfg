CONSTANTS
    None = None
    Threads = {a, b, c}
SPECIFICATION FairSpec
INVARIANTS
    NoCircularWait
PROPERTIES
    HeldWritersAreGivenBack
