SPECIFICATION FairSpec
CONSTANTS
    Words <- MCWords
    CommandLines <- MCLines
    Addresses <- MCAddresses
    Leftovers = {0, 27, 70000}
    Memories <- MCMemories
INVARIANTS
    PortIsNumber
CHECK_DEADLOCK FALSE
