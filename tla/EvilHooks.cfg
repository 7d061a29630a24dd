SPECIFICATION Spec
CONSTANTS
    Mods <- MCMods
    Conspiracies <- MCConspiracies
    Kinds <- MCKinds
    Transmuter = "transmute"
    Offers <- MCOffers
    Registers <- MCRegisters
    Quick <- MCQuick
    Builtin = {"pipe", "kotlin"}
    FirstDefaults <- MCFirstDefaults
    Headers <- MCHeaders
    Arguments <- MCArguments
    MaxRequests = 2
    MaxFiles = 3
INVARIANTS
    AskedModsFirst
    CompleteSetsAreCleared
CHECK_DEADLOCK FALSE
