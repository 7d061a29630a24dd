\* Properties the documentation states and the code does not keep; one at a time.
SPECIFICATION Spec
CONSTANTS
    Mods <- MCMods
    Conspiracies <- MCConspiracies
    Kinds <- MCKinds
    Transmuter = "transmute"
    Offers <- MCOffers
    Registers <- MCRegisters
    Quick <- MCQuick
    Builtin = {"pipe", "kotlin"}
    FirstDefaults <- MCFirstDefaults
    Headers <- MCHeaders
    Arguments <- MCArguments
    MaxRequests = 2
    MaxFiles = 3
INVARIANT OnlyEvilFilesUseMods
\* INVARIANT QuickHooksAreGlobal
\* INVARIANT FirstTokenTransmuted
CHECK_DEADLOCK FALSE
