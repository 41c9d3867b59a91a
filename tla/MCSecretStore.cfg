SPECIFICATION Spec
CONSTANTS
    Calls = {"add", "up", "cli"}
    Procs = {"server", "command"}
    Home <- MCHome
    Leftovers <- MCLeftovers
    MaxCrashes = 1
    Keys = {"db", "cache"}
    Wishes <- MCWishes
PROPERTIES
    UpdatesSerial
    EveryCallSettles
