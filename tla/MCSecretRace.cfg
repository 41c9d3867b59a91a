SPECIFICATION Spec
CONSTANTS
    Calls = {"server", "up", "add"}
    Procs = {"server", "up", "add"}
    Home <- RaceHome
    Leftovers <- RaceLeftovers
    MaxCrashes = 0
    Keys = {"db"}
    Wishes <- RaceWishes
PROPERTIES
    SecretsKept
