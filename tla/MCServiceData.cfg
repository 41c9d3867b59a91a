SPECIFICATION Spec
CONSTANTS
    Values = {v1, v2}
    MaxSnaps = 1
SYMMETRY Symmetry
PROPERTIES
    PasswordKept
    SnapshotsTrue
    RemovalComplete
