SPECIFICATION Spec
CONSTANTS
    Tracks = 3
    WordLength = 3
    ExtraLetters = 1
    Families <- SetminusFamilies
INVARIANT
    SetminusMeans
