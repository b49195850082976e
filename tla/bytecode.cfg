\* Words of 16 bits in three groups, as 32 bits are five.
SPECIFICATION Spec
CONSTANTS
    Scripts <- MCScripts
    Names <- MCNames
    Builtin <- MCBuiltin
    AtomOps <- MCAtomOps
    Slots = 5
    Width = 16
    Groups = 3
    Limits <- MCLimits
    Memory = {4, 7, 99}
    Plenty = 99
    MaxLoaded = 2
    MaxLost = 1
INVARIANTS
    LoadedIsSource
    BufferReads
    AtomsBalanced
