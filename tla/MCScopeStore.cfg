SPECIFICATION Spec
CONSTANTS
    s1 = s1
    s2 = s2
    k1 = k1
    Addresses <- MCAddresses
    Moves <- MCMoves
    Allocate <- MCAllocate
    Slots <- MCSlots
    Keys <- MCKeys
    Names <- MCNames
    BuiltinType = "int"
    NoSlot = NoSlot
    MaxElements <- MCMaxElements
    MaxLayers <- MCMaxLayers
    MaxContexts = 2
INVARIANTS TypeOK NoDangling OnlyStaleContexts
PROPERTIES KeepsSnapshots
CHECK_DEADLOCK FALSE
