CONSTANT Key = {k1, k2}
SPECIFICATION Spec
SYMMETRY Keys
INVARIANTS TypeOK Coherent KeptBansHeld GoneStaysGone
PROPERTY KeepsPromises
