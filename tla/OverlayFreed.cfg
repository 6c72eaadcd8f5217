CONSTANTS
    Osds = {1}
    Decoders = {2}
    NumSlots = 2
    NumObjects = 2
    MaxVpts = 1
SPECIFICATION Spec
INVARIANT FreedIsGone
