\* Two handles and two sizes tell replacement, resize and no change apart.
SPECIFICATION ReplaySpec
CONSTANTS
    Windows = {w1, w2}
    NoWindow = NoWindow
    Sizes = {z1, z2}
    NoSize = NoSize
    TooSmall = TooSmall
    BadDpi = BadDpi
    GenerationLimit = 3
INVARIANTS TypeOK ReplayReachesCurrent StreamOrder
PROPERTIES GenerationsGrow
