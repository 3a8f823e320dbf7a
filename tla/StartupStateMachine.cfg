\* A windowed runtime that waits for input and not for audio.
SPECIFICATION Spec
CONSTANT Requirements = {8, 9}
INVARIANTS TypeOK CoreInOrder ReadyWhenComplete
PROPERTY NoRevival
