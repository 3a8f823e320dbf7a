\* Whether a runtime that has stopped can still fail.
SPECIFICATION Spec
CONSTANT Requirements = {8, 9}
PROPERTY StoppedCannotFail
