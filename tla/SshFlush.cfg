\* A tick of the sender while the shell writes.
SPECIFICATION Spec
CONSTANTS
    Keys = {a}
    a = a
    Cap = 1
    MaxKeys = 1
    MaxOutput = 3
INVARIANT OutputWhole
