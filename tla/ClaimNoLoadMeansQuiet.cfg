SPECIFICATION Spec
CONSTANTS
    Wrap = 8
    Probe = 3
    Period = 1
INVARIANT NoLoadMeansQuiet
