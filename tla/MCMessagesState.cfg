\* A group named STATE.
CONSTANTS
    Version = "spBv1.0"
    Words = {"spBv1.0", "STATE", "DDATA", "g", ""}
    Wild = {""}
    MaxParts = 3
    LongBits = 2
    MantissaBits = 2
    Strings = {"5"}
    Owners = {"g"}
    MaxClock = 1
SPECIFICATION Spec
INVARIANT EveryTopicParses
\* A message that was refused or not understood gets no answer.
CHECK_DEADLOCK FALSE
