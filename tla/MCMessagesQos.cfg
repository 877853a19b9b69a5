\* An edge-node client that publishes the death certificate of some edge node.
CONSTANTS
    Version = "spBv1.0"
    Words = {"spBv1.0", "STATE", "DDATA", "g", ""}
    Wild = {""}
    MaxParts = 3
    LongBits = 2
    MantissaBits = 2
    Strings = {"5"}
    Owners = {"g"}
    MaxClock = 1
SPECIFICATION Spec
INVARIANT EdgeNodeTracksNothing
\* A message that was refused or not understood gets no answer.
CHECK_DEADLOCK FALSE
