\* All nine types, every text of up to five segments over seven words, integers
\* of three bits over doubles of two, both roles, a clock that moves once.
CONSTANTS
    Version = "spBv1.0"
    Words = {"spBv1.0", "STATE", "NBIRTH", "DDATA", "g", "", "+"}
    Wild = {"+"}
    MaxParts = 5
    LongBits = 3
    MantissaBits = 2
    Strings = {"5", "TRUE"}
    Owners = {"g"}
    MaxClock = 1
SPECIFICATION Spec
INVARIANTS TypeOK RoundTripUnlessState ParseReadsWhatItRenders KeyNamesOneEdgeNode
    ReaderFindsTheMetrics BirthIsOneInstant PlotsTheNearestDouble PlottedAsPrinted
    NothingWithASeqIsRetained
\* A message that was refused or not understood gets no answer.
CHECK_DEADLOCK FALSE
