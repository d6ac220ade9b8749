CONSTANTS
    k1 = k1  k2 = k2  t1 = t1  t2 = t2
    Keys <- TwoKeys
    Vals <- TwoVals
    Inputs <- TwoInputs
    Threads = {t1, t2}
    Setters = {t1}
    Others = {t2}
    Durations = {1}
    Opens = {"unset", "on", "off"}
    MaxTime = 1
    TimeWrap = 2
    None = None
    Lost = Lost

SPECIFICATION Spec
INVARIANTS TypeOK LoadedKnowsFlag
PROPERTIES ImplementsTimedMap
