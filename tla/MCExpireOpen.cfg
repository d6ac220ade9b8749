CONSTANTS
    k1 = k1  k2 = k2  t1 = t1  t2 = t2
    Keys <- TwoKeys
    Vals <- TwoVals
    Inputs <- TwoInputs
    Threads = {t1}
    Setters = {t1}
    Others = {t1}
    Durations = {1}
    Opens = {"unset"}
    MaxTime = 1
    TimeWrap = 2
    None = None
    Lost = Lost

SPECIFICATION Spec
INVARIANT ValuesCarryDueDates
