SPECIFICATION Spec
CONSTANTS
    l1 = l1
    l2 = l2
    Nothing = Nothing
    Lookups = {l1, l2}
    MaxRules = 2
    MaxGeo = 2
INVARIANT AnswersFresh
