SPECIFICATION LiveSpec
CONSTANTS
    None = None
    d1 = d1 d2 = d2 d3 = d3 s1 = s1 s2 = s2 c1 = c1 c2 = c2
    Digests = {d1, d2, d3}
    Secrets = {s1, s2}
    Curves = {c1, c2}
    MadeWith <- MadeWithSecret
    CurveOf <- OnCurve
    RingSize = 2
    Calls = {"activate", "deactivate", "secret", "curves", "ring"}
    Prompts = {TRUE, FALSE}
    MaxCalls = 5
CHECK_DEADLOCK FALSE
INVARIANTS BrowsesIffEnabled PairingKept
PROPERTIES NoReplay Reactivated
