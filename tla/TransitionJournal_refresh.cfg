CONSTANTS
    h1 = h1
    h2 = h2
    k1 = k1
    k2 = k2
    m1 = m1
    m2 = m2
    r1 = r1
    r2 = r2
    Handles = {h1, h2}
    Routes = {r1, r2}
    Keys = {k1, k2}
    Metas = {m1, m2}
    NoHandle = NoHandle
    NoRoute = NoRoute
    NoKey = NoKey
    NoMeta = NoMeta
    NoCap = NoCap
    NoFile = NoFile
    NoJournal = NoJournal
    NoRequest = NoRequest
    MaxCommits = 3
    MaxCrashes = 1
    MaxLosses = 1
SPECIFICATION Spec
INVARIANT RefreshTakesEffect
