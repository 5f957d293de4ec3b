SPECIFICATION Spec
CONSTANTS
    Scanners = {s1, s2}
    Articles = {a1, a2}
    Experiments = {x1}
    Symbols = {sym}
    None = None
    SymbolOf <- OneSymbol
    Lookback = 2
    Threshold = 80
    MaxTime = 3
    MaxMishaps = 1
INVARIANTS
    DecisionIsRelevant
    ServedInWindow
SYMMETRY Perms
