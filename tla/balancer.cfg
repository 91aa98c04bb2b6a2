SPECIFICATION BalancerSpec
CONSTANTS
    n1 = n1
    n2 = n2
    n3 = n3
    Callers = {c1, c2}
    Nodes = {n1, n2, n3}
    Lists <- NoneOneOrThree
    Policies <- AllPolicies
    Hashes = {3, 4}
    Weight <- Weights
    MaxActive = 2
    Period = 3
    None = None
SYMMETRY Alike
PROPERTIES
    CrashNeedsResize
    NextInTurn
    LeastOrTurn
    NearItsShare
