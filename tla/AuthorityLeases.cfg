\* Chains of three leases; two evaluations race for them, with one nonce.
SPECIFICATION Spec
CONSTANTS
    Leases = {l1, l2, l3}
    Principals = {p1}
    Contexts = {c1}
    Capabilities = {"read", "modify"}
    Paths <- MCPaths
    Under <- MCUnder
    Nonces = {n1}
    Terms <- MCTerms
    Requests <- MCRequests
    Root = Root
    MaxLeases = 3
    MaxRecords = 4
    MaxDepth = 2
    LockWait = 1
    MaxTime = 1
    Runs = {r1, r2}
INVARIANTS Attenuated UsesWithinEveryAncestor NonceSpentOnce
PROPERTIES DeadChainsAuthorizeNothing
CHECK_DEADLOCK FALSE
SYMMETRY Symmetric
