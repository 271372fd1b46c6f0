\* Mode enforce, no HOLD override: an exec run and a hook, two environments.
SPECIFICATION Spec
CONSTANTS
    dev = dev
    rev = rev
    lead = lead
    both = both
    prod = prod
    stage = stage
    cmd = cmd
    Ids = {i1}
    Users = {dev, rev, lead, both}
    Commands = {cmd}
    Trees = {t1, t2}
    Environments = {prod, stage}
    Production = {prod}
    CanReview <- MCCanReview
    CanExecute <- MCCanExecute
    Ttl = 2
    MaxTime = 2
    Execs = {e1}
    Hooks = {h1}
    UserOf <- MCUserOf
    CommandOf <- MCCommandOf
    EnvironmentOf <- MCEnvironmentOf
    NoApproval = NoApproval
    Mode = "enforce"
    AllowHoldOverride = FALSE
INVARIANTS SpentOnlyWhenReviewed OneActionPerApproval RiskyNeedsItsApproval
PROPERTIES ExecKeepsItsTree
CHECK_DEADLOCK FALSE

