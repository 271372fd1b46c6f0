SPECIFICATION Spec
CONSTANTS
    h = h  u = u
    w1 = w1  w2 = w2  c1 = c1  t1 = t1
    box = box  proxy = proxy  cli = cli  child = child  f1 = f1  f2 = f2
    Jrx = {h, u}
    Harness = {h}
    Tui = u
    Nobody = nobody
    Outsider = outsider
    Files = {f1, f2}
    Seen = {f1}
    Git = TRUE
    MaxVersion = 3
    Managed = {box, proxy, cli, child}
    Cli = cli
    Child = child
    Calls = {w1, w2, c1, t1}
    Lead = lead
    Kind <- MCKind
    Target <- MCTarget
    Plans <- MCPlans
    Box <- MCBox
    Proxy <- MCProxy
    MaxModel = 2
    MaxTool = 3

PROPERTY CancelStopsTree
CHECK_DEADLOCK FALSE
