SPECIFICATION Spec
CONSTANTS
    a1 = a1
    a2 = a2
    a3 = a3
    p1 = p1
    p2 = p2
    here = here
    there = there
    shopApi = shopApi
    pay = pay
    payApi = payApi
    tools = tools
    farPay = farPay
    NoActor = NoActor
    Dirs = {shopApi, pay, payApi}
    BaseName <- Base
    Processes = {p1, p2}
    ProcessOf <- TwoProcesses
    Refreshers = {a1, a3}
    Listers = {}
    Roots = {here}
    RootOf <- AllHere
    MaxEdition = 2
    Workspace <- Steady
INVARIANTS
    RefreshTakesHold
