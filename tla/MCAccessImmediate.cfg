SPECIFICATION Spec
CONSTANTS
    agency = agency
    mediator = mediator
    buyer = buyer
    None = None
    User = {agency, mediator, buyer}
    Client = {buyer}
    Changing = {mediator, buyer}
    Proc = {p1}
    Request = {r1}
    Admin = {h1}
    Chain <- MCChain
    AuthTTL = 2
    LineageTTL = 2
    MaxRun = 1
    Horizon = 5
INVARIANT CachedMayAct
