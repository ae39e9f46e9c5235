SPECIFICATION LiveSpec
CONSTANTS
    i1 = i1
    i2 = i2
    Invite = {i1, i2}
    Person = {a, b}
    Caller = {c1, c2}
    Admin = {h1}
    MaxUses <- MCMaxUses
    Direct = Direct
    Expiring = {i1}
    Watched = {i2}
INVARIANTS
    OneAccountEach
    SingleUse
    UsesAreMembers
PROPERTIES
    ClosedStaysClosed
    EveryRegistrationEnds
