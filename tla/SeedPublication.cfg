SPECIFICATION Spec
CONSTANTS
    plan = plan
    extra = extra
    A = A
    B = B
    Empty = Empty
    Name = {plan, extra}
    SeedFile = plan
    Content = {A, B}
    Publisher = {p1, p2}
    Reader = {r1}
    Generation <- MCGenerations
    Legacy <- MCLegacy
INVARIANTS
    ReaderSeesOneGeneration
    SuccessMeansPublished
PROPERTY
    PublishedIsImmutable
CHECK_DEADLOCK FALSE
