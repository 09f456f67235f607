SPECIFICATION FairSpec
CONSTANTS
    r1 = r1
    r2 = r2
    r3 = r3
    s1 = s1
    s2 = s2
    Subjects = {s1, s2}
    Requests = {r1, r2, r3}
    SubjectOf <- MCSubjectOf
    NoUser = NoUser
    Organizations = {o1}
    Projects = {p1}
    MaxMarks = 1
INVARIANTS NeverNotFound VisibleIsWhole
PROPERTIES ImplementsDirectory CreatorHasAccess RequestsSettle
CHECK_DEADLOCK FALSE
