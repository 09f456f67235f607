SPECIFICATION Spec
CONSTANTS
    Users = {u1}
    Emails = {e1, e2}
    Codes = {c1, c2}
    CodesOf <- MCCodesOf
    Issues = {n1, n2, n3}
    Verifies = {v1, v2}
    CodesRecur = FALSE
    CodesGuessed = FALSE
    NoIssue = NoIssue
    NoCode = NoCode
    NoEmail = NoEmail
    Lifetime = 1
    MaxTime = 1
INVARIANTS TypeOK OneLiveCode ConsumedOnce VerifiedEmailWasProven
PROPERTIES SupersededNeverConsumed
SYMMETRY MCSymmetry
