CONSTANTS
    NoDate = NoDate
    NoSource = NoSource
    Field = {closesAt}
    Date = {d1, d2}
    Source = {s1}
    Parser = {p1}
    Reviewer = {v1, v2}
    MaxRevisions = 2
    MaxCheck = 2
SPECIFICATION Spec
INVARIANTS PublishedIsApproved
