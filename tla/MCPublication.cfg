CONSTANTS
    Submission = {s1, s2}
    Name = {n1, n2}
    Mark = {m1, m2}
    Domain = {d1}
    NoDomain = NoDomain
    Publisher = {p1, p2}
    Reviewer = {v1, v2}
    UniversityName = {"paris x", "nanterre", "other"}
    Alias = {"nanterre"}
    Historical = "paris x"
    Canonical = "nanterre"
    MaxCommits = 4
SPECIFICATION PartSpec
INVARIANTS PublicationInv CatalogueInv ImportsAreIdempotent
SYMMETRY Symmetry
CHECK_DEADLOCK FALSE
