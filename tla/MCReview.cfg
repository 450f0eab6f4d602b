CONSTANTS
    NoDate = NoDate
    NoSource = NoSource
    Field = {closesAt}
    Date = {d1, d2}
    Source = {s1}
    Parser = {p1, p2}
    Reviewer = {v1, v2}
    MaxRevisions = 3
    MaxCheck = 2
    BLOCK_TAGS = {"div", "li"}
    HIDDEN_CONTENT_TAGS = {"script"}
    VOID_TAGS = {"br"}
    CELL_TAGS = {"td"}
    MaximumTags = 4
    MaximumNestingDepth = 2
    MaximumOutput = 3
    MaximumStreams = 6
    MaximumStreamBytes = 3
    MaximumDecodedBytes = 6
    MaximumCMaps = 3
    MaximumOperations = 14
    MaximumPdfOutput = 5
    HtmlPage <- HtmlPages
    Document <- Documents
    Page <- Texts
    Catalogue <- Catalogues
    Day <- Days
    Hint <- Hints
    RoundName = {"late"}
    Attempts = 2
    MaxFailures = 1
SPECIFICATION PartSpec
SYMMETRY Symmetry
INVARIANTS ReviewInv HtmlInv PdfInv ParseInv ReviewsPublish ProposalsAreGrounded BindingIsTimeless
CHECK_DEADLOCK FALSE
