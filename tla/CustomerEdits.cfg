SPECIFICATION Spec
CONSTANTS
    c1 = c1
    c2 = c2
    h1 = h1
    h2 = h2
    x = x
    y = y
    Ids = {c1, c2}
    MaxName = 2
    Slots = {1}
    Scopes = {x, y}
    Forms <- OneForm
    Documents <- SomeDocuments
    Handlers = {h1, h2}
    MaxRevision = 3
    MaxTokens = 1
    MaxRestarts = 1
SYMMETRY Symmetry
INVARIANT
    ReviewsShowWhatStands
PROPERTIES
    DeletedStaysDeleted
    RevisionsNameDefinitions
CHECK_DEADLOCK FALSE
