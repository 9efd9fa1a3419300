SPECIFICATION Spec
CONSTANTS
    c1 = c1
    c2 = c2
    h1 = h1
    h2 = h2
    x = x
    y = y
    Ids = {c1}
    MaxName = 1
    Slots = {1, 2}
    Scopes = {x, y}
    Forms <- ThreeForms
    Documents = {}
    Handlers = {h1, h2}
    MaxRevision = 3
    MaxTokens = 2
    MaxRestarts = 0
PROPERTY
    StaleEditsNeverOverwrite
CHECK_DEADLOCK FALSE
