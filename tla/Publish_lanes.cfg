CONSTANTS
    a = a
    b = b
    doc = doc
    row = row
    closes = closes
    text0 = text0
    k1 = k1
    Lane = {a, b}
    CloneOf <- OneClone
    Path = {doc, row, closes}
    ClosesFile = closes
    RowFile = row
    Text = text0
    Edits <- EditsOf
    Drops <- NoDrops
    Closing = {}
    Pins <- NoPins
    Clashing = {}
SPECIFICATION PubSpec
INVARIANT LandedStays
CHECK_DEADLOCK FALSE
