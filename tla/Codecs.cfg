CONSTANTS
    Bytes = {0, 77, 255}
    MaxBytes = 5
    Texts <- SomeTexts
    MaxText = 4
    Strays = {32, 45}
    MaxWords = 4
    MaxRaw = 6
    Names = {1, 2}
    Parts = {1, 2}
    MaxLines = 5
    Chunks <- SomeChunks
    Halves = {6}
    MaxWinmail = 47
    MaxChildren = 5
    Bits = {1, 2}
    N = 16
    F <- Collapse
    P <- SomeKeys
SPECIFICATION Spec
INVARIANTS
    Base64Body
    UUBody
    QuotedBody
    SubjectText
    DosLines
    Unfolded
    Attachments
    AccountsInOrder
    KeyText
CHECK_DEADLOCK FALSE
