SPECIFICATION FairBitmapSpec
CONSTANTS
    Writers = {w1, w2}
    PageSize = 2
    WordBits = 2
    InitBytes = 3
    MaxMemory = 5
    ResetFenced = TRUE
INVARIANT NoWriteLost
PROPERTY EveryWriteCopied
