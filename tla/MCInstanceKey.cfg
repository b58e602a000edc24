CONSTANTS
    Chars <- MCChars
    MaxLen = 4
    PoolStrings <- MCPoolStrings
    MaxKeys = 2
SPECIFICATION Spec
INVARIANT
    ParseAcceptsWellFormed
