\* Sixteen codes, two or three letters beside "a" and every exception for them.
CONSTANTS
    NumCodes = 16
    AsciiEnd = 2
    AsciiLower = {1}
    AsciiShift = 1
    Surrogates = {7}
    Foldings <- SomeFoldings
    ExceptionsFor <- SomeExceptions
SPECIFICATION Spec
INVARIANT LooksUp
CHECK_DEADLOCK FALSE
