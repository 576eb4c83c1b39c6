SPECIFICATION Spec
CONSTANTS
    Words <- MCWords
    Mixed <- MCMixed
    Symbols <- MCSymbols
    Types = {int, buffer}
    Written <- MCWritten
INVARIANTS
    ValidArrivesUnchanged
    NameOfMatchedIsKept
    EqualMeansInterchangeable
    AnyIsNeverRead
