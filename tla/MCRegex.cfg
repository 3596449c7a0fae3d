SPECIFICATION Spec
CONSTANTS
    Alphabet <- MCAlphabet
    CType <- MCCType
    ToUpper <- MCToUpper
    RE_DUP_MAX = 3
    BRACKET_NAME_BUF_SIZE = 3
    Programs <- MCPrograms
    Strings <- MCStrings
    Texts <- MCTexts
    Starts = {2}
    NMatches = {0, 1, 3}
    ExecFlags <- MCExecFlags
    RegisterCounts = {0, 1, 3}
INVARIANTS
    FindsLeftmostLongest
    RegistersAreAParse
    NothingIsSkipped
    SyntaxesAgree
    RegistersAreUsable
PROPERTIES
    EveryCallReturns
