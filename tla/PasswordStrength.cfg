CONSTANTS
    Alphabets <- MCAlphabets
    MaxTyped = 5
    Pasted <- MCPasted
SPECIFICATION Spec
INVARIANTS
    TypeOK
    NoCheaperEnd
    PartsTile
    PartsExplainEntropy
    ShownStrengthIsRight
    CommonWordsAreWeak
    SequencesAreFound
PROPERTIES
    CheckIsShown
