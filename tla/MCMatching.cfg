CONSTANTS
    Tag <- MCTag
    Value <- MCValue
    Specifier <- MCSpecifier
    None = "none"
    MAX_NUMBER = 1000
    Sentence <- MCSentence
    LARGEST = 11
    UINT8_MAX = 3
    DEEPEST = 2
    Argument <- MCArgument
SPECIFICATION Spec
CHECK_DEADLOCK FALSE
INVARIANTS FirstWayFound StacksAgree ResultIsMeant OnlySentences
PROPERTY Termination
