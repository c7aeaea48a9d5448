SPECIFICATION Spec
CONSTANTS
    Keys = {"port", "host"}
    NoText = "none"
    Texts <- MCTexts
    Trim <- MCTrim
    Dotted <- MCDotted
    Atoi <- MCAtoi
    Atof <- MCAtof
    Ints <- MCInts
    Floats <- MCFloats
    IntText <- MCIntText
    FloatText <- MCFloatText
    Cut <- MCCut
    Plain <- MCPlain
    InitialFiles <- OneFile
    SetValues <- NoSetValues
    MaxSets = 0
    MaxLives = 1
    CrashesAllowed = FALSE
INVARIANT KeepsTexts
CHECK_DEADLOCK FALSE
