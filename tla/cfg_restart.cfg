SPECIFICATION Spec
CONSTANTS
    Keys = {"port", "host"}
    NoText = "none"
    Texts <- MCTexts
    Trim <- MCTrim
    Dotted <- MCDotted
    Atoi <- MCAtoi
    Atof <- MCAtof
    Ints <- MCInts
    Floats <- MCFloats
    IntText <- MCIntText
    FloatText <- MCFloatText
    Cut <- MCCut
    Plain <- MCPlain
    InitialFiles <- MCFiles
    SetValues <- MCSetValues
    MaxSets = 1
    MaxLives = 4
    CrashesAllowed = TRUE
INVARIANT OneLinePerKey
INVARIANT SurvivesRestart
INVARIANT FileSettles
CHECK_DEADLOCK FALSE
