CONSTANTS
    Configs <- MCConfigs
SPECIFICATION FairSpec
INVARIANTS NoSenderBlocks ServedFileIsWhole ErrorHasCause
PROPERTIES ServesOrEnds
\* the process ends
CHECK_DEADLOCK FALSE
