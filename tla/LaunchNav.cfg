SPECIFICATION FairSpec
CONSTANT Invocations <- MCBigBertha
PROPERTY NavStarts
CHECK_DEADLOCK FALSE
