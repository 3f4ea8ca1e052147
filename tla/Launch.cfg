SPECIFICATION FairSpec
CONSTANT Invocations <- MCInvocations
INVARIANTS Resolved OneOwnerEach MatchesWorld FilesStayHome SeedsMatchStart
           MappingWaitsForOperator
PROPERTIES NavComesUp OperatorStartsMapping ScanComesBack
CHECK_DEADLOCK FALSE
