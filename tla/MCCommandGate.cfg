\* What the rules of the steps of a closed loop are read against.
SPECIFICATION Spec
CONSTANTS
    Invocations <- ClosedInvocations
    Outcomes <- MCOutcomes
    Identifiers <- MCIdentifiers
    Versions <- MCVersions
    Sanitize <- MCSanitize
    MaxAttempts = 1
INVARIANT GateReadsWhatIsReported
CHECK_DEADLOCK FALSE
