\* What the rules on the regression do without a previous result.
SPECIFICATION Spec
CONSTANTS
    Invocations <- BaselineInvocations
    Outcomes <- MCOutcomes
    Identifiers <- MCIdentifiers
    Versions <- MCVersions
    Sanitize <- MCSanitize
    MaxAttempts = 1
INVARIANT RegressionNeedsBaseline
CHECK_DEADLOCK FALSE
