\* Every command over its files, with editors, full disks and crashes in between.
SPECIFICATION Spec
CONSTANTS
    Invocations <- MCInvocations
    Outcomes <- MCOutcomes
    Identifiers <- MCIdentifiers
    Versions <- MCVersions
    Sanitize <- MCSanitize
    MaxAttempts = 3
INVARIANTS
    NoSilentBlank
    MixKeepsShare
    ExitTellsTheTruth
    MigrationIsSafe
    RecordedOrSaid
    RecordingReplays
CHECK_DEADLOCK FALSE
