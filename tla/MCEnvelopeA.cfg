CONSTANTS
    Messages = {m1, m2}
    Absent = absent
    Statuses <- MCStatuses
INIT Init
NEXT Next
INVARIANTS
    SuccessOnlyFromSuccessEnvelope
    HttpFailureReported
    DetailsMismatchIsDecodeError
