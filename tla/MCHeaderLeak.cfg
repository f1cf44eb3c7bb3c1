CONSTANTS
    MaxAttempts = 3
    MaxRetryBuf = 2
    MaxBody = 3
    Chunk = {1, 2}
    Retryable = {"client_error", "error"}
SPECIFICATION Spec
INVARIANTS HeaderOfAnswer
