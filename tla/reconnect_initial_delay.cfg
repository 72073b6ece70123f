CONSTANTS
    InitialBackoffMs = 2000
    MaxBackoffMs = 10000
    ConnectTimeoutMs = 5000
    PollMs = 100
    Quantum = 50
    MaxRetries = 11
SPECIFICATION Spec
PROPERTIES InitialDelay
