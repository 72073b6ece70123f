\* The defaults of BluetoothConfig and the poll of main.cpp, on a grid of 50 ms.
CONSTANTS
    InitialBackoffMs = 2000
    MaxBackoffMs = 10000
    ConnectTimeoutMs = 5000
    PollMs = 100
    Quantum = 50
    MaxRetries = 11
SPECIFICATION Spec
INVARIANTS TypeOK Attended
PROPERTIES Patient FirstRetryIsSoon
