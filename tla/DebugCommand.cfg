SPECIFICATION Spec
CHECK_DEADLOCK FALSE
CONSTANTS
    Payloads <- MCPayloads
    MaxBuf = 3
    MaxFed = 6
INVARIANTS
    TypeOK
    FirstHandshakeWins
    NoHandshakeMissed
    BlameIsDeserved
PROPERTIES
    ImplementsWait
