CONSTANTS
    Tos <- MCTos
    Ccs <- MCCcs
    Bccs <- MCBccs
    MaxSends = 3
    MaxPrompts = 3
SPECIFICATION Spec
CHECK_DEADLOCK FALSE
INVARIANTS
    NilMeansAccepted
    AllOrNobody
    CredentialsEncrypted
    LeftByErrors
PROPERTY ImplementsDelivery
