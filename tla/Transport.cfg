SPECIFICATION FairSpec
CONSTANTS
    MaxRekey = 2
    MaxApp <- MCApp
INVARIANTS
    NoDropbearExit
    ReplyQueueInOrder
PROPERTIES
    NonceNeverReused
    KexCompletes
    AllDelivered
