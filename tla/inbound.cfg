\* A user at the shim, two users on the API: repeated, delayed and given-up messages.
SPECIFICATION Spec
CONSTANTS
    u1 = u1
    u2 = u2
    Users = {u1, u2}
    Messages <- MCMessages
    MaxDeliveries = 6
    MaxCalls = 3
    MaxTimeouts = 2
INVARIANTS TypeOK OnceAndDone NoLostUpdate OneOwner
CHECK_DEADLOCK FALSE
