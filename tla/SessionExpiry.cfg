SPECIFICATION Spec
CONSTANTS
    r1 = r1
    r2 = r2
    Secret = Secret
    Wrong = Wrong
    Nil = Nil
    Peers = {r1, r2}
    MaxFaults = 0
SYMMETRY Perms
PROPERTIES
    ExpiresUnconnected
