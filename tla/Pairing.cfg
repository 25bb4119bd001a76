SPECIFICATION FairSpec
CONSTANTS
    Base = 4
    DataLen = 2
    Sep = Sep
    LetterO = LetterO
    LetterI = LetterI
    Other = Other
    Generated <- MCGenerated
    Life = 4
    Derive = 1
    Lookup = 1
    Ready = 1
    Hop = 0
    Dialing = 2
    Ttl = 3
    Allow = 1
    Cap = 2
    MaxSkew = 5
    Patience = 5
    Nil = Nil
INVARIANTS
    PairingTypeOK
    SlipCaught
    LookupFinds
    InTimeConnects
    CodeWindow
PROPERTIES
    NobodyWaits
