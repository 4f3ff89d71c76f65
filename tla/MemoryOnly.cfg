CONSTANTS
    Clients = {c1, c2}
    Secrets = {s1, s2}
    Values = {v1}
    None = None
    Hollow = Hollow
    NoCall = NoCall
    NoLoad = NoLoad
    InDoubt = InDoubt
    MaxTries = 2
    Places <- Unnamed
SPECIFICATION Spec
INVARIANT OnlyLocalForgets
