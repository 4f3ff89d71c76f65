CONSTANTS
    Requests = {r1}
    PubKeys <- MCPubKeys
    Tags <- MCTags
    UniqueIds <- MCUniqueIds
    BaseNames <- MCBaseNames
    AlphaNumeric <- MCAlphaNumeric
    Concat <- MCConcat
    Hosts = {"h"}
    Ports = {9735}
    Certificates = {}
    Base64Certificates = {}
    Authenticators = {"rune1", "rune2"}
    LooksLikeMacaroon = {}
    LooksLikeRune = {"rune1", "rune2"}
    CertVerificationTypes = {}
    Bodies <- UntaggingBodies
    Operations = {"put", "delete"}
    InitialSecrets <- MCInitialSecrets
    LegacySecrets = {}
    Empty = Empty
    None = None
    InDoubt = InDoubt
    NoCall = NoCall
    NoJob = NoJob
SPECIFICATION Spec
INVARIANT OverwrittenNotServed
