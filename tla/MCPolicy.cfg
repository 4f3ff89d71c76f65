CONSTANTS
    Requests = {r1}
    PubKeys <- MCPubKeys
    Tags = {}
    UniqueIds <- MCUniqueIds
    BaseNames <- MCBaseNames
    AlphaNumeric <- MCAlphaNumeric
    Concat <- MCConcat
    Hosts = {"h"}
    Ports = {0, 8080, 10009, 65535, 70000}
    Certificates = {"c", "binary"}
    Base64Certificates = {"c"}
    Authenticators = {"rune", "both", "junk"}
    LooksLikeMacaroon = {"both"}
    LooksLikeRune = {"rune", "both"}
    CertVerificationTypes = {}
    Bodies <- MCBodies
    Operations = {"get", "query", "verify", "put", "delete"}
    InitialSecrets <- MCInitialSecrets
    LegacySecrets = {}
    Empty = Empty
    None = None
    InDoubt = InDoubt
    NoCall = NoCall
    NoJob = NoJob
SPECIFICATION Spec
INVARIANTS TypeOK KeptIsConnectable ServedMatchesApi
