CONSTANTS
    Requests = {r1, r2}
    PubKeys <- OnePubKey
    Tags <- MCTags
    UniqueIds <- MCUniqueIds
    BaseNames <- MCBaseNames
    AlphaNumeric <- MCAlphaNumeric
    Concat <- MCConcat
    Hosts = {"h"}
    Ports = {9735}
    Certificates = {}
    Base64Certificates = {}
    Authenticators = {"rune1", "rune2"}
    LooksLikeMacaroon = {}
    LooksLikeRune = {"rune1", "rune2"}
    CertVerificationTypes = {}
    Bodies <- OneNodeOverwrites
    Operations = {"put"}
    InitialSecrets <- MCInitialSecrets
    LegacySecrets = {}
    Empty = Empty
    None = None
    InDoubt = InDoubt
    NoCall = NoCall
    NoJob = NoJob
SPECIFICATION Spec
INVARIANT AcknowledgedAgree
