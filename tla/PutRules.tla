------------------------------ MODULE PutRules ------------------------------
(***************************************************************************)
(* What an entry of the vault is, and the pure rules by which a PUT turns  *)
(* a request body and the entry already cached into the entry to keep, or  *)
(* rejects it; and by which a GET turns an entry into a time-limited one.  *)
(*                                                                         *)
(* Go nil pointers are None, empty strings are Empty.                      *)
(***************************************************************************)
EXTENDS Integers

CONSTANTS PubKeys,              \* strings that ValidatePubkey accepts
          Tags,                 \* strings usable as an entry's tags
          Hosts,
          Ports,                \* what follows the colon of an endpoint
          Certificates,
          Base64Certificates,   \* those that SafeBase64Decode accepts
          Authenticators,       \* macaroons, runes, and strings that are neither
          LooksLikeMacaroon,
          LooksLikeRune,
          CertVerificationTypes,
          Empty, None

ASSUME SubsetsAssumption == /\ Base64Certificates \subseteq Certificates
                            /\ LooksLikeMacaroon \subseteq Authenticators
                            /\ LooksLikeRune \subseteq Authenticators
                            /\ Ports \subseteq Int

ASSUME EmptyAssumption == Empty \notin Authenticators /\ Empty \notin Certificates

-----------------------------------------------------------------------------
(* Endpoints, API types and entries                                        *)

NoPort == -1

MaxPort == 65535

Schemes == {"none", "http", "https", "HTTP", "HTTPS"}

Endpoint == [scheme : Schemes, host : Hosts \cup {Empty},
             port : Ports \cup {NoPort}, parses : BOOLEAN]

NoEndpoint == [scheme |-> "none", host |-> Empty, port |-> NoPort, parses |-> TRUE]

KnownApiTypes == {"LndGrpc", "LndRest", "ClnSocket", "ClnCommando"}

SupportedApiTypes == {"LndGrpc", "LndRest", "ClnCommando"}

ApiTypes == KnownApiTypes \cup {"undefined"}

Fields(pubkeys, macaroons) == [pubkey   : pubkeys,
                               endpoint : Endpoint,
                               apiType  : ApiTypes \cup {None},
                               cert     : Certificates \cup {Empty},
                               macaroon : macaroons,
                               cvt      : CertVerificationTypes \cup {None},
                               tags     : SUBSET Tags]

Data == Fields(PubKeys, Authenticators \cup {Empty})

ASSUME NoneAssumption == None \notin Data

ASSUME NilApiTypeAssumption == None \notin ApiTypes

(* Mutant: a number that is no port is taken all the same.                  *)
ExtractAnyNumber(e) ==
    IF ~e.parses THEN NoPort
    ELSE IF e.port # NoPort THEN e.port
    ELSE CASE e.scheme \in {"https", "HTTPS"} -> 443
           [] e.scheme \in {"http", "HTTP"}   -> 80
           [] OTHER                           -> NoPort

(* The port a client would connect to: an endpoint that url.Parse refuses   *)
(* has none, whatever the sanitised text says, because the port found there *)
(* is assigned to a variable of the inner scope.                            *)
ExtractPort(e) ==
    IF ~e.parses THEN NoPort
    ELSE IF e.port \in 0..MaxPort THEN e.port
    ELSE CASE e.scheme \in {"https", "HTTPS"} -> 443
           [] e.scheme \in {"http", "HTTP"}   -> 80
           [] OTHER                           -> NoPort

GetAPIType(t) == IF t \in KnownApiTypes THEN t ELSE None

NeedCert(t) == t \in {"LndGrpc", "LndRest"}

-----------------------------------------------------------------------------
(* Authenticators: which kind a string is, and limiting it in time          *)

ToAuthenticatorType(t) == CASE t \in {"LndGrpc", "LndRest"} -> "Macaroon"
                            [] t = "ClnCommando"            -> "Rune"
                            [] OTHER                        -> "Unknown"

DetectAuthenticatorType(a, whenMultipleMatch) ==
    LET expected == ToAuthenticatorType(whenMultipleMatch)
    IN  IF a \in LooksLikeMacaroon \cap LooksLikeRune /\ expected # "Unknown"
          THEN expected
        ELSE IF a \in LooksLikeMacaroon THEN "Macaroon"
        ELSE IF a \in LooksLikeRune THEN "Rune"
        ELSE "Unknown"

Durations == {10, 60, 24 * 60}

Limited == [of : Authenticators, as : {"Macaroon", "Rune"}, minutes : Nat]

ASSUME LimitedAssumption == Empty \notin Limited

ConstrainFails(minutes) == minutes > 24 * 60

Constrain(a, minutes, apiType) ==
    LET kind == DetectAuthenticatorType(a, apiType)
    IN  IF kind = "Unknown" THEN Empty
        ELSE [of |-> a, as |-> kind, minutes |-> minutes]

Served == Fields(PubKeys, Limited \cup {Empty})

(* Mutant: the API type of the entry is not passed on.                      *)
ConstrainedWithoutApiType(d, minutes) ==
    [d EXCEPT !.macaroon = IF ConstrainFails(minutes) THEN Empty
                           ELSE Constrain(d.macaroon, minutes, None)]

GetConstrained(d, minutes) ==
    [d EXCEPT !.macaroon = IF ConstrainFails(minutes) THEN Empty
                           ELSE Constrain(d.macaroon, minutes, GetAPIType(d.apiType))]

ComplainAboutInvalidAuthenticator(d) ==
    LET t == GetAPIType(d.apiType)
    IN  /\ t # None
        /\ ToAuthenticatorType(t) # "Unknown"
        /\ ToAuthenticatorType(t) # DetectAuthenticatorType(d.macaroon, t)

-----------------------------------------------------------------------------
(* PUT: from a body b and the entry orig cached under its key (or None) to  *)
(* the entry to keep. fetched is what ObtainCert gets from the node.        *)

AutoDetectAPIType(d) ==
    LET http == d.endpoint.scheme \in {"http", "https"} /\ d.endpoint.parses
        grpc == http /\ d.endpoint.port = 10009
        rune == DetectAuthenticatorType(d.macaroon, "ClnCommando") = "Rune"
    IN  [d EXCEPT !.apiType = IF rune THEN "ClnCommando"
                              ELSE IF http /\ ~grpc THEN "LndRest"
                              ELSE "LndGrpc",
                  !.endpoint = IF grpc THEN [@ EXCEPT !.scheme = "none"] ELSE @]

InheritEndpoint(b, orig) ==
    IF b.endpoint = NoEndpoint /\ orig # None
      THEN [b EXCEPT !.endpoint = orig.endpoint] ELSE b

InheritApiType(b, orig) ==
    IF b.apiType # None THEN b
    ELSE IF orig = None THEN AutoDetectAPIType(b)
    ELSE [b EXCEPT !.apiType = orig.apiType]

InheritCert(b, orig, fetched) ==
    IF b.cert # Empty THEN b.cert
    ELSE IF orig # None /\ orig.cert # Empty THEN orig.cert
    ELSE IF NeedCert(b.apiType) THEN fetched
    ELSE Empty

(* Tags are the one field a PUT does not inherit.                           *)
Merged(b, orig, fetched) ==
    LET d == InheritApiType(InheritEndpoint(b, orig), orig)
    IN  [d EXCEPT !.cert     = InheritCert(d, orig, fetched),
                  !.macaroon = IF @ = Empty /\ orig # None THEN orig.macaroon ELSE @,
                  !.cvt      = IF @ = None /\ orig # None THEN orig.cvt ELSE @]

(* Mutant: the pubkey is not validated.                                     *)
RejectedWhateverPubkey(b, orig, d) ==
    \/ b.endpoint = NoEndpoint /\ orig = None
    \/ d.apiType = "LndGrpc" /\ ExtractPort(d.endpoint) < 0
    \/ NeedCert(d.apiType) /\ d.cert = Empty
    \/ d.cert # Empty /\ d.cert \notin Base64Certificates
    \/ b.macaroon = Empty /\ orig = None
    \/ ComplainAboutInvalidAuthenticator(d)

(* Mutant: the authenticator is checked before what is left out is filled   *)
(* in from the entry being overwritten.                                     *)
RejectedBeforeMerging(b, orig, d) ==
    \/ b.pubkey \notin PubKeys
    \/ b.endpoint = NoEndpoint /\ orig = None
    \/ d.apiType = "LndGrpc" /\ ExtractPort(d.endpoint) < 0
    \/ NeedCert(d.apiType) /\ d.cert = Empty
    \/ d.cert # Empty /\ d.cert \notin Base64Certificates
    \/ b.macaroon = Empty /\ orig = None
    \/ b.macaroon # Empty /\ ComplainAboutInvalidAuthenticator(b)

(* The checks that answer 400 and return.                                   *)
Rejected(b, orig, d) ==
    \/ b.pubkey \notin PubKeys
    \/ b.endpoint = NoEndpoint /\ orig = None
    \/ d.apiType = "LndGrpc" /\ ExtractPort(d.endpoint) < 0
    \/ NeedCert(d.apiType) /\ d.cert = Empty
    \/ d.cert # Empty /\ d.cert \notin Base64Certificates
    \/ b.macaroon = Empty /\ orig = None
    \/ ComplainAboutInvalidAuthenticator(d)
    \/ ConstrainFails(1)

(* The two checks that answer 400 and go on.                                *)
BadRequestWithoutReturn(b, d) ==
    \/ b.apiType # None /\ GetAPIType(b.apiType) \in {None, "ClnSocket"}
    \/ d.apiType \notin SupportedApiTypes \cup {None}
=============================================================================
