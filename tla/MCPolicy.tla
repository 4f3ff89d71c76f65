------------------------------ MODULE MCPolicy ------------------------------
(***************************************************************************)
(* One request at a time, for one node, with bodies that give or leave out *)
(* each field: every way an entry can come about by inheriting from the    *)
(* previous one, which may have been written before the vault knew API     *)
(* types, and endpoints whose port is at the edge of what a port is.       *)
(***************************************************************************)
EXTENDS Vault, Sequences

MCPubKeys == {<<"A">>}
MCUniqueIds == {<<>>, <<"!">>}
MCAlphaNumeric == {<<>>}
MCBaseNames == MCPubKeys \cup {<<"bad">>}
MCConcat(v, u) == v \o u

MCEndpoint(scheme, port, parses) ==
    [scheme |-> scheme, host |-> "h", port |-> port, parses |-> parses]

Rest == MCEndpoint("https", 8080, TRUE)
Bare == MCEndpoint("none", NoPort, TRUE)
NotAPort == MCEndpoint("none", 70000, TRUE)

(* Ports at the edges, and one in a text that is no URL.                    *)
EdgeEndpoints == {MCEndpoint("none", 0, TRUE), MCEndpoint("none", MaxPort, TRUE), NotAPort,
                  MCEndpoint("https", 70000, TRUE), MCEndpoint("none", 8080, FALSE)}

MCEntry(p, e, t, c, a) ==
    [pubkey |-> p, endpoint |-> e, apiType |-> t, cert |-> c, macaroon |-> a,
     cvt |-> None, tags |-> {}]

MCBodies ==
    {MCEntry(<<"A">>, e, t, Empty, a) :
        e \in {NoEndpoint, Rest, Bare},
        t \in {None, "LndGrpc", "LndRest", "ClnCommando"},
        a \in {"both", "rune", Empty}}
    \cup {MCEntry(<<"A">>, e, t, "c", a) :
              e \in {NoEndpoint, Rest}, t \in {None, "LndGrpc"}, a \in {"both", Empty}}
    \cup {MCEntry(<<"A">>, e, "LndGrpc", "c", "both") : e \in EdgeEndpoints}
    \cup {MCEntry(<<"A">>, NotAPort, "LndRest", "c", "both"),
          MCEntry(<<"A">>, Rest, None, "c", "junk"),
          MCEntry(<<"A">>, NoEndpoint, "ClnCommando", Empty, "junk"),
          MCEntry(<<"A">>, MCEndpoint("https", 10009, TRUE), None, Empty, "both"),
          MCEntry(<<"A">>, MCEndpoint("HTTPS", NoPort, FALSE), None, Empty, "both"),
          MCEntry(<<"A">>, MCEndpoint("HTTPS", NoPort, TRUE), None, "binary", "both"),
          MCEntry(<<"bad">>, Rest, None, "c", "both")}

(* As MCBodies, with API types the vault does not support.                  *)
MCUnsupportedBodies ==
    {MCEntry(<<"A">>, MCEndpoint("none", 9735, TRUE), t, Empty, "rune") :
        t \in {"ClnSocket", "undefined", "ClnCommando"}}

MCInitialSecrets ==
    LET untyped == MCEntry(<<"A">>, Bare, None, Empty, "junk")
    IN  {[s \in MCPubKeys \X MCUniqueIds |-> None],
         [s \in MCPubKeys \X MCUniqueIds |-> IF s[2] = <<>> THEN untyped ELSE None]}

(* The hypotheses of the theorems about KeptIsConnectable and               *)
(* ServedMatchesApi.                                                        *)
ASSUME Hypotheses == InitialConnectable /\ LegacyConnectable
=============================================================================
