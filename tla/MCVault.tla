------------------------------ MODULE MCVault -------------------------------
(***************************************************************************)
(* Concurrent requests for two nodes that want one tag, of which one also  *)
(* wants the pubkey of the other as a tag: entries that differ in their    *)
(* authenticators and tags, and a body that inherits all it can.           *)
(***************************************************************************)
EXTENDS Vault, Sequences

MCPubKeys == {<<"A">>, <<"B">>}
MCTags == {<<"t">>, <<"A">>}
MCUniqueIds == {<<>>}
MCBaseNames == MCPubKeys \cup MCTags
MCAlphaNumeric == MCBaseNames \cup MCUniqueIds
MCConcat(v, u) == v \o u

MCBody(p, macaroon, tags) ==
    [pubkey   |-> <<p>>,
     endpoint |-> [scheme |-> "none", host |-> "h", port |-> 9735, parses |-> TRUE],
     apiType  |-> "ClnCommando",
     cert     |-> Empty,
     macaroon |-> macaroon,
     cvt      |-> None,
     tags     |-> tags]

Inheriting == [MCBody("A", Empty, {}) EXCEPT !.endpoint = NoEndpoint, !.apiType = None]

MCBodies == {MCBody("A", "rune1", {}), MCBody("A", "rune2", {<<"t">>}), Inheriting,
             MCBody("B", "rune1", MCTags)}

MCInitialSecrets == {[s \in Secrets |-> None]}

(* The hypotheses of the theorems about Durable and Coherent.               *)
ASSUME Hypotheses == TagsNeverShadow /\ LegacySecrets = {}

(* One node only.                                                           *)
OnePubKey == {<<"A">>}
OneNodeOverwrites == {MCBody("A", "rune1", {}), MCBody("A", "rune2", {<<"t">>})}
OneNodeInherits == {MCBody("A", "rune2", {<<"t">>}), Inheriting}
OneNodeSecrets == {[s \in Secrets |-> MCBody("A", "rune1", {})]}
=============================================================================
