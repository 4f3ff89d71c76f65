------------------------------- MODULE MCTags -------------------------------
(***************************************************************************)
(* Tags and unique ids: two nodes that want the same tag, one of which     *)
(* changes its tags, each with and without a unique id.                    *)
(***************************************************************************)
EXTENDS Vault, Sequences, TLC

MCPubKeys == {<<"A">>, <<"B">>}
MCUniqueIds == {<<>>, <<"u">>}
MCBaseNames == MCPubKeys \cup {<<"t">>}
MCAlphaNumeric == MCBaseNames \cup MCUniqueIds
MCConcat(v, u) == v \o u

MCEntry(p, rune, tags) ==
    [pubkey   |-> <<p>>,
     endpoint |-> [scheme |-> "none", host |-> "h", port |-> 9735, parses |-> TRUE],
     apiType  |-> "ClnCommando",
     cert     |-> Empty,
     macaroon |-> rune,
     cvt      |-> None,
     tags     |-> tags]

(* Two nodes that want one tag, and keep it.                                *)
MCTags == {<<"t">>}
MCBodies == {MCEntry("A", "rune1", {<<"t">>}), MCEntry("A", "rune2", {<<"t">>}),
             MCEntry("B", "rune1", {<<"t">>})}

(* One node whose tag the next PUT leaves out.                              *)
UntaggingBodies == {MCEntry("A", "rune1", {<<"t">>}), MCEntry("A", "rune2", {})}

MCInitialSecrets == {[s \in Secrets |-> None]}

(* A secret with a two-part name, as earlier versions stored it: it is      *)
(* loaded at every start, beside what was put since.                        *)
MCLegacySecrets == {[uid |-> <<>>, data |-> MCEntry("A", "rune1", {<<"t">>})]}

(* The hypotheses of the theorems about AliasNeverStolen and AliasFresh,    *)
(* one of which UntaggingBodies gives up.                                   *)
ASSUME Hypotheses == Bodies = MCBodies => AliasHypotheses
=============================================================================
