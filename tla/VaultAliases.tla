---------------------------- MODULE VaultAliases ----------------------------
(***************************************************************************)
(* Whose entry a name answers with, and that an alias answers with what    *)
(* its node's primary name does.  That the name of a secret has an entry   *)
(* of its own node holds for any number of requests; that an alias is not  *)
(* taken from a node, and not left behind, for one request at a time.      *)
(***************************************************************************)
EXTENDS VaultSteps

-----------------------------------------------------------------------------
(* Names of secrets                                                         *)

(* What a handler has still to do to Lookup is to no secret's name.         *)
LEMMA TodoIsNotPrimary ==
    ASSUME TagsNeverShadow, TypeOK, TodoAliases, NEW r \in Requests,
           pc[r] \in PutSteps \cup DeleteSteps,
           NEW v \in job[r].todo \cup (IF pc[r] = "aliasWrite" THEN {job[r].tag} ELSE {}),
           NEW s \in Secrets
    PROVE  Concat(v, job[r].uid) # PrimaryName(s)
<1>1. v \in Aliases(job[r].data, job[r].uid)
    BY DEF TodoAliases
<1> QED
    BY <1>1, HandlerJob, AliasIsNotPrimary

(* An entry has one name that is a secret's: the name of its own secret.    *)
LEMMA LoadedPrimary ==
    ASSUME TagsNeverShadow, TypeOK, NEW e \in Entry, NEW s \in Secrets
    PROVE  ToLookup(Lookup, e.data, e.uid)[PrimaryName(s)] =
              IF s = SecretOf(e) THEN e.data ELSE Lookup[PrimaryName(s)]
<1>1. e.data \in Data /\ e.uid \in UniqueIds
    BY DEF Entry
<1>2. /\ SecretOf(e) \in Secrets
      /\ PrimaryName(SecretOf(e)) = Concat(e.data.pubkey, e.uid)
    BY <1>1, SecretsTyped DEF SecretOf
<1>3. PrimaryName(s) \in Names
    BY NamesAssumption, NamesClosed DEF PrimaryName, Secrets
<1>4. \A v \in Aliases(e.data, e.uid) : PrimaryName(s) # Concat(v, e.uid)
    BY <1>1, AliasIsNotPrimary
<1>5. PrimaryName(s) = Concat(e.data.pubkey, e.uid) <=> s = SecretOf(e)
    BY <1>2, PrimaryNamesDiffer
<1> QED
    BY <1>3, <1>4, <1>5 DEF ToLookup

(* Handlers run only while the vault is up.                                 *)
LEMMA IdleUnlessUpKept ==
    ASSUME TypeOK, IdleUnlessUp, [Next]_vars
    PROVE  IdleUnlessUp'
<1>1. ASSUME NEW r \in Requests, Client(r)
      PROVE  IdleUnlessUp'
    BY <1>1, ClientEffect DEF IdleUnlessUp
<1>2. ASSUME NEW r \in Requests, Handler(r) \/ Returned(r)
      PROVE  IdleUnlessUp'
  <2>1. status' = status /\ pc[r] # "idle"
    BY <1>2 DEF Handler, Returned, VerifyDone, PutVerified, AliasCheck, AliasWrite, PutPrimary,
                DeleteAlias, DeletePrimary, PutStored, PutNotStored, Deleted, NotDeleted,
                NoEffect, loadVars
  <2> QED
    BY <2>1 DEF IdleUnlessUp, Idle
<1>3. CASE Crash \/ Start \/ UNCHANGED vars \/ \E r \in Requests : Attempt(r)
    BY <1>3 DEF Crash, Start, LoadSecrets, InitialLoad, Listen, Attempt, vars, handlerVars,
                loadVars, IdleUnlessUp, Idle
<1> QED
    BY <1>1, <1>2, <1>3 DEF Next

(* The names a handler has still to write are its entry's aliases, whatever *)
(* the other handlers do.                                                   *)
LEMMA TodoKept ==
    ASSUME TypeOK, TodoAliases, [Next]_vars
    PROVE  TodoAliases'
<1> DEFINE todo(r) == job[r].todo \cup (IF pc[r] = "aliasWrite" THEN {job[r].tag} ELSE {})
           Fine(r) == pc[r] \in PutSteps \cup DeleteSteps =>
                         todo(r) \subseteq Aliases(job[r].data, job[r].uid)
<1>f. TodoAliases <=> \A r \in Requests : Fine(r)
    BY DEF TodoAliases
<1>o. ASSUME NEW r \in Requests, Others(r), Fine(r)' PROVE TodoAliases'
    BY <1>o, <1>f DEF Others, TodoAliases, Aliases
<1>1. ASSUME NEW r \in Requests, Client(r)
      PROVE  TodoAliases'
  <2>1. Others(r) /\ (pc'[r] \in {"idle", "check"} \/ PutBegun(r) \/ DeleteBegun(r))
    BY <1>1, ClientEffect
  <2>2. Fine(r)'
    BY <2>1 DEF PutBegun, DeleteBegun, PutSteps, DeleteSteps, Aliases
  <2> QED
    BY <2>1, <2>2, <1>o
<1>2. ASSUME NEW r \in Requests, Others(r), SameEntry(r), Fine(r), pc[r] \in PutSteps \cup DeleteSteps,
             todo(r)' \subseteq todo(r) \cup Aliases(job[r].data, job[r].uid)
      PROVE  TodoAliases'
  <2>1. Fine(r)'
    BY <1>2 DEF SameEntry, Aliases
  <2> QED
    BY <1>2, <2>1, <1>o
<1>3. ASSUME NEW r \in Requests, Others(r), pc'[r] = "idle"
      PROVE  TodoAliases'
    BY <1>3, <1>o DEF PutSteps, DeleteSteps
<1>4. ASSUME NEW r \in Requests, Handler(r) \/ Returned(r)
      PROVE  TodoAliases'
  <2>1. CASE \E ok \in BOOLEAN : VerifyDone(r, ok) \/ PutVerified(r, ok)
    <3>1. /\ Others(r)
          /\ pc'[r] = "idle" \/ (pc[r] = "verify" /\ pc'[r] = "alias" /\ job'[r] = job[r])
      BY <2>1, VerifiedEffect
    <3> QED
      BY <3>1, <1>2, <1>3, <1>f DEF SameEntry, PutSteps
  <2>2. CASE AliasCheck(r)
    <3>1. Others(r) /\ SameEntry(r) /\ pc[r] = "alias"
          /\ todo(r)' \subseteq todo(r)
      BY <2>2, AliasCheckEffect
    <3> QED
      BY <3>1, <1>2, <1>f DEF PutSteps
  <2>3. CASE AliasWrite(r)
    <3>1. Others(r) /\ SameEntry(r) /\ pc[r] = "aliasWrite"
          /\ todo(r)' \subseteq todo(r)
      BY <2>3, AliasWriteEffect
    <3> QED
      BY <3>1, <1>2, <1>f DEF PutSteps
  <2>4. CASE PutPrimary(r)
    <3>1. Others(r) /\ job'[r] = job[r] /\ pc[r] = "alias" /\ pc'[r] = "storing"
      BY <2>4, PutPrimaryEffect
    <3> QED
      BY <3>1, <1>2, <1>f DEF PutSteps, SameEntry
  <2>5. CASE DeleteAlias(r)
    <3>1. Others(r) /\ SameEntry(r) /\ pc[r] = "unalias"
          /\ todo(r)' \subseteq todo(r)
      BY <2>5, DeleteAliasEffect
    <3> QED
      BY <3>1, <1>2, <1>f DEF DeleteSteps
  <2>6. CASE DeletePrimary(r)
    BY <2>6, DeletePrimaryEffect, <1>3
  <2>7. CASE Returned(r)
    <3>1. /\ Others(r) /\ pc[r] \in {"storing", "deleting"}
          /\ \/ pc'[r] = "idle"
             \/ /\ pc'[r] = "unalias" /\ SameEntry(r)
                /\ todo(r)' \subseteq Aliases(job[r].data, job[r].uid)
      BY <2>7, ReturnedEffect
    <3> QED
      BY <3>1, <1>2, <1>3, <1>f DEF PutSteps, DeleteSteps
  <2> QED
    BY <1>4, <2>1, <2>2, <2>3, <2>4, <2>5, <2>6, <2>7 DEF Handler
<1>5. CASE Crash
    BY <1>5 DEF Crash, TodoAliases, PutSteps, DeleteSteps
<1>6. CASE Start \/ UNCHANGED vars \/ \E r \in Requests : Attempt(r)
  <2>1. UNCHANGED <<pc, job>>
    BY <1>6 DEF Start, LoadSecrets, InitialLoad, Listen, Attempt, vars, handlerVars
  <2> QED
    BY <2>1 DEF TodoAliases, Aliases
<1> QED
    BY <1>1, <1>4, <1>5, <1>6 DEF Next

-----------------------------------------------------------------------------
(* The name of a secret has an entry of its own node                        *)

LEMMA WrittenOwn ==
    ASSUME OwnNames, NEW n, NEW v, Written(n, v),
           \A s \in Secrets : n = PrimaryName(s) /\ v # None => v.pubkey = s[1]
    PROVE  OwnNames'
<1>1. \A s \in Secrets : PrimaryName(s) \in Names
    BY NamesAssumption, NamesClosed DEF PrimaryName, Secrets
<1> QED
    BY <1>1 DEF OwnNames, Written, PrimaryName

LEMMA OwnNamesKept ==
    ASSUME TagsNeverShadow, TypeOK, OwnInv, [Next]_vars
    PROVE  OwnNames'
<1>1. CASE UNCHANGED Lookup
    BY <1>1 DEF OwnInv, OwnNames, PrimaryName
<1>2. ASSUME NEW r \in Requests, Handler(r)
      PROVE  OwnNames'
  <2>1. CASE AliasWrite(r)
    <3>1. Written(Concat(job[r].tag, job[r].uid), job[r].data) /\ pc[r] = "aliasWrite"
      BY <2>1, AliasWriteEffect
    <3>2. \A s \in Secrets : Concat(job[r].tag, job[r].uid) # PrimaryName(s)
      BY <3>1, TodoIsNotPrimary DEF OwnInv, PutSteps
    <3> QED
      BY <3>1, <3>2, WrittenOwn DEF OwnInv
  <2>2. CASE PutPrimary(r)
    <3>1. Written(NameOf(r), job[r].data) /\ pc[r] = "alias"
      BY <2>2, PutPrimaryEffect
    <3>2. \A s \in Secrets : NameOf(r) = PrimaryName(s) => job[r].data.pubkey = s[1]
      BY <3>1, HandlerJob, PrimaryNamesDiffer DEF NameOf, PutSteps
    <3> QED
      BY <3>1, <3>2, WrittenOwn DEF OwnInv
  <2>3. CASE DeleteAlias(r)
    <3>1. \E n : Written(n, None)
      BY <2>3, DeleteAliasEffect
    <3> QED
      BY <3>1, WrittenOwn DEF OwnInv
  <2>4. CASE DeletePrimary(r)
    BY <2>4, DeletePrimaryEffect, WrittenOwn DEF OwnInv
  <2>5. CASE (\E ok \in BOOLEAN : VerifyDone(r, ok) \/ PutVerified(r, ok)) \/ AliasCheck(r)
    BY <2>5, <1>1, VerifiedEffect, AliasCheckEffect
  <2> QED
    BY <1>2, <2>1, <2>2, <2>3, <2>4, <2>5 DEF Handler
<1>3. CASE InitialLoad
  <2>1. PICK e \in toLoad : Lookup' = ToLookup(Lookup, e.data, e.uid)
    BY <1>3 DEF InitialLoad
  <2>2. e \in Entry
    BY DEF TypeOK
  <2>3. \A s \in Secrets :
           Lookup'[PrimaryName(s)] = IF s = SecretOf(e) THEN e.data ELSE Lookup[PrimaryName(s)]
    BY <2>1, <2>2, LoadedPrimary
  <2> QED
    BY <2>3 DEF OwnInv, OwnNames, SecretOf, PrimaryName
<1>4. CASE Crash
  <2>1. \A s \in Secrets : PrimaryName(s) \in Names
    BY NamesAssumption, NamesClosed DEF PrimaryName, Secrets
  <2> QED
    BY <1>4, <2>1 DEF Crash, OwnNames, PrimaryName
<1>5. ASSUME NEW r \in Requests, Client(r) \/ Returned(r) \/ Attempt(r)
      PROVE  UNCHANGED Lookup
    BY <1>5, ClientEffect, ReturnedEffect DEF Attempt
<1>6. ASSUME (\E lost \in SUBSET Secrets : LoadSecrets(lost)) \/ Listen \/ UNCHANGED vars
      PROVE  UNCHANGED Lookup
    BY <1>6 DEF LoadSecrets, Listen, vars
<1> QED
    BY <1>1, <1>2, <1>3, <1>4, <1>5, <1>6 DEF Next, Start

LEMMA OwnInvariant ==
    ASSUME TagsNeverShadow
    PROVE  Spec => []OwnInv
<1>1. Init => OwnInv
  <2> SUFFICES ASSUME Init PROVE OwnInv
    OBVIOUS
  <2>1. \A s \in Secrets : PrimaryName(s) \in Names
    BY NamesAssumption, NamesClosed DEF PrimaryName, Secrets
  <2> QED
    BY <2>1 DEF Init, OwnInv, OwnNames, IdleUnlessUp, Idle, TodoAliases, PutSteps, DeleteSteps
<1>2. TypeOK /\ OwnInv /\ [Next]_vars => OwnInv'
    BY OwnNamesKept, IdleUnlessUpKept, TodoKept DEF OwnInv
<1> QED
    BY <1>1, <1>2, TypeInvariant, PTL DEF Spec

(* The name of a secret never answers with another node's entry, and a PUT  *)
(* never inherits from one: for any number of requests at a time, with      *)
(* secrets of earlier versions, partial loads and crashes, provided that no *)
(* tag spells the name of a secret.                                         *)
THEOREM NamesAreOwn ==
    ASSUME TagsNeverShadow
    PROVE  Spec => []OwnNames
<1>1. OwnInv => OwnNames
    BY DEF OwnInv
<1> QED
    BY <1>1, OwnInvariant, PTL

-----------------------------------------------------------------------------
(* An alias is not taken from a node                                        *)

KeepsNodes ==
    \A n \in Names :
        Lookup[n] # None /\ Lookup'[n] # None => Lookup'[n].pubkey = Lookup[n].pubkey

LEMMA CheckedOwnedKept ==
    ASSUME OneRequest, TypeOK, OwnInv, CheckedOwned, [Next]_vars
    PROVE  CheckedOwned'
<1>1. ASSUME NEW r \in Requests, pc'[r] # "aliasWrite"
      PROVE  CheckedOwned'
    BY <1>1 DEF OneRequest, CheckedOwned
<1>2. ASSUME NEW r \in Requests, Client(r) \/ Returned(r)
      PROVE  CheckedOwned'
  <2>1. pc'[r] # "aliasWrite"
    BY <1>2, ClientEffect, ReturnedEffect DEF PutBegun, DeleteBegun
  <2> QED
    BY <2>1, <1>1
<1>3. ASSUME NEW r \in Requests, Handler(r)
      PROVE  CheckedOwned'
  <2>1. CASE AliasCheck(r)
    <3>1. /\ UNCHANGED Lookup /\ SameEntry(r)
          /\ pc'[r] = "aliasWrite" => Owned(Lookup, Concat(job'[r].tag, job[r].uid), job[r].data)
      BY <2>1, AliasCheckEffect
    <3>2. \A q \in Requests : q = r
      BY DEF OneRequest
    <3> QED
      BY <3>1, <3>2 DEF CheckedOwned, SameEntry, Owned
  <2>2. CASE ~AliasCheck(r)
    <3>1. pc'[r] # "aliasWrite"
      BY <1>3, <2>2, VerifiedEffect, AliasWriteEffect, PutPrimaryEffect, DeleteAliasEffect,
         DeletePrimaryEffect DEF Handler
    <3> QED
      BY <3>1, <1>1
  <2> QED
    BY <2>1, <2>2
<1>4. CASE InitialLoad \/ Crash \/ \E lost \in SUBSET Secrets : LoadSecrets(lost)
  <2>1. \A r \in Requests : pc'[r] = "idle"
    BY <1>4 DEF InitialLoad, Crash, LoadSecrets, handlerVars, OwnInv, IdleUnlessUp, Idle
  <2> QED
    BY <2>1 DEF CheckedOwned
<1>5. CASE Listen \/ UNCHANGED vars \/ \E r \in Requests : Attempt(r)
  <2>1. UNCHANGED <<Lookup, pc, job>>
    BY <1>5 DEF Listen, vars, Attempt, handlerVars
  <2> QED
    BY <2>1 DEF CheckedOwned, Owned
<1> QED
    BY <1>2, <1>3, <1>4, <1>5 DEF Next, Start

LEMMA NodesKept ==
    ASSUME TypeOK, OwnInv, CheckedOwned, [Next]_vars
    PROVE  KeepsNodes
<1>w. ASSUME NEW n, NEW v, Written(n, v),
             v # None /\ Lookup[n] # None => Lookup[n].pubkey = v.pubkey
      PROVE  KeepsNodes
    BY <1>w DEF Written, KeepsNodes
<1>1. ASSUME NEW r \in Requests, Handler(r)
      PROVE  KeepsNodes
  <2>1. CASE AliasWrite(r)
    <3>1. /\ Written(Concat(job[r].tag, job[r].uid), job[r].data)
          /\ pc[r] = "aliasWrite"
      BY <2>1, AliasWriteEffect
    <3>2. Owned(Lookup, Concat(job[r].tag, job[r].uid), job[r].data)
      BY <3>1 DEF CheckedOwned
    <3> QED
      BY <3>1, <3>2, <1>w DEF Owned
  <2>2. CASE PutPrimary(r)
    <3>1. Written(NameOf(r), job[r].data) /\ pc[r] = "alias"
      BY <2>2, PutPrimaryEffect
    <3>2. Lookup[NameOf(r)] # None => Lookup[NameOf(r)].pubkey = job[r].data.pubkey
      BY <3>1, HandlerJob DEF OwnInv, OwnNames, NameOf, PutSteps
    <3> QED
      BY <3>1, <3>2, <1>w
  <2>3. CASE DeleteAlias(r)
    <3>1. \E n : Written(n, None)
      BY <2>3, DeleteAliasEffect
    <3> QED
      BY <3>1, <1>w
  <2>4. CASE DeletePrimary(r)
    BY <2>4, DeletePrimaryEffect, <1>w
  <2>5. CASE (\E ok \in BOOLEAN : VerifyDone(r, ok) \/ PutVerified(r, ok)) \/ AliasCheck(r)
    BY <2>5, VerifiedEffect, AliasCheckEffect DEF KeepsNodes
  <2> QED
    BY <1>1, <2>1, <2>2, <2>3, <2>4, <2>5 DEF Handler
<1>2. CASE InitialLoad
  <2>1. PICK e \in toLoad : Lookup' = ToLookup(Lookup, e.data, e.uid)
    BY <1>2 DEF InitialLoad
  <2>2. e \in Entry /\ SecretOf(e) \in Secrets /\ SecretOf(e)[1] = e.data.pubkey
        /\ PrimaryName(SecretOf(e)) = Concat(e.data.pubkey, e.uid)
    BY SecretsTyped DEF TypeOK, SecretOf, Entry
  <2>3. ASSUME NEW n \in Names, Lookup[n] # None, n = PrimaryName(SecretOf(e))
        PROVE  Lookup[n].pubkey = e.data.pubkey
    BY <2>2, <2>3 DEF OwnInv, OwnNames
  <2>4. ASSUME NEW n \in Names, Lookup[n] # None, Lookup'[n] # Lookup[n]
        PROVE  Lookup'[n] = e.data /\ Lookup[n].pubkey = e.data.pubkey
    BY <2>1, <2>2, <2>3, <2>4 DEF ToLookup, Owned
  <2> QED
    BY <2>4 DEF KeepsNodes
<1>3. CASE Crash
    BY <1>3 DEF Crash, KeepsNodes
<1>4. ASSUME NEW r \in Requests, Client(r) \/ Returned(r) \/ Attempt(r)
      PROVE  UNCHANGED Lookup
    BY <1>4, ClientEffect, ReturnedEffect DEF Attempt
<1>5. ASSUME (\E lost \in SUBSET Secrets : LoadSecrets(lost)) \/ Listen \/ UNCHANGED vars
      PROVE  UNCHANGED Lookup
    BY <1>5 DEF LoadSecrets, Listen, vars
<1>6. UNCHANGED Lookup => KeepsNodes
    BY DEF KeepsNodes
<1> QED
    BY <1>1, <1>2, <1>3, <1>4, <1>5, <1>6 DEF Next, Start

(* No request that runs by itself, no load and no restart makes a name of   *)
(* one node's entry a name of another node's: toLookup leaves an alias to   *)
(* the node that has it, and the names it does not look at before it writes *)
(* them are the node's own.  (Of two PUTs at a time, each can find the      *)
(* alias free.)                                                             *)
THEOREM AliasesStay ==
    ASSUME OneRequest, TagsNeverShadow
    PROVE  Spec => AliasNeverStolen
<1>1. Init => CheckedOwned
    BY DEF Init, CheckedOwned
<1>2. TypeOK /\ OwnInv /\ CheckedOwned /\ [Next]_vars => CheckedOwned'
    BY CheckedOwnedKept
<1>3. TypeOK /\ OwnInv /\ CheckedOwned /\ [Next]_vars =>
        [\A n \in Names : Lookup[n] # None /\ Lookup'[n] # None =>
            Lookup'[n].pubkey = Lookup[n].pubkey]_Lookup
    BY NodesKept DEF KeepsNodes
<1> QED
    BY <1>1, <1>2, <1>3, TypeInvariant, OwnInvariant, PTL DEF Spec, AliasNeverStolen

-----------------------------------------------------------------------------
(* Every entry has the tags its node keeps                                  *)

LEMMA SameAliases ==
    ASSUME NEW d, NEW e, KeepsTags(d), KeepsTags(e), d.pubkey = e.pubkey, NEW u
    PROVE  Aliases(d, u) = Aliases(e, u)
BY DEF KeepsTags, Aliases

LEMMA GivenTags ==
    ASSUME TagsKept
    PROVE  /\ \A b \in Bodies : KeepsTags(b)
           /\ \A e \in LegacySecrets : KeepsTags(e.data)
           /\ \A f \in InitialSecrets, s \in Secrets : f[s] # None => KeepsTags(f[s])
BY DEF TagsKept, Given

(* What can be found in a step where there was something else before.       *)
LEMMA CallsEffect ==
    ASSUME TypeOK, [Next]_vars, NEW r \in Requests, calls'[r] # NoCall
    PROVE  \/ calls[r] # NoCall /\ calls'[r].value = calls[r].value
           \/ calls'[r].value = None
           \/ pc[r] = "alias" /\ calls'[r].value = job[r].data
<1>i. ASSUME NEW q \in Requests, NEW s, NEW v, Manager!Invoke(q, s, v)
      PROVE  calls'[r] = calls[r] \/ (q = r /\ calls'[r].value = v)
  <2>1. calls' = [calls EXCEPT ![q] = [secret |-> s, value |-> v, applied |-> FALSE]]
    BY <1>i DEF Manager!Invoke
  <2> QED
    BY <2>1 DEF TypeOK, Manager!StoreTypeOK
<1>1. CASE UNCHANGED calls
    BY <1>1
<1>2. ASSUME NEW q \in Requests, Client(q)
      PROVE  calls'[r] = calls[r] \/ calls'[r].value = None
  <2>1. UNCHANGED calls \/ \E s : Manager!Invoke(q, s, None)
    BY <1>2 DEF Client, InvalidUniqueID, GetHandler, QueryHandler, VerifyHandler, PutHandler,
                DeleteHandler, NoEffect, managerVars
  <2> QED
    BY <2>1, <1>i
<1>3. ASSUME NEW q \in Requests, Handler(q)
      PROVE  calls'[r] = calls[r] \/ (pc[r] = "alias" /\ calls'[r].value = job[r].data)
  <2>1. CASE PutPrimary(q)
    <3>1. pc[q] = "alias" /\ Manager!Invoke(q, SecretOf(job[q]), job[q].data)
      BY <2>1, PutPrimaryEffect
    <3> QED
      BY <3>1, <1>i
  <2>2. CASE ~PutPrimary(q)
    BY <1>3, <2>2, VerifiedEffect, AliasCheckEffect, AliasWriteEffect, DeleteAliasEffect,
       DeletePrimaryEffect DEF Handler, Quiet
  <2> QED
    BY <2>1, <2>2
<1>4. ASSUME NEW q \in Requests, Returned(q)
      PROVE  calls'[r] = calls[r]
  <2>1. calls' = [calls EXCEPT ![q] = NoCall]
    BY <1>4, ReturnedEffect DEF Manager!Succeed, Manager!Fail
  <2> QED
    BY <2>1 DEF TypeOK, Manager!StoreTypeOK
<1>5. ASSUME NEW q \in Requests, Attempt(q)
      PROVE  calls[r] # NoCall /\ calls'[r].value = calls[r].value
  <2>1. calls[q] # NoCall /\ calls' = [calls EXCEPT ![q].applied = TRUE]
    BY <1>5 DEF Attempt, Manager!Apply
  <2>2. calls[q] \in Manager!Call
    BY <2>1 DEF TypeOK, Manager!StoreTypeOK
  <2>3. calls'[r] = calls[r] \/ (q = r /\ calls'[r].value = calls[r].value)
    BY <2>1, <2>2 DEF TypeOK, Manager!StoreTypeOK, Manager!Call
  <2> QED
    BY <2>1, <2>3
<1>6. ~Crash
    BY DEF Crash, Manager!Abandon
<1>7. Start \/ UNCHANGED vars => UNCHANGED calls
    BY DEF Start, LoadSecrets, InitialLoad, Listen, managerVars, vars
<1> QED
    BY <1>1, <1>2, <1>3, <1>4, <1>5, <1>6, <1>7 DEF Next

LEMMA StoreEffect ==
    ASSUME TypeOK, [Next]_vars, NEW s \in Secrets
    PROVE  \/ store'[s] = store[s]
           \/ \E r \in Requests : calls[r] # NoCall /\ store'[s] = calls[r].value
<1>1. ASSUME NEW r \in Requests, Attempt(r)
      PROVE  store'[s] = store[s] \/ (calls[r] # NoCall /\ store'[s] = calls[r].value)
    BY <1>1 DEF Attempt, Manager!Apply, TypeOK, Manager!StoreTypeOK
<1>2. ASSUME NEW r \in Requests, Client(r) \/ Handler(r) \/ Returned(r)
      PROVE  UNCHANGED store
    BY <1>2, ClientEffect, ReturnedEffect, VerifiedEffect, AliasCheckEffect, AliasWriteEffect,
       PutPrimaryEffect, DeleteAliasEffect, DeletePrimaryEffect DEF Handler, Quiet
<1>3. Start \/ Crash \/ UNCHANGED vars => UNCHANGED store
    BY DEF Start, LoadSecrets, InitialLoad, Listen, managerVars, vars, Crash, Manager!Abandon
<1> QED
    BY <1>1, <1>2, <1>3 DEF Next

LEMMA LookupEffect ==
    ASSUME TypeOK, [Next]_vars, NEW n \in Names
    PROVE  \/ Lookup'[n] = Lookup[n]
           \/ Lookup'[n] = None
           \/ \E r \in Requests : pc[r] \in PutSteps /\ Lookup'[n] = job[r].data
           \/ \E e \in toLoad : Lookup'[n] = e.data
<1>1. ASSUME NEW r \in Requests, Handler(r)
      PROVE  \/ Lookup'[n] = Lookup[n] \/ Lookup'[n] = None
             \/ pc[r] \in PutSteps /\ Lookup'[n] = job[r].data
  <2>1. \/ UNCHANGED Lookup
        \/ \E m : Written(m, None)
        \/ pc[r] \in PutSteps /\ \E m : Written(m, job[r].data)
    BY <1>1, VerifiedEffect, AliasCheckEffect, AliasWriteEffect, PutPrimaryEffect,
       DeleteAliasEffect, DeletePrimaryEffect DEF Handler, PutSteps
  <2> QED
    BY <2>1 DEF Written
<1>2. InitialLoad => Lookup'[n] = Lookup[n] \/ \E e \in toLoad : Lookup'[n] = e.data
    BY DEF InitialLoad, ToLookup
<1>3. Crash => Lookup'[n] = None
    BY DEF Crash
<1>4. ASSUME \/ \E r \in Requests : Client(r) \/ Returned(r) \/ Attempt(r)
             \/ \E lost \in SUBSET Secrets : LoadSecrets(lost)
             \/ Listen \/ UNCHANGED vars
      PROVE  UNCHANGED Lookup
    BY <1>4, ClientEffect, ReturnedEffect DEF Attempt, LoadSecrets, Listen, vars
<1> QED
    BY <1>1, <1>2, <1>3, <1>4 DEF Next, Start

LEMMA JobEffect ==
    ASSUME TypeOK, [Next]_vars, NEW r \in Requests, pc'[r] \in PutSteps \cup DeleteSteps
    PROVE  \/ PutBegun(r) \/ DeleteBegun(r)
           \/ pc[r] \in PutSteps \cup DeleteSteps /\ job'[r].data = job[r].data
<1> DEFINE Same == pc[r] \in PutSteps \cup DeleteSteps /\ job'[r].data = job[r].data
<1>0. pc'[r] \notin {"idle", "check"}
    BY DEF PutSteps, DeleteSteps
<1>1. ASSUME NEW q \in Requests, Others(q), q # r
      PROVE  Same
    BY <1>1 DEF Others
<1>2. ASSUME Client(r)
      PROVE  PutBegun(r) \/ DeleteBegun(r)
    BY <1>2, <1>0, ClientEffect
<1>3. ASSUME Handler(r) \/ Returned(r)
      PROVE  Same
    BY <1>3, <1>0, VerifiedEffect, AliasCheckEffect, AliasWriteEffect, PutPrimaryEffect,
       DeleteAliasEffect, DeletePrimaryEffect, ReturnedEffect
    DEF Handler, SameEntry, PutSteps, DeleteSteps
<1>4. ASSUME NEW q \in Requests, Client(q) \/ Handler(q) \/ Returned(q)
      PROVE  Others(q)
    BY <1>4, ClientEffect, VerifiedEffect, AliasCheckEffect, AliasWriteEffect, PutPrimaryEffect,
       DeleteAliasEffect, DeletePrimaryEffect, ReturnedEffect DEF Handler
<1>5. ~Crash
    BY <1>0 DEF Crash
<1>6. ASSUME Start \/ UNCHANGED vars \/ \E q \in Requests : Attempt(q)
      PROVE  Same
    BY <1>6 DEF Start, LoadSecrets, InitialLoad, Listen, Attempt, vars, handlerVars
<1> HIDE DEF Same
<1>7. PutBegun(r) \/ DeleteBegun(r) \/ Same
    BY <1>1, <1>2, <1>3, <1>4, <1>5, <1>6 DEF Next
<1> QED
    BY <1>7 DEF Same

LEMMA KeptTagsKept ==
    ASSUME TagsKept, TypeOK, KeptTags, [Next]_vars
    PROVE  KeptTags'
<1>1. ASSUME NEW s \in Secrets, store'[s] # None
      PROVE  KeepsTags(store'[s])
    BY <1>1, StoreEffect DEF KeptTags
<1>2. ASSUME NEW r \in Requests, calls'[r] # NoCall, calls'[r].value # None
      PROVE  KeepsTags(calls'[r].value)
    BY <1>2, CallsEffect DEF KeptTags, PutSteps
<1>3. ASSUME NEW r \in Requests, pc'[r] \in PutSteps \cup DeleteSteps
      PROVE  KeepsTags(job'[r].data)
  <2>1. CASE PutBegun(r)
    <3>1. PICK b \in Bodies, u \in UniqueIds, c \in Certificates \cup {Empty} :
            /\ ~Rejected(b, Found(b.pubkey, u), Merged(b, Found(b.pubkey, u), c))
            /\ job'[r].data = Merged(b, Found(b.pubkey, u), c)
      BY <2>1 DEF PutBegun
    <3>2. b.pubkey \in BaseNames
      BY <3>1, NamesAssumption DEF Rejected
    <3>3. Found(b.pubkey, u) \in Data \cup {None}
      BY <3>2, NamesClosed DEF Found, TypeOK
    <3>4. job'[r].data.pubkey = b.pubkey /\ job'[r].data.tags = b.tags
      BY <3>1, <3>3, BodiesAssumption, MergedFields
    <3> QED
      BY <3>4, GivenTags DEF KeepsTags
  <2>2. CASE DeleteBegun(r)
    BY <2>2 DEF DeleteBegun, KeptTags
  <2> QED
    BY <1>3, <2>1, <2>2, JobEffect DEF KeptTags
<1>4. ASSUME NEW e \in toLoad'
      PROVE  KeepsTags(e.data)
  <2>1. ASSUME NEW lost \in SUBSET Secrets, LoadSecrets(lost)
        PROVE  e \in LegacySecrets \/ \E s \in Secrets : store[s] # None /\ e.data = store[s]
    BY <2>1 DEF LoadSecrets
  <2>2. toLoad' \subseteq toLoad \/ \E lost \in SUBSET Secrets : LoadSecrets(lost)
    <3>1. ASSUME NEW r \in Requests, Client(r) \/ Handler(r) \/ Returned(r)
          PROVE  UNCHANGED toLoad
      BY <3>1, ClientEffect, ReturnedEffect, VerifiedEffect, AliasCheckEffect, AliasWriteEffect,
         PutPrimaryEffect, DeleteAliasEffect, DeletePrimaryEffect DEF Handler, Quiet
    <3>2. ASSUME InitialLoad \/ Listen \/ Crash \/ UNCHANGED vars \/ \E r \in Requests : Attempt(r)
          PROVE  toLoad' \subseteq toLoad
      BY <3>2 DEF InitialLoad, Listen, Crash, vars, Attempt, loadVars
    <3> QED
      BY <3>1, <3>2 DEF Next, Start
  <2> QED
    BY <2>1, <2>2, GivenTags DEF KeptTags
<1>5. ASSUME NEW n \in Names, Lookup'[n] # None
      PROVE  KeepsTags(Lookup'[n])
    BY <1>5, LookupEffect DEF KeptTags
<1> QED
    BY <1>1, <1>2, <1>3, <1>4, <1>5 DEF KeptTags, KeepsTags, TagsOf, Given

-----------------------------------------------------------------------------
(* No name is left behind                                                   *)

Known(n, s) ==
    s[1] = Lookup[n].pubkey /\ NamedBy(n, s) /\ (UpToDate(n, s) \/ Ahead(n, s))

(* With one request: a name is known if r leaves it alone or will come to   *)
(* it, or has been there.                                                   *)
LEMMA KnownNext ==
    ASSUME OneRequest, NEW r \in Requests, NEW n, NEW s \in Secrets,
           s[1] = Lookup'[n].pubkey,
           n = PrimaryName(s) \/ \E v \in Aliases(Lookup'[n], s[2]) : n = Concat(v, s[2]),
           \/ /\ Lookup'[n] = Lookup'[PrimaryName(s)]
              /\ Rewriting(r)' /\ SecretOf(job'[r]) = s => n \in ToWrite(r)'
           \/ /\ pc'[r] \in {"alias", "aliasWrite"}
              /\ SecretOf(job'[r]) = s /\ Lookup'[n] = job'[r].data
    PROVE  Known(n, s)'
<1>1. \A q \in Requests : q = r
    BY DEF OneRequest
<1>2. NamedBy(n, s)'
    BY DEF NamedBy, PrimaryName, Aliases
<1>3. (UpToDate(n, s) \/ Ahead(n, s))'
    BY <1>1 DEF UpToDate, Ahead, SecretOf, PrimaryName
<1> QED
    BY <1>2, <1>3 DEF Known

(* The same, of what is known before a step.                                *)
LEMMA KnownNow ==
    ASSUME OneRequest, NEW r \in Requests, NEW n, NEW s \in Secrets, Known(n, s)
    PROVE  /\ s[1] = Lookup[n].pubkey
           /\ n = PrimaryName(s) \/ \E v \in Aliases(Lookup[n], s[2]) : n = Concat(v, s[2])
           /\ \/ /\ Lookup[n] = Lookup[PrimaryName(s)]
                 /\ Rewriting(r) /\ SecretOf(job[r]) = s => n \in ToWrite(r)
              \/ /\ pc[r] \in {"alias", "aliasWrite"}
                 /\ SecretOf(job[r]) = s /\ Lookup[n] = job[r].data
BY DEF OneRequest, Known, NamedBy, UpToDate, Ahead

(* A handler that is to write every alias of an entry of the node comes to  *)
(* every name that is known of the secret.                                  *)
LEMMA EveryNameToWrite ==
    ASSUME NEW n, NEW s \in Secrets, NEW d, NEW e,
           KeepsTags(d), KeepsTags(e), d.pubkey = s[1], e.pubkey = s[1],
           n = PrimaryName(s) \/ \E v \in Aliases(d, s[2]) : n = Concat(v, s[2])
    PROVE  n \in {Concat(v, s[2]) : v \in Aliases(e, s[2])} \cup {PrimaryName(s)}
BY SameAliases

(* Steps that leave Lookup alone.                                           *)
LEMMA KnownWhileQuiet ==
    ASSUME OneRequest, TypeOK, AliasInv, KeptTags', NEW r \in Requests,
           UNCHANGED Lookup,
           \/ ~Rewriting(r)' /\ pc[r] \notin {"alias", "aliasWrite"}
           \/ /\ pc[r] \notin {"alias", "aliasWrite"} /\ pc'[r] \in {"verify", "alias", "unalias"}
              /\ job'[r].data \in Data
              /\ job'[r].todo = Aliases(job'[r].data, job'[r].uid)
           \/ /\ Rewriting(r) /\ Rewriting(r)' /\ SameEntry(r)
              /\ pc[r] \in {"alias", "aliasWrite"} => pc'[r] \in {"alias", "aliasWrite"}
              /\ \A n \in ToWrite(r) : Owned(Lookup, n, job[r].data) => n \in ToWrite(r)'
    PROVE  EachNameKnown'
<1> SUFFICES ASSUME NEW n \in Names, Lookup'[n] # None
             PROVE  \E s \in Secrets : Known(n, s)'
    BY DEF EachNameKnown, Known
<1>1. Lookup'[n] = Lookup[n]
    OBVIOUS
<1>2. PICK s \in Secrets : Known(n, s)
    BY <1>1 DEF AliasInv, EachNameKnown, Known
<1>3. /\ s[1] = Lookup[n].pubkey
      /\ n = PrimaryName(s) \/ \E v \in Aliases(Lookup[n], s[2]) : n = Concat(v, s[2])
      /\ \/ /\ Lookup[n] = Lookup[PrimaryName(s)]
            /\ Rewriting(r) /\ SecretOf(job[r]) = s => n \in ToWrite(r)
         \/ /\ pc[r] \in {"alias", "aliasWrite"}
            /\ SecretOf(job[r]) = s /\ Lookup[n] = job[r].data
    BY <1>2, KnownNow
<1>4. CASE ~Rewriting(r)' /\ pc[r] \notin {"alias", "aliasWrite"}
    BY <1>1, <1>3, <1>4, KnownNext
<1>5. CASE /\ pc[r] \notin {"alias", "aliasWrite"} /\ pc'[r] \in {"verify", "alias", "unalias"}
           /\ job'[r].data \in Data
           /\ job'[r].todo = Aliases(job'[r].data, job'[r].uid)
  <2>1. ASSUME SecretOf(job'[r]) = s
        PROVE  n \in ToWrite(r)'
    <3>1. job'[r].data.pubkey = s[1] /\ job'[r].uid = s[2]
      BY <2>1 DEF SecretOf
    <3>2. KeepsTags(job'[r].data) /\ KeepsTags(Lookup[n])
      BY <1>1, <1>5 DEF KeptTags, AliasInv, PutSteps, DeleteSteps
    <3>3. n \in {Concat(v, s[2]) : v \in Aliases(job'[r].data, s[2])} \cup {PrimaryName(s)}
      BY <1>3, <3>1, <3>2, EveryNameToWrite
    <3> QED
      BY <1>5, <2>1, <3>1, <3>3 DEF ToWrite, SecretOf, PrimaryName
  <2> QED
    BY <1>1, <1>3, <1>5, <2>1, KnownNext
<1>6. CASE /\ Rewriting(r) /\ Rewriting(r)' /\ SameEntry(r)
           /\ pc[r] \in {"alias", "aliasWrite"} => pc'[r] \in {"alias", "aliasWrite"}
           /\ \A m \in ToWrite(r) : Owned(Lookup, m, job[r].data) => m \in ToWrite(r)'
  <2>1. SecretOf(job'[r]) = SecretOf(job[r])
    BY <1>6 DEF SameEntry, SecretOf
  <2>2. SecretOf(job[r]) = s => Owned(Lookup, n, job[r].data)
    BY <1>3 DEF Owned, SecretOf
  <2> QED
    BY <1>1, <1>3, <1>6, <2>1, <2>2, KnownNext DEF SameEntry
<1> QED
    BY <1>4, <1>5, <1>6

LEMMA ClientKnown ==
    ASSUME OneRequest, TypeOK, AliasInv, KeptTags', NEW r \in Requests, Client(r)
    PROVE  EachNameKnown'
<1>1. /\ UNCHANGED Lookup /\ pc[r] = "idle"
      /\ pc'[r] \in {"idle", "check"} \/ PutBegun(r) \/ DeleteBegun(r)
    BY ClientEffect
<1>2. CASE PutBegun(r)
  <2>1. /\ pc'[r] \in {"verify", "alias"} /\ job'[r].data \in Data
        /\ job'[r].todo = Aliases(job'[r].data, job'[r].uid)
    BY <1>2 DEF PutBegun, Job
  <2> QED
    BY <1>1, <2>1, KnownWhileQuiet
<1>3. CASE pc'[r] \in {"idle", "check"} \/ DeleteBegun(r)
  <2>1. ~Rewriting(r)'
    BY <1>3 DEF DeleteBegun, Rewriting
  <2> QED
    BY <1>1, <2>1, KnownWhileQuiet
<1> QED
    BY <1>1, <1>2, <1>3

LEMMA ReturnedKnown ==
    ASSUME OneRequest, TypeOK, AliasInv, KeptTags', NEW r \in Requests, Returned(r)
    PROVE  EachNameKnown'
<1>1. /\ UNCHANGED Lookup /\ pc[r] \in {"storing", "deleting"}
      /\ \/ pc'[r] = "idle"
         \/ /\ pc'[r] = "unalias" /\ SameEntry(r)
            /\ job'[r].todo = Aliases(job[r].data, job[r].uid)
    BY ReturnedEffect
<1>2. CASE pc'[r] = "idle"
    BY <1>1, <1>2, KnownWhileQuiet DEF Rewriting
<1>3. CASE /\ pc'[r] = "unalias" /\ SameEntry(r)
           /\ job'[r].todo = Aliases(job[r].data, job[r].uid)
  <2>1. job[r].data \in Data
    BY <1>1, HandlerJob DEF PutSteps, DeleteSteps
  <2>2. job'[r].data \in Data /\ job'[r].todo = Aliases(job'[r].data, job'[r].uid)
    BY <1>3, <2>1 DEF SameEntry
  <2> QED
    BY <1>1, <1>3, <2>2, KnownWhileQuiet
<1> QED
    BY <1>1, <1>2, <1>3

LEMMA VerifiedKnown ==
    ASSUME OneRequest, TypeOK, AliasInv, KeptTags', NEW r \in Requests, NEW ok,
           VerifyDone(r, ok) \/ PutVerified(r, ok)
    PROVE  EachNameKnown'
<1>1. /\ UNCHANGED Lookup /\ pc[r] \in {"check", "verify"}
      /\ pc'[r] = "idle" \/ (pc[r] = "verify" /\ pc'[r] = "alias" /\ job'[r] = job[r])
    BY VerifiedEffect
<1>2. CASE pc'[r] = "idle"
    BY <1>1, <1>2, KnownWhileQuiet DEF Rewriting
<1>3. CASE pc[r] = "verify" /\ pc'[r] = "alias" /\ job'[r] = job[r]
  <2>1. Rewriting(r) /\ Rewriting(r)' /\ SameEntry(r)
    BY <1>3 DEF Rewriting, SameEntry
  <2>2. \A n \in ToWrite(r) : n \in ToWrite(r)'
    BY <1>3 DEF ToWrite, SecretOf, PrimaryName
  <2> QED
    BY <1>1, <1>3, <2>1, <2>2, KnownWhileQuiet
<1> QED
    BY <1>1, <1>2, <1>3

(* An alias that is another node's, and left to it, is no name of the       *)
(* entry that is overwritten.                                               *)
LEMMA AliasCheckKnown ==
    ASSUME OneRequest, TypeOK, AliasInv, KeptTags', NEW r \in Requests, AliasCheck(r)
    PROVE  EachNameKnown'
<1>1. UNCHANGED Lookup /\ SameEntry(r) /\ pc[r] = "alias" /\ pc'[r] \in {"alias", "aliasWrite"}
    BY AliasCheckEffect
<1>2. Rewriting(r) /\ Rewriting(r)'
    BY <1>1 DEF Rewriting
<1>3. ASSUME NEW n \in ToWrite(r), Owned(Lookup, n, job[r].data)
      PROVE  n \in ToWrite(r)'
  <2>1. PICK v \in job[r].todo :
           \/ pc'[r] = "aliasWrite" /\ job'[r].todo = job[r].todo
           \/ /\ job'[r].todo = job[r].todo \ {v}
              /\ ~Owned(Lookup, Concat(v, job[r].uid), job[r].data)
    BY AliasCheckEffect
  <2>2. n = PrimaryName(SecretOf(job[r])) \/ \E w \in job[r].todo : n = Concat(w, job[r].uid)
    BY <1>1 DEF ToWrite
  <2>3. n = PrimaryName(SecretOf(job[r])) \/ \E w \in job'[r].todo : n = Concat(w, job[r].uid)
    BY <1>3, <2>1, <2>2
  <2>4. job'[r].uid = job[r].uid /\ SecretOf(job'[r]) = SecretOf(job[r])
    BY <1>1 DEF SameEntry, SecretOf
  <2> QED
    BY <2>3, <2>4 DEF ToWrite, PrimaryName
<1> QED
    BY <1>1, <1>2, <1>3, KnownWhileQuiet

LEMMA AliasWriteKnown ==
    ASSUME OneRequest, TagsNeverShadow, TypeOK, AliasInv, NEW r \in Requests, AliasWrite(r)
    PROVE  EachNameKnown'
<1> DEFINE m == Concat(job[r].tag, job[r].uid)
<1>0. PICK t : t = SecretOf(job[r])
    OBVIOUS
<1>1. /\ Written(m, job[r].data) /\ SameEntry(r)
      /\ pc[r] = "aliasWrite" /\ pc'[r] = "alias"
      /\ job'[r].todo = job[r].todo \ {job[r].tag}
    BY AliasWriteEffect
<1>2. t \in Secrets /\ t[1] = job[r].data.pubkey /\ t[2] = job[r].uid
    BY <1>0, <1>1, HandlerJob DEF PutSteps
<1>3. SecretOf(job'[r]) = t /\ job'[r].data = job[r].data /\ job'[r].uid = job[r].uid
    BY <1>0, <1>1 DEF SameEntry, SecretOf
<1>4. \A s \in Secrets : m # PrimaryName(s) /\ PrimaryName(s) \in Names
    BY <1>1, TodoIsNotPrimary, NamesAssumption, NamesClosed
    DEF AliasInv, PutSteps, PrimaryName, Secrets
<1>5. job[r].tag \in Aliases(job[r].data, job[r].uid)
    BY <1>1 DEF AliasInv, TodoAliases, PutSteps
<1> SUFFICES ASSUME NEW n \in Names, Lookup'[n] # None
             PROVE  \E s \in Secrets : Known(n, s)'
    BY DEF EachNameKnown, Known
<1>6. CASE n = m
  <2>1. Lookup'[n] = job[r].data
    BY <1>1, <1>6 DEF Written
  <2>2. Known(n, t)'
    BY <1>1, <1>2, <1>3, <1>5, <1>6, <2>1, KnownNext
  <2> QED
    BY <1>2, <2>2
<1>7. CASE n # m
  <2>1. Lookup'[n] = Lookup[n] /\ \A s \in Secrets : Lookup'[PrimaryName(s)] = Lookup[PrimaryName(s)]
    BY <1>1, <1>4, <1>7 DEF Written
  <2>2. PICK s \in Secrets : Known(n, s)
    BY <2>1 DEF AliasInv, EachNameKnown, Known
  <2>3. n \in ToWrite(r) => n \in ToWrite(r)'
    BY <1>0, <1>1, <1>3, <1>7 DEF ToWrite, PrimaryName
  <2>4. Known(n, s)'
    BY <1>0, <1>1, <1>3, <2>1, <2>2, <2>3, KnownNow, KnownNext DEF Rewriting
  <2> QED
    BY <2>4
<1> QED
    BY <1>6, <1>7

(* The name of the secret is written last: every other name of it has been. *)
LEMMA PutPrimaryKnown ==
    ASSUME OneRequest, TypeOK, AliasInv, NEW r \in Requests, PutPrimary(r)
    PROVE  EachNameKnown'
<1>0. PICK t : t = SecretOf(job[r])
    OBVIOUS
<1>1. /\ Written(NameOf(r), job[r].data)
      /\ pc[r] = "alias" /\ pc'[r] = "storing" /\ job[r].todo = {}
    BY PutPrimaryEffect
<1>2. t \in Secrets /\ t[1] = job[r].data.pubkey /\ NameOf(r) = PrimaryName(t)
    BY <1>0, <1>1, HandlerJob DEF PutSteps, NameOf
<1>3. ~Rewriting(r)' /\ Rewriting(r) /\ ToWrite(r) = {PrimaryName(t)}
    BY <1>0, <1>1 DEF Rewriting, ToWrite
<1>4. Lookup'[PrimaryName(t)] = job[r].data
    BY <1>1, <1>2 DEF Written
<1> SUFFICES ASSUME NEW n \in Names, Lookup'[n] # None
             PROVE  \E s \in Secrets : Known(n, s)'
    BY DEF EachNameKnown, Known
<1>5. CASE n = PrimaryName(t)
    BY <1>2, <1>3, <1>4, <1>5, KnownNext
<1>6. CASE n # PrimaryName(t)
  <2>1. Lookup'[n] = Lookup[n]
    BY <1>1, <1>2, <1>6 DEF Written
  <2>2. PICK s \in Secrets : Known(n, s)
    BY <2>1 DEF AliasInv, EachNameKnown, Known
  <2>3. Lookup'[n] = Lookup'[PrimaryName(s)]
    <3>1. CASE s = t
      BY <1>0, <1>3, <1>4, <1>6, <2>1, <2>2, <3>1, KnownNow
    <3>2. CASE s # t
      <4>1. PrimaryName(s) # PrimaryName(t) /\ PrimaryName(s) \in Names
        BY <1>2, <3>2, PrimaryNamesDiffer, NamesAssumption, NamesClosed DEF PrimaryName, Secrets
      <4> QED
        BY <1>0, <1>1, <1>2, <2>1, <2>2, <3>2, <4>1, KnownNow DEF Written
    <3> QED
      BY <3>1, <3>2
  <2>4. /\ s[1] = Lookup'[n].pubkey
        /\ n = PrimaryName(s) \/ \E v \in Aliases(Lookup'[n], s[2]) : n = Concat(v, s[2])
    BY <2>1, <2>2, KnownNow
  <2>5. Known(n, s)'
    BY <1>3, <2>3, <2>4, KnownNext
  <2> QED
    BY <2>5
<1> QED
    BY <1>5, <1>6

LEMMA DeleteAliasKnown ==
    ASSUME OneRequest, TagsNeverShadow, TypeOK, AliasInv, NEW r \in Requests, DeleteAlias(r)
    PROVE  EachNameKnown'
<1>1. SameEntry(r) /\ pc[r] = "unalias" /\ pc'[r] = "unalias"
    BY DeleteAliasEffect
<1>2. PICK v \in job[r].todo : /\ Written(Concat(v, job[r].uid), None)
                               /\ job'[r].todo = job[r].todo \ {v}
    BY DeleteAliasEffect
<1>3. \A s \in Secrets : Concat(v, job[r].uid) # PrimaryName(s) /\ PrimaryName(s) \in Names
    BY <1>1, TodoIsNotPrimary, NamesAssumption, NamesClosed
    DEF AliasInv, DeleteSteps, PrimaryName, Secrets
<1>4. SecretOf(job'[r]) = SecretOf(job[r]) /\ job'[r].uid = job[r].uid
    BY <1>1 DEF SameEntry, SecretOf
<1> SUFFICES ASSUME NEW n \in Names, Lookup'[n] # None
             PROVE  \E s \in Secrets : Known(n, s)'
    BY DEF EachNameKnown, Known
<1>5. /\ n # Concat(v, job[r].uid) /\ Lookup'[n] = Lookup[n]
      /\ \A s \in Secrets : Lookup'[PrimaryName(s)] = Lookup[PrimaryName(s)]
    BY <1>2, <1>3 DEF Written
<1>6. PICK s \in Secrets : Known(n, s)
    BY <1>5 DEF AliasInv, EachNameKnown, Known
<1>7. n \in ToWrite(r) => n \in ToWrite(r)'
    BY <1>1, <1>2, <1>4, <1>5 DEF ToWrite, PrimaryName
<1>8. Known(n, s)'
    BY <1>1, <1>4, <1>5, <1>6, <1>7, KnownNow, KnownNext DEF Rewriting
<1> QED
    BY <1>8

LEMMA DeletePrimaryKnown ==
    ASSUME OneRequest, TypeOK, AliasInv, NEW r \in Requests, DeletePrimary(r)
    PROVE  EachNameKnown'
<1>1. PICK t : t = SecretOf(job[r])
    OBVIOUS
<1>2. /\ Written(NameOf(r), None)
      /\ pc[r] = "unalias" /\ pc'[r] = "idle" /\ job[r].todo = {}
    BY DeletePrimaryEffect
<1>3. t \in Secrets /\ NameOf(r) = PrimaryName(t)
    BY <1>1, <1>2, HandlerJob DEF DeleteSteps, NameOf
<1>4. ~Rewriting(r)' /\ Rewriting(r) /\ ToWrite(r) = {PrimaryName(t)}
    BY <1>1, <1>2 DEF Rewriting, ToWrite
<1> SUFFICES ASSUME NEW n \in Names, Lookup'[n] # None
             PROVE  \E s \in Secrets : Known(n, s)'
    BY DEF EachNameKnown, Known
<1>5. n # PrimaryName(t) /\ Lookup'[n] = Lookup[n]
    BY <1>2, <1>3 DEF Written
<1>6. PICK s \in Secrets : Known(n, s)
    BY <1>5 DEF AliasInv, EachNameKnown, Known
<1>7. /\ s[1] = Lookup[n].pubkey
      /\ n = PrimaryName(s) \/ \E v \in Aliases(Lookup[n], s[2]) : n = Concat(v, s[2])
      /\ Lookup[n] = Lookup[PrimaryName(s)]
      /\ s # t
    BY <1>1, <1>2, <1>4, <1>5, <1>6, KnownNow
<1>8. PrimaryName(s) # PrimaryName(t) /\ PrimaryName(s) \in Names
    BY <1>3, <1>7, PrimaryNamesDiffer, NamesAssumption, NamesClosed DEF PrimaryName, Secrets
<1>9. Lookup'[n] = Lookup'[PrimaryName(s)]
    BY <1>2, <1>3, <1>5, <1>7, <1>8 DEF Written
<1>10. Known(n, s)'
    BY <1>4, <1>5, <1>7, <1>9, KnownNext
<1> QED
    BY <1>10

(* A load puts an entry under all the names that an entry of its secret     *)
(* that was loaded or put before can have.                                  *)
LEMMA LoadedKnown ==
    ASSUME OneRequest, TagsNeverShadow, TypeOK, AliasInv, KeptTags', InitialLoad
    PROVE  EachNameKnown'
<1>1. PICK e \in toLoad : Lookup' = ToLookup(Lookup, e.data, e.uid)
    BY DEF InitialLoad
<1>2. PICK t : t = SecretOf(e)
    OBVIOUS
<1>3. /\ e \in Entry /\ t \in Secrets /\ t[1] = e.data.pubkey /\ t[2] = e.uid
      /\ PrimaryName(t) = Concat(e.data.pubkey, e.uid)
    BY <1>2, SecretsTyped DEF TypeOK, SecretOf, Entry
<1>4. \A s \in Secrets :
        Lookup'[PrimaryName(s)] = IF s = t THEN e.data ELSE Lookup[PrimaryName(s)]
    BY <1>1, <1>2, <1>3, LoadedPrimary
<1>5. \A r \in Requests : pc[r] = "idle" /\ pc'[r] = "idle"
    BY DEF InitialLoad, AliasInv, IdleUnlessUp, Idle, handlerVars
<1> SUFFICES ASSUME NEW n \in Names, Lookup'[n] # None
             PROVE  \E s \in Secrets : Known(n, s)'
    BY DEF EachNameKnown, Known
<1>6. ASSUME NEW s \in Secrets, NamedBy(n, s)', s[1] = Lookup'[n].pubkey,
             Lookup'[n] = Lookup'[PrimaryName(s)]
      PROVE  Known(n, s)'
    BY <1>5, <1>6 DEF Known, UpToDate, Rewriting, PrimaryName
<1>7. CASE \/ n = Concat(e.data.pubkey, e.uid)
           \/ \E v \in Aliases(e.data, e.uid) : n = Concat(v, e.uid) /\ Owned(Lookup, n, e.data)
  <2>1. Lookup'[n] = e.data
    BY <1>1, <1>7 DEF ToLookup
  <2>2. NamedBy(n, t)'
    BY <1>3, <1>7, <2>1 DEF NamedBy, PrimaryName, Aliases
  <2>3. Known(n, t)'
    BY <1>3, <1>4, <1>6, <2>1, <2>2
  <2> QED
    BY <1>3, <2>3
<1>8. CASE ~ \/ n = Concat(e.data.pubkey, e.uid)
             \/ \E v \in Aliases(e.data, e.uid) : n = Concat(v, e.uid) /\ Owned(Lookup, n, e.data)
  <2>1. Lookup'[n] = Lookup[n]
    BY <1>1, <1>8 DEF ToLookup
  <2>2. PICK s \in Secrets : Known(n, s)
    BY <2>1 DEF AliasInv, EachNameKnown, Known
  <2>3. /\ s[1] = Lookup[n].pubkey /\ Lookup[n] = Lookup[PrimaryName(s)]
        /\ n = PrimaryName(s) \/ \E v \in Aliases(Lookup[n], s[2]) : n = Concat(v, s[2])
    BY <1>5, <2>2 DEF Known, NamedBy, UpToDate, Ahead
  <2>4. s # t
    <3> SUFFICES ASSUME s = t PROVE FALSE
      OBVIOUS
    <3>1. KeepsTags(Lookup[n]) /\ KeepsTags(e.data)
      BY <2>1 DEF AliasInv, KeptTags
    <3>2. Aliases(Lookup[n], s[2]) = Aliases(e.data, e.uid)
      BY <1>3, <2>3, <3>1, SameAliases
    <3>3. Owned(Lookup, n, e.data)
      BY <1>3, <2>3 DEF Owned
    <3> QED
      BY <1>3, <1>8, <2>3, <3>2, <3>3
  <2>5. NamedBy(n, s)'
    BY <2>1, <2>3 DEF NamedBy, PrimaryName, Aliases
  <2>6. Known(n, s)'
    BY <1>4, <1>6, <2>1, <2>3, <2>4, <2>5
  <2> QED
    BY <2>6
<1> QED
    BY <1>7, <1>8

LEMMA NextKnown ==
    ASSUME OneRequest, TagsNeverShadow, TypeOK, AliasInv, KeptTags', [Next]_vars
    PROVE  EachNameKnown'
<1>1. ASSUME NEW r \in Requests, Client(r) \/ Handler(r) \/ Returned(r)
      PROVE  EachNameKnown'
    BY <1>1, ClientKnown, VerifiedKnown, AliasCheckKnown, AliasWriteKnown, PutPrimaryKnown,
       DeleteAliasKnown, DeletePrimaryKnown, ReturnedKnown DEF Handler
<1>2. CASE Crash
    BY <1>2 DEF Crash, EachNameKnown
<1>3. ASSUME \/ \E r \in Requests : Attempt(r)
             \/ \E lost \in SUBSET Secrets : LoadSecrets(lost)
             \/ Listen \/ UNCHANGED vars
      PROVE  EachNameKnown'
  <2>1. UNCHANGED <<Lookup, pc, job>>
    BY <1>3 DEF Attempt, LoadSecrets, Listen, vars, handlerVars
  <2> QED
    BY <2>1 DEF AliasInv, EachNameKnown, NamedBy, UpToDate, Ahead, Rewriting, ToWrite,
                PrimaryName, SecretOf, Aliases
<1> QED
    BY <1>1, <1>2, <1>3, LoadedKnown DEF Next, Start

(* What is said of names while a request is under way, which makes that     *)
(* they are fresh when none is an invariant.                                *)
THEOREM AliasInvariant ==
    ASSUME OneRequest, TagsNeverShadow, TagsKept
    PROVE  Spec => []AliasInv
<1>1. Init => AliasInv
  <2> SUFFICES ASSUME Init PROVE AliasInv
    OBVIOUS
  <2>1. KeptTags
    BY GivenTags DEF Init, KeptTags, PutSteps, DeleteSteps
  <2> QED
    BY <2>1 DEF Init, AliasInv, IdleUnlessUp, Idle, TodoAliases, EachNameKnown, PutSteps,
                DeleteSteps
<1>2. TypeOK /\ AliasInv /\ [Next]_vars => AliasInv'
    BY IdleUnlessUpKept, TodoKept, KeptTagsKept, NextKnown DEF AliasInv
<1> QED
    BY <1>1, <1>2, TypeInvariant, PTL DEF Spec

(* Whenever no request is under way, whatever is found under a name is what *)
(* is found under the name of its secret: no entry that was overwritten or  *)
(* deleted is left under an alias, through loads, crashes, partial failures *)
(* and any number of nodes that want the same tags; provided that each node *)
(* keeps its tags and that requests come one at a time.                     *)
THEOREM AliasesAreFresh ==
    ASSUME OneRequest, TagsNeverShadow, TagsKept
    PROVE  Spec => []AliasFresh
<1>1. AliasInv => AliasFresh
    BY DEF AliasInv, EachNameKnown, AliasFresh, UpToDate, Ahead
<1> QED
    BY <1>1, AliasInvariant, PTL

-----------------------------------------------------------------------------
(* What was overwritten does not come back                                  *)

(* The authenticator that a PUT is about to keep is one that a client gave, *)
(* or is still the one that is served.                                      *)
NothingRevived ==
    \A r \in Requests : pc[r] \in {"verify", "alias", "aliasWrite"} =>
        \/ \E b \in Bodies : b.macaroon = job[r].data.macaroon
        \/ Lookup[NameOf(r)] # None /\ Lookup[NameOf(r)].macaroon = job[r].data.macaroon

LEMMA PutBegunRevives ==
    ASSUME TypeOK, NEW r \in Requests, PutBegun(r), UNCHANGED Lookup
    PROVE  \/ \E b \in Bodies : b.macaroon = job'[r].data.macaroon
           \/ Lookup'[NameOf(r)'] # None /\ Lookup'[NameOf(r)'].macaroon = job'[r].data.macaroon
<1>1. PICK b \in Bodies, u \in UniqueIds, c \in Certificates \cup {Empty} :
        /\ ~Rejected(b, Found(b.pubkey, u), Merged(b, Found(b.pubkey, u), c))
        /\ job'[r].data = Merged(b, Found(b.pubkey, u), c)
        /\ job'[r].uid = u
    BY DEF PutBegun
<1>2. b.pubkey \in PubKeys /\ b.pubkey \in BaseNames
    BY <1>1, NamesAssumption DEF Rejected
<1>3. Found(b.pubkey, u) \in Data \cup {None}
    BY <1>2, NamesClosed DEF Found, TypeOK
<1>4. /\ job'[r].data.pubkey = b.pubkey
      /\ job'[r].data.macaroon = IF b.macaroon = Empty /\ Found(b.pubkey, u) # None
                                 THEN Found(b.pubkey, u).macaroon ELSE b.macaroon
  <2>1. b \in Fields(BaseNames, Authenticators \cup {Empty})
    BY BodiesAssumption
  <2>2. /\ Merged(b, Found(b.pubkey, u), c).pubkey = b.pubkey
        /\ Merged(b, Found(b.pubkey, u), c).macaroon =
              IF b.macaroon = Empty /\ Found(b.pubkey, u) # None
              THEN Found(b.pubkey, u).macaroon ELSE b.macaroon
    BY <1>3, <2>1, MergedFields
  <2> QED
    BY <1>1, <2>2
<1>5. NameOf(r)' = Concat(b.pubkey, u)
    BY <1>1, <1>4 DEF NameOf, SecretOf, PrimaryName
<1> QED
    BY <1>4, <1>5 DEF Found

LEMMA NothingRevivedKept ==
    ASSUME OneRequest, TagsNeverShadow, TypeOK, OwnInv, NothingRevived, [Next]_vars
    PROVE  NothingRevived'
<1>1. ASSUME NEW r \in Requests, pc'[r] \notin {"verify", "alias", "aliasWrite"}
      PROVE  NothingRevived'
    BY <1>1 DEF OneRequest, NothingRevived
<1>2. ASSUME NEW r \in Requests, pc[r] \in {"verify", "alias", "aliasWrite"}, SameEntry(r),
             Lookup'[NameOf(r)] = Lookup[NameOf(r)]
      PROVE  NothingRevived'
  <2>1. NameOf(r)' = NameOf(r) /\ job'[r].data = job[r].data
    BY <1>2 DEF SameEntry, NameOf, SecretOf, PrimaryName
  <2>2. \A q \in Requests : q = r
    BY DEF OneRequest
  <2> QED
    BY <1>2, <2>1, <2>2 DEF NothingRevived
<1>3. ASSUME NEW r \in Requests, Client(r)
      PROVE  NothingRevived'
  <2>1. CASE PutBegun(r)
    <3>1. UNCHANGED Lookup
      BY <1>3, ClientEffect
    <3>2. \A q \in Requests : q = r
      BY DEF OneRequest
    <3> QED
      BY <2>1, <3>1, <3>2, PutBegunRevives DEF NothingRevived
  <2>2. CASE pc'[r] \in {"idle", "check"} \/ DeleteBegun(r)
    BY <2>2, <1>1 DEF DeleteBegun
  <2> QED
    BY <1>3, <2>1, <2>2, ClientEffect
<1>4. ASSUME NEW r \in Requests, Handler(r) \/ Returned(r)
      PROVE  NothingRevived'
  <2>1. CASE \E ok \in BOOLEAN : VerifyDone(r, ok) \/ PutVerified(r, ok)
    BY <2>1, VerifiedEffect, <1>1, <1>2 DEF SameEntry
  <2>2. CASE AliasCheck(r)
    BY <2>2, AliasCheckEffect, <1>2
  <2>3. CASE AliasWrite(r)
    <3>1. /\ Written(Concat(job[r].tag, job[r].uid), job[r].data)
          /\ SameEntry(r) /\ pc[r] = "aliasWrite"
      BY <2>3, AliasWriteEffect
    <3>2. SecretOf(job[r]) \in Secrets /\ NameOf(r) \in Names
      BY <3>1, HandlerJob DEF PutSteps
    <3>3. Concat(job[r].tag, job[r].uid) # NameOf(r)
      BY <3>1, <3>2, TodoIsNotPrimary DEF OwnInv, PutSteps, NameOf
    <3> QED
      BY <3>1, <3>2, <3>3, <1>2 DEF Written
  <2>4. CASE PutPrimary(r) \/ DeleteAlias(r) \/ DeletePrimary(r) \/ Returned(r)
    <3>1. pc'[r] \in {"idle", "storing", "unalias"}
      BY <2>4, PutPrimaryEffect, DeleteAliasEffect, DeletePrimaryEffect, ReturnedEffect
    <3> QED
      BY <3>1, <1>1
  <2> QED
    BY <1>4, <2>1, <2>2, <2>3, <2>4 DEF Handler
<1>5. CASE InitialLoad \/ Crash
  <2>1. \A r \in Requests : pc'[r] = "idle"
    BY <1>5 DEF InitialLoad, Crash, handlerVars, OwnInv, IdleUnlessUp, Idle
  <2> QED
    BY <2>1 DEF NothingRevived
<1>6. ASSUME \/ \E r \in Requests : Attempt(r)
             \/ \E lost \in SUBSET Secrets : LoadSecrets(lost)
             \/ Listen \/ UNCHANGED vars
      PROVE  NothingRevived'
  <2>1. UNCHANGED <<Lookup, pc, job>>
    BY <1>6 DEF Attempt, LoadSecrets, Listen, vars, handlerVars
  <2> QED
    BY <2>1 DEF NothingRevived, NameOf, SecretOf, PrimaryName
<1> QED
    BY <1>3, <1>4, <1>5, <1>6 DEF Next, Start

(* A step that changes what is served of a secret serves what some client   *)
(* sent, or the authenticator that was served before.                       *)
LEMMA NothingComesBack ==
    ASSUME TagsNeverShadow, TypeOK, OwnInv, NothingRevived, [Next]_vars, status = "up",
           NEW s \in Secrets,
           Lookup'[PrimaryName(s)] # None,
           \A b \in Bodies : b.macaroon # Lookup'[PrimaryName(s)].macaroon
    PROVE  /\ Lookup[PrimaryName(s)] # None
           /\ Lookup[PrimaryName(s)].macaroon = Lookup'[PrimaryName(s)].macaroon
<1>0. PrimaryName(s) \in Names
    BY NamesAssumption, NamesClosed DEF PrimaryName, Secrets
<1>1. CASE Lookup'[PrimaryName(s)] = Lookup[PrimaryName(s)]
    BY <1>1
<1>2. ASSUME NEW r \in Requests, Handler(r), Lookup'[PrimaryName(s)] # Lookup[PrimaryName(s)]
      PROVE  PutPrimary(r)
  <2>1. CASE AliasWrite(r)
    <3>1. Written(Concat(job[r].tag, job[r].uid), job[r].data) /\ pc[r] = "aliasWrite"
      BY <2>1, AliasWriteEffect
    <3>2. Concat(job[r].tag, job[r].uid) # PrimaryName(s)
      BY <3>1, TodoIsNotPrimary DEF OwnInv, PutSteps
    <3> QED
      BY <1>0, <1>2, <3>1, <3>2 DEF Written
  <2>2. CASE DeleteAlias(r) \/ DeletePrimary(r)
    <3>1. \E n : Written(n, None)
      BY <2>2, DeleteAliasEffect, DeletePrimaryEffect
    <3> QED
      BY <1>0, <1>2, <3>1 DEF Written
  <2>3. CASE (\E ok \in BOOLEAN : VerifyDone(r, ok) \/ PutVerified(r, ok)) \/ AliasCheck(r)
    BY <1>2, <2>3, VerifiedEffect, AliasCheckEffect
  <2> QED
    BY <1>2, <2>1, <2>2, <2>3 DEF Handler
<1>3. ASSUME NEW r \in Requests, PutPrimary(r), Lookup'[PrimaryName(s)] # Lookup[PrimaryName(s)]
      PROVE  /\ Lookup[PrimaryName(s)] # None
             /\ Lookup[PrimaryName(s)].macaroon = Lookup'[PrimaryName(s)].macaroon
  <2>1. Written(NameOf(r), job[r].data) /\ pc[r] = "alias"
    BY <1>3, PutPrimaryEffect
  <2>2. PrimaryName(s) = NameOf(r) /\ Lookup'[PrimaryName(s)] = job[r].data
    BY <1>0, <1>3, <2>1 DEF Written
  <2> QED
    BY <2>1, <2>2 DEF NothingRevived
<1>4. ASSUME NEW r \in Requests, Client(r) \/ Returned(r) \/ Attempt(r)
      PROVE  UNCHANGED Lookup
    BY <1>4, ClientEffect, ReturnedEffect DEF Attempt
<1>5. ASSUME Start \/ UNCHANGED vars
      PROVE  UNCHANGED Lookup
    BY <1>5 DEF Start, LoadSecrets, InitialLoad, Listen, vars
<1>6. ~Crash
    BY <1>0 DEF Crash
<1> QED
    BY <1>1, <1>2, <1>3, <1>4, <1>5, <1>6 DEF Next

(* Overwriting a secret invalidates its authenticator, as long as requests  *)
(* do not overlap: whatever a PUT leaves out is filled in from what it is   *)
(* about to overwrite.  (Of two that overlap, one can put back what the     *)
(* other has overwritten: the code reads the entry before it waits for the  *)
(* node.)                                                                   *)
THEOREM OverwrittenStaysInvalid ==
    ASSUME OneRequest, TagsNeverShadow
    PROVE  Spec => InvalidatedStaysInvalid
<1>1. Init => NothingRevived
    BY DEF Init, NothingRevived
<1>2. TypeOK /\ OwnInv /\ NothingRevived /\ [Next]_vars => NothingRevived'
    BY NothingRevivedKept
<1>3. TypeOK /\ OwnInv /\ NothingRevived /\ [Next]_vars =>
        [status = "up" =>
           \A s \in Secrets :
              LET old == Lookup[PrimaryName(s)]
                  new == Lookup'[PrimaryName(s)]
              IN  new # None /\ (\A b \in Bodies : b.macaroon # new.macaroon) =>
                      old # None /\ old.macaroon = new.macaroon]_Lookup
    BY NothingComesBack
<1> QED
    BY <1>1, <1>2, <1>3, TypeInvariant, OwnInvariant, PTL DEF Spec, InvalidatedStaysInvalid
=============================================================================
