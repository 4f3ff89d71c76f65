----------------------------- MODULE SecretStore -----------------------------
(***************************************************************************)
(* What the vault relies on of a secrets manager (the SecretsManager       *)
(* interface): a map from secrets to values, written by calls that take    *)
(* effect some time between their invocation and their return.  A call may *)
(* take effect more than once, because it retries after a lost answer, and *)
(* may fail whether or not it took effect; one that succeeds did.          *)
(***************************************************************************)
CONSTANTS Clients,   \* one outstanding call each
          Secrets,   \* names of secrets
          Values,    \* what a secret can hold
          None,      \* no such secret; as the value of a call, delete it
          NoCall

VARIABLES store,     \* the value of each secret
          calls      \* the outstanding call of each client

storeVars == <<store, calls>>

Call == [secret : Secrets, value : Values \cup {None}, applied : BOOLEAN]

StoreTypeOK == /\ store \in [Secrets -> Values \cup {None}]
               /\ calls \in [Clients -> Call \cup {NoCall}]

StoreInit == /\ store \in [Secrets -> Values \cup {None}]
             /\ calls = [c \in Clients |-> NoCall]

(* InsertOrUpdateSecret (or, with None, DeleteSecret) is called.            *)
Invoke(c, s, v) ==
    /\ calls[c] = NoCall
    /\ calls' = [calls EXCEPT ![c] = [secret |-> s, value |-> v, applied |-> FALSE]]
    /\ UNCHANGED store

(* One attempt of the call of c reaches the manager.                        *)
Apply(c) ==
    /\ calls[c] # NoCall
    /\ store' = [store EXCEPT ![calls[c].secret] = calls[c].value]
    /\ calls' = [calls EXCEPT ![c].applied = TRUE]

(* The call returns without an error.                                       *)
Succeed(c) ==
    /\ calls[c] # NoCall
    /\ calls[c].applied
    /\ calls' = [calls EXCEPT ![c] = NoCall]
    /\ UNCHANGED store

(* The retries are used up: the call returns the last error.                *)
Fail(c) ==
    /\ calls[c] # NoCall
    /\ calls' = [calls EXCEPT ![c] = NoCall]
    /\ UNCHANGED store

(* The callers are gone, and their calls with them.                         *)
Abandon == /\ calls' = [c \in Clients |-> NoCall]
           /\ UNCHANGED store

StoreNext ==
    \/ \E c \in Clients :
          \/ \E s \in Secrets, v \in Values \cup {None} : Invoke(c, s, v)
          \/ Apply(c) \/ Succeed(c) \/ Fail(c)
    \/ Abandon

StoreSpec == StoreInit /\ [][StoreNext]_storeVars
=============================================================================
