------------------------------ MODULE Platform -------------------------------
(***************************************************************************)
(* From the start of the process to its calls of a secrets manager:        *)
(* DetermineProvider asks the metadata services where it runs,             *)
(* GetPlatformSecretsManager takes the manager for that provider, or one   *)
(* in memory, and initialLoad loads what it holds before calls are made.   *)
(* The process may die at any time.                                        *)
(***************************************************************************)
EXTENDS ManagerCalls

CONSTANTS Places,    \* where and with which environment the vault runs
          InDoubt

(* local: ENV is "local"; named: CLOUD_PROVIDER names the cloud.            *)
Place == [local : BOOLEAN, named : BOOLEAN, cloud : {"aws", "gcp"}]

ASSUME PlatformAssumption ==
    /\ Places \subseteq Place
    /\ InDoubt \notin Values \cup {None}

VARIABLES place,
          status,      \* "down", a probe of DetermineProvider, "loading" or "up"
          manager,     \* whose requests the calls consist of
          settled,     \* history: what each secret is, as far as clients can know
          alone        \* history: calls that no other call for the secret overlaps

vars == <<secrets, calls, load, place, status, manager, settled, alone>>

history == <<settled, alone>>

Aws == INSTANCE AwsSecrets
Gcp == INSTANCE GcpSecrets

TypeOK == /\ ManagerTypeOK
          /\ place \in Places
          /\ status \in {"down", "probeAWS", "probeGCP", "loading", "up"}
          /\ manager \in {"none", "aws", "gcp", "memory"}
          /\ settled \in [Secrets -> Values \cup {None, InDoubt}]
          /\ alone \subseteq Clients

Held(v) == IF v = Hollow THEN None ELSE v

Init == /\ secrets \in [Secrets -> Contents]
        /\ calls = [c \in Clients |-> NoCall]
        /\ load = NoLoad
        /\ place \in Places
        /\ status = "down"
        /\ manager = "none"
        /\ settled = [s \in Secrets |-> Held(secrets[s])]
        /\ alone = {}

-----------------------------------------------------------------------------
(* The start                                                                *)

Determined(provider) ==
    /\ manager' = provider
    /\ status' = "loading"
    /\ load' = FreshLoad

(* main: MakeNewDummyHandlers and no load, or MakeNewHandlers.              *)
Start ==
    /\ status = "down"
    /\ IF place.local THEN manager' = "memory" /\ status' = "up" /\ UNCHANGED load
       ELSE IF place.named THEN Determined(place.cloud)
       ELSE status' = "probeAWS" /\ UNCHANGED <<manager, load>>
    /\ UNCHANGED <<secrets, calls, place, settled, alone>>

(* The metadata service of AWS answers to an instance there, or times out.  *)
ProbeAWS(answered) ==
    /\ status = "probeAWS"
    /\ answered => place.cloud = "aws"
    /\ IF answered THEN Determined("aws")
       ELSE status' = "probeGCP" /\ UNCHANGED <<manager, load>>
    /\ UNCHANGED <<secrets, calls, place, settled, alone>>

ProbeGCP(answered) ==
    /\ status = "probeGCP"
    /\ answered => place.cloud = "gcp"
    /\ Determined(IF answered THEN "gcp" ELSE "memory")
    /\ UNCHANGED <<secrets, calls, place, settled, alone>>

(* The manager in memory has nothing to load.                               *)
LoadNothing ==
    /\ manager = "memory"
    /\ Loading("list")
    /\ load' = [load EXCEPT !.step = "get"]
    /\ UNCHANGED <<secrets, calls>>

LoadSecrets ==
    /\ status = "loading"
    /\ \/ manager = "aws" /\ Aws!LoadSecrets
       \/ manager = "gcp" /\ Gcp!LoadSecrets
       \/ LoadNothing
    /\ UNCHANGED <<place, status, manager, history>>

Listen ==
    /\ status = "loading" /\ Loaded
    /\ status' = "up"
    /\ load' = NoLoad
    /\ UNCHANGED <<secrets, calls, place, manager, history>>

Crash ==
    /\ status # "down"
    /\ status' = "down"
    /\ manager' = "none"
    /\ load' = NoLoad
    /\ calls' = [c \in Clients |-> NoCall]
    /\ alone' = {}
    /\ UNCHANGED <<secrets, place, settled>>

-----------------------------------------------------------------------------
(* Calls                                                                    *)

(* InsertOrUpdateSecret and DeleteSecret in memory, under the mutex: the    *)
(* name is kept, without a value, until the process ends.                   *)
Remember(s, v) ==
    /\ status = "up" /\ manager = "memory"
    /\ settled' = [settled EXCEPT ![s] = v]
    /\ UNCHANGED <<secrets, calls, load, place, status, manager, alone>>

On(s) == {c \in Clients : calls[c] # NoCall /\ calls[c].secret = s}

Invoke(c, s, v) ==
    /\ status = "up"
    /\ \/ manager = "aws" /\ Aws!Invoke(c, s, v)
       \/ manager = "gcp" /\ Gcp!Invoke(c, s, v)
    /\ settled' = [settled EXCEPT ![s] = InDoubt]
    /\ alone' = (alone \ On(s)) \cup (IF On(s) = {} THEN {c} ELSE {})
    /\ UNCHANGED <<place, status, manager>>

Progress(c) ==
    /\ \/ manager = "aws" /\ Aws!Progress(c)
       \/ manager = "gcp" /\ Gcp!Progress(c)
    /\ UNCHANGED <<place, status, manager, history>>

Succeed(c) ==
    /\ Return(c)
    /\ settled' = IF c \in alone THEN [settled EXCEPT ![calls[c].secret] = calls[c].value]
                  ELSE settled
    /\ alone' = alone \ {c}
    /\ UNCHANGED <<place, status, manager>>

Fail(c) ==
    /\ GiveUp(c)
    /\ alone' = alone \ {c}
    /\ UNCHANGED <<place, status, manager, settled>>

CallStep(c) == Progress(c) \/ Succeed(c) \/ Fail(c)

Next ==
    \/ Start
    \/ \E answered \in BOOLEAN : ProbeAWS(answered) \/ ProbeGCP(answered)
    \/ LoadSecrets
    \/ Listen
    \/ Crash
    \/ \E s \in Secrets, v \in Values \cup {None} : Remember(s, v)
    \/ \E c \in Clients, s \in Secrets, v \in Values \cup {None} : Invoke(c, s, v)
    \/ \E c \in Clients : CallStep(c)

Spec == Init /\ [][Next]_vars

(* Every request of a call is answered or times out.                        *)
FairSpec == Spec /\ \A c \in Clients : WF_vars(CallStep(c))

-----------------------------------------------------------------------------
(* Properties                                                               *)

storeView == [s \in Secrets |-> Held(secrets[s])]

callView == [c \in Clients |->
                IF calls[c] = NoCall THEN NoCall
                ELSE [secret |-> calls[c].secret, value |-> calls[c].value,
                      applied |-> calls[c].applied]]

Store == INSTANCE SecretStore WITH store <- storeView, calls <- callView

ASSUME StoreAssumption == NoCall \notin Store!Call

(* What exists and holds nothing read as absent, and the requests as the    *)
(* attempts of one call, both managers are the store the vault is written   *)
(* against, across crashes: a call that succeeds took effect, one that      *)
(* fails may have.                                                          *)
ImplementsStore ==
    /\ Store!StoreSpec
    /\ [][\A c \in Clients : /\ Succeed(c) => Store!Succeed(c)
                             /\ Fail(c) => Store!Fail(c)]_vars

(* The requests of an attempt, in an order that no attempt goes back in.    *)
Rank(step) == CASE step = "list"                -> 1
                [] step = "get"                 -> 2
                [] step \in {"create", "delete"} -> 3
                [] step \in {"update", "add"}   -> 4
                [] step \in {"error", "done"}   -> 5

(* A later request of the attempt, or its end; or another attempt.          *)
Forward(c) ==
    \/ /\ Rank(calls'[c].step) > Rank(calls[c].step)
       /\ calls'[c].tries = calls[c].tries
    \/ /\ calls[c].step = "error" /\ calls'[c].step # "done"
       /\ calls'[c].tries = calls[c].tries + 1

(* Whatever a request meets, and whatever the other calls do meanwhile, an  *)
(* attempt goes on to a later request or ends, and only after an error is   *)
(* there another attempt, which counts: with either manager a call makes at *)
(* most three requests in each of at most MaxTries attempts.                *)
CallsAdvance ==
    [][\A c \in Clients : calls[c] # NoCall /\ calls'[c] # NoCall =>
         IF Progress(c) THEN Forward(c)
         ELSE calls'[c].step = calls[c].step /\ calls'[c].tries = calls[c].tries]_vars

(* Every call returns, unless the process dies.                             *)
CallsReturn == \A c \in Clients : calls[c] # NoCall ~> calls[c] = NoCall

(* What a client was told when nobody else wrote the secret is what the     *)
(* vault caches at its start, for every secret no request of the load       *)
(* failed for: through tombstones and empty containers, retries on top of   *)
(* what took effect, and crashes.                                           *)
AcknowledgedIsLoaded ==
    status = "loading" /\ Loaded =>
        \A s \in Secrets \ load.failed :
            settled[s] # InDoubt => Cached(s) = settled[s]

(* It is so where CLOUD_PROVIDER names the provider.                        *)
NamedProviderPersists == place.named /\ ~place.local => AcknowledgedIsLoaded

(* README.md claims it of every environment but "local"; without            *)
(* CLOUD_PROVIDER it is not kept.                                           *)
OnlyLocalForgets == ~place.local => AcknowledgedIsLoaded
=============================================================================
