------------------------------- MODULE Vault --------------------------------
(***************************************************************************)
(* One instance of the vault: the HTTP handlers of handler.go over the     *)
(* in-memory map Lookup and a secrets manager, the initial load of main.go *)
(* and crashes.  Handlers run concurrently, one per request, and nothing   *)
(* orders their accesses to Lookup: a step of a handler here is one access *)
(* to Lookup or one interaction with the secrets manager or the node.      *)
(***************************************************************************)
EXTENDS PutRules

CONSTANTS Requests,          \* requests in flight at a time
          UniqueIds,         \* unique ids clients use, "" among them
          BaseNames,         \* what clients use for {pubkey} in a path
          AlphaNumeric,      \* strings the AlphaNumeric pattern accepts, and ""
          Concat(_, _),      \* concatenation of a base name and a unique id
          Bodies,            \* bodies of PUT requests
          Operations,        \* routes that clients use
          InitialSecrets,    \* possible contents of the secrets manager at first
          LegacySecrets,     \* secrets with a two-part name, which nothing writes
          InDoubt, NoCall, NoJob

Names == {Concat(v, u) : v \in BaseNames, u \in UniqueIds}

(* A secret is named by a pubkey, of fixed length, and a unique id.         *)
Secrets == PubKeys \X UniqueIds

PrimaryName(s) == Concat(s[1], s[2])

Entry == [uid : UniqueIds, data : Data]

SecretOf(e) == <<e.data.pubkey, e.uid>>

ASSUME NamesAssumption ==
    /\ PubKeys \subseteq BaseNames
    /\ Tags \subseteq BaseNames
    /\ \A s, t \in Secrets : PrimaryName(s) = PrimaryName(t) => s = t

ASSUME BodiesAssumption ==
    /\ Bodies \subseteq Fields(BaseNames, Authenticators \cup {Empty})
    /\ LegacySecrets \subseteq Entry

ASSUME InitialAssumption ==
    \A f \in InitialSecrets :
        /\ f \in [Secrets -> Data \cup {None}]
        /\ \A s \in Secrets : f[s] # None => f[s].pubkey = s[1]

VARIABLES
    store, calls,  \* the secrets manager, and the call of each request to it
    Lookup,        \* the map from names to entries that answers reads
    status,        \* "down", "loading" or "up"
    toLoad,        \* entries initialLoad has fetched and not yet put in Lookup
    pc, job,       \* where the handler of each request is, and its locals
    reply,         \* the last complete answer to each request
    settled,       \* history: what each secret is, as far as clients can know
    missed,        \* history: secrets that the last load could not fetch
    alone          \* history: writers that no other writer of the secret overlaps

managerVars == <<store, calls>>
handlerVars == <<pc, job, reply>>
loadVars    == <<status, toLoad, missed>>
vars == <<store, calls, Lookup, status, toLoad, pc, job, reply, settled, missed, alone>>

Manager == INSTANCE SecretStore WITH Clients <- Requests, Values <- Data

ASSUME CallAssumption == NoCall \notin Manager!Call

Job == [uid : UniqueIds, data : Data, todo : SUBSET Tags,
        tag : Tags \cup {None}, header : {0, 400}]

ASSUME JobAssumption == NoJob \notin Job

Reply == [code : {0, 200, 201, 400, 404, 500}, body : Served \cup {None}]

NoReply == [code |-> 0, body |-> None]

PutSteps    == {"verify", "alias", "aliasWrite", "storing"}
DeleteSteps == {"deleting", "unalias"}
Steps       == {"idle", "check"} \cup PutSteps \cup DeleteSteps

TypeOK ==
    /\ Manager!StoreTypeOK
    /\ Lookup \in [Names -> Data \cup {None}]
    /\ status \in {"down", "loading", "up"}
    /\ toLoad \subseteq Entry
    /\ pc \in [Requests -> Steps]
    /\ job \in [Requests -> Job \cup {NoJob}]
    /\ \A r \in Requests : pc[r] \in PutSteps \cup DeleteSteps => job[r] \in Job
    /\ \A r \in Requests : pc[r] = "aliasWrite" => job[r].tag \in Tags
    /\ reply \in [Requests -> Reply]
    /\ settled \in [Secrets -> Data \cup {None, InDoubt}]
    /\ missed \subseteq Secrets
    /\ alone \subseteq Requests

Init ==
    /\ store \in InitialSecrets
    /\ calls = [r \in Requests |-> NoCall]
    /\ Lookup = [n \in Names |-> None]
    /\ status = "down"
    /\ toLoad = {}
    /\ pc = [r \in Requests |-> "idle"]
    /\ job = [r \in Requests |-> NoJob]
    /\ reply = [r \in Requests |-> NoReply]
    /\ settled = store
    /\ missed = {}
    /\ alone = {}

-----------------------------------------------------------------------------
(* Aliases: the names, besides the primary one, that an entry is cached     *)
(* under.  The order of a tag list is immaterial; tags is a set.            *)

(* Mutant: a tag that is a pubkey is used like any other.                   *)
AliasesOfAnyTag(d, uid) == {v \in d.tags : v \in AlphaNumeric}

Aliases(d, uid) == {v \in d.tags : /\ v \notin PubKeys
                                   /\ Concat(v, uid) \notin PubKeys
                                   /\ v \in AlphaNumeric}

Owned(L, n, d) == L[n] = None \/ L[n].pubkey = d.pubkey

(* Mutant: when it has tags, the entry is not cached under its own name.    *)
ToLookupTagsOnly(L, d, uid) ==
    [n \in Names |->
        IF \/ n = Concat(d.pubkey, uid) /\ d.tags = {}
           \/ \E v \in Aliases(d, uid) : n = Concat(v, uid) /\ Owned(L, n, d)
        THEN d ELSE L[n]]

(* toLookup when nothing runs beside it.                                    *)
ToLookup(L, d, uid) ==
    [n \in Names |->
        IF \/ n = Concat(d.pubkey, uid)
           \/ \E v \in Aliases(d, uid) : n = Concat(v, uid) /\ Owned(L, n, d)
        THEN d ELSE L[n]]

-----------------------------------------------------------------------------
(* History: a write of a secret leaves it in doubt until it has succeeded   *)
(* without another write overlapping it.                                    *)

Writing(r) == pc[r] \in {"storing", "deleting", "unalias"}

Writers(s) == {r \in Requests : Writing(r) /\ SecretOf(job[r]) = s}

BeginWrite(r, s) ==
    /\ settled' = [settled EXCEPT ![s] = InDoubt]
    /\ alone' = IF Writers(s) = {} THEN alone \cup {r} ELSE alone \ Writers(s)

EndWrite(r, s, v) ==
    /\ settled' = IF r \in alone THEN [settled EXCEPT ![s] = v] ELSE settled
    /\ alone' = alone \ {r}

AbandonWrite(r) == alone' = alone \ {r} /\ UNCHANGED settled

-----------------------------------------------------------------------------
(* Steps of handlers: begin, go on, answer                                  *)

CanBegin(r, op) == pc[r] = "idle" /\ status = "up" /\ op \in Operations

Begin(r, step, j) ==
    /\ pc' = [pc EXCEPT ![r] = step]
    /\ job' = [job EXCEPT ![r] = j]
    /\ reply' = [reply EXCEPT ![r] = NoReply]

Goto(r, step) == pc' = [pc EXCEPT ![r] = step]

(* The first status code written is the one the client sees.                *)
Answer(r, code, body) ==
    /\ pc' = [pc EXCEPT ![r] = "idle"]
    /\ job' = [job EXCEPT ![r] = NoJob]
    /\ reply' = [reply EXCEPT ![r] = [code |-> code, body |-> body]]

AnswerJob(r, code) == Answer(r, IF job[r].header = 0 THEN code ELSE job[r].header, None)

NoEffect == UNCHANGED <<managerVars, Lookup, loadVars, settled, alone>>

(* obtainUniqueID answers 400 to a unique id that is not alphanumeric.      *)
InvalidUniqueID(r, op, uid) ==
    /\ CanBegin(r, op)
    /\ uid \notin AlphaNumeric
    /\ Answer(r, 400, None)
    /\ NoEffect

-----------------------------------------------------------------------------
(* GET, QUERY and VERIFY                                                    *)

Found(name, uid) == Lookup[Concat(name, uid)]

GetHandler(r, name, uid, minutes) ==
    /\ CanBegin(r, "get")
    /\ uid \in AlphaNumeric
    /\ IF Found(name, uid) = None THEN Answer(r, 404, None)
       ELSE Answer(r, 200, GetConstrained(Found(name, uid), minutes))
    /\ NoEffect

QueryHandler(r, name, uid) ==
    /\ CanBegin(r, "query")
    /\ uid \in AlphaNumeric
    /\ Answer(r, IF Found(name, uid) = None THEN 404 ELSE 200, None)
    /\ NoEffect

VerifyHandler(r, name, uid) ==
    /\ CanBegin(r, "verify")
    /\ uid \in AlphaNumeric
    /\ IF name \notin PubKeys THEN Answer(r, 400, None)
       ELSE IF Found(name, uid) = None THEN Answer(r, 404, None)
       ELSE Begin(r, "check", NoJob)
    /\ NoEffect

(* The node has answered, or has not within the time allowed.               *)
VerifyDone(r, ok) ==
    /\ pc[r] = "check"
    /\ Answer(r, IF ok THEN 200 ELSE 400, None)
    /\ NoEffect

-----------------------------------------------------------------------------
(* PUT                                                                      *)

PutHandler(r, b, uid, fetched, verify) ==
    LET orig == Found(b.pubkey, uid)
        d    == Merged(b, orig, fetched)
        code == IF BadRequestWithoutReturn(b, d) THEN 400 ELSE 0
    IN  /\ CanBegin(r, "put")
        /\ uid \in AlphaNumeric
        /\ IF Rejected(b, orig, d) THEN Answer(r, 400, None)
           ELSE Begin(r, IF verify THEN "verify" ELSE "alias",
                      [uid |-> uid, data |-> d, todo |-> Aliases(d, uid),
                       tag |-> None, header |-> code])
        /\ NoEffect

(* VerifyCall: the node knows the authenticator and is the one named, or    *)
(* the request ends here with 400.                                          *)
PutVerified(r, ok) ==
    /\ pc[r] = "verify"
    /\ IF ok THEN Goto(r, "alias") /\ UNCHANGED <<job, reply>>
       ELSE AnswerJob(r, 400)
    /\ NoEffect

(* Mutant: a tag is taken whoever's it is.                                  *)
AliasTaken(r) ==
    /\ pc[r] = "alias"
    /\ \E v \in job[r].todo : Goto(r, "aliasWrite") /\ job' = [job EXCEPT ![r].tag = v]
    /\ UNCHANGED reply
    /\ NoEffect

(* toLookup, one tag: whose the alias is now ...                            *)
AliasCheck(r) ==
    /\ pc[r] = "alias"
    /\ \E v \in job[r].todo :
          LET n == Concat(v, job[r].uid) IN
          IF Owned(Lookup, n, job[r].data)
          THEN Goto(r, "aliasWrite") /\ job' = [job EXCEPT ![r].tag = v]
          ELSE job' = [job EXCEPT ![r].todo = @ \ {v}] /\ UNCHANGED pc
    /\ UNCHANGED reply
    /\ NoEffect

(* Mutant: a name that is written stays to be written.                      *)
AliasWriteAgain(r) ==
    /\ pc[r] = "aliasWrite"
    /\ Lookup' = [Lookup EXCEPT ![Concat(job[r].tag, job[r].uid)] = job[r].data]
    /\ Goto(r, "alias")
    /\ job' = [job EXCEPT ![r].tag = None]
    /\ UNCHANGED <<managerVars, loadVars, reply, settled, alone>>

(* ... and, when free or of the same node, taking it.                       *)
AliasWrite(r) ==
    /\ pc[r] = "aliasWrite"
    /\ Lookup' = [Lookup EXCEPT ![Concat(job[r].tag, job[r].uid)] = job[r].data]
    /\ Goto(r, "alias")
    /\ job' = [job EXCEPT ![r].todo = @ \ {job[r].tag}, ![r].tag = None]
    /\ UNCHANGED <<managerVars, loadVars, reply, settled, alone>>

(* Mutant: an entry that is cached is not replaced.                         *)
PutPrimaryOnce(r) ==
    LET s == SecretOf(job[r]) IN
    /\ pc[r] = "alias"
    /\ job[r].todo = {}
    /\ Lookup' = [Lookup EXCEPT ![PrimaryName(s)] = IF @ = None THEN job[r].data ELSE @]
    /\ Manager!Invoke(r, s, job[r].data)
    /\ Goto(r, "storing")
    /\ BeginWrite(r, s)
    /\ missed' = missed \ {s}
    /\ UNCHANGED <<status, toLoad, job, reply>>

(* The end of toLookup, and the call of InsertOrUpdateSecret.               *)
PutPrimary(r) ==
    LET s == SecretOf(job[r]) IN
    /\ pc[r] = "alias"
    /\ job[r].todo = {}
    /\ Lookup' = [Lookup EXCEPT ![PrimaryName(s)] = job[r].data]
    /\ Manager!Invoke(r, s, job[r].data)
    /\ Goto(r, "storing")
    /\ BeginWrite(r, s)
    /\ missed' = missed \ {s}
    /\ UNCHANGED <<status, toLoad, job, reply>>

PutStored(r, code) ==
    /\ pc[r] = "storing"
    /\ Manager!Succeed(r)
    /\ AnswerJob(r, code)
    /\ EndWrite(r, SecretOf(job[r]), job[r].data)
    /\ UNCHANGED <<Lookup, loadVars>>

PutNotStored(r) ==
    /\ pc[r] = "storing"
    /\ Manager!Fail(r)
    /\ AnswerJob(r, 500)
    /\ AbandonWrite(r)
    /\ UNCHANGED <<Lookup, loadVars>>

-----------------------------------------------------------------------------
(* DELETE                                                                   *)

DeleteHandler(r, name, uid) ==
    LET e == Found(name, uid)
        j == [uid |-> uid, data |-> e, todo |-> {}, tag |-> None, header |-> 0]
    IN  /\ CanBegin(r, "delete")
        /\ uid \in AlphaNumeric
        /\ \/ /\ e = None
              /\ Answer(r, 404, None)
              /\ NoEffect
           \/ /\ e # None
              /\ Begin(r, "deleting", j)
              /\ Manager!Invoke(r, SecretOf(j), None)
              /\ BeginWrite(r, SecretOf(j))
              /\ UNCHANGED <<Lookup, loadVars>>

(* Mutant: the error of DeleteSecret is ignored.                            *)
NotDeletedUnnoticed(r) ==
    /\ pc[r] = "deleting"
    /\ Manager!Fail(r)
    /\ Goto(r, "unalias")
    /\ job' = [job EXCEPT ![r].todo = Aliases(job[r].data, job[r].uid)]
    /\ UNCHANGED <<Lookup, loadVars, reply, settled, alone>>

NotDeleted(r) ==
    /\ pc[r] = "deleting"
    /\ Manager!Fail(r)
    /\ AnswerJob(r, 500)
    /\ AbandonWrite(r)
    /\ UNCHANGED <<Lookup, loadVars>>

(* Mutant: the aliases of the entry are left.                               *)
DeletedButAliases(r) ==
    /\ pc[r] = "deleting"
    /\ Manager!Succeed(r)
    /\ Goto(r, "unalias")
    /\ UNCHANGED <<Lookup, loadVars, job, reply, settled, alone>>

Deleted(r) ==
    /\ pc[r] = "deleting"
    /\ Manager!Succeed(r)
    /\ Goto(r, "unalias")
    /\ job' = [job EXCEPT ![r].todo = Aliases(job[r].data, job[r].uid)]
    /\ UNCHANGED <<Lookup, loadVars, reply, settled, alone>>

(* Mutant: a tag is not done with when its name has been removed.           *)
DeleteAliasAgain(r) ==
    /\ pc[r] = "unalias"
    /\ \E v \in job[r].todo : Lookup' = [Lookup EXCEPT ![Concat(v, job[r].uid)] = None]
    /\ UNCHANGED <<managerVars, loadVars, pc, job, reply, settled, alone>>

(* deleteLookup, one tag: whoever's the alias is.                           *)
DeleteAlias(r) ==
    /\ pc[r] = "unalias"
    /\ \E v \in job[r].todo :
          /\ Lookup' = [Lookup EXCEPT ![Concat(v, job[r].uid)] = None]
          /\ job' = [job EXCEPT ![r].todo = @ \ {v}]
    /\ UNCHANGED <<managerVars, loadVars, pc, reply, settled, alone>>

DeletePrimary(r) ==
    LET s == SecretOf(job[r]) IN
    /\ pc[r] = "unalias"
    /\ job[r].todo = {}
    /\ Lookup' = [Lookup EXCEPT ![PrimaryName(s)] = None]
    /\ AnswerJob(r, 200)
    /\ EndWrite(r, s, None)
    /\ missed' = missed \ {s}
    /\ UNCHANGED <<managerVars, status, toLoad>>

-----------------------------------------------------------------------------
(* The secrets manager, start and crash                                     *)

Attempt(r) ==
    /\ Manager!Apply(r)
    /\ UNCHANGED <<Lookup, loadVars, handlerVars, settled, alone>>

(* The process dies at any time; Lookup and the handlers die with it.       *)
Crash ==
    /\ status # "down"
    /\ status' = "down"
    /\ Lookup' = [n \in Names |-> None]
    /\ toLoad' = {}
    /\ pc' = [r \in Requests |-> "idle"]
    /\ job' = [r \in Requests |-> NoJob]
    /\ reply' = [r \in Requests |-> NoReply]
    /\ alone' = {}
    /\ Manager!Abandon
    /\ UNCHANGED <<settled, missed>>

(* LoadSecrets leaves out, without failing, whatever it cannot fetch.       *)
LoadSecrets(lost) ==
    /\ status = "down"
    /\ status' = "loading"
    /\ \E legacy \in SUBSET LegacySecrets :
          toLoad' = legacy \cup {[uid |-> s[2], data |-> store[s]] :
                                    s \in {t \in Secrets \ lost : store[t] # None}}
    /\ missed' = lost
    /\ settled' = [s \in Secrets |-> IF s \in lost THEN settled[s] ELSE store[s]]
    /\ UNCHANGED <<managerVars, Lookup, handlerVars, alone>>

(* initialLoad ranges over a Go map: in no particular order.                *)
InitialLoad ==
    /\ status = "loading"
    /\ \E e \in toLoad : /\ toLoad' = toLoad \ {e}
                         /\ Lookup' = ToLookup(Lookup, e.data, e.uid)
    /\ UNCHANGED <<managerVars, status, handlerVars, settled, missed, alone>>

Listen ==
    /\ status = "loading"
    /\ toLoad = {}
    /\ status' = "up"
    /\ UNCHANGED <<managerVars, Lookup, toLoad, handlerVars, settled, missed, alone>>

-----------------------------------------------------------------------------
Client(r) ==
    \/ \E op \in {"get", "query", "verify", "put", "delete"}, u \in UniqueIds :
          InvalidUniqueID(r, op, u)
    \/ \E n \in BaseNames, u \in UniqueIds :
          \/ \E m \in Durations : GetHandler(r, n, u, m)
          \/ QueryHandler(r, n, u)
          \/ VerifyHandler(r, n, u)
          \/ DeleteHandler(r, n, u)
    \/ \E b \in Bodies, u \in UniqueIds, c \in Certificates \cup {Empty}, v \in BOOLEAN :
          PutHandler(r, b, u, c, v)

Handler(r) ==
    \/ \E ok \in BOOLEAN : VerifyDone(r, ok) \/ PutVerified(r, ok)
    \/ AliasCheck(r) \/ AliasWrite(r) \/ PutPrimary(r)
    \/ DeleteAlias(r) \/ DeletePrimary(r)

(* The secrets manager gives its answer, good or bad.                       *)
Returned(r) ==
    \/ \E code \in {200, 201} : PutStored(r, code)
    \/ PutNotStored(r)
    \/ Deleted(r)
    \/ NotDeleted(r)

Start == (\E lost \in SUBSET Secrets : LoadSecrets(lost)) \/ InitialLoad \/ Listen

Next == \/ \E r \in Requests : Client(r) \/ Handler(r) \/ Returned(r) \/ Attempt(r)
        \/ Start
        \/ Crash

Spec == Init /\ [][Next]_vars

(* A handler is a goroutine, which the runtime schedules, and its waits for *)
(* the node and for the secrets manager are bounded (5 s of VerifyCall, and *)
(* MaxRetryTime).  Clients, attempts and crashes are under no obligation.   *)
Fairness == \A r \in Requests : WF_vars(Handler(r)) /\ WF_vars(Returned(r))

FairSpec == Spec /\ Fairness

-----------------------------------------------------------------------------
(* Properties                                                               *)

(* Once the outcome of the last write of a secret is known to its client,   *)
(* or was settled by a load, the secrets manager holds that outcome: through *)
(* later failed lookups, crashes, restarts and partial loads, and whatever  *)
(* retries of InsertOrUpdateSecret and DeleteSecret did.                    *)
Durable == \A s \in Secrets : settled[s] # InDoubt => store[s] = settled[s]

(* And a vault that answers requests has the same value cached under the    *)
(* primary name, unless the load could not fetch the secret: what PUT and   *)
(* DELETE do to Lookup (before and after the secrets manager, respectively) *)
(* and what initialLoad does to it agree.                                   *)
Coherent ==
    status = "up" =>
        \A s \in Secrets \ missed :
            settled[s] # InDoubt => Lookup[PrimaryName(s)] = settled[s]

(* No tag, with a unique id appended, is the name of a secret.  The filters *)
(* of toLookup and deleteLookup do not ensure it (a tag may be a pubkey     *)
(* followed by a unique id), so it is a condition on what clients send.     *)
TagsNeverShadow ==
    \A v \in Tags, u \in UniqueIds, s \in Secrets :
        v \in AlphaNumeric \ PubKeys /\ Concat(v, u) \notin PubKeys =>
            Concat(v, u) # PrimaryName(s)

(* toLookup leaves an alias to the node that has it ("Key already exists"): *)
(* no step makes a name of one node's entry a name of another node's.       *)
AliasNeverStolen ==
    [][\A n \in Names :
         Lookup[n] # None /\ Lookup'[n] # None => Lookup'[n].pubkey = Lookup[n].pubkey]_Lookup

(* How far a handler has got; none goes from one stage to a lower one.      *)
Stage(step) == CASE step = "verify"                     -> 1
                 [] step \in {"alias", "aliasWrite"}    -> 2
                 [] step \in {"storing", "deleting"}    -> 3
                 [] step \in {"check", "unalias"}       -> 4
                 [] step = "idle"                       -> 5

(* Every step of a handler brings it closer to its answer: to a later       *)
(* stage, or to fewer names to write, or, once for each of them, from the   *)
(* look at a name to its write.  So that a handler that is given its turns  *)
(* answers, for it has finitely many tags; nothing another handler does can *)
(* send it back.                                                            *)
HandlersAdvance ==
    [][\A r \in Requests :
         pc[r] # "idle" /\ (pc'[r] # pc[r] \/ job'[r] # job[r]) =>
            \/ Stage(pc'[r]) > Stage(pc[r])
            \/ /\ Stage(pc'[r]) = Stage(pc[r])
               /\ \/ job'[r].todo \subseteq job[r].todo /\ job'[r].todo # job[r].todo
                  \/ /\ job'[r].todo = job[r].todo
                     /\ pc[r] = "alias" /\ pc'[r] = "aliasWrite"]_handlerVars

(* A handler under way eventually answers.                                  *)
RequestsFinish == \A r \in Requests : pc[r] # "idle" ~> pc[r] = "idle"

(* A URL that names a port, or whose scheme implies one.                    *)
HasPort(e) == e.parses /\ (e.port \in 0..MaxPort \/ e.scheme # "none")

(* What is kept of a node whose API is known can be connected with: a gRPC  *)
(* endpoint has a port, a TLS endpoint a certificate, and the authenticator *)
(* is of the kind the API takes; whichever fields PUTs gave and inherited.  *)
Connectable(d) ==
    d.apiType \in SupportedApiTypes =>
        /\ d.apiType = "LndGrpc" => HasPort(d.endpoint)
        /\ NeedCert(d.apiType) => d.cert \in Base64Certificates
        /\ DetectAuthenticatorType(d.macaroon, d.apiType) = ToAuthenticatorType(d.apiType)

KeptIsConnectable == \A s \in Secrets : store[s] # None => Connectable(store[s])

(* What a PUT let in a GET can limit: the answer carries an authenticator   *)
(* limited as the kind the API takes, and not the empty one GetConstrained  *)
(* falls back to.                                                           *)
ServedMatchesApi ==
    \A r \in Requests :
        reply[r].body # None /\ reply[r].body.apiType \in SupportedApiTypes =>
            /\ reply[r].body.macaroon # Empty
            /\ reply[r].body.macaroon.as = ToAuthenticatorType(reply[r].body.apiType)

(* With one request at a time and every node keeping its tags, an alias     *)
(* answers with what its node's primary name answers with: no entry that    *)
(* was overwritten or deleted is left under one of its names.               *)
AliasFresh ==
    (status = "up" /\ \A r \in Requests : pc[r] = "idle") =>
        \A n \in Names : Lookup[n] # None =>
            \E s \in Secrets : Lookup[n] = Lookup[PrimaryName(s)]

(* The name of a secret answers with an entry of its own node: neither an   *)
(* alias nor a DELETE by one leaves another node's entry under it, so that  *)
(* no PUT inherits what belongs to another node.                            *)
OwnNames ==
    \A s \in Secrets :
        Lookup[PrimaryName(s)] # None => Lookup[PrimaryName(s)].pubkey = s[1]

-----------------------------------------------------------------------------
(* The inductive invariant behind Durable and Coherent                      *)

(* A secret holds an entry of its own pubkey.                               *)
OwnPubKey == \A s \in Secrets : store[s] # None => store[s].pubkey = s[1]

Idle == \A r \in Requests : pc[r] = "idle"

(* Handlers run only while the vault is up, and the call of one to the      *)
(* secrets manager is for the entry and the secret it works on.             *)
CallOfHandler ==
    /\ status # "up" => Idle
    /\ \A r \in Requests :
          /\ calls[r] # NoCall <=> pc[r] \in {"storing", "deleting"}
          /\ calls[r] # NoCall =>
                /\ calls[r].secret = SecretOf(job[r])
                /\ calls[r].value = IF pc[r] = "storing" THEN job[r].data ELSE None

(* A secret under a write is in doubt; a writer that is alone is the only   *)
(* one, and what it has done so far is there to be seen.                    *)
WriterOf(r, s) ==
    /\ settled[s] = InDoubt
    /\ r \in alone =>
          /\ Writers(s) = {r}
          /\ pc[r] = "storing" => Lookup[PrimaryName(s)] = job[r].data
          /\ pc[r] # "unalias" /\ calls[r].applied => store[s] = calls[r].value
          /\ pc[r] = "unalias" => store[s] = None

WriterInv == \A r \in Requests : Writing(r) => WriterOf(r, SecretOf(job[r]))

AloneWrites == \A r \in alone : Writing(r)

(* What a handler has still to do to Lookup is to the aliases of its entry. *)
TodoAliases ==
    \A r \in Requests : pc[r] \in PutSteps \cup DeleteSteps =>
        job[r].todo \cup (IF pc[r] = "aliasWrite" THEN {job[r].tag} ELSE {})
            \subseteq Aliases(job[r].data, job[r].uid)

(* During the load, a secret that was fetched is cached or about to be.     *)
LoadInv ==
    /\ status = "down" => \A n \in Names : Lookup[n] = None
    /\ status = "loading" =>
        /\ \A e \in toLoad : store[SecretOf(e)] = e.data
        /\ \A s \in Secrets \ missed :
              /\ settled[s] = store[s]
              /\ Lookup[PrimaryName(s)] = store[s] \/ \E e \in toLoad : SecretOf(e) = s

IInv == /\ OwnPubKey
        /\ CallOfHandler
        /\ WriterInv
        /\ AloneWrites
        /\ TodoAliases
        /\ LoadInv
        /\ Durable
        /\ Coherent

-----------------------------------------------------------------------------
(* The inductive invariants behind OwnNames, AliasNeverStolen and           *)
(* AliasFresh                                                               *)

(* Two PUTs that overlap can both find an alias free: what is said of       *)
(* aliases is said of a vault with one request at a time.                   *)
OneRequest == \A q, r \in Requests : q = r

IdleUnlessUp == status # "up" => Idle

OwnInv == OwnNames /\ IdleUnlessUp /\ TodoAliases

(* Between the look at an alias and its write nobody else takes it.         *)
CheckedOwned ==
    \A r \in Requests :
        pc[r] = "aliasWrite" => Owned(Lookup, Concat(job[r].tag, job[r].uid), job[r].data)

(* What clients send and what the secrets manager has at first agrees on    *)
(* the tags of each node.                                                   *)
Given == Bodies \cup {e.data : e \in LegacySecrets}
                \cup ((UNION {{f[s] : s \in Secrets} : f \in InitialSecrets}) \ {None})

TagsOf(p) == UNION {d.tags : d \in {g \in Given : g.pubkey = p}}

KeepsTags(d) == d.tags = TagsOf(d.pubkey)

TagsKept == \A d \in Given : KeepsTags(d)

KeptTags ==
    /\ \A s \in Secrets : store[s] # None => KeepsTags(store[s])
    /\ \A r \in Requests : calls[r] # NoCall /\ calls[r].value # None => KeepsTags(calls[r].value)
    /\ \A r \in Requests : pc[r] \in PutSteps \cup DeleteSteps => KeepsTags(job[r].data)
    /\ \A e \in toLoad : KeepsTags(e.data)
    /\ \A n \in Names : Lookup[n] # None => KeepsTags(Lookup[n])

(* The names a handler in the middle of toLookup or deleteLookup has still  *)
(* to write.                                                                *)
Rewriting(r) == pc[r] \in {"verify", "alias", "aliasWrite", "unalias"}

ToWrite(r) ==
    {Concat(v, job[r].uid) : v \in job[r].todo
                                   \cup (IF pc[r] = "aliasWrite" THEN {job[r].tag} ELSE {})}
    \cup {PrimaryName(SecretOf(job[r]))}

(* A name of s has what the primary name has, and a handler that is about   *)
(* to change the latter will come to the former; or the handler has been    *)
(* there.                                                                   *)
UpToDate(n, s) ==
    /\ Lookup[n] = Lookup[PrimaryName(s)]
    /\ \A r \in Requests : Rewriting(r) /\ SecretOf(job[r]) = s => n \in ToWrite(r)

Ahead(n, s) ==
    \E r \in Requests : /\ pc[r] \in {"alias", "aliasWrite"}
                         /\ SecretOf(job[r]) = s
                         /\ Lookup[n] = job[r].data

NamedBy(n, s) == \/ n = PrimaryName(s)
                 \/ \E v \in Aliases(Lookup[n], s[2]) : n = Concat(v, s[2])

EachNameKnown ==
    \A n \in Names : Lookup[n] # None =>
        \E s \in Secrets : /\ s[1] = Lookup[n].pubkey
                            /\ NamedBy(n, s)
                            /\ (UpToDate(n, s) \/ Ahead(n, s))

AliasInv == IdleUnlessUp /\ TodoAliases /\ KeptTags /\ EachNameKnown

(* The conditions under which no name is stolen or left behind.             *)
AliasHypotheses == OneRequest /\ TagsNeverShadow /\ TagsKept

-----------------------------------------------------------------------------
(* The inductive invariant behind KeptIsConnectable: what is on its way to  *)
(* the secrets manager can be connected with as well.                       *)
KeptInv ==
    /\ KeptIsConnectable
    /\ \A r \in Requests : pc[r] \in PutSteps => Connectable(job[r].data)
    /\ \A r \in Requests :
          calls[r] # NoCall /\ calls[r].value # None => Connectable(calls[r].value)

(* What the secrets manager held at first is no worse than what PUT keeps.  *)
InitialConnectable ==
    \A f \in InitialSecrets, s \in Secrets : f[s] # None => Connectable(f[s])

LegacyConnectable == \A e \in LegacySecrets : Connectable(e.data)

-----------------------------------------------------------------------------
(* Claims of the repository that the code does not keep                     *)

(* A request that is answered "Bad request" changes nothing.                *)
BadRequestHasNoEffect ==
    [][\A r \in Requests : job[r] # NoJob /\ job[r].header = 400 =>
         UNCHANGED <<Lookup, store>>]_<<Lookup, store>>

(* Overwriting a secret invalidates it: an authenticator that no request    *)
(* supplies does not come back once it was overwritten or deleted.          *)
InvalidatedStaysInvalid ==
    [][status = "up" =>
         \A s \in Secrets :
            LET old == Lookup[PrimaryName(s)]
                new == Lookup'[PrimaryName(s)]
            IN  new # None /\ (\A b \in Bodies : b.macaroon # new.macaroon) =>
                    old # None /\ old.macaroon = new.macaroon]_Lookup

(* Overwriting a secret replaces it: once the PUTs and DELETEs have been    *)
(* answered, no name answers with an entry that was overwritten.            *)
OverwrittenNotServed ==
    (\A s \in Secrets : settled[s] # InDoubt) => AliasFresh

(* A PUT overwrites what was stored: when every PUT was answered with       *)
(* success the vault serves what it has stored.                             *)
AcknowledgedAgree ==
    (status = "up" /\ \A r \in Requests : pc[r] = "idle" /\ reply[r].code \in {200, 201}) =>
        \A s \in Secrets : Lookup[PrimaryName(s)] = store[s]
=============================================================================
