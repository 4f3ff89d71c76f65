----------------------------- MODULE VaultSteps ------------------------------
(***************************************************************************)
(* What each step of Vault does to the positions and the jobs of the       *)
(* handlers and to Lookup, stated at their points, for the proofs about    *)
(* handlers; and what follows from that alone: a handler that takes its    *)
(* steps gets to its answer.                                               *)
(***************************************************************************)
EXTENDS VaultSafety

-----------------------------------------------------------------------------
(* Positions and jobs                                                       *)

Others(r) == \A q \in Requests \ {r} : pc'[q] = pc[q] /\ job'[q] = job[q]

SameEntry(r) == job'[r].data = job[r].data /\ job'[r].uid = job[r].uid

(* A PUT has read the entry it overwrites and passed its checks.            *)
PutBegun(r) ==
    /\ pc'[r] \in {"verify", "alias"}
    /\ job'[r] \in Job
    /\ job'[r].todo = Aliases(job'[r].data, job'[r].uid)
    /\ \E b \in Bodies, u \in UniqueIds, c \in Certificates \cup {Empty} :
          /\ ~Rejected(b, Found(b.pubkey, u), Merged(b, Found(b.pubkey, u), c))
          /\ job'[r].data = Merged(b, Found(b.pubkey, u), c)
          /\ job'[r].uid = u

(* A DELETE has found the entry that it is to delete.                       *)
DeleteBegun(r) ==
    /\ pc'[r] = "deleting"
    /\ job'[r] \in Job
    /\ job'[r].todo = {}
    /\ \E n \in Names : Lookup[n] # None /\ job'[r].data = Lookup[n]

LEMMA AnswerEffect ==
    ASSUME TypeOK, NEW r \in Requests, NEW code, NEW body, Answer(r, code, body)
    PROVE  pc'[r] = "idle" /\ Others(r)
BY DEF Answer, TypeOK, Others

LEMMA BeginEffect ==
    ASSUME TypeOK, NEW r \in Requests, NEW step, NEW j, Begin(r, step, j)
    PROVE  pc'[r] = step /\ job'[r] = j /\ Others(r)
BY DEF Begin, TypeOK, Others

(* The fields of a PUT's entry that later steps ask for.                    *)
LEMMA MergedFields ==
    ASSUME NEW b \in Fields(BaseNames, Authenticators \cup {Empty}),
           NEW orig \in Data \cup {None}, NEW fetched \in Certificates \cup {Empty}
    PROVE  /\ Merged(b, orig, fetched).pubkey = b.pubkey
           /\ Merged(b, orig, fetched).tags = b.tags
           /\ Merged(b, orig, fetched).macaroon =
                 IF b.macaroon = Empty /\ orig # None THEN orig.macaroon ELSE b.macaroon
<1> DEFINE F == Fields(BaseNames, Authenticators \cup {Empty})
           e == InheritEndpoint(b, orig)
           d == InheritApiType(e, orig)
           Kept(x) == x.pubkey = b.pubkey /\ x.tags = b.tags /\ x.macaroon = b.macaroon
<1>1. e \in F /\ Kept(e)
  <2>1. orig # None => orig.endpoint \in Endpoint
    BY DEF Data, Fields
  <2> QED
    BY <2>1 DEF InheritEndpoint, Fields
<1> HIDE DEF e
<1>2. d \in F /\ Kept(d)
  <2>1. \E t \in ApiTypes \cup {None}, p \in Endpoint :
           d = [e EXCEPT !.apiType = t, !.endpoint = p]
    <3>1. CASE e.apiType # None \/ orig # None
      <4>1. orig # None => orig.apiType \in ApiTypes \cup {None}
        BY DEF Data, Fields
      <4>2. PICK t \in ApiTypes \cup {None} : d = [e EXCEPT !.apiType = t]
        BY <1>1, <3>1, <4>1 DEF InheritApiType, Fields
      <4>3. e.endpoint \in Endpoint
        BY <1>1 DEF Fields
      <4>4. [e EXCEPT !.apiType = t] = [e EXCEPT !.apiType = t, !.endpoint = e.endpoint]
        BY <1>1 DEF Fields
      <4> QED
        BY <4>2, <4>3, <4>4
    <3>2. CASE e.apiType = None /\ orig = None
      <4> DEFINE http == e.endpoint.scheme \in {"http", "https"} /\ e.endpoint.parses
                 grpc == http /\ e.endpoint.port = 10009
                 rune == DetectAuthenticatorType(e.macaroon, "ClnCommando") = "Rune"
                 t == IF rune THEN "ClnCommando"
                      ELSE IF http /\ ~grpc THEN "LndRest" ELSE "LndGrpc"
                 p == IF grpc THEN [e.endpoint EXCEPT !.scheme = "none"] ELSE e.endpoint
      <4>1. d = [e EXCEPT !.apiType = t, !.endpoint = p]
        BY <3>2 DEF InheritApiType, AutoDetectAPIType
      <4>2. t \in ApiTypes \cup {None}
        BY DEF ApiTypes, KnownApiTypes
      <4>3. p \in Endpoint
        BY <1>1 DEF Fields, Endpoint, Schemes
      <4> HIDE DEF t, p
      <4> QED
        BY <4>1, <4>2, <4>3
    <3> QED
      BY <3>1, <3>2
  <2> HIDE DEF d
  <2> QED
    BY <1>1, <2>1 DEF Fields
<1> HIDE DEF d
<1>3. Merged(b, orig, fetched) =
        [d EXCEPT !.cert     = InheritCert(d, orig, fetched),
                  !.macaroon = IF @ = Empty /\ orig # None THEN orig.macaroon ELSE @,
                  !.cvt      = IF @ = None /\ orig # None THEN orig.cvt ELSE @]
    BY DEF Merged, d, e
<1> QED
    BY <1>2, <1>3 DEF Fields

-----------------------------------------------------------------------------
(* Requests begin                                                           *)

LEMMA PutHandlerEffect ==
    ASSUME TypeOK, NEW r \in Requests, NEW b \in Bodies, NEW u \in UniqueIds,
           NEW c \in Certificates \cup {Empty}, NEW v \in BOOLEAN, PutHandler(r, b, u, c, v)
    PROVE  /\ Others(r)
           /\ pc'[r] = "idle" \/ PutBegun(r)
<1> DEFINE orig == Found(b.pubkey, u)
           d    == Merged(b, orig, c)
           code == IF BadRequestWithoutReturn(b, d) THEN 400 ELSE 0
           step == IF v THEN "verify" ELSE "alias"
           j    == [uid |-> u, data |-> d, todo |-> Aliases(d, u), tag |-> None,
                    header |-> code]
<1>1. CASE Answer(r, 400, None)
    BY <1>1, AnswerEffect
<1>2. CASE ~Rejected(b, orig, d) /\ Begin(r, step, j)
  <2>1. b \in Fields(BaseNames, Authenticators \cup {Empty})
    BY BodiesAssumption
  <2>2. b.pubkey \in PubKeys /\ b.pubkey \in BaseNames
    BY <1>2, NamesAssumption DEF Rejected
  <2>3. orig \in Data \cup {None}
    BY <2>2, NamesClosed DEF Found, TypeOK
  <2>4. d \in Data
    BY <2>1, <2>2, <2>3, MergedTyped
  <2>5. Aliases(d, u) \subseteq Tags
    BY <2>4, AliasesTyped
  <2>6. code \in {0, 400} /\ step \in {"verify", "alias"}
    OBVIOUS
  <2> HIDE DEF d, code, step, orig
  <2>7. j \in Job /\ j.todo = Aliases(j.data, j.uid) /\ j.data = d /\ j.uid = u
    BY <2>4, <2>5, <2>6 DEF Job
  <2> HIDE DEF j
  <2>8. pc'[r] = step /\ job'[r] = j /\ Others(r)
    BY <1>2, BeginEffect
  <2> QED
    BY <1>2, <2>6, <2>7, <2>8 DEF PutBegun, d, orig
<1> QED
    BY <1>1, <1>2 DEF PutHandler

LEMMA DeleteHandlerEffect ==
    ASSUME TypeOK, NEW r \in Requests, NEW n \in BaseNames, NEW u \in UniqueIds,
           DeleteHandler(r, n, u)
    PROVE  /\ Others(r)
           /\ pc'[r] = "idle" \/ DeleteBegun(r)
<1> DEFINE e == Found(n, u)
           j == [uid |-> u, data |-> e, todo |-> {}, tag |-> None, header |-> 0]
<1>1. CASE Answer(r, 404, None)
    BY <1>1, AnswerEffect
<1>2. CASE e # None /\ Begin(r, "deleting", j)
  <2>1. Concat(n, u) \in Names /\ e \in Data
    BY <1>2, NamesClosed DEF TypeOK, Found
  <2>2. j \in Job /\ j.todo = {} /\ j.data = Lookup[Concat(n, u)]
    BY <2>1 DEF Job, Found
  <2>3. pc'[r] = "deleting" /\ job'[r] = j /\ Others(r)
    BY <1>2, BeginEffect
  <2> QED
    BY <1>2, <2>1, <2>2, <2>3 DEF DeleteBegun, Found
<1> QED
    BY <1>1, <1>2 DEF DeleteHandler

(* A request begins while the vault is up, and leaves Lookup alone.         *)
LEMMA ClientEffect ==
    ASSUME TypeOK, NEW r \in Requests, Client(r)
    PROVE  /\ UNCHANGED <<Lookup, status, toLoad, store>>
           /\ status = "up" /\ pc[r] = "idle"
           /\ Others(r)
           /\ pc'[r] \in {"idle", "check"} \/ PutBegun(r) \/ DeleteBegun(r)
<1>1. UNCHANGED <<Lookup, status, toLoad, store>> /\ status = "up" /\ pc[r] = "idle"
    BY DEF Client, InvalidUniqueID, GetHandler, QueryHandler, VerifyHandler, PutHandler,
           DeleteHandler, CanBegin, NoEffect, loadVars, managerVars, Manager!Invoke
<1>2. ASSUME \/ \E op : \E u \in UniqueIds : InvalidUniqueID(r, op, u)
             \/ \E n \in BaseNames, u \in UniqueIds :
                   \/ \E m \in Durations : GetHandler(r, n, u, m)
                   \/ QueryHandler(r, n, u)
      PROVE  pc'[r] = "idle" /\ Others(r)
  <2>1. \E code, body : Answer(r, code, body)
    BY <1>2 DEF InvalidUniqueID, GetHandler, QueryHandler
  <2> QED
    BY <2>1, AnswerEffect
<1>3. ASSUME NEW n \in BaseNames, NEW u \in UniqueIds, VerifyHandler(r, n, u)
      PROVE  pc'[r] \in {"idle", "check"} /\ Others(r)
    BY <1>3, AnswerEffect, BeginEffect DEF VerifyHandler
<1>4. ASSUME \/ \E b \in Bodies, u \in UniqueIds, c \in Certificates \cup {Empty}, v \in BOOLEAN :
                   PutHandler(r, b, u, c, v)
             \/ \E n \in BaseNames, u \in UniqueIds : DeleteHandler(r, n, u)
      PROVE  Others(r) /\ (pc'[r] = "idle" \/ PutBegun(r) \/ DeleteBegun(r))
    BY <1>4, PutHandlerEffect, DeleteHandlerEffect
<1>5. Others(r) /\ (pc'[r] \in {"idle", "check"} \/ PutBegun(r) \/ DeleteBegun(r))
  <2>1. \/ \E op : \E u \in UniqueIds : InvalidUniqueID(r, op, u)
        \/ \E n \in BaseNames, u \in UniqueIds :
              \/ \E m \in Durations : GetHandler(r, n, u, m)
              \/ QueryHandler(r, n, u)
        \/ \E n \in BaseNames, u \in UniqueIds : VerifyHandler(r, n, u)
        \/ \E b \in Bodies, u \in UniqueIds, c \in Certificates \cup {Empty}, v \in BOOLEAN :
              PutHandler(r, b, u, c, v)
        \/ \E n \in BaseNames, u \in UniqueIds : DeleteHandler(r, n, u)
    BY DEF Client
  <2> QED
    BY <1>2, <1>3, <1>4, <2>1, Zenon
<1> QED
    BY <1>1, <1>5

-----------------------------------------------------------------------------
(* Requests go on                                                           *)

Quiet == UNCHANGED <<store, calls, status, toLoad>>

(* Under name n there is now v, and the other names are as they were.       *)
Written(n, v) ==
    n \in Names /\ \A m \in Names : Lookup'[m] = IF m = n THEN v ELSE Lookup[m]

NameOf(r) == PrimaryName(SecretOf(job[r]))

LEMMA HandlerJob ==
    ASSUME TypeOK, NEW r \in Requests, pc[r] \in PutSteps \cup DeleteSteps
    PROVE  /\ job[r] \in Job
           /\ job[r].data \in Data /\ job[r].uid \in UniqueIds
           /\ SecretOf(job[r]) \in Secrets /\ NameOf(r) \in Names
           /\ SecretOf(job[r])[1] = job[r].data.pubkey
           /\ SecretOf(job[r])[2] = job[r].uid
           /\ \A v \in Tags : Concat(v, job[r].uid) \in Names
<1>1. job[r] \in Job
    BY DEF TypeOK
<1>2. job[r].data \in Data /\ job[r].uid \in UniqueIds
    BY <1>1 DEF Job
<1> QED
    BY <1>1, <1>2, SecretsTyped, NamesClosed, NamesAssumption DEF SecretOf, NameOf

LEMMA VerifiedEffect ==
    ASSUME TypeOK, NEW r \in Requests, NEW ok, VerifyDone(r, ok) \/ PutVerified(r, ok)
    PROVE  /\ Quiet /\ UNCHANGED Lookup
           /\ Others(r) /\ pc[r] \in {"check", "verify"}
           /\ pc'[r] = "idle" \/ (pc[r] = "verify" /\ pc'[r] = "alias" /\ job'[r] = job[r])
<1>1. Quiet /\ UNCHANGED Lookup /\ pc[r] \in {"check", "verify"}
    BY DEF VerifyDone, PutVerified, NoEffect, Quiet, managerVars, loadVars
<1>2. \/ \E code, body : Answer(r, code, body)
      \/ pc[r] = "verify" /\ Goto(r, "alias") /\ UNCHANGED <<job, reply>>
    BY DEF VerifyDone, PutVerified, AnswerJob
<1>3. CASE \E code, body : Answer(r, code, body)
    BY <1>1, <1>3, AnswerEffect
<1>4. CASE pc[r] = "verify" /\ Goto(r, "alias") /\ UNCHANGED <<job, reply>>
    BY <1>1, <1>4 DEF Goto, Others, TypeOK
<1> QED
    BY <1>2, <1>3, <1>4

(* A tag that is free or of the same node is taken next; another is left.   *)
LEMMA AliasCheckEffect ==
    ASSUME TypeOK, NEW r \in Requests, AliasCheck(r)
    PROVE  /\ Quiet /\ UNCHANGED Lookup
           /\ Others(r) /\ SameEntry(r) /\ pc[r] = "alias"
           /\ \E v \in job[r].todo :
                 \/ /\ pc'[r] = "aliasWrite"
                    /\ job'[r].tag = v /\ job'[r].todo = job[r].todo
                    /\ Owned(Lookup, Concat(v, job[r].uid), job[r].data)
                 \/ /\ pc'[r] = "alias"
                    /\ job'[r].todo = job[r].todo \ {v}
                    /\ ~Owned(Lookup, Concat(v, job[r].uid), job[r].data)
<1> DEFINE free(v) == Owned(Lookup, Concat(v, job[r].uid), job[r].data)
<1>1. Quiet /\ UNCHANGED Lookup /\ pc[r] = "alias" /\ job[r] \in Job
    BY HandlerJob DEF AliasCheck, NoEffect, Quiet, managerVars, loadVars, PutSteps
<1>2. PICK v \in job[r].todo :
          \/ free(v) /\ Goto(r, "aliasWrite") /\ job' = [job EXCEPT ![r].tag = v]
          \/ ~free(v) /\ job' = [job EXCEPT ![r].todo = @ \ {v}] /\ UNCHANGED pc
    BY DEF AliasCheck
<1> HIDE DEF free
<1>3. CASE free(v) /\ Goto(r, "aliasWrite") /\ job' = [job EXCEPT ![r].tag = v]
  <2>1. /\ [job[r] EXCEPT !.tag = v].tag = v
        /\ [job[r] EXCEPT !.tag = v].todo = job[r].todo
        /\ [job[r] EXCEPT !.tag = v].data = job[r].data
        /\ [job[r] EXCEPT !.tag = v].uid = job[r].uid
    BY <1>1 DEF Job
  <2>2. job' = [job EXCEPT ![r] = [job[r] EXCEPT !.tag = v]]
    BY <1>3
  <2>3. Others(r) /\ SameEntry(r) /\ pc'[r] = "aliasWrite"
        /\ job'[r].tag = v /\ job'[r].todo = job[r].todo
    BY <1>3, <2>1, <2>2 DEF Goto, Others, SameEntry, TypeOK
  <2> QED
    BY <1>1, <1>3, <2>3 DEF free
<1>4. CASE ~free(v) /\ job' = [job EXCEPT ![r].todo = @ \ {v}] /\ UNCHANGED pc
  <2> DEFINE j == [job[r] EXCEPT !.todo = @ \ {v}]
  <2>1. j.todo = job[r].todo \ {v} /\ j.data = job[r].data /\ j.uid = job[r].uid
    BY <1>1 DEF Job
  <2>2. job' = [job EXCEPT ![r] = j]
    BY <1>4
  <2> HIDE DEF j
  <2>3. Others(r) /\ SameEntry(r) /\ pc'[r] = "alias" /\ job'[r].todo = job[r].todo \ {v}
    BY <1>1, <1>4, <2>1, <2>2 DEF Others, SameEntry, TypeOK
  <2> QED
    BY <1>1, <1>4, <2>3 DEF free
<1> QED
    BY <1>2, <1>3, <1>4

LEMMA AliasWriteEffect ==
    ASSUME TypeOK, NEW r \in Requests, AliasWrite(r)
    PROVE  /\ Quiet /\ Written(Concat(job[r].tag, job[r].uid), job[r].data)
           /\ Others(r) /\ SameEntry(r)
           /\ pc[r] = "aliasWrite" /\ pc'[r] = "alias" /\ job[r].tag \in Tags
           /\ job'[r].todo = job[r].todo \ {job[r].tag}
<1> DEFINE j == [job[r] EXCEPT !.todo = @ \ {job[r].tag}, !.tag = None]
           n == Concat(job[r].tag, job[r].uid)
<1>1. /\ Quiet /\ pc[r] = "aliasWrite" /\ job[r].tag \in Tags /\ job[r] \in Job
      /\ n \in Names
    BY HandlerJob DEF AliasWrite, Quiet, managerVars, loadVars, PutSteps, TypeOK
<1>2. j.todo = job[r].todo \ {job[r].tag} /\ j.data = job[r].data /\ j.uid = job[r].uid
    BY <1>1 DEF Job
<1>3. job' = [job EXCEPT ![r] = j] /\ pc' = [pc EXCEPT ![r] = "alias"]
      /\ Lookup' = [Lookup EXCEPT ![n] = job[r].data]
    BY DEF AliasWrite, Goto
<1> HIDE DEF j, n
<1>4. Others(r) /\ SameEntry(r) /\ pc'[r] = "alias" /\ job'[r].todo = job[r].todo \ {job[r].tag}
    BY <1>2, <1>3 DEF Others, SameEntry, TypeOK
<1>5. Written(n, job[r].data)
    BY <1>1, <1>3 DEF Written, TypeOK
<1> QED
    BY <1>1, <1>4, <1>5 DEF n

LEMMA PutPrimaryEffect ==
    ASSUME TypeOK, NEW r \in Requests, PutPrimary(r)
    PROVE  /\ UNCHANGED <<store, status, toLoad>>
           /\ Manager!Invoke(r, SecretOf(job[r]), job[r].data)
           /\ Written(NameOf(r), job[r].data)
           /\ Others(r) /\ job'[r] = job[r]
           /\ pc[r] = "alias" /\ pc'[r] = "storing" /\ job[r].todo = {}
<1>1. /\ UNCHANGED <<store, status, toLoad, job>>
      /\ Manager!Invoke(r, SecretOf(job[r]), job[r].data)
      /\ pc[r] = "alias" /\ pc' = [pc EXCEPT ![r] = "storing"] /\ job[r].todo = {}
      /\ Lookup' = [Lookup EXCEPT ![NameOf(r)] = job[r].data]
    BY DEF PutPrimary, Manager!Invoke, Goto, NameOf
<1>2. NameOf(r) \in Names
    BY <1>1, HandlerJob DEF PutSteps
<1>3. Written(NameOf(r), job[r].data)
    BY <1>1, <1>2 DEF Written, TypeOK
<1> QED
    BY <1>1, <1>3 DEF Others, TypeOK

LEMMA DeleteAliasEffect ==
    ASSUME TypeOK, NEW r \in Requests, DeleteAlias(r)
    PROVE  /\ Quiet /\ Others(r) /\ SameEntry(r)
           /\ pc[r] = "unalias" /\ pc'[r] = "unalias"
           /\ \E v \in job[r].todo : /\ v \in Tags
                                     /\ Written(Concat(v, job[r].uid), None)
                                     /\ job'[r].todo = job[r].todo \ {v}
<1>1. Quiet /\ pc[r] = "unalias" /\ pc' = pc /\ job[r] \in Job
    BY HandlerJob DEF DeleteAlias, Quiet, managerVars, loadVars, DeleteSteps
<1>2. PICK v \in job[r].todo :
          /\ Lookup' = [Lookup EXCEPT ![Concat(v, job[r].uid)] = None]
          /\ job' = [job EXCEPT ![r].todo = @ \ {v}]
    BY DEF DeleteAlias
<1>3. v \in Tags /\ Concat(v, job[r].uid) \in Names
    BY <1>1, HandlerJob DEF Job, DeleteSteps
<1>4. Written(Concat(v, job[r].uid), None)
    BY <1>2, <1>3 DEF Written, TypeOK
<1> DEFINE j == [job[r] EXCEPT !.todo = @ \ {v}]
<1>5. j.todo = job[r].todo \ {v} /\ j.data = job[r].data /\ j.uid = job[r].uid
    BY <1>1 DEF Job
<1>6. job' = [job EXCEPT ![r] = j]
    BY <1>2
<1> HIDE DEF j
<1>7. Others(r) /\ SameEntry(r) /\ job'[r].todo = job[r].todo \ {v}
    BY <1>1, <1>5, <1>6 DEF Others, SameEntry, TypeOK
<1> QED
    BY <1>1, <1>3, <1>4, <1>7

LEMMA DeletePrimaryEffect ==
    ASSUME TypeOK, NEW r \in Requests, DeletePrimary(r)
    PROVE  /\ Quiet /\ Written(NameOf(r), None)
           /\ Others(r)
           /\ pc[r] = "unalias" /\ pc'[r] = "idle" /\ job[r].todo = {}
<1>1. /\ Quiet /\ pc[r] = "unalias" /\ job[r].todo = {}
      /\ Lookup' = [Lookup EXCEPT ![NameOf(r)] = None]
      /\ AnswerJob(r, 200)
    BY DEF DeletePrimary, Quiet, managerVars, NameOf
<1>2. Written(NameOf(r), None)
    BY <1>1, HandlerJob DEF Written, TypeOK, DeleteSteps
<1> QED
    BY <1>1, <1>2, AnswerEffect DEF AnswerJob

(* The secrets manager's answer ends a request, but for a DELETE that goes  *)
(* on to every alias of the entry it found.                                 *)
LEMMA ReturnedEffect ==
    ASSUME TypeOK, NEW r \in Requests, Returned(r)
    PROVE  /\ UNCHANGED <<store, status, toLoad, Lookup>>
           /\ Manager!Succeed(r) \/ Manager!Fail(r)
           /\ Others(r) /\ pc[r] \in {"storing", "deleting"}
           /\ \/ pc'[r] = "idle"
              \/ /\ pc[r] = "deleting" /\ pc'[r] = "unalias" /\ SameEntry(r)
                 /\ job'[r].todo = Aliases(job[r].data, job[r].uid)
<1>1. /\ UNCHANGED <<store, status, toLoad, Lookup>>
      /\ Manager!Succeed(r) \/ Manager!Fail(r)
      /\ pc[r] \in {"storing", "deleting"}
    BY DEF Returned, PutStored, PutNotStored, Deleted, NotDeleted, loadVars,
           Manager!Succeed, Manager!Fail
<1>2. CASE Deleted(r)
  <2> DEFINE j == [job[r] EXCEPT !.todo = Aliases(job[r].data, job[r].uid)]
  <2>1. pc[r] = "deleting" /\ pc' = [pc EXCEPT ![r] = "unalias"] /\ job' = [job EXCEPT ![r] = j]
    BY <1>2 DEF Deleted, Goto
  <2>2. job[r] \in Job
    BY <2>1, HandlerJob DEF DeleteSteps
  <2>3. /\ j.todo = Aliases(job[r].data, job[r].uid)
        /\ j.data = job[r].data /\ j.uid = job[r].uid
    BY <2>2 DEF Job
  <2> HIDE DEF j
  <2>4. Others(r) /\ pc'[r] = "unalias" /\ job'[r] = j
    BY <2>1 DEF Others, TypeOK
  <2> QED
    BY <1>1, <2>1, <2>3, <2>4 DEF SameEntry
<1>3. CASE \E code, body : Answer(r, code, body)
    BY <1>1, <1>3, AnswerEffect
<1>4. Deleted(r) \/ \E code, body : Answer(r, code, body)
    BY DEF Returned, PutStored, PutNotStored, NotDeleted, AnswerJob
<1> QED
    BY <1>2, <1>3, <1>4

-----------------------------------------------------------------------------
(* Handlers advance                                                         *)

(* The name that is being written is one of those to be written.            *)
TagToWrite == \A r \in Requests : pc[r] = "aliasWrite" => job[r].tag \in job[r].todo

Progress(r) ==
    \/ Stage(pc'[r]) > Stage(pc[r])
    \/ /\ Stage(pc'[r]) = Stage(pc[r])
       /\ \/ job'[r].todo \subseteq job[r].todo /\ job'[r].todo # job[r].todo
          \/ /\ job'[r].todo = job[r].todo
             /\ pc[r] = "alias" /\ pc'[r] = "aliasWrite"

LEMMA Stages ==
    /\ Stage("verify") = 1 /\ Stage("alias") = 2 /\ Stage("aliasWrite") = 2
    /\ Stage("storing") = 3 /\ Stage("deleting") = 3
    /\ Stage("check") = 4 /\ Stage("unalias") = 4 /\ Stage("idle") = 5
BY DEF Stage

LEMMA AnsweringAdvances ==
    ASSUME TypeOK, NEW r \in Requests, pc[r] # "idle", pc'[r] = "idle"
    PROVE  Progress(r)
<1>1. pc[r] \in {"check", "verify", "alias", "aliasWrite", "storing", "deleting", "unalias"}
    BY DEF TypeOK, Steps, PutSteps, DeleteSteps
<1>2. Stage(pc[r]) \in 1..4 /\ Stage(pc'[r]) = 5
    BY <1>1, Stages
<1> QED
    BY <1>2 DEF Progress

(* A step of the handler itself.                                            *)
LEMMA HandlerAdvances ==
    ASSUME TypeOK, TagToWrite, NEW r \in Requests, Handler(r) \/ Returned(r)
    PROVE  Others(r) /\ Progress(r) /\ (pc'[r] = "aliasWrite" => job'[r].tag \in job'[r].todo)
<1>1. CASE \E ok \in BOOLEAN : VerifyDone(r, ok) \/ PutVerified(r, ok)
  <2>1. /\ Others(r) /\ pc[r] \in {"check", "verify"}
        /\ pc'[r] = "idle" \/ (pc[r] = "verify" /\ pc'[r] = "alias")
    BY <1>1, VerifiedEffect
  <2> QED
    BY <2>1, AnsweringAdvances, Stages DEF Progress
<1>2. CASE AliasCheck(r)
  <2>1. /\ Others(r) /\ pc[r] = "alias"
        /\ \E v \in job[r].todo :
              \/ pc'[r] = "aliasWrite" /\ job'[r].tag = v /\ job'[r].todo = job[r].todo
              \/ pc'[r] = "alias" /\ job'[r].todo = job[r].todo \ {v}
    BY <1>2, AliasCheckEffect
  <2> QED
    BY <2>1, Stages DEF Progress
<1>3. CASE AliasWrite(r)
  <2>1. /\ Others(r) /\ pc[r] = "aliasWrite" /\ pc'[r] = "alias"
        /\ job'[r].todo = job[r].todo \ {job[r].tag}
    BY <1>3, AliasWriteEffect
  <2> QED
    BY <2>1, Stages DEF Progress, TagToWrite
<1>4. CASE PutPrimary(r)
  <2>1. Others(r) /\ pc[r] = "alias" /\ pc'[r] = "storing"
    BY <1>4, PutPrimaryEffect
  <2> QED
    BY <2>1, Stages DEF Progress
<1>5. CASE DeleteAlias(r)
  <2>1. /\ Others(r) /\ pc[r] = "unalias" /\ pc'[r] = "unalias"
        /\ \E v \in job[r].todo : job'[r].todo = job[r].todo \ {v}
    BY <1>5, DeleteAliasEffect
  <2> QED
    BY <2>1, Stages DEF Progress
<1>6. CASE DeletePrimary(r)
  <2>1. Others(r) /\ pc[r] = "unalias" /\ pc'[r] = "idle"
    BY <1>6, DeletePrimaryEffect
  <2> QED
    BY <2>1, AnsweringAdvances
<1>7. CASE Returned(r)
  <2>1. /\ Others(r) /\ pc[r] \in {"storing", "deleting"}
        /\ pc'[r] = "idle" \/ (pc[r] = "deleting" /\ pc'[r] = "unalias")
    BY <1>7, ReturnedEffect
  <2> QED
    BY <2>1, AnsweringAdvances, Stages DEF Progress
<1> QED
    BY <1>1, <1>2, <1>3, <1>4, <1>5, <1>6, <1>7 DEF Handler

(* A step of another request, of the secrets manager or of the start.       *)
LEMMA NextAdvances ==
    ASSUME TypeOK, TagToWrite, [Next]_vars
    PROVE  /\ TagToWrite'
           /\ \A r \in Requests :
                 pc[r] # "idle" /\ (pc'[r] # pc[r] \/ job'[r] # job[r]) => Progress(r)
<1>1. ASSUME NEW r \in Requests, Handler(r) \/ Returned(r)
      PROVE  /\ TagToWrite'
             /\ \A q \in Requests : q = r \/ (pc'[q] = pc[q] /\ job'[q] = job[q])
             /\ Progress(r)
    BY <1>1, HandlerAdvances DEF TagToWrite, Others
<1>2. ASSUME NEW r \in Requests, Client(r)
      PROVE  /\ TagToWrite' /\ pc[r] = "idle"
             /\ \A q \in Requests : q = r \/ (pc'[q] = pc[q] /\ job'[q] = job[q])
  <2>1. /\ Others(r) /\ pc[r] = "idle"
        /\ pc'[r] \in {"idle", "check", "verify", "alias", "deleting"}
    BY <1>2, ClientEffect DEF PutBegun, DeleteBegun
  <2> QED
    BY <2>1 DEF TagToWrite, Others
<1>3. CASE UNCHANGED <<pc, job>>
    BY <1>3 DEF TagToWrite
<1>4. CASE Crash
  <2>1. \A r \in Requests : pc'[r] = "idle"
    BY <1>4 DEF Crash
  <2> QED
    BY <2>1, AnsweringAdvances DEF TagToWrite
<1>5. UNCHANGED <<pc, job>> \/ Crash \/ \E r \in Requests : Client(r) \/ Handler(r) \/ Returned(r)
    BY DEF Next, vars, Attempt, Start, LoadSecrets, InitialLoad, Listen, handlerVars
<1> QED
    BY <1>1, <1>2, <1>3, <1>4, <1>5

(* Every step that a handler under way takes, among any number of others    *)
(* and whatever they do to Lookup in between, brings it closer to its       *)
(* answer: there is no way round that it could go for ever.                 *)
THEOREM HandlersGoOn == Spec => HandlersAdvance
<1>1. Init => TagToWrite
    BY DEF Init, TagToWrite
<1>2. TypeOK /\ TagToWrite /\ [Next]_vars => TagToWrite'
    BY NextAdvances
<1>3. TypeOK /\ TagToWrite /\ [Next]_vars =>
        [\A r \in Requests :
           pc[r] # "idle" /\ (pc'[r] # pc[r] \/ job'[r] # job[r]) =>
              \/ Stage(pc'[r]) > Stage(pc[r])
              \/ /\ Stage(pc'[r]) = Stage(pc[r])
                 /\ \/ job'[r].todo \subseteq job[r].todo /\ job'[r].todo # job[r].todo
                    \/ /\ job'[r].todo = job[r].todo
                       /\ pc[r] = "alias" /\ pc'[r] = "aliasWrite"]_handlerVars
    BY NextAdvances DEF Progress
<1> QED
    BY <1>1, <1>2, <1>3, TypeInvariant, PTL DEF Spec, HandlersAdvance

-----------------------------------------------------------------------------
(* The handlers and the secrets manager                                     *)

LEMMA StoreStep ==
    ASSUME TypeOK, [Next]_vars
    PROVE  [Manager!StoreNext]_<<store, calls>>
<1>1. CASE UNCHANGED <<store, calls>>
    BY <1>1
<1>i. ASSUME NEW r \in Requests, NEW s \in Secrets, NEW v \in Data \cup {None},
             Manager!Invoke(r, s, v)
      PROVE  Manager!StoreNext
    BY <1>i DEF Manager!StoreNext
<1>2. ASSUME NEW r \in Requests, Client(r)
      PROVE  [Manager!StoreNext]_<<store, calls>>
  <2>1. UNCHANGED <<store, calls>> \/ \E n \in BaseNames, u \in UniqueIds : DeleteHandler(r, n, u)
    BY <1>2 DEF Client, InvalidUniqueID, GetHandler, QueryHandler, VerifyHandler, PutHandler,
                NoEffect, managerVars
  <2>2. ASSUME NEW n \in BaseNames, NEW u \in UniqueIds, DeleteHandler(r, n, u)
        PROVE  UNCHANGED <<store, calls>> \/ \E s \in Secrets : Manager!Invoke(r, s, None)
    <3> DEFINE e == Found(n, u)
               j == [uid |-> u, data |-> e, todo |-> {}, tag |-> None, header |-> 0]
    <3>1. UNCHANGED <<store, calls>> \/ (e # None /\ Manager!Invoke(r, SecretOf(j), None))
      BY <2>2 DEF DeleteHandler, NoEffect, managerVars
    <3>2. e # None => e \in Data
      BY NamesClosed DEF Found, TypeOK
    <3>3. e # None => SecretOf(j) \in Secrets
      BY <3>2, SecretsTyped DEF SecretOf
    <3> QED
      BY <3>1, <3>3
  <2> QED
    BY <2>1, <2>2, <1>i
<1>3. ASSUME NEW r \in Requests, Handler(r)
      PROVE  [Manager!StoreNext]_<<store, calls>>
  <2>1. CASE PutPrimary(r)
    <3>1. pc[r] = "alias" /\ Manager!Invoke(r, SecretOf(job[r]), job[r].data)
      BY <2>1, PutPrimaryEffect
    <3>2. SecretOf(job[r]) \in Secrets /\ job[r].data \in Data
      BY <3>1, HandlerJob DEF PutSteps
    <3> QED
      BY <3>1, <3>2, <1>i
  <2>2. CASE ~PutPrimary(r)
    BY <1>3, <2>2, VerifiedEffect, AliasCheckEffect, AliasWriteEffect, DeleteAliasEffect,
       DeletePrimaryEffect DEF Handler, Quiet
  <2> QED
    BY <2>1, <2>2
<1>4. ASSUME NEW r \in Requests, Returned(r)
      PROVE  Manager!StoreNext
    BY <1>4, ReturnedEffect DEF Manager!StoreNext
<1>5. ASSUME NEW r \in Requests, Attempt(r)
      PROVE  Manager!StoreNext
    BY <1>5 DEF Attempt, Manager!StoreNext
<1>6. Crash => Manager!StoreNext
    BY DEF Crash, Manager!StoreNext
<1>7. Start \/ UNCHANGED vars => UNCHANGED <<store, calls>>
    BY DEF Start, LoadSecrets, InitialLoad, Listen, managerVars, vars
<1> QED
    BY <1>1, <1>2, <1>3, <1>4, <1>5, <1>6, <1>7 DEF Next

(* The handlers use a secrets manager as SecretStore has it used: each has  *)
(* at most one call of its own under way, for a secret and an entry of its  *)
(* pubkey or a deletion, and what is stored changes by attempts of those    *)
(* calls only.  So what Platform implements, with AWS and with GCP, is what *)
(* Vault relies on.                                                         *)
THEOREM StoreAsPromised == Spec => Manager!StoreSpec
<1>1. Init => Manager!StoreInit
    BY InitialAssumption DEF Init, Manager!StoreInit
<1>2. TypeOK /\ [Next]_vars => [Manager!StoreNext]_(Manager!storeVars)
    BY StoreStep DEF Manager!storeVars
<1> QED
    BY <1>1, <1>2, TypeInvariant, PTL DEF Spec, Manager!StoreSpec
=============================================================================
