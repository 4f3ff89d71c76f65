---------------------------- MODULE VaultPolicy ----------------------------
(***************************************************************************)
(* The checks of PUT protect the secrets manager: whatever bodies clients  *)
(* send and whichever fields are inherited from whatever was cached, at    *)
(* any number of concurrent requests, what is stored can be connected with.*)
(***************************************************************************)
EXTENDS VaultProofs

-----------------------------------------------------------------------------
(* The checks, by themselves                                                *)

LEMMA PortFound ==
    ASSUME NEW e \in Endpoint, ~(ExtractPort(e) < 0)
    PROVE  HasPort(e)
<1>1. e.parses
    BY DEF ExtractPort, NoPort
<1>2. CASE e.port \in 0..MaxPort
    BY <1>1, <1>2 DEF HasPort
<1>3. CASE e.port \notin 0..MaxPort
  <2>1. e.scheme # "none"
    BY <1>1, <1>3 DEF ExtractPort, NoPort
  <2> QED
    BY <1>1, <2>1 DEF HasPort
<1> QED
    BY <1>2, <1>3

(* An entry that was not rejected can be connected with, whatever the body  *)
(* and the entry it was merged from.                                        *)
LEMMA NotRejectedConnectable ==
    ASSUME NEW b, NEW orig, NEW d \in Data, ~Rejected(b, orig, d)
    PROVE  Connectable(d)
<1> SUFFICES ASSUME d.apiType \in SupportedApiTypes PROVE Connectable(d)
    BY DEF Connectable
<1>1. ASSUME d.apiType = "LndGrpc"
      PROVE  HasPort(d.endpoint)
  <2>1. d.endpoint \in Endpoint
    BY DEF Data, Fields
  <2>2. ~(ExtractPort(d.endpoint) < 0)
    BY <1>1 DEF Rejected
  <2> QED
    BY <2>1, <2>2, PortFound
<1>2. NeedCert(d.apiType) => d.cert \in Base64Certificates
    BY DEF Rejected
<1>3. DetectAuthenticatorType(d.macaroon, d.apiType) = ToAuthenticatorType(d.apiType)
  <2>1. ~ComplainAboutInvalidAuthenticator(d)
    BY DEF Rejected
  <2>2. GetAPIType(d.apiType) = d.apiType /\ d.apiType # None
    BY NilApiTypeAssumption DEF GetAPIType, SupportedApiTypes, KnownApiTypes, ApiTypes
  <2>3. ToAuthenticatorType(d.apiType) # "Unknown"
    BY DEF SupportedApiTypes, ToAuthenticatorType
  <2> QED
    BY <2>1, <2>2, <2>3, Zenon DEF ComplainAboutInvalidAuthenticator
<1> QED
    BY <1>1, <1>2, <1>3, Zenon DEF Connectable

-----------------------------------------------------------------------------
(* Steps                                                                    *)

LEMMA InitKept ==
    ASSUME InitialConnectable, Init PROVE KeptInv
BY DEF Init, InitialConnectable, KeptInv, KeptIsConnectable, PutSteps

LEMMA JobTyped ==
    ASSUME TypeOK, NEW r \in Requests, pc[r] \in PutSteps \cup DeleteSteps
    PROVE  job[r] \in Job /\ job[r].data \in Data
BY DEF TypeOK, Job

(* A step of r that leaves the secrets manager and other handlers alone.    *)
LEMMA LocalStep ==
    ASSUME KeptInv, NEW r \in Requests,
           UNCHANGED managerVars,
           \A q \in Requests \ {r} : pc'[q] = pc[q] /\ job'[q] = job[q],
           pc'[r] \in PutSteps => Connectable(job'[r].data)
    PROVE  KeptInv'
<1>1. KeptIsConnectable'
    BY DEF KeptInv, KeptIsConnectable, managerVars, Connectable
<1>2. ASSUME NEW q \in Requests, pc'[q] \in PutSteps
      PROVE  Connectable(job'[q].data)
    BY <1>2 DEF KeptInv
<1>3. ASSUME NEW q \in Requests, calls'[q] # NoCall, calls'[q].value # None
      PROVE  Connectable(calls'[q].value)
    BY <1>3 DEF KeptInv, managerVars
<1> QED
    BY <1>1, <1>2, <1>3 DEF KeptInv

LEMMA AnswerKept ==
    ASSUME TypeOK, KeptInv, NEW r \in Requests, NEW code, NEW body,
           Answer(r, code, body), UNCHANGED managerVars
    PROVE  KeptInv'
<1>1. /\ \A q \in Requests \ {r} : pc'[q] = pc[q] /\ job'[q] = job[q]
      /\ pc'[r] \notin PutSteps
    BY DEF TypeOK, Answer, PutSteps
<1> QED
    BY <1>1, LocalStep

(* A call of the secrets manager: for an entry that can be connected with,  *)
(* or for None.                                                             *)
LEMMA InvokeKept ==
    ASSUME TypeOK, KeptInv, NEW r \in Requests, NEW s, NEW v, NEW step,
           Manager!Invoke(r, s, v),
           v # None => Connectable(v),
           pc' = [pc EXCEPT ![r] = step],
           \A q \in Requests \ {r} : job'[q] = job[q],
           step \in PutSteps => Connectable(job'[r].data)
    PROVE  KeptInv'
<1>1. KeptIsConnectable'
    BY DEF KeptInv, KeptIsConnectable, Manager!Invoke, Connectable
<1>2. ASSUME NEW q \in Requests, pc'[q] \in PutSteps
      PROVE  Connectable(job'[q].data)
    BY <1>2 DEF KeptInv, TypeOK
<1>3. ASSUME NEW q \in Requests, calls'[q] # NoCall, calls'[q].value # None
      PROVE  Connectable(calls'[q].value)
  <2>1. calls' = [calls EXCEPT ![r] = [secret |-> s, value |-> v, applied |-> FALSE]]
    BY DEF Manager!Invoke
  <2>2. CASE q = r
    <3>1. calls'[q].value = v
      BY <2>1, <2>2 DEF TypeOK, Manager!StoreTypeOK
    <3> QED
      BY <1>3, <3>1
  <2>3. CASE q # r
    <3>1. calls'[q] = calls[q]
      BY <2>1, <2>3 DEF TypeOK, Manager!StoreTypeOK
    <3> QED
      BY <1>3, <3>1 DEF KeptInv
  <2> QED
    BY <2>2, <2>3
<1> QED
    BY <1>1, <1>2, <1>3 DEF KeptInv

LEMMA PutHandlerKept ==
    ASSUME TypeOK, KeptInv, NEW r \in Requests, NEW b \in Bodies, NEW u \in UniqueIds,
           NEW c \in Certificates \cup {Empty}, NEW v \in BOOLEAN,
           PutHandler(r, b, u, c, v)
    PROVE  KeptInv'
<1> DEFINE orig == Found(b.pubkey, u)
           d    == Merged(b, orig, c)
           code == IF BadRequestWithoutReturn(b, d) THEN 400 ELSE 0
           j    == [uid |-> u, data |-> d, todo |-> Aliases(d, u), tag |-> None,
                    header |-> code]
           step == IF v THEN "verify" ELSE "alias"
<1>1. UNCHANGED managerVars
    BY DEF PutHandler, NoEffect
<1>2. CASE Answer(r, 400, None)
    BY <1>1, <1>2, AnswerKept
<1>3. CASE ~Rejected(b, orig, d) /\ Begin(r, step, j)
  <2>1. b \in Fields(BaseNames, Authenticators \cup {Empty})
    BY BodiesAssumption
  <2>2. b.pubkey \in BaseNames
    BY <2>1 DEF Fields
  <2>3. orig \in Data \cup {None}
    BY <2>2, NamesClosed DEF Found, TypeOK
  <2>4. b.pubkey \in PubKeys
    BY <1>3 DEF Rejected
  <2>5. d \in Data
    BY <2>1, <2>3, <2>4, MergedTyped
  <2> HIDE DEF d, orig
  <2>6. Connectable(d)
    BY <1>3, <2>5, NotRejectedConnectable
  <2>7. j.data = d
    OBVIOUS
  <2> HIDE DEF j, step
  <2>8. pc' = [pc EXCEPT ![r] = step] /\ job' = [job EXCEPT ![r] = j]
    BY <1>3 DEF Begin
  <2>9. /\ \A q \in Requests \ {r} : pc'[q] = pc[q] /\ job'[q] = job[q]
        /\ job'[r] = j
    BY <2>8 DEF TypeOK
  <2> QED
    BY <1>1, <2>6, <2>7, <2>9, LocalStep
<1> QED
    BY <1>2, <1>3 DEF PutHandler

LEMMA DeleteHandlerKept ==
    ASSUME TypeOK, KeptInv, NEW r \in Requests, NEW n \in BaseNames, NEW u \in UniqueIds,
           DeleteHandler(r, n, u)
    PROVE  KeptInv'
<1> DEFINE j == [uid |-> u, data |-> Found(n, u), todo |-> {}, tag |-> None, header |-> 0]
<1>1. CASE Answer(r, 404, None) /\ NoEffect
    BY <1>1, AnswerKept DEF NoEffect
<1>2. CASE Begin(r, "deleting", j) /\ Manager!Invoke(r, SecretOf(j), None)
  <2>1. pc' = [pc EXCEPT ![r] = "deleting"] /\ \A q \in Requests \ {r} : job'[q] = job[q]
    BY <1>2 DEF Begin, TypeOK
  <2>2. "deleting" \notin PutSteps
    BY DEF PutSteps
  <2> HIDE DEF j
  <2> QED
    BY <1>2, <2>1, <2>2, InvokeKept
<1> QED
    BY <1>1, <1>2 DEF DeleteHandler

LEMMA ClientKept ==
    ASSUME TypeOK, KeptInv, NEW r \in Requests, Client(r)
    PROVE  KeptInv'
<1>1. ASSUME NEW op, NEW u \in UniqueIds, InvalidUniqueID(r, op, u)
      PROVE  KeptInv'
    BY <1>1, AnswerKept DEF InvalidUniqueID, NoEffect
<1>2. ASSUME NEW n \in BaseNames, NEW u \in UniqueIds, NEW m \in Durations,
             GetHandler(r, n, u, m)
      PROVE  KeptInv'
    BY <1>2, AnswerKept DEF GetHandler, NoEffect
<1>3. ASSUME NEW n \in BaseNames, NEW u \in UniqueIds, QueryHandler(r, n, u)
      PROVE  KeptInv'
    BY <1>3, AnswerKept DEF QueryHandler, NoEffect
<1>4. ASSUME NEW n \in BaseNames, NEW u \in UniqueIds, VerifyHandler(r, n, u)
      PROVE  KeptInv'
  <2>1. UNCHANGED managerVars
    BY <1>4 DEF VerifyHandler, NoEffect
  <2>2. Begin(r, "check", NoJob) \/ \E code \in {400, 404} : Answer(r, code, None)
    BY <1>4 DEF VerifyHandler
  <2>3. CASE Begin(r, "check", NoJob)
    <3>1. /\ \A q \in Requests \ {r} : pc'[q] = pc[q] /\ job'[q] = job[q]
          /\ pc'[r] \notin PutSteps
      BY <2>3 DEF Begin, TypeOK, PutSteps
    <3> QED
      BY <2>1, <3>1, LocalStep
  <2> QED
    BY <2>1, <2>2, <2>3, AnswerKept
<1> QED
    BY <1>1, <1>2, <1>3, <1>4, PutHandlerKept, DeleteHandlerKept DEF Client

LEMMA HandlerKept ==
    ASSUME TypeOK, KeptInv, NEW r \in Requests, Handler(r)
    PROVE  KeptInv'
<1>1. ASSUME NEW ok \in BOOLEAN, VerifyDone(r, ok)
      PROVE  KeptInv'
    BY <1>1, AnswerKept DEF VerifyDone, NoEffect
<1>2. ASSUME NEW ok \in BOOLEAN, PutVerified(r, ok)
      PROVE  KeptInv'
  <2>1. UNCHANGED managerVars /\ pc[r] \in PutSteps
    BY <1>2 DEF PutVerified, NoEffect, PutSteps
  <2>2. CASE AnswerJob(r, 400)
    BY <2>1, <2>2, AnswerKept DEF AnswerJob
  <2>3. CASE Goto(r, "alias") /\ UNCHANGED <<job, reply>>
    <3>1. /\ \A q \in Requests \ {r} : pc'[q] = pc[q] /\ job'[q] = job[q]
          /\ Connectable(job'[r].data)
      BY <2>1, <2>3 DEF Goto, TypeOK, KeptInv
    <3> QED
      BY <2>1, <3>1, LocalStep
  <2> QED
    BY <1>2, <2>2, <2>3 DEF PutVerified
<1>3. CASE AliasCheck(r) \/ AliasWrite(r)
  <2>1. /\ UNCHANGED managerVars /\ pc[r] \in PutSteps
        /\ \A q \in Requests \ {r} : pc'[q] = pc[q] /\ job'[q] = job[q]
    BY <1>3 DEF AliasCheck, AliasWrite, NoEffect, PutSteps, Goto, TypeOK
  <2>2. job[r] \in Job /\ Connectable(job[r].data)
    BY <2>1, JobTyped DEF KeptInv
  <2>3. job'[r].data = job[r].data
    <3>1. PICK j : job' = [job EXCEPT ![r] = j] /\ j.data = job[r].data
      <4>1. CASE AliasCheck(r)
        <5>1. PICK v \in job[r].todo : \/ job' = [job EXCEPT ![r].tag = v]
                                      \/ job' = [job EXCEPT ![r].todo = @ \ {v}]
          BY <4>1 DEF AliasCheck
        <5>2. /\ [job[r] EXCEPT !.tag = v].data = job[r].data
              /\ [job[r] EXCEPT !.todo = @ \ {v}].data = job[r].data
          BY <2>2 DEF Job
        <5> QED
          BY <5>1, <5>2
      <4>2. CASE AliasWrite(r)
        <5>1. job' = [job EXCEPT ![r].todo = @ \ {job[r].tag}, ![r].tag = None]
          BY <4>2 DEF AliasWrite
        <5>2. [job[r] EXCEPT !.todo = @ \ {job[r].tag}, !.tag = None].data = job[r].data
          BY <2>2 DEF Job
        <5> QED
          BY <5>1, <5>2
      <4> QED
        BY <1>3, <4>1, <4>2
    <3> QED
      BY <3>1 DEF TypeOK
  <2> QED
    BY <2>1, <2>2, <2>3, LocalStep
<1>4. CASE PutPrimary(r)
  <2>1. pc[r] \in PutSteps
    BY <1>4 DEF PutPrimary, PutSteps
  <2>2. Connectable(job[r].data) /\ job' = job
    BY <1>4, <2>1 DEF PutPrimary, KeptInv
  <2>3. pc' = [pc EXCEPT ![r] = "storing"]
    BY <1>4 DEF PutPrimary, Goto
  <2>4. Manager!Invoke(r, SecretOf(job[r]), job[r].data)
    BY <1>4 DEF PutPrimary
  <2> QED
    BY <2>2, <2>3, <2>4, InvokeKept
<1>5. CASE DeleteAlias(r)
  <2>1. /\ UNCHANGED managerVars /\ pc' = pc /\ pc[r] \notin PutSteps
        /\ \A q \in Requests \ {r} : job'[q] = job[q]
    BY <1>5 DEF DeleteAlias, PutSteps, TypeOK
  <2> QED
    BY <2>1, LocalStep
<1>6. CASE DeletePrimary(r)
    BY <1>6, AnswerKept DEF DeletePrimary, AnswerJob
<1> QED
    BY <1>1, <1>2, <1>3, <1>4, <1>5, <1>6 DEF Handler

(* The return of the secrets manager: the handler answers, or a DELETE goes *)
(* on to Lookup.                                                            *)
LEMMA ReturnedKept ==
    ASSUME TypeOK, KeptInv, NEW r \in Requests, Returned(r)
    PROVE  KeptInv'
<1>1. store' = store /\ calls' = [calls EXCEPT ![r] = NoCall]
    BY DEF Returned, PutStored, PutNotStored, Deleted, NotDeleted,
           Manager!Succeed, Manager!Fail
<1>2. /\ \A q \in Requests \ {r} : pc'[q] = pc[q] /\ job'[q] = job[q]
      /\ pc'[r] \notin PutSteps
    BY DEF Returned, PutStored, PutNotStored, Deleted, NotDeleted, AnswerJob, Answer,
           Goto, TypeOK, PutSteps
<1>3. KeptIsConnectable'
    BY <1>1 DEF KeptInv, KeptIsConnectable, Connectable
<1>4. ASSUME NEW q \in Requests, pc'[q] \in PutSteps
      PROVE  Connectable(job'[q].data)
    BY <1>2, <1>4 DEF KeptInv
<1>5. ASSUME NEW q \in Requests, calls'[q] # NoCall, calls'[q].value # None
      PROVE  Connectable(calls'[q].value)
  <2>1. calls'[q] = calls[q]
    BY <1>1, <1>5 DEF TypeOK, Manager!StoreTypeOK
  <2> QED
    BY <1>5, <2>1 DEF KeptInv
<1> QED
    BY <1>3, <1>4, <1>5 DEF KeptInv

LEMMA AttemptKept ==
    ASSUME TypeOK, KeptInv, NEW r \in Requests, Attempt(r)
    PROVE  KeptInv'
<1>1. /\ calls[r] # NoCall
      /\ store' = [store EXCEPT ![calls[r].secret] = calls[r].value]
      /\ calls' = [calls EXCEPT ![r].applied = TRUE]
      /\ pc' = pc /\ job' = job
    BY DEF Attempt, Manager!Apply, handlerVars
<1>2. calls[r] \in Manager!Call
    BY <1>1 DEF TypeOK, Manager!StoreTypeOK
<1>3. KeptIsConnectable'
  <2>1. ASSUME NEW s \in Secrets, store'[s] # None
        PROVE  Connectable(store'[s])
    <3>1. store'[s] = store[s] \/ store'[s] = calls[r].value
      BY <1>1 DEF TypeOK, Manager!StoreTypeOK
    <3> QED
      BY <1>1, <2>1, <3>1 DEF KeptInv, KeptIsConnectable
  <2> QED
    BY <2>1 DEF KeptIsConnectable, Connectable
<1>4. ASSUME NEW q \in Requests, calls'[q] # NoCall, calls'[q].value # None
      PROVE  Connectable(calls'[q].value)
  <2>1. calls'[q] = calls[q] \/ (q = r /\ calls'[q].value = calls[q].value)
    BY <1>1, <1>2 DEF TypeOK, Manager!StoreTypeOK, Manager!Call
  <2> QED
    BY <1>1, <1>4, <2>1 DEF KeptInv
<1> QED
    BY <1>1, <1>3, <1>4 DEF KeptInv, Connectable

LEMMA NextKept ==
    ASSUME TypeOK, KeptInv, [Next]_vars
    PROVE  KeptInv'
<1>1. CASE Start \/ UNCHANGED vars
  <2>1. store' = store /\ calls' = calls /\ pc' = pc /\ job' = job
    BY <1>1 DEF Start, LoadSecrets, InitialLoad, Listen, managerVars, handlerVars, vars
  <2> QED
    BY <2>1 DEF KeptInv, KeptIsConnectable, Connectable
<1>2. CASE Crash
  <2>1. /\ store' = store
        /\ calls' = [c \in Requests |-> NoCall]
        /\ pc' = [c \in Requests |-> "idle"]
    BY <1>2 DEF Crash, Manager!Abandon
  <2> QED
    BY <2>1 DEF KeptInv, KeptIsConnectable, Connectable, PutSteps
<1> QED
    BY <1>1, <1>2, ClientKept, HandlerKept, ReturnedKept, AttemptKept DEF Next

(* Whatever bodies clients send, whichever fields a PUT inherits from an    *)
(* entry it read while other requests replaced it, and wherever crashes and *)
(* partial loads fall: what the checks of PutHandler let through to the     *)
(* secrets manager has a port, a certificate and an authenticator of the    *)
(* kind its API takes, if what was there at first had.                      *)
THEOREM KeptConnectable ==
    ASSUME InitialConnectable
    PROVE  Spec => []KeptIsConnectable
<1>1. Init => KeptInv
    BY InitKept
<1>2. TypeOK /\ KeptInv /\ [Next]_vars => KeptInv'
    BY NextKept
<1>3. KeptInv => KeptIsConnectable
    BY DEF KeptInv
<1> QED
    BY <1>1, <1>2, <1>3, TypeInvariant, PTL DEF Spec

-----------------------------------------------------------------------------
(* What is cached, and so what is served                                    *)

(* What is cached, or loaded to be, can be connected with as well, and what *)
(* was served had the authenticator its API takes.                          *)
ServedInv ==
    /\ \A n \in Names : Lookup[n] # None => Connectable(Lookup[n])
    /\ \A e \in toLoad : Connectable(e.data)
    /\ ServedMatchesApi

(* Limiting the authenticator of an entry that can be connected with gives  *)
(* one of the kind the API takes, for each duration that is granted.        *)
LEMMA ConstrainedMatches ==
    ASSUME NEW d \in Data, Connectable(d), NEW m \in Durations
    PROVE  LET body == GetConstrained(d, m)
           IN  body.apiType \in SupportedApiTypes =>
                  /\ body.macaroon # Empty
                  /\ body.macaroon.as = ToAuthenticatorType(body.apiType)
<1> DEFINE body == GetConstrained(d, m)
<1>1. ~ConstrainFails(m) /\ m \in Nat
  BY DEF Durations, ConstrainFails
<1>2. body = [d EXCEPT !.macaroon = Constrain(d.macaroon, m, GetAPIType(d.apiType))]
  BY <1>1 DEF GetConstrained
<1>3. /\ body.apiType = d.apiType
      /\ body.macaroon = Constrain(d.macaroon, m, GetAPIType(d.apiType))
  BY <1>2 DEF Data, Fields
<1> SUFFICES ASSUME d.apiType \in SupportedApiTypes
             PROVE  /\ body.macaroon # Empty
                    /\ body.macaroon.as = ToAuthenticatorType(d.apiType)
  BY <1>3
<1> DEFINE kind == ToAuthenticatorType(d.apiType)
           a == [of |-> d.macaroon, as |-> kind, minutes |-> m]
<1>4. GetAPIType(d.apiType) = d.apiType
  BY DEF SupportedApiTypes, KnownApiTypes, GetAPIType
<1>5. kind \in {"Macaroon", "Rune"}
  BY DEF SupportedApiTypes, ToAuthenticatorType
<1>6. DetectAuthenticatorType(d.macaroon, d.apiType) = kind
  BY DEF Connectable
<1>7. body.macaroon = a
  <2>1. kind # "Unknown"
    BY <1>5
  <2> HIDE DEF body, kind
  <2>2. QED
    BY <1>3, <1>4, <1>6, <2>1 DEF Constrain
<1>8. d.macaroon \in Authenticators
  <2>1. d.macaroon \in LooksLikeMacaroon \cup LooksLikeRune
    BY <1>5, <1>6 DEF DetectAuthenticatorType
  <2>2. QED
    BY <2>1, SubsetsAssumption
<1> HIDE DEF kind, body
<1>9. a \in Limited /\ a.as = kind
  BY <1>1, <1>5, <1>8 DEF Limited
<1> HIDE DEF a
<1>10. QED
  BY <1>7, <1>9, LimitedAssumption DEF kind

(* Init: nothing is cached, and nothing was answered.                       *)
LEMMA InitServed == ASSUME Init PROVE ServedInv
BY DEF Init, ServedInv, ServedMatchesApi, NoReply

(* A step that answers without an entry.                                    *)
LEMMA AnswerServed ==
    ASSUME TypeOK, ServedInv, NEW r \in Requests, NEW code, Answer(r, code, None)
    PROVE  ServedMatchesApi'
<1>1. reply' = [reply EXCEPT ![r] = [code |-> code, body |-> None]]
  BY DEF Answer
<1>2. reply'[r].body = None /\ \A q \in Requests \ {r} : reply'[q] = reply[q]
  BY <1>1 DEF TypeOK
<1>3. QED
  BY <1>2 DEF ServedInv, ServedMatchesApi

(* A handler that begins serves nothing.                                    *)
LEMMA BeginServed ==
    ASSUME TypeOK, ServedInv, NEW r \in Requests, NEW step, NEW j, Begin(r, step, j)
    PROVE  ServedMatchesApi'
<1>1. reply'[r].body = None /\ \A q \in Requests \ {r} : reply'[q] = reply[q]
  BY DEF Begin, TypeOK, NoReply
<1>2. QED
  BY <1>1 DEF ServedInv, ServedMatchesApi

(* GetHandler limits what it serves as the kind its API takes.              *)
LEMMA GetServed ==
    ASSUME TypeOK, ServedInv, NEW r \in Requests, NEW n \in BaseNames, NEW u \in UniqueIds,
           NEW m \in Durations, GetHandler(r, n, u, m)
    PROVE  ServedMatchesApi'
<1> DEFINE d == Found(n, u)
<1>1. CASE d = None
  BY <1>1, AnswerServed DEF GetHandler
<1>2. CASE d # None
  <2>1. d \in Data /\ Connectable(d)
    BY <1>2, NamesClosed DEF Found, TypeOK, ServedInv
  <2> DEFINE body == GetConstrained(d, m)
  <2>2. body.apiType \in SupportedApiTypes =>
           body.macaroon # Empty /\ body.macaroon.as = ToAuthenticatorType(body.apiType)
    BY <2>1, ConstrainedMatches
  <2>3. reply' = [reply EXCEPT ![r] = [code |-> 200, body |-> body]]
    BY <1>2 DEF GetHandler, Answer
  <2> HIDE DEF body
  <2>4. reply'[r].body = body /\ \A q \in Requests \ {r} : reply'[q] = reply[q]
    BY <2>3 DEF TypeOK
  <2>5. QED
    BY <2>2, <2>4 DEF ServedInv, ServedMatchesApi
<1>3. QED
  BY <1>1, <1>2

(* The beginnings of the five handlers.                                     *)
LEMMA ClientServed ==
    ASSUME TypeOK, ServedInv, NEW r \in Requests, Client(r)
    PROVE  ServedInv'
<1>1. Lookup' = Lookup /\ toLoad' = toLoad
  BY DEF Client, InvalidUniqueID, GetHandler, QueryHandler, VerifyHandler, DeleteHandler,
         PutHandler, NoEffect, loadVars
<1>2. ServedMatchesApi'
  <2>1. ASSUME NEW op, NEW u \in UniqueIds, InvalidUniqueID(r, op, u)
        PROVE  ServedMatchesApi'
    BY <2>1, AnswerServed DEF InvalidUniqueID
  <2>2. ASSUME NEW n \in BaseNames, NEW u \in UniqueIds, QueryHandler(r, n, u)
        PROVE  ServedMatchesApi'
    BY <2>2, AnswerServed DEF QueryHandler
  <2>3. ASSUME NEW n \in BaseNames, NEW u \in UniqueIds, VerifyHandler(r, n, u)
        PROVE  ServedMatchesApi'
    BY <2>3, AnswerServed, BeginServed DEF VerifyHandler
  <2>4. ASSUME NEW n \in BaseNames, NEW u \in UniqueIds, DeleteHandler(r, n, u)
        PROVE  ServedMatchesApi'
    BY <2>4, AnswerServed, BeginServed DEF DeleteHandler
  <2>5. ASSUME NEW b \in Bodies, NEW u \in UniqueIds, NEW c \in Certificates \cup {Empty},
               NEW v \in BOOLEAN, PutHandler(r, b, u, c, v)
        PROVE  ServedMatchesApi'
    BY <2>5, AnswerServed, BeginServed DEF PutHandler
  <2>6. QED
    BY <2>1, <2>2, <2>3, <2>4, <2>5, GetServed DEF Client
<1>3. QED
  BY <1>1, <1>2 DEF ServedInv, Connectable

(* A PUT caches an entry that was not rejected, a DELETE caches none.       *)
LEMMA HandlerServed ==
    ASSUME TypeOK, KeptInv, ServedInv, NEW r \in Requests, Handler(r)
    PROVE  ServedInv'
<1>1. toLoad' = toLoad
  BY DEF Handler, VerifyDone, PutVerified, AliasCheck, AliasWrite, PutPrimary, DeleteAlias,
         DeletePrimary, NoEffect, loadVars
<1>2. ServedMatchesApi'
  <2>1. CASE reply' = reply
    BY <2>1 DEF ServedInv, ServedMatchesApi
  <2>2. CASE \E code : Answer(r, code, None)
    BY <2>2, AnswerServed
  <2>3. reply' = reply \/ \E code : Answer(r, code, None)
    BY DEF Handler, VerifyDone, PutVerified, AliasCheck, AliasWrite, PutPrimary, DeleteAlias,
           DeletePrimary, AnswerJob
  <2>4. QED
    BY <2>1, <2>2, <2>3
<1>3. ASSUME NEW n \in Names, Lookup'[n] # None, Lookup'[n] # Lookup[n]
      PROVE  Connectable(Lookup'[n])
  <2>1. CASE AliasWrite(r)
    <3>1. pc[r] \in PutSteps /\ Lookup'[n] = job[r].data
      BY <1>3, <2>1 DEF AliasWrite, PutSteps, TypeOK
    <3>2. QED
      BY <3>1 DEF KeptInv
  <2>2. CASE PutPrimary(r)
    <3>1. pc[r] \in PutSteps /\ Lookup'[n] = job[r].data
      BY <1>3, <2>2 DEF PutPrimary, PutSteps, TypeOK
    <3>2. QED
      BY <3>1 DEF KeptInv
  <2>3. CASE DeleteAlias(r) \/ DeletePrimary(r)
    BY <1>3, <2>3 DEF DeleteAlias, DeletePrimary, TypeOK
  <2>4. CASE \E ok \in BOOLEAN : VerifyDone(r, ok) \/ PutVerified(r, ok) \/ AliasCheck(r)
    BY <1>3, <2>4 DEF VerifyDone, PutVerified, AliasCheck, NoEffect
  <2>5. QED
    BY <2>1, <2>2, <2>3, <2>4 DEF Handler
<1>4. \A n \in Names : Lookup'[n] # None => Connectable(Lookup'[n])
  BY <1>3 DEF ServedInv
<1>5. QED
  BY <1>1, <1>2, <1>4 DEF ServedInv, Connectable

(* initialLoad caches what the secrets manager has kept.                    *)
LEMMA StartServed ==
    ASSUME LegacyConnectable, TypeOK, KeptInv, ServedInv, Start
    PROVE  ServedInv'
<1>1. reply' = reply
  BY DEF Start, LoadSecrets, InitialLoad, Listen, handlerVars
<1>2. ServedMatchesApi'
  BY <1>1 DEF ServedInv, ServedMatchesApi
<1>3. ASSUME NEW lost \in SUBSET Secrets, LoadSecrets(lost)
      PROVE  ServedInv'
  <2>1. Lookup' = Lookup /\ \A e \in toLoad' :
           e \in LegacySecrets \/ \E s \in Secrets : store[s] # None /\ e.data = store[s]
    BY <1>3 DEF LoadSecrets
  <2>2. \A e \in toLoad' : Connectable(e.data)
    BY <2>1 DEF LegacyConnectable, KeptInv, KeptIsConnectable
  <2>3. QED
    BY <1>2, <2>1, <2>2 DEF ServedInv, Connectable
<1>4. CASE InitialLoad
  <2>1. PICK e \in toLoad : toLoad' = toLoad \ {e} /\ Lookup' = ToLookup(Lookup, e.data, e.uid)
    BY <1>4 DEF InitialLoad
  <2>2. \A n \in Names : Lookup'[n] = e.data \/ Lookup'[n] = Lookup[n]
    BY <2>1 DEF ToLookup
  <2>3. QED
    BY <1>2, <2>1, <2>2 DEF ServedInv, Connectable
<1>5. CASE Listen
  BY <1>2, <1>5 DEF Listen, ServedInv, Connectable
<1>6. QED
  BY <1>3, <1>4, <1>5 DEF Start

(* The induction step for ServedInv.                                        *)
LEMMA NextServed ==
    ASSUME LegacyConnectable, TypeOK, KeptInv, ServedInv, [Next]_vars
    PROVE  ServedInv'
<1>1. ASSUME NEW r \in Requests, Returned(r) \/ Attempt(r)
      PROVE  ServedInv'
  <2>1. Lookup' = Lookup /\ toLoad' = toLoad
    BY <1>1 DEF Returned, PutStored, PutNotStored, Deleted, NotDeleted, Attempt, loadVars
  <2>2. reply' = reply \/ \E code : Answer(r, code, None)
    BY <1>1 DEF Returned, PutStored, PutNotStored, Deleted, NotDeleted, Attempt, AnswerJob,
                handlerVars
  <2>3. ServedMatchesApi'
    BY <2>2, AnswerServed DEF ServedInv, ServedMatchesApi
  <2>4. QED
    BY <2>1, <2>3 DEF ServedInv, Connectable
<1>2. CASE Crash
  <2>1. /\ toLoad' = {} /\ Lookup' = [n \in Names |-> None]
        /\ reply' = [r \in Requests |-> NoReply]
    BY <1>2 DEF Crash
  <2>2. QED
    BY <2>1 DEF ServedInv, ServedMatchesApi, NoReply
<1>3. CASE UNCHANGED vars
  BY <1>3 DEF vars, ServedInv, ServedMatchesApi, Connectable
<1>4. QED
  BY <1>1, <1>2, <1>3, ClientServed, HandlerServed, StartServed DEF Next

(* And whatever a GET limits, for each duration that is granted and however *)
(* the entry came to be cached (a PUT, an alias, a load), it answers with   *)
(* an authenticator of the kind the API of that entry takes.                *)
THEOREM ServedMatches ==
    ASSUME InitialConnectable, LegacyConnectable
    PROVE  Spec => []ServedMatchesApi
<1>1. Init => KeptInv /\ ServedInv
  BY InitKept, InitServed
<1>2. TypeOK /\ KeptInv /\ ServedInv /\ [Next]_vars => KeptInv' /\ ServedInv'
  BY NextKept, NextServed
<1>3. ServedInv => ServedMatchesApi
  BY DEF ServedInv
<1> QED
  BY <1>1, <1>2, <1>3, TypeInvariant, PTL DEF Spec
=============================================================================
