---------------------------- MODULE VaultProofs ----------------------------
(***************************************************************************)
(* The type invariant of Vault, for any set of requests, nodes, unique     *)
(* ids, tags, bodies and initial contents.                                 *)
(***************************************************************************)
EXTENDS Vault, TLAPS

-----------------------------------------------------------------------------
(* Operators of PutRules                                                    *)

LEMMA AutoDetectTyped ==
    ASSUME NEW d \in Data
    PROVE  AutoDetectAPIType(d) \in Data
<1> DEFINE http == d.endpoint.scheme \in {"http", "https"} /\ d.endpoint.parses
           grpc == http /\ d.endpoint.port = 10009
           rune == DetectAuthenticatorType(d.macaroon, "ClnCommando") = "Rune"
           t == IF rune THEN "ClnCommando" ELSE IF http /\ ~grpc THEN "LndRest" ELSE "LndGrpc"
           p == IF grpc THEN [d.endpoint EXCEPT !.scheme = "none"] ELSE d.endpoint
<1>1. AutoDetectAPIType(d) = [d EXCEPT !.apiType = t, !.endpoint = p]
    BY DEF AutoDetectAPIType
<1>2. t \in ApiTypes
    BY DEF ApiTypes, KnownApiTypes
<1>3. p \in Endpoint
    BY DEF Data, Fields, Endpoint, Schemes
<1> HIDE DEF t, p
<1> QED
    BY <1>1, <1>2, <1>3 DEF Data, Fields

(* What PutHandler keeps is an entry, given that it was not rejected.       *)
LEMMA MergedTyped ==
    ASSUME NEW b \in Fields(BaseNames, Authenticators \cup {Empty}),
           NEW orig \in Data \cup {None},
           NEW fetched \in Certificates \cup {Empty},
           b.pubkey \in PubKeys
    PROVE  Merged(b, orig, fetched) \in Data
<1> DEFINE e == InheritEndpoint(b, orig)
           d == InheritApiType(e, orig)
<1>1. b \in Data
    BY DEF Data, Fields
<1>2. e \in Data
    BY <1>1 DEF InheritEndpoint, Data, Fields
<1>3. AutoDetectAPIType(e) \in Data
    BY <1>2, AutoDetectTyped
<1>4. d \in Data
    BY <1>2, <1>3 DEF InheritApiType, Data, Fields
<1>5. InheritCert(d, orig, fetched) \in Certificates \cup {Empty}
    BY <1>4 DEF InheritCert, Data, Fields
<1> HIDE DEF e, d
<1>6. Merged(b, orig, fetched) =
        [d EXCEPT !.cert     = InheritCert(d, orig, fetched),
                  !.macaroon = IF @ = Empty /\ orig # None THEN orig.macaroon ELSE @,
                  !.cvt      = IF @ = None /\ orig # None THEN orig.cvt ELSE @]
    BY DEF Merged, d, e
<1> QED
    BY <1>4, <1>5, <1>6 DEF Data, Fields

(* What GetHandler answers with is an entry with a limited authenticator.   *)
LEMMA ConstrainedTyped ==
    ASSUME NEW d \in Data, NEW minutes \in Durations
    PROVE  GetConstrained(d, minutes) \in Served
<1> DEFINE t == GetAPIType(d.apiType)
<1>1. minutes \in Nat
    BY DEF Durations
<1>2. Constrain(d.macaroon, minutes, t) \in Limited \cup {Empty}
    BY <1>1, SubsetsAssumption DEF Constrain, DetectAuthenticatorType, ToAuthenticatorType, Limited
<1> HIDE DEF t
<1>3. \E m \in Limited \cup {Empty} : GetConstrained(d, minutes) = [d EXCEPT !.macaroon = m]
    BY <1>2 DEF GetConstrained, t
<1> QED
    BY <1>3 DEF Data, Fields, Served

-----------------------------------------------------------------------------
(* Names                                                                    *)

LEMMA NamesClosed == \A v \in BaseNames, u \in UniqueIds : Concat(v, u) \in Names
BY DEF Names

LEMMA SecretsTyped ==
    ASSUME NEW d \in Data, NEW u \in UniqueIds
    PROVE  /\ <<d.pubkey, u>> \in Secrets
           /\ PrimaryName(<<d.pubkey, u>>) = Concat(d.pubkey, u)
           /\ PrimaryName(<<d.pubkey, u>>) \in Names
BY NamesAssumption, NamesClosed DEF Data, Fields, Secrets, PrimaryName

LEMMA AliasesTyped ==
    ASSUME NEW d \in Data, NEW u \in UniqueIds
    PROVE  Aliases(d, u) \subseteq Tags
BY DEF Aliases, Data, Fields

-----------------------------------------------------------------------------
(* Types, part by part                                                      *)

HandlerType ==
    /\ pc \in [Requests -> Steps]
    /\ job \in [Requests -> Job \cup {NoJob}]
    /\ \A r \in Requests : pc[r] \in PutSteps \cup DeleteSteps => job[r] \in Job
    /\ \A r \in Requests : pc[r] = "aliasWrite" => job[r].tag \in Tags
    /\ reply \in [Requests -> Reply]

HistoryType ==
    /\ settled \in [Secrets -> Data \cup {None, InDoubt}]
    /\ missed \subseteq Secrets
    /\ alone \subseteq Requests

LookupType == Lookup \in [Names -> Data \cup {None}]

LoadType == status \in {"down", "loading", "up"} /\ toLoad \subseteq Entry

LEMMA TypeParts ==
    TypeOK <=> /\ Manager!StoreTypeOK /\ LookupType /\ LoadType
               /\ HandlerType /\ HistoryType
BY DEF TypeOK, LookupType, LoadType, HandlerType, HistoryType

LEMMA InvokeTyped ==
    ASSUME Manager!StoreTypeOK, NEW r \in Requests, NEW s \in Secrets,
           NEW v \in Data \cup {None}, Manager!Invoke(r, s, v)
    PROVE  Manager!StoreTypeOK'
BY DEF Manager!StoreTypeOK, Manager!Invoke, Manager!Call

LEMMA ApplyTyped ==
    ASSUME Manager!StoreTypeOK, NEW r \in Requests, Manager!Apply(r)
    PROVE  Manager!StoreTypeOK'
<1>1. calls[r] \in Manager!Call
    BY DEF Manager!StoreTypeOK, Manager!Apply
<1> QED
    BY <1>1 DEF Manager!StoreTypeOK, Manager!Apply, Manager!Call

LEMMA ReturnTyped ==
    ASSUME Manager!StoreTypeOK, NEW r \in Requests, Manager!Succeed(r) \/ Manager!Fail(r)
    PROVE  Manager!StoreTypeOK'
BY DEF Manager!StoreTypeOK, Manager!Succeed, Manager!Fail

LEMMA AnswerTyped ==
    ASSUME HandlerType, NEW r \in Requests,
           NEW code \in {200, 201, 400, 404, 500}, NEW body \in Served \cup {None},
           Answer(r, code, body)
    PROVE  HandlerType'
<1>1. [code |-> code, body |-> body] \in Reply
    BY DEF Reply
<1> QED
    BY <1>1 DEF HandlerType, Answer, Steps, PutSteps, DeleteSteps

LEMMA AnswerJobTyped ==
    ASSUME HandlerType, NEW r \in Requests, NEW code \in {200, 201, 400, 500},
           pc[r] \in PutSteps \cup DeleteSteps, AnswerJob(r, code)
    PROVE  HandlerType'
<1>1. job[r].header \in {0, 400}
    BY DEF HandlerType, Job
<1> QED
    BY <1>1, AnswerTyped DEF AnswerJob

LEMMA BeginTyped ==
    ASSUME HandlerType, NEW r \in Requests, NEW step \in Steps, NEW j \in Job \cup {NoJob},
           step \in PutSteps \cup DeleteSteps => j \in Job, step # "aliasWrite",
           Begin(r, step, j)
    PROVE  HandlerType'
<1>1. NoReply \in Reply
    BY DEF NoReply, Reply
<1> QED
    BY <1>1 DEF HandlerType, Begin

LEMMA WriteTyped ==
    ASSUME HistoryType, NEW r \in Requests, NEW s \in Secrets, NEW v \in Data \cup {None},
           BeginWrite(r, s) \/ EndWrite(r, s, v) \/ AbandonWrite(r),
           missed' \subseteq Secrets
    PROVE  HistoryType'
BY DEF HistoryType, BeginWrite, EndWrite, AbandonWrite, Writers

LEMMA ToLookupTyped ==
    ASSUME LookupType, NEW e \in Entry
    PROVE  ToLookup(Lookup, e.data, e.uid) \in [Names -> Data \cup {None}]
BY DEF LookupType, ToLookup, Entry

-----------------------------------------------------------------------------
(* The type invariant                                                       *)

LEMMA InitTyped == Init => TypeOK
<1> SUFFICES ASSUME Init PROVE TypeOK
    OBVIOUS
<1>1. Manager!StoreTypeOK
    BY InitialAssumption DEF Init, Manager!StoreTypeOK, Manager!Call
<1>2. LookupType /\ LoadType
    BY DEF Init, LookupType, LoadType
<1>3. NoReply \in Reply
    BY DEF NoReply, Reply
<1>4. HandlerType
    BY <1>3 DEF Init, HandlerType, Steps, PutSteps, DeleteSteps
<1>5. HistoryType
    BY InitialAssumption DEF Init, HistoryType
<1> QED
    BY <1>1, <1>2, <1>4, <1>5, TypeParts

(* A step that only answers, or only moves on to an invocation of the node. *)
LEMMA NoEffectTyped ==
    ASSUME TypeOK, NoEffect, HandlerType'
    PROVE  TypeOK'
<1>1. Manager!StoreTypeOK /\ LookupType /\ LoadType /\ HistoryType
    BY TypeParts
<1>2. Manager!StoreTypeOK' /\ LookupType' /\ LoadType' /\ HistoryType'
    BY <1>1 DEF NoEffect, managerVars, loadVars, Manager!StoreTypeOK, LookupType, LoadType,
                HistoryType
<1> QED
    BY <1>2 DEF TypeOK, LookupType, LoadType, HandlerType, HistoryType, Manager!StoreTypeOK

LEMMA ClientTyped ==
    ASSUME TypeOK, NEW r \in Requests, Client(r)
    PROVE  TypeOK'
<1>0. Manager!StoreTypeOK /\ LookupType /\ LoadType /\ HandlerType /\ HistoryType
    BY TypeParts
<1>f. \A n \in BaseNames, u \in UniqueIds : Found(n, u) \in Data \cup {None}
    BY <1>0, NamesClosed DEF Found, LookupType
<1>1. ASSUME NEW op \in {"get", "query", "verify", "put", "delete"}, NEW u \in UniqueIds,
             InvalidUniqueID(r, op, u)
      PROVE  TypeOK'
    BY <1>0, <1>1, AnswerTyped, NoEffectTyped DEF InvalidUniqueID
<1>2. ASSUME NEW n \in BaseNames, NEW u \in UniqueIds, NEW m \in Durations,
             GetHandler(r, n, u, m)
      PROVE  TypeOK'
  <2>1. Found(n, u) # None => GetConstrained(Found(n, u), m) \in Served
    BY <1>f, ConstrainedTyped
  <2>2. \/ Answer(r, 404, None)
        \/ Found(n, u) # None /\ Answer(r, 200, GetConstrained(Found(n, u), m))
    BY <1>2 DEF GetHandler
  <2>3. HandlerType'
    BY <1>0, <2>1, <2>2, AnswerTyped
  <2> QED
    BY <2>3, <1>2, NoEffectTyped DEF GetHandler
<1>3. ASSUME NEW n \in BaseNames, NEW u \in UniqueIds, QueryHandler(r, n, u)
      PROVE  TypeOK'
  <2>1. Answer(r, 404, None) \/ Answer(r, 200, None)
    BY <1>3 DEF QueryHandler
  <2>2. HandlerType'
    BY <1>0, <2>1, AnswerTyped
  <2> QED
    BY <2>2, <1>3, NoEffectTyped DEF QueryHandler
<1>4. ASSUME NEW n \in BaseNames, NEW u \in UniqueIds, VerifyHandler(r, n, u)
      PROVE  TypeOK'
  <2>1. Answer(r, 400, None) \/ Answer(r, 404, None) \/ Begin(r, "check", NoJob)
    BY <1>4 DEF VerifyHandler
  <2>2. Begin(r, "check", NoJob) => HandlerType'
    BY <1>0, BeginTyped DEF Steps, PutSteps, DeleteSteps
  <2>3. HandlerType'
    BY <1>0, <2>1, <2>2, AnswerTyped
  <2> QED
    BY <2>3, <1>4, NoEffectTyped DEF VerifyHandler
<1>5. ASSUME NEW n \in BaseNames, NEW u \in UniqueIds, DeleteHandler(r, n, u)
      PROVE  TypeOK'
  <2> DEFINE e == Found(n, u)
             j == [uid |-> u, data |-> e, todo |-> {}, tag |-> None, header |-> 0]
             s == SecretOf(j)
  <2>1. CASE Answer(r, 404, None) /\ NoEffect
    BY <1>0, <2>1, AnswerTyped, NoEffectTyped
  <2>2. CASE /\ e # None
             /\ Begin(r, "deleting", j)
             /\ Manager!Invoke(r, s, None)
             /\ BeginWrite(r, s)
             /\ UNCHANGED <<Lookup, loadVars>>
    <3>1. e \in Data
      BY <1>f, <2>2
    <3>2. j \in Job
      BY <3>1 DEF Job
    <3>3. s \in Secrets
      BY <3>1, SecretsTyped DEF SecretOf
    <3> HIDE DEF e, j, s
    <3>4. HandlerType'
      BY <1>0, <2>2, <3>2, BeginTyped DEF Steps, PutSteps, DeleteSteps
    <3>5. Manager!StoreTypeOK'
      BY <1>0, <2>2, <3>3, InvokeTyped
    <3>6. LookupType' /\ LoadType'
      BY <1>0, <2>2 DEF LookupType, LoadType, loadVars
    <3>7. HistoryType'
      <4>1. missed' \subseteq Secrets
        BY <1>0, <2>2 DEF loadVars, HistoryType
      <4> QED
        BY <1>0, <2>2, <3>3, <4>1, WriteTyped
    <3> QED
      BY <3>4, <3>5, <3>6, <3>7
      DEF TypeOK, LookupType, LoadType, HandlerType, HistoryType, Manager!StoreTypeOK
  <2> QED
    BY <1>5, <2>1, <2>2 DEF DeleteHandler
<1>6. ASSUME NEW b \in Bodies, NEW u \in UniqueIds, NEW c \in Certificates \cup {Empty},
             NEW v \in BOOLEAN, PutHandler(r, b, u, c, v)
      PROVE  TypeOK'
  <2> DEFINE orig == Found(b.pubkey, u)
             d    == Merged(b, orig, c)
             code == IF BadRequestWithoutReturn(b, d) THEN 400 ELSE 0
             j    == [uid |-> u, data |-> d, todo |-> Aliases(d, u), tag |-> None,
                      header |-> code]
  <2>1. b \in Fields(BaseNames, Authenticators \cup {Empty})
    BY BodiesAssumption
  <2>2. b.pubkey \in BaseNames
    BY <2>1 DEF Fields
  <2>3. orig \in Data \cup {None}
    BY <1>f, <2>2
  <2>4. CASE Answer(r, 400, None)
    BY <1>0, <2>4, <1>6, AnswerTyped, NoEffectTyped DEF PutHandler
  <2>5. CASE ~Rejected(b, orig, d) /\ Begin(r, IF v THEN "verify" ELSE "alias", j)
    <3>1. b.pubkey \in PubKeys
      BY <2>5 DEF Rejected
    <3>2. d \in Data
      BY <2>1, <2>3, <3>1, MergedTyped
    <3>3. Aliases(d, u) \subseteq Tags
      BY <3>2, AliasesTyped
    <3>4. code \in {0, 400}
      OBVIOUS
    <3> HIDE DEF d, code
    <3>5. j \in Job
      BY <3>2, <3>3, <3>4 DEF Job
    <3> HIDE DEF j
    <3>6. HandlerType'
      BY <1>0, <2>5, <3>5, BeginTyped DEF Steps, PutSteps, DeleteSteps
    <3> QED
      BY <3>6, <1>6, NoEffectTyped DEF PutHandler
  <2> QED
    BY <1>6, <2>4, <2>5 DEF PutHandler
<1> QED
    BY <1>1, <1>2, <1>3, <1>4, <1>5, <1>6 DEF Client

LEMMA HandlerTyped ==
    ASSUME TypeOK, NEW r \in Requests, Handler(r)
    PROVE  TypeOK'
<1>0. Manager!StoreTypeOK /\ LookupType /\ LoadType /\ HandlerType /\ HistoryType
    BY TypeParts
<1>j. pc[r] \in PutSteps \cup DeleteSteps => job[r] \in Job
    BY <1>0 DEF HandlerType
<1>s. pc[r] \in PutSteps \cup DeleteSteps => SecretOf(job[r]) \in Secrets
    BY <1>j, SecretsTyped DEF SecretOf, Job
<1>p. pc[r] \in PutSteps \cup DeleteSteps => PrimaryName(SecretOf(job[r])) \in Names
    BY <1>j, SecretsTyped DEF SecretOf, Job
<1>1. ASSUME NEW ok \in BOOLEAN, VerifyDone(r, ok)
      PROVE  TypeOK'
  <2>1. Answer(r, 200, None) \/ Answer(r, 400, None)
    BY <1>1 DEF VerifyDone
  <2>2. HandlerType'
    BY <1>0, <2>1, AnswerTyped
  <2> QED
    BY <2>2, <1>1, NoEffectTyped DEF VerifyDone
<1>2. ASSUME NEW ok \in BOOLEAN, PutVerified(r, ok)
      PROVE  TypeOK'
  <2>1. AnswerJob(r, 400) => HandlerType'
    BY <1>0, <1>2, AnswerJobTyped DEF PutVerified, PutSteps
  <2>2. Goto(r, "alias") /\ UNCHANGED <<job, reply>> => HandlerType'
    BY <1>0, <1>2 DEF PutVerified, PutSteps, Steps, Goto, HandlerType
  <2> QED
    BY <2>1, <2>2, <1>2, NoEffectTyped DEF PutVerified
<1>3. ASSUME AliasCheck(r) PROVE TypeOK'
  <2>1. PICK v \in job[r].todo :
          \/ Goto(r, "aliasWrite") /\ job' = [job EXCEPT ![r].tag = v]
          \/ job' = [job EXCEPT ![r].todo = @ \ {v}] /\ UNCHANGED pc
    BY <1>3 DEF AliasCheck
  <2>2. job[r] \in Job /\ pc[r] = "alias" /\ v \in Tags
    BY <1>3, <1>j, <2>1 DEF AliasCheck, PutSteps, Job
  <2>3. [job[r] EXCEPT !.tag = v] \in Job /\ [job[r] EXCEPT !.todo = @ \ {v}] \in Job
    BY <2>2 DEF Job
  <2>4. CASE Goto(r, "aliasWrite") /\ job' = [job EXCEPT ![r].tag = v]
    <3>1. job' = [job EXCEPT ![r] = [job[r] EXCEPT !.tag = v]]
      BY <2>4
    <3>2. [job[r] EXCEPT !.tag = v].tag = v
      BY <2>2 DEF Job
    <3>3. HandlerType'
      BY <1>0, <1>3, <2>2, <2>3, <2>4, <3>1, <3>2
      DEF AliasCheck, HandlerType, Goto, Steps, PutSteps
    <3> QED
      BY <3>3, <1>3, NoEffectTyped DEF AliasCheck
  <2>5. CASE job' = [job EXCEPT ![r].todo = @ \ {v}] /\ UNCHANGED pc
    <3>1. job' = [job EXCEPT ![r] = [job[r] EXCEPT !.todo = @ \ {v}]]
      BY <2>5
    <3>2. HandlerType'
      BY <1>0, <1>3, <2>2, <2>3, <2>5, <3>1 DEF AliasCheck, HandlerType
    <3> QED
      BY <3>2, <1>3, NoEffectTyped DEF AliasCheck
  <2> QED
    BY <2>1, <2>4, <2>5
<1>4. ASSUME AliasWrite(r) PROVE TypeOK'
  <2>1. job[r] \in Job /\ pc[r] = "aliasWrite" /\ job[r].tag \in Tags
    BY <1>4, <1>j, <1>0 DEF AliasWrite, PutSteps, HandlerType
  <2>2. Concat(job[r].tag, job[r].uid) \in Names
    BY <2>1, NamesClosed, NamesAssumption DEF Job
  <2>3. LookupType'
    BY <1>0, <1>4, <2>1, <2>2 DEF AliasWrite, LookupType, Job
  <2>4. [job[r] EXCEPT !.todo = @ \ {job[r].tag}, !.tag = None] \in Job
    BY <2>1 DEF Job
  <2>5. job' = [job EXCEPT ![r] = [job[r] EXCEPT !.todo = @ \ {job[r].tag}, !.tag = None]]
    BY <1>4 DEF AliasWrite
  <2>6. HandlerType'
    BY <1>0, <1>4, <2>1, <2>4, <2>5 DEF AliasWrite, HandlerType, Goto, Steps, PutSteps
  <2>7. Manager!StoreTypeOK' /\ LoadType' /\ HistoryType'
    BY <1>0, <1>4
    DEF AliasWrite, managerVars, loadVars, Manager!StoreTypeOK, LoadType, HistoryType
  <2> QED
    BY <2>3, <2>6, <2>7
    DEF TypeOK, LookupType, LoadType, HandlerType, HistoryType, Manager!StoreTypeOK
<1>5. ASSUME PutPrimary(r) PROVE TypeOK'
  <2> DEFINE s == SecretOf(job[r])
  <2>1. job[r] \in Job /\ pc[r] = "alias" /\ s \in Secrets /\ PrimaryName(s) \in Names
    BY <1>5, <1>j, <1>s, <1>p DEF PutPrimary, PutSteps
  <2>2. job[r].data \in Data
    BY <2>1 DEF Job
  <2> HIDE DEF s
  <2>3. /\ Lookup' = [Lookup EXCEPT ![PrimaryName(s)] = job[r].data]
        /\ Manager!Invoke(r, s, job[r].data)
        /\ BeginWrite(r, s)
        /\ missed' = missed \ {s}
    BY <1>5 DEF PutPrimary, s
  <2>4. LookupType'
    BY <1>0, <2>1, <2>2, <2>3 DEF LookupType
  <2>5. Manager!StoreTypeOK'
    BY <1>0, <2>1, <2>2, <2>3, InvokeTyped
  <2>6. HistoryType'
    <3>1. missed' \subseteq Secrets
      BY <1>0, <2>3 DEF HistoryType
    <3> QED
      BY <1>0, <2>1, <2>3, <3>1, WriteTyped
  <2>7. HandlerType' /\ LoadType'
    BY <1>0, <1>5, <2>1 DEF PutPrimary, Goto, HandlerType, LoadType, Steps, PutSteps
  <2> QED
    BY <2>4, <2>5, <2>6, <2>7
    DEF TypeOK, LookupType, LoadType, HandlerType, HistoryType, Manager!StoreTypeOK
<1>6. ASSUME DeleteAlias(r) PROVE TypeOK'
  <2>1. PICK v \in job[r].todo :
          /\ Lookup' = [Lookup EXCEPT ![Concat(v, job[r].uid)] = None]
          /\ job' = [job EXCEPT ![r].todo = @ \ {v}]
    BY <1>6 DEF DeleteAlias
  <2>2. job[r] \in Job /\ pc[r] = "unalias"
    BY <1>6, <1>j DEF DeleteAlias, DeleteSteps
  <2>3. [job[r] EXCEPT !.todo = @ \ {v}] \in Job
    BY <2>2 DEF Job
  <2>4. job' = [job EXCEPT ![r] = [job[r] EXCEPT !.todo = @ \ {v}]]
    BY <2>1
  <2>5. HandlerType'
    BY <1>0, <1>6, <2>2, <2>3, <2>4 DEF DeleteAlias, HandlerType
  <2>6. LookupType'
    BY <1>0, <2>1 DEF LookupType
  <2>7. Manager!StoreTypeOK' /\ LoadType' /\ HistoryType'
    BY <1>0, <1>6
    DEF DeleteAlias, managerVars, loadVars, Manager!StoreTypeOK, LoadType, HistoryType
  <2> QED
    BY <2>5, <2>6, <2>7
    DEF TypeOK, LookupType, LoadType, HandlerType, HistoryType, Manager!StoreTypeOK
<1>7. ASSUME DeletePrimary(r) PROVE TypeOK'
  <2>1. pc[r] = "unalias" /\ SecretOf(job[r]) \in Secrets
    BY <1>7, <1>s DEF DeletePrimary, DeleteSteps
  <2>2. HandlerType'
    BY <1>0, <1>7, <2>1, AnswerJobTyped DEF DeletePrimary, DeleteSteps
  <2>3. HistoryType'
    <3>1. missed' \subseteq Secrets
      BY <1>0, <1>7 DEF DeletePrimary, HistoryType
    <3>2. EndWrite(r, SecretOf(job[r]), None)
      BY <1>7 DEF DeletePrimary
    <3> QED
      BY <1>0, <2>1, <3>1, <3>2, WriteTyped
  <2>4. Manager!StoreTypeOK' /\ LoadType' /\ LookupType'
    BY <1>0, <1>7
    DEF DeletePrimary, managerVars, Manager!StoreTypeOK, LoadType, LookupType
  <2> QED
    BY <2>2, <2>3, <2>4
    DEF TypeOK, LookupType, LoadType, HandlerType, HistoryType, Manager!StoreTypeOK
<1> QED
    BY <1>1, <1>2, <1>3, <1>4, <1>5, <1>6, <1>7 DEF Handler

LEMMA ReturnedTyped ==
    ASSUME TypeOK, NEW r \in Requests, Returned(r)
    PROVE  TypeOK'
<1>0. Manager!StoreTypeOK /\ LookupType /\ LoadType /\ HandlerType /\ HistoryType
    BY TypeParts
<1>j. ASSUME pc[r] \in PutSteps \cup DeleteSteps
      PROVE  job[r] \in Job /\ SecretOf(job[r]) \in Secrets /\ job[r].data \in Data
    BY <1>0, <1>j, SecretsTyped DEF HandlerType, SecretOf, Job
<1>1. Manager!StoreTypeOK'
  <2>1. Manager!Succeed(r) \/ Manager!Fail(r)
    BY DEF Returned, PutStored, PutNotStored, Deleted, NotDeleted
  <2> QED
    BY <1>0, <2>1, ReturnTyped
<1>2. LookupType' /\ LoadType' /\ missed' = missed
    BY <1>0 DEF Returned, PutStored, PutNotStored, Deleted, NotDeleted, loadVars,
                LookupType, LoadType
<1>3. HandlerType' /\ HistoryType'
  <2>m. missed' \subseteq Secrets
    BY <1>0, <1>2 DEF HistoryType
  <2>1. ASSUME NEW code \in {200, 201}, PutStored(r, code)
        PROVE  HandlerType' /\ HistoryType'
    <3>1. pc[r] = "storing" /\ AnswerJob(r, code)
          /\ EndWrite(r, SecretOf(job[r]), job[r].data)
      BY <2>1 DEF PutStored
    <3> QED
      BY <1>0, <1>j, <2>m, <3>1, AnswerJobTyped, WriteTyped DEF PutSteps
  <2>2. CASE PutNotStored(r) \/ NotDeleted(r)
    <3>1. pc[r] \in PutSteps \cup DeleteSteps /\ AnswerJob(r, 500) /\ AbandonWrite(r)
      BY <2>2 DEF PutNotStored, NotDeleted, PutSteps, DeleteSteps
    <3>2. HandlerType'
      BY <1>0, <3>1, AnswerJobTyped
    <3>3. HistoryType'
      BY <1>0, <2>m, <3>1 DEF AbandonWrite, HistoryType
    <3> QED
      BY <3>2, <3>3
  <2>3. CASE Deleted(r)
    <3>1. job[r] \in Job /\ Aliases(job[r].data, job[r].uid) \subseteq Tags
      BY <2>3, <1>j, AliasesTyped DEF Deleted, DeleteSteps, Job
    <3> DEFINE j == [job[r] EXCEPT !.todo = Aliases(job[r].data, job[r].uid)]
    <3>2. j \in Job
      BY <3>1 DEF Job
    <3>3. job' = [job EXCEPT ![r] = j]
      BY <2>3 DEF Deleted
    <3> HIDE DEF j
    <3>4. HandlerType'
      BY <1>0, <2>3, <3>2, <3>3 DEF Deleted, Goto, HandlerType, Steps, PutSteps, DeleteSteps
    <3>5. HistoryType'
      BY <1>0, <1>2, <2>3 DEF Deleted, HistoryType
    <3> QED
      BY <3>4, <3>5
  <2> QED
    BY <2>1, <2>2, <2>3 DEF Returned
<1> QED
    BY <1>1, <1>2, <1>3
    DEF TypeOK, LookupType, LoadType, HandlerType, HistoryType, Manager!StoreTypeOK

LEMMA AttemptTyped ==
    ASSUME TypeOK, NEW r \in Requests, Attempt(r)
    PROVE  TypeOK'
<1>0. Manager!StoreTypeOK /\ LookupType /\ LoadType /\ HandlerType /\ HistoryType
    BY TypeParts
<1>1. Manager!StoreTypeOK'
    BY <1>0, ApplyTyped DEF Attempt
<1>2. LookupType' /\ LoadType' /\ HandlerType' /\ HistoryType'
    BY <1>0 DEF Attempt, loadVars, handlerVars, LookupType, LoadType, HandlerType, HistoryType
<1> QED
    BY <1>1, <1>2
    DEF TypeOK, LookupType, LoadType, HandlerType, HistoryType, Manager!StoreTypeOK

LEMMA StartTyped == ASSUME TypeOK, Start PROVE TypeOK'
<1>0. Manager!StoreTypeOK /\ LookupType /\ LoadType /\ HandlerType /\ HistoryType
    BY TypeParts
<1>1. ASSUME NEW lost \in SUBSET Secrets, LoadSecrets(lost)
      PROVE  LookupType' /\ LoadType' /\ HistoryType'
  <2>1. \A s \in Secrets : s[2] \in UniqueIds /\ store[s] \in Data \cup {None}
    BY <1>0 DEF Secrets, Manager!StoreTypeOK
  <2>2. {[uid |-> s[2], data |-> store[s]] : s \in {t \in Secrets \ lost : store[t] # None}}
          \subseteq Entry
    BY <2>1 DEF Entry
  <2>3. toLoad' \subseteq Entry
    BY <1>1, <2>2, BodiesAssumption DEF LoadSecrets
  <2>4. settled' \in [Secrets -> Data \cup {None, InDoubt}]
    BY <1>0, <1>1, <2>1 DEF LoadSecrets, HistoryType
  <2> QED
    BY <1>0, <1>1, <2>3, <2>4 DEF LoadSecrets, LookupType, LoadType, HistoryType
<1>2. InitialLoad => LookupType' /\ LoadType' /\ HistoryType'
    BY <1>0, ToLookupTyped DEF InitialLoad, LookupType, LoadType, HistoryType
<1>3. Listen => LookupType' /\ LoadType' /\ HistoryType'
    BY <1>0 DEF Listen, LookupType, LoadType, HistoryType
<1>4. UNCHANGED <<managerVars, handlerVars>>
    BY DEF Start, LoadSecrets, InitialLoad, Listen
<1>5. Manager!StoreTypeOK' /\ HandlerType'
    BY <1>0, <1>4 DEF managerVars, handlerVars, Manager!StoreTypeOK, HandlerType
<1> QED
    BY <1>1, <1>2, <1>3, <1>5
    DEF Start, TypeOK, LookupType, LoadType, HandlerType, HistoryType, Manager!StoreTypeOK

LEMMA CrashTyped == ASSUME TypeOK, Crash PROVE TypeOK'
<1>0. Manager!StoreTypeOK /\ LookupType /\ LoadType /\ HandlerType /\ HistoryType
    BY TypeParts
<1>1. Manager!StoreTypeOK'
    BY <1>0 DEF Crash, Manager!Abandon, Manager!StoreTypeOK
<1>2. NoReply \in Reply
    BY DEF NoReply, Reply
<1>3. HandlerType'
    BY <1>2 DEF Crash, HandlerType, Steps, PutSteps, DeleteSteps
<1>4. LookupType' /\ LoadType' /\ HistoryType'
    BY <1>0 DEF Crash, LookupType, LoadType, HistoryType
<1> QED
    BY <1>1, <1>3, <1>4
    DEF TypeOK, LookupType, LoadType, HandlerType, HistoryType, Manager!StoreTypeOK

LEMMA NextTyped == TypeOK /\ [Next]_vars => TypeOK'
<1> SUFFICES ASSUME TypeOK, [Next]_vars PROVE TypeOK'
    OBVIOUS
<1>1. CASE UNCHANGED vars
    BY <1>1 DEF vars, TypeOK, Manager!StoreTypeOK
<1>2. CASE Next
    BY <1>2, ClientTyped, HandlerTyped, ReturnedTyped, AttemptTyped, StartTyped, CrashTyped
    DEF Next
<1> QED
    BY <1>1, <1>2

(* The state of a vault stays what its declarations say, whatever requests  *)
(* do beside each other and wherever crashes fall: in particular a handler  *)
(* past its checks has a well-formed entry in hand, every reply has a code  *)
(* the handlers send, and Lookup holds entries only.                        *)
THEOREM TypeInvariant == Spec => []TypeOK
<1> QED
    BY InitTyped, NextTyped, PTL DEF Spec
=============================================================================
