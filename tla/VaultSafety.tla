---------------------------- MODULE VaultSafety -----------------------------
(***************************************************************************)
(* The inductive invariant of Vault, and with it Durable and Coherent, for *)
(* any number of concurrent requests, when no tag shadows the name of a    *)
(* secret and no secret has a name of the old form.                        *)
(***************************************************************************)
EXTENDS VaultProofs

-----------------------------------------------------------------------------
(* Names of secrets                                                         *)

LEMMA AliasIsNotPrimary ==
    ASSUME TagsNeverShadow, NEW d \in Data, NEW u \in UniqueIds, NEW v \in Aliases(d, u),
           NEW s \in Secrets
    PROVE  Concat(v, u) # PrimaryName(s)
<1>1. v \in Tags /\ v \in AlphaNumeric \ PubKeys /\ Concat(v, u) \notin PubKeys
    BY AliasesTyped DEF Aliases
<1> QED
    BY <1>1 DEF TagsNeverShadow

LEMMA PrimaryNamesDiffer ==
    \A s, t \in Secrets : s # t => PrimaryName(s) # PrimaryName(t)
BY NamesAssumption

LEMMA SecretOfTyped == \A e \in Entry : SecretOf(e) \in Secrets
BY SecretsTyped DEF SecretOf, Entry

(* What the type invariant says of the writers and their calls.             *)
LEMMA WriterTyped ==
    ASSUME TypeOK, NEW r \in Requests, Writing(r)
    PROVE  /\ job[r] \in Job
           /\ job[r].data \in Data
           /\ SecretOf(job[r]) \in Secrets
           /\ SecretOf(job[r])[1] = job[r].data.pubkey
<1>1. job[r] \in Job
    BY DEF TypeOK, Writing, PutSteps, DeleteSteps
<1> QED
    BY <1>1, SecretsTyped DEF Job, SecretOf

-----------------------------------------------------------------------------
LEMMA InitInvariant == Init => IInv
<1> SUFFICES ASSUME Init PROVE IInv
    OBVIOUS
<1>1. \A s \in Secrets : PrimaryName(s) \in Names
    BY NamesAssumption, NamesClosed DEF PrimaryName, Secrets
<1>2. OwnPubKey
    BY InitialAssumption DEF Init, OwnPubKey
<1>3. CallOfHandler /\ WriterInv /\ AloneWrites /\ TodoAliases
    BY DEF Init, CallOfHandler, WriterInv, AloneWrites, TodoAliases, Idle, Writing,
           PutSteps, DeleteSteps
<1>4. LoadInv /\ Durable /\ Coherent
    BY DEF Init, LoadInv, Durable, Coherent
<1> QED
    BY <1>2, <1>3, <1>4 DEF IInv

(* A step of a handler that is no beginning or end of a write, and leaves   *)
(* Lookup as it is at the names of secrets.                                 *)
LEMMA QuietStep ==
    ASSUME TypeOK, IInv, status = "up", TodoAliases',
           UNCHANGED <<managerVars, loadVars, settled, alone>>,
           \A s \in Secrets : Lookup'[PrimaryName(s)] = Lookup[PrimaryName(s)],
           \A r \in Requests : Writing(r) \/ Writing(r)' =>
                pc'[r] = pc[r] /\ job'[r].data = job[r].data /\ job'[r].uid = job[r].uid
    PROVE  IInv'
<1>1. UNCHANGED <<store, calls, status, toLoad, missed>>
    BY DEF managerVars, loadVars
<1>2. \A r \in Requests : /\ Writing(r)' <=> Writing(r)
                          /\ Writing(r) => SecretOf(job[r])' = SecretOf(job[r])
    BY DEF Writing, SecretOf
<1>3. \A s \in Secrets : Writers(s)' = Writers(s)
    BY <1>2 DEF Writers
<1>4. OwnPubKey' /\ LoadInv' /\ Durable' /\ Coherent'
    BY <1>1 DEF IInv, OwnPubKey, LoadInv, Durable, Coherent
<1>5. CallOfHandler'
    BY <1>1, <1>2 DEF IInv, CallOfHandler, Writing
<1>6. AloneWrites'
    BY <1>2 DEF IInv, AloneWrites, TypeOK
<1>7. WriterInv'
  <2> SUFFICES ASSUME NEW r \in Requests, Writing(r)
               PROVE  WriterOf(r, SecretOf(job[r]))'
    BY <1>2 DEF WriterInv
  <2>1. SecretOf(job[r])' = SecretOf(job[r])
    BY <1>2
  <2>2. Writers(SecretOf(job[r]))' = Writers(SecretOf(job[r]))
    BY <1>2, <2>1 DEF Writers
  <2>3. SecretOf(job[r]) \in Secrets
    BY WriterTyped
  <2>4. WriterOf(r, SecretOf(job[r]))
    BY DEF IInv, WriterInv
  <2> QED
    BY <1>1, <2>1, <2>2, <2>3, <2>4 DEF WriterOf
<1> QED
    BY <1>4, <1>5, <1>6, <1>7 DEF IInv

(* A write of s begins: s is in doubt, and a writer before is not alone.    *)
LEMMA BeginningStep ==
    ASSUME TypeOK, IInv, status = "up", TodoAliases', UNCHANGED <<status, toLoad>>,
           NEW r \in Requests, NEW s \in Secrets, NEW v \in Data \cup {None},
           ~Writing(r), pc'[r] \in {"storing", "deleting"}, SecretOf(job'[r]) = s,
           \A q \in Requests \ {r} : pc'[q] = pc[q] /\ job'[q] = job[q],
           v = IF pc'[r] = "storing" THEN job'[r].data ELSE None,
           Manager!Invoke(r, s, v), BeginWrite(r, s), missed' \in {missed, missed \ {s}},
           pc'[r] = "storing" => Lookup'[PrimaryName(s)] = v,
           \A t \in Secrets \ {s} : Lookup'[PrimaryName(t)] = Lookup[PrimaryName(t)]
    PROVE  IInv'
<1> DEFINE call == [secret |-> s, value |-> v, applied |-> FALSE]
<1>1. store' = store /\ calls' = [calls EXCEPT ![r] = call]
    BY DEF Manager!Invoke
<1>2. settled' = [settled EXCEPT ![s] = InDoubt] /\ settled'[s] = InDoubt
    BY DEF BeginWrite, TypeOK
<1>3. calls'[r] = call /\ \A q \in Requests \ {r} : calls'[q] = calls[q]
    BY <1>1 DEF TypeOK, Manager!StoreTypeOK
<1>4. call # NoCall
  <2>1. call \in Manager!Call
    BY DEF Manager!Call
  <2> QED
    BY <2>1, CallAssumption
<1>5. Writing(r)' /\ \A q \in Requests \ {r} :
                        /\ Writing(q)' <=> Writing(q)
                        /\ SecretOf(job[q])' = SecretOf(job[q])
    BY DEF Writing, SecretOf
<1>6. Writers(s)' = Writers(s) \cup {r}
      /\ \A t \in Secrets \ {s} : Writers(t)' = Writers(t)
    BY <1>5 DEF Writers, SecretOf
<1>7. r \notin alone /\ \A q \in alone' : q = r \/ (q \in alone /\ q \notin Writers(s))
    BY DEF BeginWrite, IInv, AloneWrites
<1>8. OwnPubKey' /\ LoadInv' /\ Durable' /\ Coherent'
    BY <1>1, <1>2 DEF IInv, OwnPubKey, LoadInv, Durable, Coherent, TypeOK
<1>9. CallOfHandler'
  <2> SUFFICES ASSUME NEW q \in Requests
               PROVE  /\ calls'[q] # NoCall <=> pc'[q] \in {"storing", "deleting"}
                      /\ calls'[q] # NoCall =>
                            /\ calls'[q].secret = SecretOf(job'[q])
                            /\ calls'[q].value =
                                  IF pc'[q] = "storing" THEN job'[q].data ELSE None
    BY DEF CallOfHandler, SecretOf
  <2> QED
    BY <1>3, <1>4 DEF IInv, CallOfHandler
<1>10. AloneWrites'
    BY <1>5, <1>7 DEF IInv, AloneWrites, TypeOK
<1>11. ASSUME NEW q \in Requests, Writing(q)'
       PROVE  WriterOf(q, SecretOf(job[q]))'
  <2>1. CASE q = r
    <3>1. SecretOf(job[q])' = s
      BY <2>1 DEF SecretOf
    <3>2. r \in alone' => Writers(s)' = {r}
      BY <1>6, <1>7 DEF BeginWrite
    <3> QED
      BY <1>2, <1>3, <2>1, <3>1, <3>2 DEF WriterOf, Writers
  <2>2. CASE q # r
    <3>0. PICK t \in Secrets : t = SecretOf(job[q])
      BY <1>5, <1>11, <2>2, WriterTyped
    <3>1. /\ SecretOf(job[q])' = t /\ WriterOf(q, t) /\ q \in Writers(t)
          /\ pc'[q] = pc[q] /\ job'[q] = job[q] /\ calls'[q] = calls[q]
      BY <1>3, <1>5, <1>11, <2>2, <3>0 DEF IInv, WriterInv, Writers
    <3>2. settled'[t] = InDoubt
      BY <1>2, <3>1 DEF WriterOf, TypeOK
    <3>3. q \in alone' => t # s /\ q \in alone
      BY <1>7, <2>2, <3>1
    <3>4. q \in alone' => Writers(t)' = {q} /\ Lookup'[PrimaryName(t)] = Lookup[PrimaryName(t)]
      BY <1>6, <3>1, <3>3 DEF WriterOf
    <3>5. WriterOf(q, t)'
      BY <1>1, <3>1, <3>2, <3>3, <3>4 DEF WriterOf
    <3> QED
      BY <3>1, <3>5 DEF WriterOf, Writers
  <2> QED
    BY <2>1, <2>2
<1> QED
    BY <1>8, <1>9, <1>10, <1>11 DEF IInv, WriterInv

(* A write of s ends: if its outcome is settled it is what the secrets      *)
(* manager has, and Lookup has it too.                                      *)
LEMMA EndingStep ==
    ASSUME TypeOK, IInv, status = "up", TodoAliases', UNCHANGED <<store, status, toLoad>>,
           NEW r \in Requests, NEW s \in Secrets,
           Writing(r), s = SecretOf(job[r]), pc'[r] = "idle",
           \A q \in Requests \ {r} : pc'[q] = pc[q] /\ job'[q] = job[q],
           calls' = [calls EXCEPT ![r] = NoCall], missed' \in {missed, missed \ {s}},
           alone' = alone \ {r},
           \/ settled' = settled
           \/ /\ r \in alone /\ settled' = [settled EXCEPT ![s] = store[s]]
              /\ Lookup'[PrimaryName(s)] = store[s],
           \A t \in Secrets \ {s} : Lookup'[PrimaryName(t)] = Lookup[PrimaryName(t)]
    PROVE  IInv'
<1>1. /\ settled[s] = InDoubt
      /\ settled' = settled \/ settled' = [settled EXCEPT ![s] = store[s]]
      /\ settled'[s] # InDoubt =>
            settled'[s] = store[s] /\ Lookup'[PrimaryName(s)] = store[s]
    BY DEF IInv, WriterInv, WriterOf, TypeOK
<1>2. r \in Writers(s) /\ \A q \in alone' : q \in alone /\ q # r /\ q \notin Writers(s)
    BY <1>1 DEF IInv, WriterInv, WriterOf, Writers, AloneWrites, TypeOK
<1>3. calls'[r] = NoCall /\ \A q \in Requests \ {r} : calls'[q] = calls[q]
    BY DEF TypeOK, Manager!StoreTypeOK
<1>4. ~Writing(r)' /\ \A q \in Requests \ {r} :
                        /\ Writing(q)' <=> Writing(q)
                        /\ SecretOf(job[q])' = SecretOf(job[q])
    BY DEF Writing, SecretOf
<1>5. \A t \in Secrets \ {s} : Writers(t)' = Writers(t) /\ settled'[t] = settled[t]
    BY <1>1, <1>4 DEF Writers, TypeOK
<1>6. OwnPubKey' /\ LoadInv' /\ Durable' /\ Coherent'
    BY <1>1, <1>5 DEF IInv, OwnPubKey, LoadInv, Durable, Coherent
<1>7. CallOfHandler'
  <2> SUFFICES ASSUME NEW q \in Requests
               PROVE  /\ calls'[q] # NoCall <=> pc'[q] \in {"storing", "deleting"}
                      /\ calls'[q] # NoCall =>
                            /\ calls'[q].secret = SecretOf(job'[q])
                            /\ calls'[q].value =
                                  IF pc'[q] = "storing" THEN job'[q].data ELSE None
    BY DEF CallOfHandler, SecretOf
  <2> QED
    BY <1>3 DEF IInv, CallOfHandler
<1>8. AloneWrites'
    BY <1>2, <1>4 DEF IInv, AloneWrites, TypeOK
<1>9. ASSUME NEW q \in Requests, Writing(q)'
      PROVE  WriterOf(q, SecretOf(job[q]))'
  <2>0. q # r
    BY <1>4, <1>9
  <2>1. PICK t \in Secrets : t = SecretOf(job[q])
    BY <1>4, <1>9, <2>0, WriterTyped
  <2>2. /\ SecretOf(job[q])' = t /\ WriterOf(q, t) /\ q \in Writers(t)
        /\ pc'[q] = pc[q] /\ job'[q] = job[q] /\ calls'[q] = calls[q]
    BY <1>3, <1>4, <1>9, <2>0, <2>1 DEF IInv, WriterInv, Writers
  <2>3. q \in alone' => t # s /\ q \in alone
    BY <1>2, <2>2
  <2>4. settled'[t] = InDoubt
    <3>1. CASE t # s
      BY <1>5, <2>2, <3>1 DEF WriterOf
    <3>2. CASE t = s
      BY <1>1, <1>2, <2>0, <2>2, <3>2 DEF IInv, WriterInv, WriterOf
    <3> QED
      BY <3>1, <3>2
  <2>5. q \in alone' => Writers(t)' = {q} /\ Lookup'[PrimaryName(t)] = Lookup[PrimaryName(t)]
    BY <1>5, <2>2, <2>3 DEF WriterOf
  <2>6. WriterOf(q, t)'
    BY <2>2, <2>3, <2>4, <2>5 DEF WriterOf
  <2> QED
    BY <2>2, <2>6 DEF WriterOf, Writers
<1> QED
    BY <1>6, <1>7, <1>8, <1>9 DEF IInv, WriterInv

(* An attempt of a call reaches the secrets manager: the secret it writes   *)
(* is in doubt, so that nothing settled changes.                            *)
LEMMA AttemptStep ==
    ASSUME TypeOK, IInv, NEW r \in Requests, Attempt(r)
    PROVE  IInv'
<1> DEFINE c == calls[r]
<1>1. /\ UNCHANGED <<Lookup, status, toLoad, missed, pc, job, settled, alone>>
      /\ c # NoCall /\ store' = [store EXCEPT ![c.secret] = c.value]
      /\ calls' = [calls EXCEPT ![r].applied = TRUE]
    BY DEF Attempt, Manager!Apply, loadVars, handlerVars
<1>2. c \in Manager!Call
    BY <1>1 DEF TypeOK, Manager!StoreTypeOK
<1>3. /\ calls'[r].secret = c.secret /\ calls'[r].value = c.value /\ calls'[r].applied
      /\ calls'[r] # NoCall
      /\ \A q \in Requests \ {r} : calls'[q] = calls[q]
  <2>1. [c EXCEPT !.applied = TRUE] \in Manager!Call
    BY <1>2 DEF Manager!Call
  <2>2. calls'[r] = [c EXCEPT !.applied = TRUE]
        /\ \A q \in Requests \ {r} : calls'[q] = calls[q]
    BY <1>1 DEF TypeOK, Manager!StoreTypeOK
  <2> QED
    BY <1>2, <2>1, <2>2, CallAssumption DEF Manager!Call
<1>4. PICK s \in Secrets : s = c.secret
    BY <1>2 DEF Manager!Call
<1>5. /\ Writing(r) /\ s = SecretOf(job[r]) /\ status = "up"
      /\ c.value = IF pc[r] = "storing" THEN job[r].data ELSE None
    BY <1>1, <1>4 DEF IInv, CallOfHandler, Idle, Writing
<1>6. c.value # None => c.value.pubkey = s[1]
    BY <1>5, WriterTyped
<1>7. store'[s] = c.value /\ \A t \in Secrets \ {s} : store'[t] = store[t]
    BY <1>1, <1>4 DEF TypeOK, Manager!StoreTypeOK
<1>8. settled[s] = InDoubt /\ r \in Writers(s)
    BY <1>5 DEF IInv, WriterInv, WriterOf, Writers
<1> HIDE DEF c
<1>9. OwnPubKey' /\ LoadInv' /\ Durable' /\ Coherent'
    BY <1>1, <1>5, <1>6, <1>7, <1>8 DEF IInv, OwnPubKey, LoadInv, Durable, Coherent
<1>10. CallOfHandler' /\ AloneWrites' /\ TodoAliases'
    BY <1>1, <1>3, c # NoCall DEF IInv, CallOfHandler, AloneWrites, TodoAliases, Idle, Writing,
                                  SecretOf, c
<1>11. ASSUME NEW q \in Requests, Writing(q)'
       PROVE  WriterOf(q, SecretOf(job[q]))'
  <2>1. PICK t \in Secrets : t = SecretOf(job[q])
    BY <1>1, <1>11, WriterTyped DEF Writing
  <2>2. SecretOf(job[q])' = t /\ WriterOf(q, t) /\ q \in Writers(t)
    BY <1>1, <1>11, <2>1 DEF IInv, WriterInv, Writers, Writing, SecretOf
  <2>3. Writers(t)' = Writers(t)
    BY <1>1 DEF Writers, Writing, SecretOf
  <2>4. CASE q = r
    BY <1>1, <1>3, <1>5, <1>7, <2>1, <2>2, <2>3, <2>4
    DEF WriterOf, IInv, CallOfHandler
  <2>5. CASE q # r
    <3>1. q \in alone => t # s
      BY <1>8, <2>2, <2>5 DEF WriterOf
    <3>2. WriterOf(q, t)'
      BY <1>1, <1>3, <1>7, <2>2, <2>3, <2>5, <3>1 DEF WriterOf
    <3> QED
      BY <2>2, <3>2 DEF WriterOf, Writers
  <2> QED
    BY <2>4, <2>5
<1> QED
    BY <1>9, <1>10, <1>11 DEF IInv, WriterInv

(* The secrets manager has deleted s; the handler goes on to Lookup.        *)
LEMMA DeletedStep ==
    ASSUME TypeOK, IInv, NEW r \in Requests, Deleted(r)
    PROVE  IInv'
<1>1. /\ UNCHANGED <<store, Lookup, status, toLoad, missed, settled, alone>>
      /\ pc[r] = "deleting" /\ pc' = [pc EXCEPT ![r] = "unalias"]
      /\ job' = [job EXCEPT ![r].todo = Aliases(job[r].data, job[r].uid)]
      /\ calls[r] # NoCall /\ calls[r].applied /\ calls' = [calls EXCEPT ![r] = NoCall]
    BY DEF Deleted, Manager!Succeed, loadVars, Goto
<1>2. /\ pc'[r] = "unalias" /\ job'[r].data = job[r].data /\ job'[r].uid = job[r].uid
      /\ job'[r].todo = Aliases(job[r].data, job[r].uid) /\ calls'[r] = NoCall
  <2>1. job[r] \in Job
    BY <1>1, WriterTyped DEF Writing
  <2>2. job'[r] = [job[r] EXCEPT !.todo = Aliases(job[r].data, job[r].uid)]
    BY <1>1 DEF TypeOK
  <2> QED
    BY <1>1, <2>1, <2>2 DEF Job, TypeOK, Manager!StoreTypeOK
<1>3. \A q \in Requests \ {r} : pc'[q] = pc[q] /\ job'[q] = job[q] /\ calls'[q] = calls[q]
    BY <1>1 DEF TypeOK, Manager!StoreTypeOK
<1>4. \A q \in Requests : /\ Writing(q)' <=> Writing(q)
                          /\ SecretOf(job[q])' = SecretOf(job[q])
    BY <1>1, <1>2, <1>3 DEF Writing, SecretOf
<1>5. OwnPubKey' /\ LoadInv' /\ Durable' /\ Coherent'
    BY <1>1 DEF IInv, OwnPubKey, LoadInv, Durable, Coherent
<1>6. AloneWrites' /\ TodoAliases'
    BY <1>1, <1>2, <1>3, <1>4
    DEF IInv, AloneWrites, TodoAliases, TypeOK, PutSteps, DeleteSteps, Aliases
<1>7. CallOfHandler'
  <2>1. status = "up"
    BY <1>1 DEF IInv, CallOfHandler, Idle
  <2>2. \A q \in Requests :
           /\ calls'[q] # NoCall <=> pc'[q] \in {"storing", "deleting"}
           /\ calls'[q] # NoCall =>
                 /\ calls'[q].secret = SecretOf(job'[q])
                 /\ calls'[q].value = IF pc'[q] = "storing" THEN job'[q].data ELSE None
    BY <1>2, <1>3 DEF IInv, CallOfHandler
  <2> QED
    BY <1>1, <2>1, <2>2 DEF CallOfHandler, SecretOf
<1>8. ASSUME NEW q \in Requests, Writing(q)'
      PROVE  WriterOf(q, SecretOf(job[q]))'
  <2>1. PICK t \in Secrets : t = SecretOf(job[q])
    BY <1>4, <1>8, WriterTyped
  <2>2. SecretOf(job[q])' = t /\ WriterOf(q, t)
    BY <1>4, <1>8, <2>1 DEF IInv, WriterInv
  <2>3. Writers(t)' = Writers(t)
    BY <1>4 DEF Writers
  <2>4. q = r => calls[r].value = None
    BY <1>1 DEF IInv, CallOfHandler
  <2>5. WriterOf(q, t)'
    BY <1>1, <1>2, <1>3, <2>2, <2>3, <2>4 DEF WriterOf
  <2> QED
    BY <2>2, <2>5 DEF WriterOf, Writers
<1> QED
    BY <1>5, <1>6, <1>7, <1>8 DEF IInv, WriterInv

(* A crash loses Lookup and the handlers, and settles nothing.              *)
LEMMA CrashStep == ASSUME TypeOK, IInv, Crash PROVE IInv'
<1>1. OwnPubKey' /\ LoadInv' /\ Durable' /\ Coherent'
    BY DEF IInv, Crash, Manager!Abandon, OwnPubKey, LoadInv, Durable, Coherent
<1>2. CallOfHandler' /\ WriterInv' /\ AloneWrites' /\ TodoAliases'
    BY DEF Crash, Manager!Abandon, CallOfHandler, Idle, WriterInv, AloneWrites, TodoAliases,
           Writing, PutSteps, DeleteSteps
<1> QED
    BY <1>1, <1>2 DEF IInv

(* Before Listen no handler runs: only the load changes Lookup.             *)
LEMMA StartStep ==
    ASSUME TagsNeverShadow, LegacySecrets = {}, TypeOK, IInv, Start
    PROVE  IInv'
<1>1. UNCHANGED <<store, calls, pc, job, alone>> /\ Idle
    BY DEF Start, LoadSecrets, InitialLoad, Listen, managerVars, handlerVars, IInv,
           CallOfHandler
<1>2. CallOfHandler' /\ WriterInv' /\ AloneWrites' /\ TodoAliases' /\ OwnPubKey'
    BY <1>1 DEF IInv, CallOfHandler, Idle, WriterInv, AloneWrites, TodoAliases, OwnPubKey,
                Writing, PutSteps, DeleteSteps, TypeOK
<1>3. ASSUME NEW lost \in SUBSET Secrets, LoadSecrets(lost)
      PROVE  LoadInv' /\ Durable' /\ Coherent'
  <2> DEFINE entry(s) == [uid |-> s[2], data |-> store[s]]
  <2>1. \A s \in Secrets : store[s] # None => SecretOf(entry(s)) = s
    BY DEF IInv, OwnPubKey, SecretOf, Secrets
  <2>2. toLoad' = {entry(s) : s \in {t \in Secrets \ lost : store[t] # None}}
    BY <1>3 DEF LoadSecrets
  <2>3. \A e \in toLoad' : store[SecretOf(e)] = e.data
    BY <2>1, <2>2
  <2>4. \A s \in Secrets \ lost : store[s] = None \/ \E e \in toLoad' : SecretOf(e) = s
    BY <2>1, <2>2
  <2>5. \A s \in Secrets : Lookup[PrimaryName(s)] = None
    BY <1>3, NamesAssumption, NamesClosed
    DEF LoadSecrets, IInv, LoadInv, PrimaryName, Secrets
  <2>6. \A s \in Secrets : settled'[s] = IF s \in lost THEN settled[s] ELSE store[s]
    BY <1>3 DEF LoadSecrets
  <2> HIDE DEF entry
  <2>7. LoadInv'
    BY <1>1, <1>3, <2>3, <2>4, <2>5, <2>6 DEF LoadSecrets, LoadInv, SecretOf
  <2> QED
    BY <1>1, <1>3, <2>6, <2>7 DEF LoadSecrets, Durable, Coherent, IInv
<1>4. ASSUME InitialLoad PROVE LoadInv' /\ Durable' /\ Coherent'
  <2>1. PICK e \in toLoad : /\ toLoad' = toLoad \ {e}
                            /\ Lookup' = ToLookup(Lookup, e.data, e.uid)
    BY <1>4 DEF InitialLoad
  <2>2. e \in Entry /\ e.data \in Data /\ e.uid \in UniqueIds
    BY DEF TypeOK, Entry
  <2>3. \A s \in Secrets : /\ PrimaryName(s) \in Names
                           /\ PrimaryName(s) = Concat(e.data.pubkey, e.uid) <=> s = SecretOf(e)
    <3>1. SecretOf(e) \in Secrets /\ PrimaryName(SecretOf(e)) = Concat(e.data.pubkey, e.uid)
      BY <2>2, SecretsTyped DEF SecretOf
    <3>2. \A s \in Secrets : PrimaryName(s) \in Names
      BY NamesAssumption, NamesClosed DEF PrimaryName, Secrets
    <3> QED
      BY <3>1, <3>2, PrimaryNamesDiffer
  <2>4. \A s \in Secrets, v \in Aliases(e.data, e.uid) : Concat(v, e.uid) # PrimaryName(s)
    BY <2>2, AliasIsNotPrimary
  <2>5. \A s \in Secrets : Lookup'[PrimaryName(s)] =
                               IF s = SecretOf(e) THEN e.data ELSE Lookup[PrimaryName(s)]
    BY <2>1, <2>3, <2>4 DEF ToLookup
  <2>6. store[SecretOf(e)] = e.data
    BY <1>4 DEF InitialLoad, IInv, LoadInv
  <2>7. LoadInv'
    BY <1>1, <1>4, <2>1, <2>5, <2>6 DEF InitialLoad, IInv, LoadInv, SecretOf
  <2> QED
    BY <1>1, <1>4, <2>7 DEF InitialLoad, IInv, Durable, Coherent
<1>5. ASSUME Listen PROVE LoadInv' /\ Durable' /\ Coherent'
    BY <1>1, <1>5 DEF Listen, IInv, LoadInv, Durable, Coherent
<1> QED
    BY <1>2, <1>3, <1>4, <1>5 DEF Start, IInv

LEMMA ClientStep ==
    ASSUME TypeOK, IInv, NEW r \in Requests, Client(r)
    PROVE  IInv'
<1>1. /\ pc[r] = "idle" /\ ~Writing(r) /\ status = "up"
    BY DEF Client, InvalidUniqueID, GetHandler, QueryHandler, VerifyHandler, PutHandler,
           DeleteHandler, CanBegin, Writing
<1>2. ASSUME NoEffect, pc'[r] \in {"idle", "check", "verify", "alias"},
             \A q \in Requests \ {r} : pc'[q] = pc[q] /\ job'[q] = job[q],
             pc'[r] \in PutSteps =>
                job'[r].todo = Aliases(job'[r].data, job'[r].uid)
      PROVE  IInv'
  <2>1. TodoAliases'
    BY <1>2 DEF IInv, TodoAliases, PutSteps, DeleteSteps, Aliases
  <2>2. ~Writing(r)' /\ \A q \in Requests \ {r} : Writing(q)' <=> Writing(q)
    BY <1>2 DEF Writing
  <2>3. UNCHANGED <<managerVars, loadVars, settled, alone, Lookup>>
    BY <1>2 DEF NoEffect
  <2> QED
    BY <1>1, <1>2, <2>1, <2>2, <2>3, QuietStep
<1>3. ASSUME NEW code, NEW body, Answer(r, code, body), NoEffect
      PROVE  IInv'
  <2>1. pc'[r] = "idle" /\ \A q \in Requests \ {r} : pc'[q] = pc[q] /\ job'[q] = job[q]
    BY <1>3 DEF Answer, TypeOK
  <2> QED
    BY <1>2, <1>3, <2>1 DEF PutSteps
<1>4. ASSUME NEW u \in UniqueIds, NEW op, InvalidUniqueID(r, op, u)
      PROVE  IInv'
    BY <1>3, <1>4 DEF InvalidUniqueID
<1>5. ASSUME NEW n \in BaseNames, NEW u \in UniqueIds,
             \/ \E m \in Durations : GetHandler(r, n, u, m)
             \/ QueryHandler(r, n, u)
      PROVE  IInv'
    BY <1>3, <1>5 DEF GetHandler, QueryHandler
<1>6. ASSUME NEW n \in BaseNames, NEW u \in UniqueIds, VerifyHandler(r, n, u)
      PROVE  IInv'
  <2>1. NoEffect /\ (Answer(r, 400, None) \/ Answer(r, 404, None) \/ Begin(r, "check", NoJob))
    BY <1>6 DEF VerifyHandler
  <2>2. CASE Begin(r, "check", NoJob)
    <3>1. pc'[r] = "check" /\ \A q \in Requests \ {r} : pc'[q] = pc[q] /\ job'[q] = job[q]
      BY <2>2 DEF Begin, TypeOK
    <3> QED
      BY <1>2, <2>1, <3>1 DEF PutSteps
  <2> QED
    BY <1>3, <2>1, <2>2
<1>7. ASSUME NEW b \in Bodies, NEW u \in UniqueIds, NEW c \in Certificates \cup {Empty},
             NEW v \in BOOLEAN, PutHandler(r, b, u, c, v)
      PROVE  IInv'
  <2> DEFINE orig == Found(b.pubkey, u)
             d    == Merged(b, orig, c)
             code == IF BadRequestWithoutReturn(b, d) THEN 400 ELSE 0
             j    == [uid |-> u, data |-> d, todo |-> Aliases(d, u), tag |-> None,
                      header |-> code]
  <2>1. NoEffect /\ (Answer(r, 400, None) \/ Begin(r, IF v THEN "verify" ELSE "alias", j))
    BY <1>7 DEF PutHandler
  <2> HIDE DEF d, code
  <2>2. CASE Begin(r, IF v THEN "verify" ELSE "alias", j)
    <3>1. /\ pc'[r] \in {"verify", "alias"} /\ job'[r] = j
          /\ \A q \in Requests \ {r} : pc'[q] = pc[q] /\ job'[q] = job[q]
      BY <2>2 DEF Begin, TypeOK
    <3>2. job'[r].todo = Aliases(job'[r].data, job'[r].uid)
      BY <3>1
    <3> QED
      BY <1>2, <2>1, <3>1, <3>2
  <2> QED
    BY <1>3, <2>1, <2>2
<1>8. ASSUME NEW n \in BaseNames, NEW u \in UniqueIds, DeleteHandler(r, n, u)
      PROVE  IInv'
  <2> DEFINE e == Found(n, u)
             j == [uid |-> u, data |-> e, todo |-> {}, tag |-> None, header |-> 0]
  <2>1. CASE Answer(r, 404, None) /\ NoEffect
    BY <1>3, <2>1
  <2>2. CASE /\ e # None
             /\ Begin(r, "deleting", j)
             /\ Manager!Invoke(r, SecretOf(j), None)
             /\ BeginWrite(r, SecretOf(j))
             /\ UNCHANGED <<Lookup, loadVars>>
    <3>1. e \in Data
      BY <2>2, NamesClosed DEF TypeOK, Found
    <3> HIDE DEF e
    <3>2. j.data = e /\ j.uid = u /\ j.todo = {}
      OBVIOUS
    <3>3. PICK s \in Secrets : s = SecretOf(j)
      BY <3>1, <3>2, SecretsTyped DEF SecretOf
    <3> HIDE DEF j
    <3>4. /\ pc'[r] = "deleting" /\ job'[r] = j
          /\ \A q \in Requests \ {r} : pc'[q] = pc[q] /\ job'[q] = job[q]
      BY <2>2 DEF Begin, TypeOK
    <3>5. TodoAliases'
      BY <3>2, <3>4 DEF IInv, TodoAliases, Aliases
    <3>6. UNCHANGED <<status, toLoad, missed, Lookup>>
      BY <2>2 DEF loadVars
    <3> QED
      BY <1>1, <2>2, <3>3, <3>4, <3>5, <3>6, BeginningStep
  <2> QED
    BY <1>8, <2>1, <2>2 DEF DeleteHandler
<1> QED
    BY <1>4, <1>5, <1>6, <1>7, <1>8 DEF Client

LEMMA HandlerStep ==
    ASSUME TagsNeverShadow, TypeOK, IInv, NEW r \in Requests, Handler(r)
    PROVE  IInv'
<1>1. status = "up"
    BY DEF Handler, VerifyDone, PutVerified, AliasCheck, AliasWrite, PutPrimary, DeleteAlias,
           DeletePrimary, IInv, CallOfHandler, Idle
<1>2. ASSUME NoEffect, ~Writing(r), pc'[r] \in {"idle", "alias", "aliasWrite"},
             pc'[r] # "idle" =>
                /\ pc[r] \in PutSteps
                /\ job'[r].data = job[r].data /\ job'[r].uid = job[r].uid
                /\ job'[r].todo \subseteq job[r].todo
                /\ pc'[r] = "aliasWrite" => job'[r].tag \in job[r].todo,
             \A q \in Requests \ {r} : pc'[q] = pc[q] /\ job'[q] = job[q]
      PROVE  IInv'
  <2>1. TodoAliases'
    BY <1>2 DEF IInv, TodoAliases, PutSteps, DeleteSteps, Aliases
  <2>2. ~Writing(r)' /\ \A q \in Requests \ {r} : Writing(q)' <=> Writing(q)
    BY <1>2 DEF Writing
  <2>3. UNCHANGED <<managerVars, loadVars, settled, alone, Lookup>>
    BY <1>2 DEF NoEffect
  <2> QED
    BY <1>1, <1>2, <2>1, <2>2, <2>3, QuietStep
<1>3. ASSUME NEW code, NEW body, Answer(r, code, body), NoEffect, ~Writing(r)
      PROVE  IInv'
  <2>1. pc'[r] = "idle" /\ \A q \in Requests \ {r} : pc'[q] = pc[q] /\ job'[q] = job[q]
    BY <1>3 DEF Answer, TypeOK
  <2> QED
    BY <1>2, <1>3, <2>1
<1>4. ASSUME NEW ok \in BOOLEAN, VerifyDone(r, ok)
      PROVE  IInv'
    BY <1>3, <1>4 DEF VerifyDone, Writing
<1>5. ASSUME NEW ok \in BOOLEAN, PutVerified(r, ok)
      PROVE  IInv'
  <2>1. CASE AnswerJob(r, 400)
    BY <1>3, <1>5, <2>1 DEF PutVerified, AnswerJob, Writing
  <2>2. CASE Goto(r, "alias") /\ UNCHANGED <<job, reply>>
    <3>1. /\ pc'[r] = "alias" /\ pc[r] = "verify" /\ job'[r] = job[r]
          /\ \A q \in Requests \ {r} : pc'[q] = pc[q] /\ job'[q] = job[q]
      BY <1>5, <2>2 DEF PutVerified, Goto, TypeOK
    <3> QED
      BY <1>2, <1>5, <3>1 DEF PutVerified, Writing, PutSteps
  <2> QED
    BY <1>5, <2>1, <2>2 DEF PutVerified
<1>j. pc[r] \in PutSteps \cup DeleteSteps => job[r] \in Job
    BY DEF TypeOK
<1>6. ASSUME AliasCheck(r) PROVE IInv'
  <2>1. /\ pc[r] = "alias" /\ pc[r] \in PutSteps /\ ~Writing(r) /\ NoEffect /\ job[r] \in Job
    BY <1>6, <1>j DEF AliasCheck, Writing, PutSteps
  <2>2. PICK v \in job[r].todo :
          \/ Goto(r, "aliasWrite") /\ job' = [job EXCEPT ![r].tag = v]
          \/ job' = [job EXCEPT ![r].todo = @ \ {v}] /\ UNCHANGED pc
    BY <1>6 DEF AliasCheck
  <2>3. CASE Goto(r, "aliasWrite") /\ job' = [job EXCEPT ![r].tag = v]
    <3>1. /\ pc'[r] = "aliasWrite" /\ job'[r] = [job[r] EXCEPT !.tag = v]
          /\ \A q \in Requests \ {r} : pc'[q] = pc[q] /\ job'[q] = job[q]
      BY <2>3 DEF Goto, TypeOK
    <3>2. /\ job'[r].data = job[r].data /\ job'[r].uid = job[r].uid
          /\ job'[r].todo = job[r].todo /\ job'[r].tag = v
      BY <2>1, <3>1 DEF Job
    <3> QED
      BY <1>2, <2>1, <3>1, <3>2
  <2>4. CASE job' = [job EXCEPT ![r].todo = @ \ {v}] /\ UNCHANGED pc
    <3>1. /\ pc'[r] = "alias" /\ job'[r] = [job[r] EXCEPT !.todo = @ \ {v}]
          /\ \A q \in Requests \ {r} : pc'[q] = pc[q] /\ job'[q] = job[q]
      BY <2>1, <2>4 DEF TypeOK
    <3>2. /\ job'[r].data = job[r].data /\ job'[r].uid = job[r].uid
          /\ job'[r].todo \subseteq job[r].todo
      BY <2>1, <3>1 DEF Job
    <3> QED
      BY <1>2, <2>1, <3>1, <3>2
  <2> QED
    BY <2>2, <2>3, <2>4
<1>7. ASSUME AliasWrite(r) PROVE IInv'
  <2> DEFINE n == Concat(job[r].tag, job[r].uid)
  <2>1. /\ pc[r] = "aliasWrite" /\ pc[r] \in PutSteps /\ job[r] \in Job
        /\ job[r].tag \in Aliases(job[r].data, job[r].uid)
    BY <1>7, <1>j DEF AliasWrite, PutSteps, IInv, TodoAliases
  <2>2. \A s \in Secrets : Lookup'[PrimaryName(s)] = Lookup[PrimaryName(s)]
    <3>1. \A s \in Secrets : n # PrimaryName(s)
      BY <2>1, AliasIsNotPrimary DEF Job
    <3>2. Lookup' = [Lookup EXCEPT ![n] = job[r].data]
      BY <1>7 DEF AliasWrite
    <3>3. \A s \in Secrets : PrimaryName(s) \in Names
      BY NamesAssumption, NamesClosed DEF PrimaryName, Secrets
    <3> HIDE DEF n
    <3> QED
      BY <3>1, <3>2, <3>3 DEF TypeOK
  <2>3. /\ pc'[r] = "alias"
        /\ job'[r] = [job[r] EXCEPT !.todo = @ \ {job[r].tag}, !.tag = None]
        /\ \A q \in Requests \ {r} : pc'[q] = pc[q] /\ job'[q] = job[q]
    BY <1>7 DEF AliasWrite, Goto, TypeOK
  <2>4. /\ job'[r].data = job[r].data /\ job'[r].uid = job[r].uid
        /\ job'[r].todo \subseteq job[r].todo
    BY <2>1, <2>3 DEF Job
  <2>5. TodoAliases'
    BY <2>1, <2>3, <2>4 DEF IInv, TodoAliases, PutSteps, DeleteSteps, Aliases
  <2>6. ~Writing(r) /\ ~Writing(r)' /\ \A q \in Requests \ {r} : Writing(q)' <=> Writing(q)
    BY <2>1, <2>3 DEF Writing
  <2>7. UNCHANGED <<managerVars, loadVars, settled, alone>>
    BY <1>7 DEF AliasWrite
  <2> QED
    BY <1>1, <2>2, <2>3, <2>5, <2>6, <2>7, QuietStep
<1>8. ASSUME PutPrimary(r) PROVE IInv'
  <2>1. pc[r] = "alias" /\ job[r] \in Job /\ job[r].data \in Data
    BY <1>8, <1>j DEF PutPrimary, PutSteps, Job
  <2>2. PICK s \in Secrets : s = SecretOf(job[r])
    <3>1. job[r].data \in Data /\ job[r].uid \in UniqueIds
      BY <2>1 DEF Job
    <3> QED
      BY <3>1, SecretsTyped DEF SecretOf
  <2>3. PICK d \in Data : d = job[r].data
    BY <2>1
  <2>4. /\ Lookup' = [Lookup EXCEPT ![PrimaryName(s)] = d]
        /\ Manager!Invoke(r, s, d) /\ BeginWrite(r, s) /\ missed' = missed \ {s}
        /\ UNCHANGED <<status, toLoad, job>> /\ pc' = [pc EXCEPT ![r] = "storing"]
        /\ job[r].todo = {}
    BY <1>8, <2>2, <2>3 DEF PutPrimary, Goto
  <2>5. Lookup'[PrimaryName(s)] = d
        /\ \A t \in Secrets \ {s} : Lookup'[PrimaryName(t)] = Lookup[PrimaryName(t)]
    <3>1. \A t \in Secrets : PrimaryName(t) \in Names
      BY NamesAssumption, NamesClosed DEF PrimaryName, Secrets
    <3> QED
      BY <2>4, <3>1, PrimaryNamesDiffer DEF TypeOK
  <2>6. pc'[r] = "storing" /\ \A q \in Requests \ {r} : pc'[q] = pc[q] /\ job'[q] = job[q]
    BY <2>4 DEF TypeOK
  <2>7. TodoAliases'
    BY <2>4, <2>6 DEF IInv, TodoAliases, Aliases
  <2>8. ~Writing(r) /\ SecretOf(job'[r]) = s /\ d = job'[r].data
    BY <2>1, <2>2, <2>3, <2>4 DEF Writing
  <2> QED
    BY <1>1, <2>4, <2>5, <2>6, <2>7, <2>8, BeginningStep
<1>9. ASSUME DeleteAlias(r) PROVE IInv'
  <2>1. PICK v \in job[r].todo :
          /\ Lookup' = [Lookup EXCEPT ![Concat(v, job[r].uid)] = None]
          /\ job' = [job EXCEPT ![r].todo = @ \ {v}]
    BY <1>9 DEF DeleteAlias
  <2>2. pc[r] = "unalias" /\ job[r] \in Job /\ v \in Aliases(job[r].data, job[r].uid)
    BY <1>9, <1>j, <2>1 DEF DeleteAlias, DeleteSteps, IInv, TodoAliases
  <2>3. \A s \in Secrets : Lookup'[PrimaryName(s)] = Lookup[PrimaryName(s)]
    <3>1. \A s \in Secrets : Concat(v, job[r].uid) # PrimaryName(s)
      BY <2>2, AliasIsNotPrimary DEF Job
    <3>2. \A s \in Secrets : PrimaryName(s) \in Names
      BY NamesAssumption, NamesClosed DEF PrimaryName, Secrets
    <3> QED
      BY <2>1, <3>1, <3>2 DEF TypeOK
  <2>4. /\ UNCHANGED pc /\ job'[r] = [job[r] EXCEPT !.todo = @ \ {v}]
        /\ \A q \in Requests \ {r} : job'[q] = job[q]
    BY <1>9, <2>1 DEF DeleteAlias, TypeOK
  <2>5. /\ job'[r].data = job[r].data /\ job'[r].uid = job[r].uid
        /\ job'[r].todo \subseteq job[r].todo
    BY <2>2, <2>4 DEF Job
  <2>6. TodoAliases'
    BY <2>2, <2>4, <2>5 DEF IInv, TodoAliases, Aliases
  <2>7. UNCHANGED <<managerVars, loadVars, settled, alone>>
    BY <1>9 DEF DeleteAlias
  <2> QED
    BY <1>1, <2>3, <2>4, <2>5, <2>6, <2>7, QuietStep DEF Writing
<1>10. ASSUME DeletePrimary(r) PROVE IInv'
  <2>1. pc[r] = "unalias" /\ Writing(r) /\ calls[r] = NoCall
    BY <1>10 DEF DeletePrimary, Writing, IInv, CallOfHandler
  <2>2. PICK s \in Secrets : s = SecretOf(job[r])
    BY <2>1, WriterTyped
  <2>3. /\ Lookup' = [Lookup EXCEPT ![PrimaryName(s)] = None]
        /\ AnswerJob(r, 200) /\ EndWrite(r, s, None) /\ missed' = missed \ {s}
        /\ UNCHANGED <<store, calls, status, toLoad>>
    BY <1>10, <2>2 DEF DeletePrimary, managerVars
  <2>4. Lookup'[PrimaryName(s)] = None
        /\ \A t \in Secrets \ {s} : Lookup'[PrimaryName(t)] = Lookup[PrimaryName(t)]
    <3>1. \A t \in Secrets : PrimaryName(t) \in Names
      BY NamesAssumption, NamesClosed DEF PrimaryName, Secrets
    <3> QED
      BY <2>3, <3>1, PrimaryNamesDiffer DEF TypeOK
  <2>5. r \in alone => store[s] = None
    BY <2>1, <2>2 DEF IInv, WriterInv, WriterOf
  <2>6. pc'[r] = "idle" /\ \A q \in Requests \ {r} : pc'[q] = pc[q] /\ job'[q] = job[q]
    BY <2>3 DEF AnswerJob, Answer, TypeOK
  <2>7. TodoAliases'
    BY <2>6 DEF IInv, TodoAliases, PutSteps, DeleteSteps, Aliases
  <2>8. calls' = [calls EXCEPT ![r] = NoCall]
    BY <2>1, <2>3 DEF TypeOK, Manager!StoreTypeOK
  <2>9. alone' = alone \ {r} /\ (r \notin alone => settled' = settled)
        /\ (r \in alone => settled' = [settled EXCEPT ![s] = store[s]])
    BY <2>3, <2>5 DEF EndWrite
  <2> QED
    BY <1>1, <2>1, <2>2, <2>3, <2>4, <2>5, <2>6, <2>7, <2>8, <2>9, EndingStep
<1> QED
    BY <1>4, <1>5, <1>6, <1>7, <1>8, <1>9, <1>10 DEF Handler

LEMMA ReturnedStep ==
    ASSUME TypeOK, IInv, NEW r \in Requests, Returned(r)
    PROVE  IInv'
<1>1. ASSUME \/ \E code \in {200, 201} : PutStored(r, code)
             \/ PutNotStored(r)
             \/ NotDeleted(r)
      PROVE  IInv'
  <2>1. /\ pc[r] \in {"storing", "deleting"} /\ Writing(r)
        /\ \E code \in {200, 201, 500} : AnswerJob(r, code)
        /\ calls' = [calls EXCEPT ![r] = NoCall]
        /\ UNCHANGED <<store, Lookup, status, toLoad, missed>>
    BY <1>1 DEF PutStored, PutNotStored, NotDeleted, Writing, loadVars,
                Manager!Succeed, Manager!Fail
  <2>2. status = "up"
    BY <2>1 DEF IInv, CallOfHandler, Idle
  <2>3. PICK s \in Secrets : s = SecretOf(job[r])
    BY <2>1, WriterTyped
  <2>4. pc'[r] = "idle" /\ \A q \in Requests \ {r} : pc'[q] = pc[q] /\ job'[q] = job[q]
    BY <2>1 DEF AnswerJob, Answer, TypeOK
  <2>5. TodoAliases'
    BY <2>4 DEF IInv, TodoAliases, PutSteps, DeleteSteps, Aliases
  <2>6. /\ alone' = alone \ {r}
        /\ \/ settled' = settled
           \/ /\ r \in alone /\ settled' = [settled EXCEPT ![s] = store[s]]
              /\ Lookup'[PrimaryName(s)] = store[s]
    <3>1. CASE PutNotStored(r) \/ NotDeleted(r)
      BY <3>1 DEF PutNotStored, NotDeleted, AbandonWrite
    <3>2. CASE \E code \in {200, 201} : PutStored(r, code)
      <4>1. /\ EndWrite(r, s, job[r].data) /\ pc[r] = "storing"
            /\ calls[r] # NoCall /\ calls[r].applied
        BY <2>3, <3>2 DEF PutStored, Manager!Succeed
      <4>2. r \in alone => store[s] = job[r].data /\ Lookup[PrimaryName(s)] = job[r].data
        BY <2>1, <2>3, <4>1 DEF IInv, WriterInv, WriterOf, CallOfHandler
      <4> QED
        BY <2>1, <4>1, <4>2 DEF EndWrite
    <3> QED
      BY <1>1, <3>1, <3>2
  <2>7. \A t \in Secrets \ {s} : Lookup'[PrimaryName(t)] = Lookup[PrimaryName(t)]
    BY <2>1
  <2>8. UNCHANGED <<store, status, toLoad>> /\ missed' \in {missed, missed \ {s}}
    BY <2>1
  <2>9. Writing(r) /\ calls' = [calls EXCEPT ![r] = NoCall]
    BY <2>1
  <2> QED
    BY <2>2, <2>3, <2>4, <2>5, <2>6, <2>7, <2>8, <2>9, EndingStep
<1> QED
    BY <1>1, DeletedStep DEF Returned

LEMMA NextInvariant ==
    ASSUME TagsNeverShadow, LegacySecrets = {}
    PROVE  TypeOK /\ IInv /\ [Next]_vars => IInv'
<1> SUFFICES ASSUME TypeOK, IInv, [Next]_vars PROVE IInv'
    OBVIOUS
<1>1. CASE UNCHANGED vars
  <2>1. UNCHANGED <<store, calls, Lookup, status, toLoad, pc, job, settled, missed, alone>>
    BY <1>1 DEF vars
  <2>2. OwnPubKey' /\ LoadInv' /\ Durable' /\ Coherent'
    BY <2>1 DEF IInv, OwnPubKey, LoadInv, Durable, Coherent
  <2>3. CallOfHandler' /\ AloneWrites' /\ TodoAliases'
    BY <2>1 DEF IInv, CallOfHandler, AloneWrites, TodoAliases, Idle, Writing, SecretOf
  <2>4. WriterInv'
    BY <2>1 DEF IInv, WriterInv, WriterOf, Writers, Writing, SecretOf
  <2> QED
    BY <2>2, <2>3, <2>4 DEF IInv
<1>2. CASE Next
    BY <1>2, ClientStep, HandlerStep, ReturnedStep, AttemptStep, StartStep, CrashStep DEF Next
<1> QED
    BY <1>1, <1>2

-----------------------------------------------------------------------------
(* The invariant that Durable and Coherent rest on holds of every vault     *)
(* whose clients send no tag that shadows the name of a secret, and whose   *)
(* secrets manager has no secret with a name of the old form.               *)
THEOREM Invariant ==
    ASSUME TagsNeverShadow, LegacySecrets = {}
    PROVE  Spec => []IInv
<1>1. Spec => []TypeOK
    BY TypeInvariant
<1>2. TypeOK /\ IInv /\ [Next]_vars => IInv'
    BY NextInvariant
<1> QED
    BY <1>1, <1>2, InitInvariant, PTL DEF Spec

(* Once the outcome of the last write of a secret is known, the secrets     *)
(* manager holds it, for any number of requests beside each other, retries  *)
(* of their calls, crashes and partial loads.                               *)
THEOREM Durability ==
    ASSUME TagsNeverShadow, LegacySecrets = {}
    PROVE  Spec => []Durable
<1>1. IInv => Durable
    BY DEF IInv
<1> QED
    BY <1>1, Invariant, PTL

(* And a vault that is up answers under the primary name of the secret with *)
(* that outcome, unless its load missed the secret.                         *)
THEOREM Coherence ==
    ASSUME TagsNeverShadow, LegacySecrets = {}
    PROVE  Spec => []Coherent
<1>1. IInv => Coherent
    BY DEF IInv
<1> QED
    BY <1>1, Invariant, PTL
=============================================================================
