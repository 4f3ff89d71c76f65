--------------------------- MODULE PlatformProofs ----------------------------
(***************************************************************************)
(* Theorems about Platform and the two managers, for any number of calls,  *)
(* secrets and attempts.                                                   *)
(***************************************************************************)
EXTENDS Platform, TLAPS

USE ManagerAssumption, NoCallAssumption, PlatformAssumption

Changes == {"Undefined", "Inserted", "Updated"}
Steps == {"list", "get", "create", "update", "add", "delete", "error", "done"}

(* A step of the call of c that writes nothing.                             *)
LocalStep(c) ==
    \E step \in Steps, change \in Changes, tries \in 1..MaxTries :
        /\ calls[c] # NoCall
        /\ calls' = [calls EXCEPT ![c] = [calls[c] EXCEPT !.step = step, !.change = change,
                                                          !.tries = tries]]
        /\ step # "done"
        /\ step = "delete" => calls[c].value = None
        /\ step \in {"list", "get", "delete"} => change = "Undefined"
        /\ step \in {"add", "update"} /\ change = "Inserted" => calls[c].absent
        /\ UNCHANGED <<secrets, load>>

(* A request of c that writes, what it was called for or an empty container.*)
WriteStep(c) ==
    \E v \in Contents, applied \in BOOLEAN, change \in Changes, next \in Steps :
        /\ calls[c] # NoCall
        /\ Write(c, v, applied, change, next)
        /\ IF applied THEN Held(v) = calls[c].value /\ next \in {"done", "error"}
           ELSE Held(v) = Held(Target(c)) /\ next \in {"add", "error"}
        /\ next \in {"add", "done"} /\ change = "Inserted" => calls[c].absent

-----------------------------------------------------------------------------
(* The inductive invariant                                                  *)

CallInv(c) ==
    /\ status = "up" /\ manager \in {"aws", "gcp"}
    /\ calls[c].step = "done" => calls[c].applied
    /\ calls[c].step = "delete" => calls[c].value = None
    /\ calls[c].step \in {"list", "get", "delete"} => calls[c].change = "Undefined"
    /\ Target(c) \notin Values => calls[c].absent
    /\ calls[c].step \in {"add", "update", "done"} /\ calls[c].change = "Inserted"
          => calls[c].absent
    /\ settled[calls[c].secret] = InDoubt

CallsInv == \A c \in Clients : calls[c] # NoCall => CallInv(c)

(* A call that is alone finds what it has done.                             *)
AloneInv(c) ==
    /\ calls[c] # NoCall
    /\ \A d \in Clients \ {c} : calls[d] # NoCall => calls[d].secret # calls[c].secret
    /\ calls[c].applied => Held(Target(c)) = calls[c].value

WritersInv == \A c \in alone : AloneInv(c)

Persistent == place.named /\ ~place.local

StartInv ==
    /\ load # NoLoad => status = "loading"
    /\ Persistent => manager # "memory" /\ status \notin {"probeAWS", "probeGCP"}

StoredInv ==
    Persistent => \A s \in Secrets : settled[s] # InDoubt => Held(secrets[s]) = settled[s]

LoadInv ==
    /\ Loading("list") => /\ load.found = [s \in Secrets |-> None]
                          /\ load.failed = {}
    /\ Loading("get") /\ manager # "memory" =>
          \A s \in Secrets \ (load.todo \cup load.failed) : Cached(s) = Held(secrets[s])

Inv == CallsInv /\ WritersInv /\ StartInv /\ StoredInv /\ LoadInv

-----------------------------------------------------------------------------
(* Types                                                                    *)

(* What a step without a write leaves of a call.                            *)
LEMMA LocalTyped ==
    ASSUME TypeOK, NEW c \in Clients, LocalStep(c)
    PROVE  ManagerTypeOK'
<1>1. PICK step \in Steps, change \in Changes, tries \in 1..MaxTries :
        /\ calls[c] # NoCall
        /\ calls' = [calls EXCEPT ![c] = [calls[c] EXCEPT !.step = step, !.change = change,
                                                          !.tries = tries]]
        /\ UNCHANGED <<secrets, load>>
  BY DEF LocalStep
<1>2. calls[c] \in Call
  BY <1>1 DEF TypeOK, ManagerTypeOK
<1>3. [calls[c] EXCEPT !.step = step, !.change = change, !.tries = tries] \in Call
  BY <1>2 DEF Call, Steps, Changes
<1>4. QED
  BY <1>1, <1>3 DEF TypeOK, ManagerTypeOK

(* What a write leaves of each call.                                        *)
LEMMA WriteResult ==
    ASSUME TypeOK, NEW c \in Clients, calls[c] # NoCall,
           NEW v \in Contents, NEW applied \in BOOLEAN, NEW change \in Changes, NEW next \in Steps,
           Write(c, v, applied, change, next), NEW d \in Clients
    PROVE  /\ calls[d] = NoCall => calls'[d] = NoCall
           /\ calls[d] # NoCall =>
                /\ calls'[d] \in Call
                /\ calls'[d] # NoCall
                /\ calls'[d].secret = calls[d].secret
                /\ calls'[d].value = calls[d].value
                /\ calls'[d].tries = calls[d].tries
                /\ calls'[d].absent = (calls[d].absent
                      \/ (calls[d].secret = calls[c].secret /\ v \notin Values))
                /\ d = c => /\ calls'[d].applied = (calls[d].applied \/ applied)
                            /\ calls'[d].change = change
                            /\ calls'[d].step = next
                /\ d # c => /\ calls'[d].applied = calls[d].applied
                            /\ calls'[d].change = calls[d].change
                            /\ calls'[d].step = calls[d].step
<1> DEFINE s == calls[c].secret
           r == [calls[d] EXCEPT
                       !.absent  = @ \/ (calls[d].secret = s /\ v \notin Values),
                       !.applied = @ \/ (d = c /\ applied),
                       !.change  = IF d = c THEN change ELSE @,
                       !.step    = IF d = c THEN next ELSE @]
<1>1. calls'[d] = IF calls[d] = NoCall THEN NoCall ELSE r
  BY DEF Write
<1>2. CASE calls[d] = NoCall
  BY <1>1, <1>2
<1>3. CASE calls[d] # NoCall
  <2>1. calls[d] \in Call
    BY <1>3 DEF TypeOK, ManagerTypeOK
  <2>2. /\ r.secret = calls[d].secret /\ r.value = calls[d].value /\ r.tries = calls[d].tries
        /\ r.absent = (calls[d].absent \/ (calls[d].secret = s /\ v \notin Values))
        /\ r.applied = (calls[d].applied \/ (d = c /\ applied))
        /\ r.change = IF d = c THEN change ELSE calls[d].change
        /\ r.step = IF d = c THEN next ELSE calls[d].step
    BY <2>1 DEF Call
  <2>3. r \in Call
    BY <2>1 DEF Call, Steps, Changes
  <2>4. calls'[d] = r
    BY <1>1, <1>3
  <2> HIDE DEF r
  <2>5. calls[d].applied \in BOOLEAN
    BY <2>1 DEF Call
  <2>6. QED
    BY <1>3, <2>2, <2>3, <2>4, <2>5
<1>4. QED
  BY <1>2, <1>3

(* What Write leaves is typed, whatever step follows.                       *)
LEMMA WriteTyped ==
    ASSUME TypeOK, NEW c \in Clients, WriteStep(c)
    PROVE  ManagerTypeOK'
<1>1. PICK v \in Contents, applied \in BOOLEAN, change \in Changes, next \in Steps :
        calls[c] # NoCall /\ Write(c, v, applied, change, next)
  BY DEF WriteStep
<1>2. calls[c].secret \in Secrets
  BY <1>1 DEF TypeOK, ManagerTypeOK, Call
<1>3. secrets' \in [Secrets -> Contents] /\ load' = load
  BY <1>1, <1>2 DEF Write, TypeOK, ManagerTypeOK
<1>4. \A d \in Clients : calls'[d] \in Call \cup {NoCall}
  BY <1>1, WriteResult
<1>5. calls' = [d \in Clients |-> calls'[d]]
  BY <1>1 DEF Write
<1>6. calls' \in [Clients -> Call \cup {NoCall}]
  BY <1>4, <1>5
<1>7. QED
  BY <1>3, <1>6 DEF TypeOK, ManagerTypeOK

-----------------------------------------------------------------------------
(* The requests of the two managers                                         *)

(* Every request of AWS and of GCP is of one of the two kinds.              *)
LEMMA ProgressKind ==
    ASSUME TypeOK, CallsInv, NEW c \in Clients, Progress(c)
    PROVE  LocalStep(c) \/ WriteStep(c)
<1> DEFINE Local(step, change, tries) ==
              [calls EXCEPT ![c] = [calls[c] EXCEPT !.step = step, !.change = change, !.tries = tries]]
<1>1. calls[c] # NoCall
  BY DEF Progress, Aws!Progress, Gcp!Progress, Aws!ListSecrets, Aws!CreateSecret,
         Aws!GetSecretValue, Aws!UpdateSecret, Aws!RequestFails, Aws!Retry, Aws!Fails,
         Aws!RetryFrom, Aws!At, Gcp!GetSecret, Gcp!CreateSecret, Gcp!AddSecretVersion,
         Gcp!DeleteSecret, Gcp!RequestFails, Gcp!Retry, Gcp!Fails, Gcp!RetryFrom, Gcp!At
<1>2. calls[c] \in Call /\ CallInv(c) /\ calls \in [Clients -> Call \cup {NoCall}]
  BY <1>1 DEF TypeOK, ManagerTypeOK, CallsInv
<1>3. /\ calls[c].step \in Steps /\ calls[c].change \in Changes
      /\ calls[c].tries \in 1..MaxTries /\ calls[c].value \in Values \cup {None}
      /\ calls[c].secret \in Secrets /\ Target(c) \in Contents
  BY <1>2 DEF Call, Steps, Changes, TypeOK, ManagerTypeOK, Target
<1>4. \A step \in Steps, change \in Changes :
         [calls EXCEPT ![c].step = step, ![c].change = change]
            = Local(step, change, calls[c].tries)
  BY <1>2 DEF Call
<1>5. \A step \in Steps :
         [calls EXCEPT ![c].step = step] = Local(step, calls[c].change, calls[c].tries)
  BY <1>2 DEF Call
<1>6. \A step \in Steps :
         [calls EXCEPT ![c].step = step, ![c].tries = @ + 1, ![c].change = "Undefined"]
            = Local(step, "Undefined", calls[c].tries + 1)
  BY <1>2 DEF Call
<1> HIDE DEF Local
<1>7. ASSUME NEW step \in Steps \ {"done"}, NEW change \in Changes, NEW tries \in 1..MaxTries,
             calls' = Local(step, change, tries), UNCHANGED <<secrets, load>>,
             step = "delete" => calls[c].value = None,
             step \in {"list", "get", "delete"} => change = "Undefined",
             step \in {"add", "update"} /\ change = "Inserted" => calls[c].absent
      PROVE  LocalStep(c)
  BY <1>1, <1>7 DEF LocalStep, Local
<1>8. Held(None) = None /\ Held(Hollow) = None /\ \A v \in Values \cup {None} : Held(v) = v
  BY DEF Held
<1>9. CASE Aws!Progress(c)
  <2>1. CASE Aws!ListSecrets(c)
    <3>1. PICK step \in {"error", "create", "update", "get"} :
            calls' = [calls EXCEPT ![c].step = step]
      BY <2>1 DEF Aws!ListSecrets, Aws!Step
    <3>2. UNCHANGED <<secrets, load>> /\ calls[c].change = "Undefined"
      BY <1>2, <2>1 DEF Aws!ListSecrets, Aws!At, CallInv
    <3>3. calls' = Local(step, "Undefined", calls[c].tries)
      BY <1>5, <3>1, <3>2 DEF Steps
    <3>4. QED
      BY <1>3, <1>7, <3>2, <3>3 DEF Steps, Changes
  <2>2. ASSUME NEW answered \in BOOLEAN, Aws!CreateSecret(c, answered)
        PROVE  WriteStep(c)
    <3>1. /\ Write(c, calls[c].value, TRUE, "Inserted", IF answered THEN "done" ELSE "error")
          /\ Target(c) = None
      BY <2>2 DEF Aws!CreateSecret, Aws!Write, Write, Aws!Target, Target
    <3>2. calls[c].absent
      BY <1>2, <3>1 DEF CallInv
    <3>3. calls[c].value \in Contents /\ Held(calls[c].value) = calls[c].value
      BY <1>3, <1>8 DEF Contents
    <3> DEFINE next == IF answered THEN "done" ELSE "error"
    <3>4. next \in Steps /\ next \in {"done", "error"} /\ "Inserted" \in Changes
      BY DEF Steps, Changes
    <3>5. QED
      BY <1>1, <3>1, <3>2, <3>3, <3>4 DEF WriteStep
  <2>3. ASSUME NEW answered \in BOOLEAN, Aws!GetSecretValue(c, answered)
        PROVE  LocalStep(c)
    <3> DEFINE change == IF answered /\ Target(c) = Hollow THEN "Inserted" ELSE "Updated"
    <3>1. /\ calls' = [calls EXCEPT ![c].step = "update", ![c].change = change]
          /\ UNCHANGED <<secrets, load>>
      BY <2>3 DEF Aws!GetSecretValue, Aws!Target, Target
    <3>2. change = "Inserted" => calls[c].absent
      BY <1>2 DEF CallInv
    <3>3. change \in Changes
      BY DEF Changes
    <3> HIDE DEF change
    <3>4. calls' = Local("update", change, calls[c].tries)
      BY <1>4, <3>1, <3>3 DEF Steps
    <3>5. QED
      BY <1>3, <1>7, <3>1, <3>2, <3>3, <3>4 DEF Steps
  <2>4. ASSUME NEW answered \in BOOLEAN, Aws!UpdateSecret(c, answered)
        PROVE  WriteStep(c)
    <3> DEFINE v == IF calls[c].value = None THEN Hollow ELSE calls[c].value
               next == IF answered THEN "done" ELSE "error"
    <3>1. Write(c, v, TRUE, calls[c].change, next) /\ calls[c].step = "update"
      BY <2>4 DEF Aws!UpdateSecret, Aws!Write, Write, Aws!IsDelete, Aws!At
    <3>2. calls[c].change = "Inserted" => calls[c].absent
      BY <1>2, <3>1 DEF CallInv
    <3>3. v \in Contents /\ Held(v) = calls[c].value
      BY <1>3, <1>8 DEF Contents
    <3>4. next \in Steps /\ next \in {"done", "error"}
      BY DEF Steps
    <3> HIDE DEF v, next
    <3>5. QED
      BY <1>1, <1>3, <3>1, <3>2, <3>3, <3>4 DEF WriteStep
  <2>5. CASE Aws!RequestFails(c)
    <3>1. calls' = [calls EXCEPT ![c].step = "error"] /\ UNCHANGED <<secrets, load>>
      BY <2>5 DEF Aws!RequestFails, Aws!Fails, Aws!Step
    <3>2. calls' = Local("error", calls[c].change, calls[c].tries)
      BY <1>5, <3>1 DEF Steps
    <3>3. QED
      BY <1>3, <1>7, <3>1, <3>2 DEF Steps
  <2>6. CASE Aws!Retry(c)
    <3>1. /\ calls' = [calls EXCEPT ![c].step = "list", ![c].tries = @ + 1,
                                    ![c].change = "Undefined"]
          /\ UNCHANGED <<secrets, load>> /\ calls[c].tries < MaxTries
      BY <2>6 DEF Aws!Retry, Aws!RetryFrom
    <3>2. calls' = Local("list", "Undefined", calls[c].tries + 1)
      BY <1>6, <3>1 DEF Steps
    <3>3. calls[c].tries + 1 \in 1..MaxTries
      BY <1>3, <3>1
    <3>4. "list" \in Steps \ {"done"} /\ "list" \notin {"add", "update", "delete"}
      BY DEF Steps
    <3>5. "Undefined" \in Changes
      BY DEF Changes
    <3>6. QED
      BY <1>7, <3>1, <3>2, <3>3, <3>4, <3>5
  <2>7. QED
    BY <1>9, <2>1, <2>2, <2>3, <2>4, <2>5, <2>6 DEF Aws!Progress
<1>10. CASE Gcp!Progress(c)
  <2>1. ASSUME NEW answered \in BOOLEAN, Gcp!GetSecret(c, answered)
        PROVE  LocalStep(c)
    <3>1. PICK step \in {"add", "create"} :
            \E change \in {"Updated", "Inserted"} :
               /\ calls' = [calls EXCEPT ![c].step = step, ![c].change = change]
               /\ step = "add" => change = "Updated"
      BY <2>1 DEF Gcp!GetSecret
    <3>2. PICK change \in {"Updated", "Inserted"} :
            /\ calls' = [calls EXCEPT ![c].step = step, ![c].change = change]
            /\ step = "add" => change = "Updated"
      BY <3>1
    <3>3. UNCHANGED <<secrets, load>> /\ step \in Steps \ {"done"} /\ change \in Changes
      BY <2>1 DEF Gcp!GetSecret, Steps, Changes
    <3>4. calls' = Local(step, change, calls[c].tries)
      BY <1>4, <3>2, <3>3
    <3>5. QED
      BY <1>3, <1>7, <3>2, <3>3, <3>4
  <2>2. ASSUME NEW answered \in BOOLEAN, Gcp!CreateSecret(c, answered)
        PROVE  WriteStep(c)
    <3> DEFINE next == IF answered THEN "add" ELSE "error"
    <3>1. /\ Write(c, Hollow, FALSE, calls[c].change, next)
          /\ Target(c) = None
      BY <2>2 DEF Gcp!CreateSecret, Gcp!Write, Write, Gcp!Target, Target
    <3>2. calls[c].absent
      BY <1>2, <3>1 DEF CallInv
    <3>3. Hollow \in Contents /\ Held(Hollow) = Held(Target(c))
      BY <1>8, <3>1 DEF Contents
    <3>4. next \in Steps /\ next \in {"add", "error"}
      BY DEF Steps
    <3> HIDE DEF next
    <3>5. QED
      BY <1>1, <1>3, <3>1, <3>2, <3>3, <3>4 DEF WriteStep
  <2>3. ASSUME NEW answered \in BOOLEAN, Gcp!AddSecretVersion(c, answered)
        PROVE  WriteStep(c)
    <3> DEFINE next == IF answered THEN "done" ELSE "error"
    <3>1. Write(c, calls[c].value, TRUE, calls[c].change, next) /\ calls[c].step = "add"
      BY <2>3 DEF Gcp!AddSecretVersion, Gcp!Write, Write, Gcp!At
    <3>2. calls[c].change = "Inserted" => calls[c].absent
      BY <1>2, <3>1 DEF CallInv
    <3>3. calls[c].value \in Contents /\ Held(calls[c].value) = calls[c].value
      BY <1>3, <1>8 DEF Contents
    <3>4. next \in Steps /\ next \in {"done", "error"}
      BY DEF Steps
    <3> HIDE DEF next
    <3>5. QED
      BY <1>1, <1>3, <3>1, <3>2, <3>3, <3>4 DEF WriteStep
  <2>4. ASSUME NEW answered \in BOOLEAN, Gcp!DeleteSecret(c, answered)
        PROVE  WriteStep(c)
    <3> DEFINE next == IF answered THEN "done" ELSE "error"
    <3>1. Write(c, None, TRUE, calls[c].change, next) /\ calls[c].step = "delete"
      BY <2>4 DEF Gcp!DeleteSecret, Gcp!Write, Write, Gcp!At
    <3>2. calls[c].change = "Undefined" /\ calls[c].value = None
      BY <1>2, <3>1 DEF CallInv
    <3>3. None \in Contents /\ Held(None) = calls[c].value
      BY <1>8, <3>2 DEF Contents
    <3>4. next \in Steps /\ next \in {"done", "error"}
      BY DEF Steps
    <3> HIDE DEF next
    <3>5. QED
      BY <1>1, <1>3, <3>1, <3>2, <3>3, <3>4 DEF WriteStep
  <2>5. CASE Gcp!RequestFails(c)
    <3>1. calls' = [calls EXCEPT ![c].step = "error"] /\ UNCHANGED <<secrets, load>>
      BY <2>5 DEF Gcp!RequestFails, Gcp!Fails, Gcp!Step
    <3>2. calls' = Local("error", calls[c].change, calls[c].tries)
      BY <1>5, <3>1 DEF Steps
    <3>3. QED
      BY <1>3, <1>7, <3>1, <3>2 DEF Steps
  <2>6. CASE Gcp!Retry(c)
    <3> DEFINE first == IF calls[c].value = None THEN "delete" ELSE "get"
    <3>1. /\ calls' = [calls EXCEPT ![c].step = first, ![c].tries = @ + 1,
                                    ![c].change = "Undefined"]
          /\ UNCHANGED <<secrets, load>> /\ calls[c].tries < MaxTries
      BY <2>6 DEF Gcp!Retry, Gcp!RetryFrom, Gcp!FirstStep
    <3>2. first \in Steps \ {"done"} /\ first \notin {"add", "update"}
      BY DEF Steps
    <3>3. calls' = Local(first, "Undefined", calls[c].tries + 1)
      BY <1>6, <3>1, <3>2
    <3>4. calls[c].tries + 1 \in 1..MaxTries
      BY <1>3, <3>1
    <3>5. QED
      BY <1>7, <3>1, <3>2, <3>3, <3>4 DEF Changes
  <2>7. QED
    BY <1>10, <2>1, <2>2, <2>3, <2>4, <2>5, <2>6 DEF Gcp!Progress
<1>11. QED
  BY <1>9, <1>10 DEF Progress

-----------------------------------------------------------------------------
(* What the steps of a call preserve                                        *)

outer == <<place, status, manager, settled, alone>>

(* The rest of the call of c after a step that writes nothing.              *)
LEMMA LocalResult ==
    ASSUME TypeOK, NEW c \in Clients, LocalStep(c)
    PROVE  /\ calls[c] # NoCall
           /\ calls'[c].secret = calls[c].secret /\ calls'[c].value = calls[c].value
           /\ calls'[c].applied = calls[c].applied /\ calls'[c].absent = calls[c].absent
           /\ calls'[c].step # "done"
           /\ calls'[c].step = "delete" => calls[c].value = None
           /\ calls'[c].step \in {"list", "get", "delete"} => calls'[c].change = "Undefined"
           /\ calls'[c].step \in {"add", "update"} /\ calls'[c].change = "Inserted"
                 => calls[c].absent
           /\ calls'[c] # NoCall
           /\ \A d \in Clients \ {c} : calls'[d] = calls[d]
           /\ UNCHANGED <<secrets, load>>
<1>1. PICK step \in Steps, change \in Changes, tries \in 1..MaxTries :
        /\ calls[c] # NoCall
        /\ calls' = [calls EXCEPT ![c] = [calls[c] EXCEPT !.step = step, !.change = change,
                                                          !.tries = tries]]
        /\ step # "done"
        /\ step = "delete" => calls[c].value = None
        /\ step \in {"list", "get", "delete"} => change = "Undefined"
        /\ step \in {"add", "update"} /\ change = "Inserted" => calls[c].absent
        /\ UNCHANGED <<secrets, load>>
  BY DEF LocalStep
<1> DEFINE r == [calls[c] EXCEPT !.step = step, !.change = change, !.tries = tries]
<1>2. calls[c] \in Call /\ calls \in [Clients -> Call \cup {NoCall}]
  BY <1>1 DEF TypeOK, ManagerTypeOK
<1>3. r \in Call
  BY <1>2 DEF Call, Steps, Changes
<1>4. /\ r.secret = calls[c].secret /\ r.value = calls[c].value
      /\ r.applied = calls[c].applied /\ r.absent = calls[c].absent
      /\ r.step = step /\ r.change = change
  BY <1>2 DEF Call
<1>5. calls' = [calls EXCEPT ![c] = r]
  BY <1>1
<1> HIDE DEF r
<1>6. calls'[c] = r /\ \A d \in Clients \ {c} : calls'[d] = calls[d]
  BY <1>2, <1>5
<1>7. r # NoCall
  BY <1>3
<1>8. QED
  BY <1>1, <1>4, <1>6, <1>7

(* A step of a call that writes nothing keeps Inv.                          *)
LEMMA LocalInv ==
    ASSUME TypeOK, Inv, NEW c \in Clients, LocalStep(c), UNCHANGED outer
    PROVE  Inv'
<1>1. UNCHANGED <<place, status, manager, settled, alone, secrets, load>>
  BY LocalResult DEF outer
<1>2. CallsInv'
  <2>1. SUFFICES ASSUME NEW d \in Clients, calls'[d] # NoCall
                 PROVE  CallInv(d)'
    BY DEF CallsInv
  <2>2. CASE d = c
    <3>1. CallInv(c)
      BY LocalResult DEF Inv, CallsInv
    <3>2. Target(c)' = Target(c)
      BY <1>1, LocalResult DEF Target
    <3>3. QED
      BY <1>1, <2>2, <3>1, <3>2, LocalResult DEF CallInv
  <2>3. CASE d # c
    <3>1. calls'[d] = calls[d] /\ CallInv(d)
      BY <2>1, <2>3, LocalResult DEF Inv, CallsInv
    <3>2. QED
      BY <1>1, <3>1 DEF CallInv, Target
  <2>4. QED
    BY <2>2, <2>3
<1>3. WritersInv'
  <2>1. SUFFICES ASSUME NEW a \in alone
                 PROVE  AloneInv(a)'
    BY <1>1 DEF WritersInv
  <2>2. a \in Clients /\ AloneInv(a)
    BY DEF Inv, WritersInv, TypeOK
  <2>3. \A d \in Clients : /\ calls'[d] # NoCall <=> calls[d] # NoCall
                           /\ calls'[d].secret = calls[d].secret
                           /\ calls'[d].value = calls[d].value
                           /\ calls'[d].applied = calls[d].applied
    BY LocalResult
  <2>4. Target(a)' = Target(a)
    BY <1>1, <2>2, <2>3 DEF Target
  <2>5. QED
    BY <2>2, <2>3, <2>4 DEF AloneInv, Held
<1>4. StartInv' /\ StoredInv' /\ LoadInv'
  BY <1>1 DEF Inv, StartInv, StoredInv, LoadInv, Persistent, Loading, Cached
<1>5. QED
  BY <1>2, <1>3, <1>4 DEF Inv

(* A request that writes keeps Inv.                                         *)
LEMMA WriteInv ==
    ASSUME TypeOK, Inv, NEW c \in Clients, WriteStep(c), UNCHANGED outer
    PROVE  Inv'
<1>1. UNCHANGED <<place, status, manager, settled, alone>>
  BY DEF outer
<1>2. PICK v \in Contents, applied \in BOOLEAN, change \in Changes, next \in Steps :
        /\ calls[c] # NoCall
        /\ Write(c, v, applied, change, next)
        /\ IF applied THEN Held(v) = calls[c].value /\ next \in {"done", "error"}
           ELSE Held(v) = Held(Target(c)) /\ next \in {"add", "error"}
        /\ next \in {"add", "done"} /\ change = "Inserted" => calls[c].absent
  BY DEF WriteStep
<1> DEFINE s == calls[c].secret
<1>3. CallInv(c) /\ calls[c] \in Call /\ s \in Secrets
  BY <1>2 DEF Inv, CallsInv, TypeOK, ManagerTypeOK, Call
<1>4. secrets' = [secrets EXCEPT ![s] = v] /\ load' = load
  BY <1>2 DEF Write
<1>5. secrets'[s] = v /\ \A t \in Secrets \ {s} : secrets'[t] = secrets[t]
  BY <1>3, <1>4 DEF TypeOK, ManagerTypeOK
<1>6. load = NoLoad /\ load' = NoLoad
  BY <1>3, <1>4 DEF Inv, StartInv, CallInv
<1>7. \A d \in Clients : calls[d] # NoCall => calls[d] \in Call /\ calls[d].secret \in Secrets
  BY DEF TypeOK, ManagerTypeOK, Call
<1>8. \A d \in Clients : (calls'[d] # NoCall) <=> (calls[d] # NoCall)
  BY <1>2, WriteResult
<1>9. ASSUME NEW d \in Clients, calls[d] # NoCall
      PROVE  /\ calls'[d].secret = calls[d].secret
             /\ calls'[d].value = calls[d].value
             /\ calls'[d].absent = (calls[d].absent \/ (calls[d].secret = s /\ v \notin Values))
             /\ d = c => /\ calls'[d].applied = (calls[d].applied \/ applied)
                         /\ calls'[d].change = change
                         /\ calls'[d].step = next
             /\ d # c => /\ calls'[d].applied = calls[d].applied
                         /\ calls'[d].change = calls[d].change
                         /\ calls'[d].step = calls[d].step
             /\ Target(d)' = IF calls[d].secret = s THEN v ELSE Target(d)
  BY <1>2, <1>5, <1>7, <1>9, WriteResult DEF Target
<1> HIDE DEF s
<1>10. CallsInv'
  <2>1. SUFFICES ASSUME NEW d \in Clients, calls'[d] # NoCall
                 PROVE  CallInv(d)'
    BY DEF CallsInv
  <2>2. calls[d] # NoCall /\ CallInv(d)
    BY <1>8, <2>1 DEF Inv, CallsInv
  <2>3. Target(d)' \notin Values => calls'[d].absent
    BY <1>9, <2>2 DEF CallInv
  <2>4. settled'[calls'[d].secret] = InDoubt
    BY <1>1, <1>9, <2>2 DEF CallInv
  <2>5. CASE d = c
    BY <1>1, <1>2, <1>9, <2>2, <2>3, <2>4, <2>5 DEF CallInv
  <2>6. CASE d # c
    BY <1>1, <1>9, <2>2, <2>3, <2>4, <2>6 DEF CallInv
  <2>7. QED
    BY <2>5, <2>6
<1>11. WritersInv'
  <2>1. SUFFICES ASSUME NEW a \in alone
                 PROVE  AloneInv(a)'
    BY <1>1 DEF WritersInv
  <2>2. a \in Clients /\ AloneInv(a) /\ calls[a] # NoCall
    BY DEF Inv, WritersInv, TypeOK, AloneInv
  <2>3. \A d \in Clients \ {a} : calls'[d] # NoCall => calls'[d].secret # calls'[a].secret
    BY <1>8, <1>9, <2>2 DEF AloneInv
  <2>4. CASE a = c
    <3>1. calls'[c].value = calls[c].value /\ Target(c)' = v
      BY <1>2, <1>9 DEF s
    <3>2. calls'[c].applied => Held(v) = calls[c].value
      BY <1>2, <1>9, <2>2, <2>4 DEF AloneInv
    <3>3. QED
      BY <1>8, <2>2, <2>3, <2>4, <3>1, <3>2 DEF AloneInv, Held
  <2>5. CASE a # c
    <3>1. calls[a].secret # s
      BY <1>2, <2>2, <2>5 DEF AloneInv, s
    <3>2. Target(a)' = Target(a) /\ calls'[a].applied = calls[a].applied
      BY <1>9, <2>2, <2>5, <3>1
    <3>3. calls'[a].value = calls[a].value
      BY <1>9, <2>2
    <3>4. QED
      BY <1>8, <2>2, <2>3, <3>2, <3>3 DEF AloneInv, Held
  <2>6. QED
    BY <2>4, <2>5
<1>12. StoredInv'
  <2>1. SUFFICES ASSUME Persistent, NEW t \in Secrets, settled[t] # InDoubt
                 PROVE  Held(secrets'[t]) = settled[t]
    BY <1>1 DEF StoredInv, Persistent, Held
  <2>2. t # s
    BY <1>3, <2>1 DEF CallInv, s
  <2>3. QED
    BY <1>5, <2>1, <2>2 DEF Inv, StoredInv
<1>13. StartInv' /\ LoadInv'
  BY <1>1, <1>6 DEF Inv, StartInv, Persistent, LoadInv, Loading
<1>14. QED
  BY <1>10, <1>11, <1>12, <1>13 DEF Inv

-----------------------------------------------------------------------------
(* The load                                                                 *)

(* A step of the load changes only the load; what it has got is what the    *)
(* manager holds.                                                           *)
LEMMA LoadStep ==
    ASSUME TypeOK, Inv, LoadSecrets
    PROVE  TypeOK' /\ Inv'
<1>1. /\ UNCHANGED <<secrets, calls, place, status, manager, settled, alone>>
      /\ status = "loading"
  BY DEF LoadSecrets, history, LoadNothing, Aws!LoadSecrets, Gcp!LoadSecrets, Aws!ListPage,
         Aws!ListEnds, Aws!GetLoaded, Aws!GetFails, Gcp!ListPage, Gcp!ListEnds, Gcp!GetLoaded,
         Gcp!GetFails
<1>2. secrets \in [Secrets -> Contents] /\ None # Hollow
  BY DEF TypeOK, ManagerTypeOK
<1>3. load # NoLoad /\ load \in Load
  BY DEF LoadSecrets, LoadNothing, Aws!LoadSecrets, Gcp!LoadSecrets, Aws!ListPage,
         Aws!ListEnds, Aws!GetLoaded, Aws!GetFails, Gcp!ListPage, Gcp!ListEnds, Gcp!GetLoaded,
         Gcp!GetFails, Aws!Loading, Gcp!Loading, Loading, TypeOK, ManagerTypeOK
<1>4. /\ load.todo \subseteq Secrets /\ load.failed \subseteq Secrets
      /\ load.found \in [Secrets -> Contents]
  BY <1>3 DEF Load
<1> DEFINE Exists == {s \in Secrets : secrets[s] # None}
           Good == /\ load' \in Load
                   /\ load'.step = "list" =>
                         load'.found = [s \in Secrets |-> None] /\ load'.failed = {}
                   /\ load'.step = "get" /\ manager # "memory" =>
                         \A s \in Secrets \ (load'.todo \cup load'.failed) :
                            Cached(s)' = Held(secrets[s])
<1>5. Aws!Existing = Exists /\ Gcp!Existing = Exists
  BY DEF Aws!Existing, Gcp!Existing
<1>6. ASSUME NEW page \in SUBSET Secrets, Aws!ListPage(page) \/ Gcp!ListPage(page)
      PROVE  Good
  <2> DEFINE step == IF Exists \subseteq load.todo \cup page THEN "get" ELSE "list"
             todo == load.todo \cup page
  <2>1. Loading("list") /\ load' = [load EXCEPT !.paged = TRUE, !.todo = todo, !.step = step]
    BY <1>5, <1>6 DEF Aws!ListPage, Gcp!ListPage, Aws!Loading, Gcp!Loading, Loading
  <2>2. load'.found = [s \in Secrets |-> None] /\ load'.failed = {}
    BY <1>3, <2>1 DEF Load, Inv, LoadInv
  <2>3. todo \subseteq Secrets /\ step \in {"list", "get"}
    BY <1>4
  <2>4. step = "get" => \A s \in Secrets \ todo : secrets[s] = None
    OBVIOUS
  <2> HIDE DEF step, todo
  <2>5. load' \in Load /\ load'.step = step /\ load'.todo = todo
    BY <1>3, <2>1, <2>3 DEF Load
  <2>6. ASSUME load'.step = "get", NEW s \in Secrets \ (load'.todo \cup load'.failed)
        PROVE  Cached(s)' = Held(secrets[s])
    <3>1. secrets[s] = None
      BY <2>4, <2>5, <2>6
    <3>2. load'.found[s] = None
      BY <2>2
    <3>3. QED
      BY <1>2, <3>1, <3>2 DEF Cached, Held
  <2>7. QED
    BY <2>2, <2>5, <2>6
<1>7. ASSUME Aws!ListEnds \/ Gcp!ListEnds
      PROVE  Good
  <2>1. Loading("list") /\ load' = [load EXCEPT !.step = "get", !.failed = Exists \ load.todo]
    BY <1>5, <1>7 DEF Aws!ListEnds, Gcp!ListEnds, Aws!Loading, Gcp!Loading, Loading
  <2>2. /\ load'.found = [s \in Secrets |-> None] /\ load'.failed = Exists \ load.todo
        /\ load'.todo = load.todo /\ load'.step = "get"
    BY <1>3, <2>1 DEF Load, Inv, LoadInv
  <2>3. load' \in Load
    BY <1>3, <1>4, <2>1 DEF Load
  <2>4. ASSUME NEW s \in Secrets \ (load'.todo \cup load'.failed)
        PROVE  Cached(s)' = Held(secrets[s])
    <3>1. secrets[s] = None /\ load'.found[s] = None
      BY <2>2
    <3>2. QED
      BY <1>2, <3>1 DEF Cached, Held
  <2>5. QED
    BY <2>2, <2>3, <2>4
<1>8. ASSUME NEW t \in Secrets, NEW v \in Contents,
             Aws!GetLoaded(t, v) \/ Gcp!GetLoaded(t, v), Held(v) = Held(secrets[t])
      PROVE  Good
  <2>1. Loading("get") /\ load' = [load EXCEPT !.todo = load.todo \ {t}, !.found[t] = v]
    BY <1>8 DEF Aws!GetLoaded, Gcp!GetLoaded, Aws!Loading, Gcp!Loading, Loading
  <2>2. load' = [load EXCEPT !.todo = load.todo \ {t},
                             !.found = [load.found EXCEPT ![t] = v]]
    BY <2>1
  <2> DEFINE found == [load.found EXCEPT ![t] = v]
  <2>3. found \in [Secrets -> Contents] /\ found[t] = v
        /\ \A s \in Secrets \ {t} : found[s] = load.found[s]
    BY <1>4
  <2> HIDE DEF found
  <2>4. /\ load' \in Load /\ load'.found = found /\ load'.todo = load.todo \ {t}
        /\ load'.failed = load.failed /\ load'.step = "get"
    BY <1>3, <1>4, <2>1, <2>2, <2>3 DEF Load, found, Loading
  <2>5. ASSUME manager # "memory", NEW s \in Secrets \ (load'.todo \cup load'.failed)
        PROVE  Cached(s)' = Held(secrets[s])
    <3>1. CASE s = t
      BY <1>8, <2>3, <2>4, <3>1 DEF Cached, Held
    <3>2. CASE s # t
      <4>1. s \in Secrets \ (load.todo \cup load.failed)
        BY <2>4, <3>2
      <4>2. Cached(s) = Held(secrets[s])
        BY <2>1, <2>5, <4>1 DEF Inv, LoadInv
      <4>3. load'.found[s] = load.found[s]
        BY <2>3, <2>4, <3>2
      <4>4. QED
        BY <4>2, <4>3 DEF Cached
    <3>3. QED
      BY <3>1, <3>2
  <2>6. QED
    BY <2>4, <2>5
<1>9. ASSUME NEW t \in Secrets, Aws!GetFails(t) \/ Gcp!GetFails(t)
      PROVE  Good
  <2>1. /\ Loading("get")
        /\ load' = [load EXCEPT !.todo = load.todo \ {t}, !.failed = load.failed \cup {t}]
    BY <1>9 DEF Aws!GetFails, Gcp!GetFails, Aws!Loading, Gcp!Loading, Loading
  <2>2. /\ load' \in Load /\ load'.found = load.found /\ load'.todo = load.todo \ {t}
        /\ load'.failed = load.failed \cup {t} /\ load'.step = "get"
    BY <1>3, <1>4, <2>1 DEF Load, Loading
  <2>3. ASSUME manager # "memory", NEW s \in Secrets \ (load'.todo \cup load'.failed)
        PROVE  Cached(s)' = Held(secrets[s])
    <3>1. s \in Secrets \ (load.todo \cup load.failed)
      BY <2>2
    <3>2. Cached(s) = Held(secrets[s])
      BY <2>1, <2>3, <3>1 DEF Inv, LoadInv
    <3>3. QED
      BY <2>2, <3>2 DEF Cached
  <2>4. QED
    BY <2>2, <2>3
<1>10. Good
  <2>1. CASE manager = "aws" /\ Aws!LoadSecrets
    BY <1>2, <1>6, <1>7, <1>8, <1>9, <2>1 DEF Aws!LoadSecrets
  <2>2. CASE manager = "gcp" /\ Gcp!LoadSecrets
    <3>1. ASSUME NEW s \in Secrets
          PROVE  LET v == IF secrets[s] = Hollow THEN None ELSE secrets[s]
                 IN  v \in Contents /\ Held(v) = Held(secrets[s])
      BY <1>2 DEF Held, Contents
    <3>2. ASSUME NEW s \in Secrets,
                 Gcp!GetLoaded(s, IF secrets[s] = Hollow THEN None ELSE secrets[s])
          PROVE  Good
      <4> DEFINE v == IF secrets[s] = Hollow THEN None ELSE secrets[s]
      <4>1. v \in Contents /\ Held(v) = Held(secrets[s]) /\ Gcp!GetLoaded(s, v)
        BY <3>1, <3>2
      <4> HIDE DEF v, Good
      <4>2. QED
        BY <1>8, <4>1
    <3> HIDE DEF Good
    <3>3. QED
      BY <1>6, <1>7, <1>9, <2>2, <3>2 DEF Gcp!LoadSecrets
  <2>3. CASE LoadNothing
    <3>1. manager = "memory" /\ load' = [load EXCEPT !.step = "get"]
      BY <2>3 DEF LoadNothing
    <3>2. load' \in Load /\ load'.step = "get"
      BY <1>3, <3>1 DEF Load
    <3>3. QED
      BY <3>1, <3>2
  <2> HIDE DEF Good
  <2>4. QED
    BY <2>1, <2>2, <2>3 DEF LoadSecrets
<1>11. TypeOK'
  BY <1>1, <1>10 DEF TypeOK, ManagerTypeOK
<1>12. CallsInv' /\ WritersInv' /\ StoredInv' /\ StartInv'
  BY <1>1 DEF Inv, CallsInv, CallInv, Target, WritersInv, AloneInv, Held, StoredInv, StartInv,
              Persistent
<1>13. LoadInv'
  BY <1>1, <1>10 DEF LoadInv, Loading, Held
<1>14. QED
  BY <1>11, <1>12, <1>13 DEF Inv

-----------------------------------------------------------------------------
(* Start, crash and the calls                                               *)

FreshLoadTyped == FreshLoad \in Load

(* FreshLoadTyped, said of the value itself.                                *)
LEMMA FreshLoadInLoad == FreshLoadTyped
<1>1. [s \in Secrets |-> None] \in [Secrets -> Contents]
  BY DEF Contents
<1>2. QED
  BY <1>1 DEF FreshLoadTyped, FreshLoad, Load

(* No call is under way while the process starts.                           *)
LEMMA StartStep ==
    ASSUME TypeOK, Inv, NEW answered \in BOOLEAN,
           Start \/ ProbeAWS(answered) \/ ProbeGCP(answered) \/ Listen
    PROVE  TypeOK' /\ Inv'
<1>1. UNCHANGED <<secrets, calls, place, settled, alone>> /\ status # "up"
  BY DEF Start, ProbeAWS, ProbeGCP, Listen, history
<1>2. \A c \in Clients : calls[c] = NoCall
  BY <1>1 DEF Inv, CallsInv, CallInv
<1>3. place \in Place
  BY DEF TypeOK
<1>4. ASSUME NEW provider \in {"aws", "gcp", "memory"}, Determined(provider),
             Persistent => provider # "memory"
      PROVE  TypeOK' /\ StartInv' /\ LoadInv'
  <2>1. status' = "loading" /\ load' = FreshLoad /\ manager' = provider /\ load' \in Load
    BY <1>4, FreshLoadInLoad DEF Determined, FreshLoadTyped
  <2>2. TypeOK'
    BY <1>1, <2>1 DEF TypeOK, ManagerTypeOK
  <2>3. StartInv'
    BY <1>1, <1>4, <2>1 DEF StartInv, Persistent
  <2>4. /\ load'.step = "list" /\ load'.found = [s \in Secrets |-> None]
        /\ load'.failed = {}
    BY <2>1 DEF FreshLoad
  <2>5. LoadInv'
    BY <2>4 DEF LoadInv, Loading
  <2>6. QED
    BY <2>2, <2>3, <2>5
<1>5. TypeOK' /\ StartInv' /\ LoadInv'
  <2>1. CASE Start
    <3>1. CASE place.local
      <4>1. manager' = "memory" /\ status' = "up" /\ load' = load /\ status = "down"
        BY <2>1, <3>1 DEF Start
      <4>2. load = NoLoad
        BY <4>1 DEF Inv, StartInv
      <4>3. QED
        BY <1>1, <3>1, <4>1, <4>2 DEF TypeOK, ManagerTypeOK, StartInv, LoadInv, Loading,
                                      Persistent
    <3>2. CASE ~place.local /\ place.named
      <4>1. Determined(place.cloud) /\ place.cloud \in {"aws", "gcp"}
        BY <1>3, <2>1, <3>2 DEF Start, Place
      <4>2. QED
        BY <1>4, <4>1
    <3>3. CASE ~place.local /\ ~place.named
      <4>1. status' = "probeAWS" /\ manager' = manager /\ load' = load /\ status = "down"
        BY <2>1, <3>3 DEF Start
      <4>2. load = NoLoad
        BY <4>1 DEF Inv, StartInv
      <4>3. QED
        BY <1>1, <3>3, <4>1, <4>2 DEF TypeOK, ManagerTypeOK, StartInv, LoadInv, Loading,
                                      Persistent
    <3>4. QED
      BY <3>1, <3>2, <3>3
  <2>2. CASE ProbeAWS(answered)
    <3>1. status = "probeAWS" /\ ~Persistent
      BY <2>2 DEF ProbeAWS, Inv, StartInv
    <3>2. CASE answered
      BY <1>4, <2>2, <3>1, <3>2 DEF ProbeAWS
    <3>3. CASE ~answered
      <4>1. status' = "probeGCP" /\ manager' = manager /\ load' = load
        BY <2>2, <3>3 DEF ProbeAWS
      <4>2. load = NoLoad
        BY <3>1 DEF Inv, StartInv
      <4>3. QED
        BY <1>1, <3>1, <4>1, <4>2 DEF TypeOK, ManagerTypeOK, StartInv, LoadInv, Loading,
                                      Persistent
    <3>4. QED
      BY <3>2, <3>3
  <2>3. CASE ProbeGCP(answered)
    <3>1. ~Persistent
      BY <2>3 DEF ProbeGCP, Inv, StartInv
    <3>2. Determined(IF answered THEN "gcp" ELSE "memory")
      BY <2>3 DEF ProbeGCP
    <3>3. CASE answered
      BY <1>4, <3>1, <3>2, <3>3
    <3>4. CASE ~answered
      BY <1>4, <3>1, <3>2, <3>4
    <3>5. QED
      BY <3>3, <3>4
  <2>4. CASE Listen
    <3>1. status' = "up" /\ load' = NoLoad /\ manager' = manager
      BY <2>4 DEF Listen
    <3>2. TypeOK'
      BY <1>1, <3>1 DEF TypeOK, ManagerTypeOK
    <3>3. StartInv' /\ LoadInv'
      BY <1>1, <3>1 DEF Inv, StartInv, LoadInv, Loading, Persistent
    <3>4. QED
      BY <3>2, <3>3
  <2>5. QED
    BY <2>1, <2>2, <2>3, <2>4
<1>6. CallsInv'
  BY <1>1, <1>2 DEF CallsInv
<1>7. WritersInv' /\ StoredInv'
  BY <1>1 DEF Inv, WritersInv, AloneInv, StoredInv, Target, Held, Persistent
<1>8. QED
  BY <1>5, <1>6, <1>7 DEF Inv

(* Crash: nothing is under way any more.                                    *)
LEMMA CrashStep ==
    ASSUME TypeOK, Inv, Crash
    PROVE  TypeOK' /\ Inv'
<1>1. /\ UNCHANGED <<secrets, place, settled>> /\ load' = NoLoad /\ alone' = {}
      /\ manager' = "none" /\ status' = "down" /\ calls' = [c \in Clients |-> NoCall]
  BY DEF Crash
<1>2. TypeOK'
  BY <1>1 DEF TypeOK, ManagerTypeOK
<1>3. CallsInv' /\ WritersInv'
  BY <1>1 DEF CallsInv, WritersInv
<1>4. StartInv' /\ StoredInv' /\ LoadInv'
  BY <1>1 DEF Inv, StartInv, StoredInv, LoadInv, Loading, Persistent, Held
<1>5. QED
  BY <1>2, <1>3, <1>4 DEF Inv

(* Remember: in memory no call is under way and nothing is loaded.          *)
LEMMA RememberStep ==
    ASSUME TypeOK, Inv, NEW s \in Secrets, NEW v \in Values \cup {None}, Remember(s, v)
    PROVE  TypeOK' /\ Inv'
<1>1. /\ UNCHANGED <<secrets, calls, load, place, status, manager, alone>>
      /\ manager = "memory" /\ settled' = [settled EXCEPT ![s] = v]
  BY DEF Remember
<1>2. TypeOK'
  BY <1>1 DEF TypeOK, ManagerTypeOK
<1>3. ~Persistent' /\ \A c \in Clients : calls[c] = NoCall
  BY <1>1 DEF Inv, CallsInv, CallInv, StartInv, Persistent
<1>4. CallsInv' /\ StoredInv'
  BY <1>1, <1>3 DEF CallsInv, StoredInv
<1>5. WritersInv' /\ StartInv' /\ LoadInv'
  BY <1>1 DEF Inv, WritersInv, AloneInv, Target, Held, StartInv, LoadInv, Loading, Cached,
              Persistent
<1>6. QED
  BY <1>2, <1>4, <1>5 DEF Inv

(* Invoke of either manager is Begin, with a step of that manager.          *)
LEMMA InvokeBegins ==
    ASSUME NEW c \in Clients, NEW s \in Secrets, NEW v \in Values \cup {None}, Invoke(c, s, v)
    PROVE  /\ calls[c] = NoCall /\ secrets' = secrets
           /\ \E first \in {"list", "get", "delete"} :
                 /\ first = "delete" => v = None
                 /\ calls' = [calls EXCEPT ![c] =
                       [secret |-> s, value |-> v, step |-> first, change |-> "Undefined",
                        tries |-> 1, applied |-> FALSE, absent |-> secrets[s] \notin Values]]
<1> DEFINE r(first) == [secret |-> s, value |-> v, step |-> first, change |-> "Undefined",
                        tries |-> 1, applied |-> FALSE, absent |-> secrets[s] \notin Values]
           Begun(first) == calls' = [calls EXCEPT ![c] = r(first)]
<1>1. calls[c] = NoCall /\ secrets' = secrets /\ manager \in {"aws", "gcp"}
  BY DEF Invoke, Aws!Invoke, Gcp!Invoke, Aws!Begin, Gcp!Begin
<1>2. CASE manager = "aws"
  <2>1. Begun("list")
    BY <1>2 DEF Invoke, Aws!Invoke, Aws!Begin
  <2> HIDE DEF Begun
  <2>2. \E first \in {"list", "get", "delete"} : (first = "delete" => v = None) /\ Begun(first)
    BY <2>1
  <2>3. QED
    BY <1>1, <2>2 DEF Begun
<1>3. CASE manager = "gcp"
  <2> DEFINE first == IF v = None THEN "delete" ELSE "get"
  <2>1. Begun(first)
    BY <1>3 DEF Invoke, Gcp!Invoke, Gcp!Begin, Gcp!FirstStep
  <2>2. first \in {"list", "get", "delete"} /\ (first = "delete" => v = None)
    OBVIOUS
  <2> HIDE DEF Begun, first
  <2>3. \E f \in {"list", "get", "delete"} : (f = "delete" => v = None) /\ Begun(f)
    BY <2>1, <2>2
  <2>4. QED
    BY <1>1, <2>3 DEF Begun
<1>4. QED
  BY <1>1, <1>2, <1>3

(* The beginning of a call puts its secret in doubt.                        *)
LEMMA InvokeStep ==
    ASSUME TypeOK, Inv, NEW c \in Clients, NEW s \in Secrets, NEW v \in Values \cup {None},
           Invoke(c, s, v)
    PROVE  TypeOK' /\ Inv'
<1>1. /\ UNCHANGED <<secrets, load, place, status, manager>> /\ status = "up"
      /\ manager \in {"aws", "gcp"} /\ settled' = [settled EXCEPT ![s] = InDoubt]
      /\ alone' = (alone \ On(s)) \cup (IF On(s) = {} THEN {c} ELSE {})
      /\ calls[c] = NoCall
  BY DEF Invoke, Aws!Invoke, Gcp!Invoke, Aws!Begin, Gcp!Begin
<1>2. PICK first \in {"list", "get", "delete"} :
        /\ first = "delete" => v = None
        /\ calls' = [calls EXCEPT ![c] =
              [secret |-> s, value |-> v, step |-> first, change |-> "Undefined",
               tries |-> 1, applied |-> FALSE, absent |-> secrets[s] \notin Values]]
  BY InvokeBegins
<1> DEFINE r == [secret |-> s, value |-> v, step |-> first, change |-> "Undefined",
                 tries |-> 1, applied |-> FALSE, absent |-> secrets[s] \notin Values]
<1>3. r \in Call
  BY DEF Call
<1>4. /\ r.secret = s /\ r.value = v /\ r.step = first /\ r.change = "Undefined"
      /\ r.applied = FALSE /\ r.absent = (secrets[s] \notin Values)
  OBVIOUS
<1>5. calls' = [calls EXCEPT ![c] = r] /\ calls \in [Clients -> Call \cup {NoCall}]
  BY <1>2 DEF TypeOK, ManagerTypeOK
<1> HIDE DEF r
<1>6. calls'[c] = r /\ r # NoCall /\ \A d \in Clients \ {c} : calls'[d] = calls[d]
  BY <1>3, <1>5
<1>7. TypeOK'
  <2>1. ManagerTypeOK'
    BY <1>1, <1>3, <1>5 DEF TypeOK, ManagerTypeOK
  <2>2. settled' \in [Secrets -> Values \cup {None, InDoubt}] /\ alone' \subseteq Clients
    BY <1>1 DEF TypeOK
  <2>3. QED
    BY <1>1, <2>1, <2>2 DEF TypeOK
<1>8. settled'[s] = InDoubt /\ \A t \in Secrets \ {s} : settled'[t] = settled[t]
  BY <1>1 DEF TypeOK
<1>9. CallsInv'
  <2>1. SUFFICES ASSUME NEW d \in Clients, calls'[d] # NoCall
                 PROVE  CallInv(d)'
    BY DEF CallsInv
  <2>2. CASE d = c
    <3>1. Target(c)' = secrets[s]
      BY <1>1, <1>4, <1>6 DEF Target
    <3>2. QED
      BY <1>1, <1>2, <1>4, <1>6, <1>8, <2>2, <3>1 DEF CallInv
  <2>3. CASE d # c
    <3>1. calls'[d] = calls[d] /\ CallInv(d) /\ calls[d].secret \in Secrets
      BY <1>6, <2>1, <2>3 DEF Inv, CallsInv, TypeOK, ManagerTypeOK, Call
    <3>2. settled'[calls[d].secret] = InDoubt
      BY <1>8, <3>1 DEF CallInv
    <3>3. QED
      BY <1>1, <3>1, <3>2 DEF CallInv, Target
  <2>4. QED
    BY <2>2, <2>3
<1>10. WritersInv'
  <2>1. SUFFICES ASSUME NEW a \in alone'
                 PROVE  AloneInv(a)'
    BY DEF WritersInv
  <2>2. CASE a \in alone \ On(s)
    <3>1. a \in Clients /\ AloneInv(a) /\ calls[a] # NoCall /\ a # c
      BY <1>1, <2>2 DEF Inv, WritersInv, AloneInv, TypeOK
    <3>2. calls[a].secret # s /\ calls'[a] = calls[a]
      BY <1>6, <2>2, <3>1 DEF On
    <3>3. \A d \in Clients \ {a} : calls'[d] # NoCall => calls'[d].secret # calls[a].secret
      BY <1>4, <1>6, <3>1, <3>2 DEF AloneInv
    <3>4. Target(a)' = Target(a)
      BY <1>1, <3>2 DEF Target
    <3>5. QED
      BY <3>1, <3>2, <3>3, <3>4 DEF AloneInv, Held
  <2>3. CASE a = c /\ On(s) = {}
    <3>1. \A d \in Clients \ {c} : calls'[d] # NoCall => calls'[d].secret # s
      BY <1>6, <2>3 DEF On
    <3>2. QED
      BY <1>4, <1>6, <2>3, <3>1 DEF AloneInv
  <2>4. QED
    BY <1>1, <2>1, <2>2, <2>3
<1>11. StoredInv'
  BY <1>1, <1>8 DEF Inv, StoredInv, Persistent, Held
<1>12. StartInv' /\ LoadInv'
  BY <1>1 DEF Inv, StartInv, LoadInv, Loading, Cached, Held, Persistent
<1>13. QED
  BY <1>7, <1>9, <1>10, <1>11, <1>12 DEF Inv

(* The end of a call, with or without an error.                             *)
LEMMA EndStep ==
    ASSUME TypeOK, Inv, NEW c \in Clients, Succeed(c) \/ Fail(c)
    PROVE  TypeOK' /\ Inv'
<1>1. /\ UNCHANGED <<secrets, load, place, status, manager>> /\ calls[c] # NoCall
      /\ calls' = [calls EXCEPT ![c] = NoCall] /\ alone' = alone \ {c}
  BY DEF Succeed, Fail, Return, GiveUp, At
<1>2. calls'[c] = NoCall /\ \A d \in Clients \ {c} : calls'[d] = calls[d]
  BY <1>1 DEF TypeOK, ManagerTypeOK
<1>3. /\ CallInv(c) /\ calls[c].secret \in Secrets
      /\ calls[c].value \in Values \cup {None} /\ calls[c].value # InDoubt
  BY <1>1 DEF Inv, CallsInv, TypeOK, ManagerTypeOK, Call
<1>4. \/ settled' = settled
      \/ /\ c \in alone /\ calls[c].step = "done"
         /\ settled' = [settled EXCEPT ![calls[c].secret] = calls[c].value]
  BY DEF Succeed, Fail, Return, At
<1>5. TypeOK'
  <2>1. ManagerTypeOK' /\ alone' \subseteq Clients
    BY <1>1 DEF TypeOK, ManagerTypeOK
  <2>2. settled' \in [Secrets -> Values \cup {None, InDoubt}]
    BY <1>3, <1>4 DEF TypeOK
  <2>3. QED
    BY <1>1, <2>1, <2>2 DEF TypeOK
<1>6. ASSUME NEW t \in Secrets, settled'[t] # settled[t]
      PROVE  /\ c \in alone /\ t = calls[c].secret /\ calls[c].step = "done"
             /\ settled'[t] = calls[c].value
  BY <1>3, <1>4, <1>6 DEF TypeOK
<1>7. CallsInv'
  <2>1. SUFFICES ASSUME NEW d \in Clients, calls'[d] # NoCall
                 PROVE  CallInv(d)'
    BY DEF CallsInv
  <2>2. d # c /\ calls'[d] = calls[d] /\ CallInv(d) /\ calls[d] # NoCall
    BY <1>2, <2>1 DEF Inv, CallsInv
  <2>3. calls[d].secret \in Secrets
    BY <2>2 DEF TypeOK, ManagerTypeOK, Call
  <2>4. settled'[calls[d].secret] = settled[calls[d].secret]
    BY <1>6, <2>2, <2>3 DEF Inv, WritersInv, AloneInv
  <2>5. QED
    BY <1>1, <2>2, <2>4 DEF CallInv, Target
<1>8. WritersInv'
  <2>1. SUFFICES ASSUME NEW a \in alone \ {c}
                 PROVE  AloneInv(a)'
    BY <1>1 DEF WritersInv
  <2>2. a \in Clients /\ AloneInv(a) /\ calls'[a] = calls[a]
    BY <1>2 DEF Inv, WritersInv, TypeOK
  <2>3. \A d \in Clients \ {a} : calls'[d] # NoCall => calls'[d].secret # calls[a].secret
    BY <1>2, <2>2 DEF AloneInv
  <2>4. Target(a)' = Target(a)
    BY <1>1, <2>2 DEF Target
  <2>5. QED
    BY <2>2, <2>3, <2>4 DEF AloneInv, Held
<1>9. StoredInv'
  <2>1. SUFFICES ASSUME Persistent, NEW t \in Secrets, settled'[t] # InDoubt
                 PROVE  Held(secrets[t]) = settled'[t]
    BY <1>1 DEF StoredInv, Persistent, Held
  <2>2. CASE settled'[t] = settled[t]
    BY <2>1, <2>2 DEF Inv, StoredInv
  <2>3. CASE settled'[t] # settled[t]
    BY <1>3, <1>6, <2>3 DEF Inv, WritersInv, AloneInv, CallInv, Target
  <2>4. QED
    BY <2>2, <2>3
<1>10. StartInv' /\ LoadInv'
  BY <1>1 DEF Inv, StartInv, LoadInv, Loading, Cached, Held, Persistent
<1>11. QED
  BY <1>5, <1>7, <1>8, <1>9, <1>10 DEF Inv

-----------------------------------------------------------------------------
(* The theorems                                                             *)

(* Init.                                                                    *)
LEMMA InitInv == Init => TypeOK /\ Inv
<1>1. SUFFICES ASSUME Init
               PROVE  TypeOK /\ Inv
  OBVIOUS
<1>2. /\ secrets \in [Secrets -> Contents] /\ calls = [c \in Clients |-> NoCall]
      /\ load = NoLoad /\ place \in Places /\ status = "down" /\ manager = "none"
      /\ settled = [s \in Secrets |-> Held(secrets[s])] /\ alone = {}
  BY <1>1 DEF Init
<1>3. \A s \in Secrets : Held(secrets[s]) \in Values \cup {None}
  BY <1>2 DEF Contents, Held
<1>4. TypeOK
  BY <1>2, <1>3 DEF TypeOK, ManagerTypeOK
<1>5. CallsInv /\ WritersInv
  BY <1>2 DEF CallsInv, WritersInv
<1>6. StartInv /\ StoredInv /\ LoadInv
  BY <1>2 DEF StartInv, StoredInv, LoadInv, Loading
<1>7. QED
  BY <1>4, <1>5, <1>6 DEF Inv

(* A request of a call is local or writes, and keeps Inv.                   *)
LEMMA ProgressStep ==
    ASSUME TypeOK, Inv, NEW c \in Clients, Progress(c)
    PROVE  TypeOK' /\ Inv'
<1>1. UNCHANGED outer
  BY DEF Progress, history, outer
<1>2. LocalStep(c) \/ WriteStep(c)
  BY ProgressKind DEF Inv
<1>3. ManagerTypeOK'
  BY <1>2, LocalTyped, WriteTyped
<1>4. TypeOK'
  BY <1>1, <1>3 DEF TypeOK, outer
<1>5. Inv'
  BY <1>1, <1>2, LocalInv, WriteInv
<1>6. QED
  BY <1>4, <1>5

(* The induction step.                                                      *)
LEMMA NextStep == TypeOK /\ Inv /\ [Next]_vars => TypeOK' /\ Inv'
<1> SUFFICES ASSUME TypeOK, Inv, [Next]_vars
             PROVE  TypeOK' /\ Inv'
  OBVIOUS
<1>1. CASE Start \/ Listen
  BY <1>1, StartStep
<1>2. ASSUME NEW answered \in BOOLEAN, ProbeAWS(answered) \/ ProbeGCP(answered)
      PROVE  TypeOK' /\ Inv'
  BY <1>2, StartStep
<1>3. CASE LoadSecrets
  BY <1>3, LoadStep
<1>4. CASE Crash
  BY <1>4, CrashStep
<1>5. ASSUME NEW s \in Secrets, NEW v \in Values \cup {None}, Remember(s, v)
      PROVE  TypeOK' /\ Inv'
  BY <1>5, RememberStep
<1>6. ASSUME NEW c \in Clients, NEW s \in Secrets, NEW v \in Values \cup {None},
             Invoke(c, s, v)
      PROVE  TypeOK' /\ Inv'
  BY <1>6, InvokeStep
<1>7. ASSUME NEW c \in Clients, CallStep(c)
      PROVE  TypeOK' /\ Inv'
  BY <1>7, ProgressStep, EndStep DEF CallStep
<1>8. CASE UNCHANGED vars
  BY <1>8 DEF vars, TypeOK, ManagerTypeOK, Inv, CallsInv, CallInv, Target, WritersInv, AloneInv,
              Held, StartInv, StoredInv, LoadInv, Loading, Cached, Persistent
<1>9. QED
  BY <1>1, <1>2, <1>3, <1>4, <1>5, <1>6, <1>7, <1>8 DEF Next

(* Every reachable state satisfies the inductive invariant.                 *)
THEOREM PlatformInvariant == Spec => [](TypeOK /\ Inv)
<1>1. QED
  BY InitInv, NextStep, PTL DEF Spec

(* Every variable of the start, the load and the calls keeps its type.      *)
THEOREM PlatformTypes == Spec => []TypeOK
<1>1. QED
  BY PlatformInvariant, PTL

(* A 201 is the truth, however calls overlap and whichever answers are lost.*)
THEOREM CreatedIsTrue == Spec => []CreatedWasAbsent
<1>1. TypeOK /\ Inv => CreatedWasAbsent
  BY DEF Inv, CallsInv, CallInv, CreatedWasAbsent, At
<1>2. QED
  BY <1>1, PlatformInvariant, PTL

(* The order of the requests, spelled out.                                  *)
LEMMA Ranks ==
    /\ Rank("list") = 1 /\ Rank("get") = 2
    /\ Rank("create") = 3 /\ Rank("delete") = 3
    /\ Rank("update") = 4 /\ Rank("add") = 4
    /\ Rank("error") = 5 /\ Rank("done") = 5
BY DEF Rank

(* A request of AWS brings its call forward.                                *)
LEMMA AwsForward ==
    ASSUME TypeOK, NEW c \in Clients, calls[c] # NoCall, Aws!Progress(c)
    PROVE  Forward(c)
<1>1. calls[c] \in Call /\ calls \in [Clients -> Call \cup {NoCall}]
  BY DEF TypeOK, ManagerTypeOK
<1>2. calls[c].value \in Values \cup {None} /\ calls[c].change \in Changes
      /\ calls[c].tries \in Nat
  BY <1>1 DEF Call, Changes
<1>3. ASSUME NEW step, calls' = [calls EXCEPT ![c].step = step]
      PROVE  calls'[c].step = step /\ calls'[c].tries = calls[c].tries
  BY <1>1, <1>3 DEF Call
<1>4. ASSUME NEW v \in Contents, NEW change \in Changes, NEW next \in Steps,
             Write(c, v, TRUE, change, next)
      PROVE  calls'[c].step = next /\ calls'[c].tries = calls[c].tries
  BY <1>4, WriteResult
<1>5. CASE Aws!ListSecrets(c)
  <2>1. PICK step \in {"error", "create", "update", "get"} :
           calls' = [calls EXCEPT ![c].step = step]
    BY <1>5 DEF Aws!ListSecrets, Aws!Step
  <2>2. calls[c].step = "list"
    BY <1>5 DEF Aws!ListSecrets, Aws!At
  <2>3. calls'[c].step = step /\ calls'[c].tries = calls[c].tries
    BY <1>3, <2>1
  <2>4. QED
    BY <2>2, <2>3, Ranks DEF Forward
<1>6. ASSUME NEW answered \in BOOLEAN, Aws!CreateSecret(c, answered)
      PROVE  Forward(c)
  <2> DEFINE next == IF answered THEN "done" ELSE "error"
  <2>1. Write(c, calls[c].value, TRUE, "Inserted", next) /\ calls[c].step = "create"
    BY <1>6 DEF Aws!CreateSecret, Aws!Write, Write, Aws!At
  <2>2. calls[c].value \in Contents /\ "Inserted" \in Changes
        /\ next \in Steps /\ next \in {"done", "error"}
    BY <1>2 DEF Contents, Changes, Steps
  <2> HIDE DEF next
  <2>3. calls'[c].step = next /\ calls'[c].tries = calls[c].tries
    BY <1>4, <2>1, <2>2
  <2>4. QED
    BY <2>1, <2>2, <2>3, Ranks DEF Forward
<1>7. ASSUME NEW answered \in BOOLEAN, Aws!GetSecretValue(c, answered)
      PROVE  Forward(c)
  <2>1. calls[c].step = "get"
        /\ \E change : calls' = [calls EXCEPT ![c].step = "update", ![c].change = change]
    BY <1>7 DEF Aws!GetSecretValue, Aws!At
  <2>2. calls'[c].step = "update" /\ calls'[c].tries = calls[c].tries
    BY <1>1, <2>1 DEF Call
  <2>3. QED
    BY <2>1, <2>2, Ranks DEF Forward
<1>8. ASSUME NEW answered \in BOOLEAN, Aws!UpdateSecret(c, answered)
      PROVE  Forward(c)
  <2> DEFINE v == IF calls[c].value = None THEN Hollow ELSE calls[c].value
             next == IF answered THEN "done" ELSE "error"
  <2>1. Write(c, v, TRUE, calls[c].change, next) /\ calls[c].step = "update"
    BY <1>8 DEF Aws!UpdateSecret, Aws!Write, Write, Aws!IsDelete, Aws!At
  <2>2. v \in Contents /\ next \in Steps /\ next \in {"done", "error"}
    BY <1>2 DEF Contents, Steps
  <2> HIDE DEF v, next
  <2>3. calls'[c].step = next /\ calls'[c].tries = calls[c].tries
    BY <1>2, <1>4, <2>1, <2>2
  <2>4. QED
    BY <2>1, <2>2, <2>3, Ranks DEF Forward
<1>9. CASE Aws!RequestFails(c)
  <2>1. calls[c].step \in {"list", "create", "update"}
        /\ calls' = [calls EXCEPT ![c].step = "error"]
    BY <1>9 DEF Aws!RequestFails, Aws!Fails, Aws!Step, Aws!At
  <2>2. calls'[c].step = "error" /\ calls'[c].tries = calls[c].tries
    BY <1>3, <2>1
  <2>3. QED
    BY <2>1, <2>2, Ranks DEF Forward
<1>10. CASE Aws!Retry(c)
  <2>1. calls[c].step = "error"
        /\ calls' = [calls EXCEPT ![c].step = "list", ![c].tries = @ + 1,
                                  ![c].change = "Undefined"]
    BY <1>10 DEF Aws!Retry, Aws!RetryFrom, Aws!At
  <2>2. calls'[c].step = "list" /\ calls'[c].tries = calls[c].tries + 1
    BY <1>1, <2>1 DEF Call
  <2>3. QED
    BY <2>1, <2>2 DEF Forward
<1>11. QED
  BY <1>5, <1>6, <1>7, <1>8, <1>9, <1>10 DEF Aws!Progress

(* A request of GCP brings its call forward.                                *)
LEMMA GcpForward ==
    ASSUME TypeOK, NEW c \in Clients, calls[c] # NoCall, Gcp!Progress(c)
    PROVE  Forward(c)
<1>1. calls[c] \in Call /\ calls \in [Clients -> Call \cup {NoCall}]
  BY DEF TypeOK, ManagerTypeOK
<1>2. calls[c].value \in Contents /\ calls[c].change \in Changes
      /\ calls[c].tries \in Nat
  BY <1>1 DEF Call, Changes, Contents
<1>3. ASSUME NEW v \in Contents, NEW applied \in BOOLEAN, NEW next \in Steps,
             Write(c, v, applied, calls[c].change, next)
      PROVE  calls'[c].step = next /\ calls'[c].tries = calls[c].tries
  BY <1>2, <1>3, WriteResult
<1>4. ASSUME NEW answered \in BOOLEAN, Gcp!GetSecret(c, answered)
      PROVE  Forward(c)
  <2>1. calls[c].step = "get"
        /\ \E step \in {"add", "create"}, change \in {"Updated", "Inserted"} :
              calls' = [calls EXCEPT ![c].step = step, ![c].change = change]
    BY <1>4 DEF Gcp!GetSecret, Gcp!At
  <2>2. calls'[c].step \in {"add", "create"} /\ calls'[c].tries = calls[c].tries
    BY <1>1, <2>1 DEF Call
  <2>3. QED
    BY <2>1, <2>2, Ranks DEF Forward
<1>5. ASSUME NEW answered \in BOOLEAN, Gcp!CreateSecret(c, answered)
      PROVE  Forward(c)
  <2> DEFINE next == IF answered THEN "add" ELSE "error"
  <2>1. Write(c, Hollow, FALSE, calls[c].change, next) /\ calls[c].step = "create"
    BY <1>5 DEF Gcp!CreateSecret, Gcp!Write, Write, Gcp!At
  <2>2. Hollow \in Contents /\ next \in Steps /\ next \in {"add", "error"}
    BY DEF Contents, Steps
  <2> HIDE DEF next
  <2>3. calls'[c].step = next /\ calls'[c].tries = calls[c].tries
    BY <1>3, <2>1, <2>2
  <2>4. QED
    BY <2>1, <2>2, <2>3, Ranks DEF Forward
<1>6. ASSUME NEW answered \in BOOLEAN,
             Gcp!AddSecretVersion(c, answered) \/ Gcp!DeleteSecret(c, answered)
      PROVE  Forward(c)
  <2> DEFINE next == IF answered THEN "done" ELSE "error"
  <2>1. calls[c].step \in {"add", "delete"}
        /\ \E v \in Contents : Write(c, v, TRUE, calls[c].change, next)
    BY <1>2, <1>6 DEF Gcp!AddSecretVersion, Gcp!DeleteSecret, Gcp!Write, Write, Gcp!At, Contents
  <2>2. next \in Steps /\ next \in {"done", "error"}
    BY DEF Steps
  <2> HIDE DEF next
  <2>3. calls'[c].step = next /\ calls'[c].tries = calls[c].tries
    BY <1>3, <2>1, <2>2
  <2>4. QED
    BY <2>1, <2>2, <2>3, Ranks DEF Forward
<1>7. CASE Gcp!RequestFails(c)
  <2>1. calls[c].step \in {"get", "create", "add", "delete"}
        /\ calls' = [calls EXCEPT ![c].step = "error"]
    BY <1>7 DEF Gcp!RequestFails, Gcp!Fails, Gcp!Step, Gcp!At
  <2>2. calls'[c].step = "error" /\ calls'[c].tries = calls[c].tries
    BY <1>1, <2>1 DEF Call
  <2>3. QED
    BY <2>1, <2>2, Ranks DEF Forward
<1>8. CASE Gcp!Retry(c)
  <2> DEFINE first == IF calls[c].value = None THEN "delete" ELSE "get"
  <2>1. calls[c].step = "error"
        /\ calls' = [calls EXCEPT ![c].step = first, ![c].tries = @ + 1,
                                  ![c].change = "Undefined"]
    BY <1>8 DEF Gcp!Retry, Gcp!RetryFrom, Gcp!FirstStep, Gcp!At
  <2>2. first # "done"
    OBVIOUS
  <2> HIDE DEF first
  <2>3. calls'[c].step = first /\ calls'[c].tries = calls[c].tries + 1
    BY <1>1, <2>1 DEF Call
  <2>4. QED
    BY <2>1, <2>2, <2>3 DEF Forward
<1>9. QED
  BY <1>4, <1>5, <1>6, <1>7, <1>8 DEF Gcp!Progress

(* A call goes forward by its own requests, and stays where it is while     *)
(* others make theirs: it makes boundedly many, whatever they do.           *)
THEOREM CallsGoForward == Spec => CallsAdvance
<1> DEFINE Same(c) == calls'[c].step = calls[c].step /\ calls'[c].tries = calls[c].tries
           Advance == \A c \in Clients : calls[c] # NoCall /\ calls'[c] # NoCall =>
                         IF Progress(c) THEN Forward(c) ELSE Same(c)
<1>1. ASSUME TypeOK, Inv, [Next]_vars
      PROVE  Advance
  <2>1. SUFFICES ASSUME NEW c \in Clients, calls[c] # NoCall, calls'[c] # NoCall, ~Progress(c)
                 PROVE  Same(c)
    BY <1>1, AwsForward, GcpForward DEF Progress
  <2>2. SUFFICES ASSUME calls' # calls
                 PROVE  Same(c)
    OBVIOUS
  <2>3. CASE Crash
    BY <2>1, <2>3 DEF Crash
  <2>4. ASSUME NEW d \in Clients, NEW s \in Secrets, NEW v \in Values \cup {None},
               Invoke(d, s, v)
        PROVE  Same(c)
    <3>1. \E x : calls' = [calls EXCEPT ![d] = x] /\ calls[d] = NoCall
      BY <2>4 DEF Invoke, Aws!Invoke, Gcp!Invoke, Aws!Begin, Gcp!Begin
    <3>2. calls'[c] = calls[c]
      BY <1>1, <2>1, <3>1 DEF TypeOK, ManagerTypeOK
    <3>3. QED
      BY <3>2
  <2>5. ASSUME NEW d \in Clients, Succeed(d) \/ Fail(d)
        PROVE  Same(c)
    <3>1. calls' = [calls EXCEPT ![d] = NoCall]
      BY <2>5 DEF Succeed, Fail, Return, GiveUp
    <3>2. calls'[c] = calls[c]
      BY <1>1, <2>1, <3>1 DEF TypeOK, ManagerTypeOK
    <3>3. QED
      BY <3>2
  <2>6. ASSUME NEW d \in Clients, Progress(d)
        PROVE  Same(c)
    <3>1. d # c
      BY <2>1, <2>6
    <3>2. CASE LocalStep(d)
      BY <1>1, <3>1, <3>2, LocalResult
    <3>3. CASE WriteStep(d)
      <4>1. PICK v \in Contents, applied \in BOOLEAN, change \in Changes, next \in Steps :
              calls[d] # NoCall /\ Write(d, v, applied, change, next)
        BY <3>3 DEF WriteStep
      <4>2. QED
        BY <1>1, <2>1, <3>1, <4>1, WriteResult
    <3>4. QED
      BY <1>1, <2>6, <3>2, <3>3, ProgressKind DEF Inv
  <2>7. CASE LoadSecrets
    BY <2>2, <2>7 DEF LoadSecrets, Aws!LoadSecrets, Gcp!LoadSecrets, LoadNothing, Aws!ListPage,
                 Aws!ListEnds, Aws!GetLoaded, Aws!GetFails, Gcp!ListPage, Gcp!ListEnds,
                 Gcp!GetLoaded, Gcp!GetFails
  <2>8. QED
    BY <1>1, <2>2, <2>3, <2>4, <2>5, <2>6, <2>7
       DEF Next, CallStep, Start, ProbeAWS, ProbeGCP, Listen, Remember, vars
<1>2. TypeOK /\ Inv /\ [Next]_vars => [Advance]_vars
  BY <1>1
<1>3. Spec => [][Advance]_vars
  BY <1>2, PlatformInvariant, PTL DEF Spec
<1>4. QED
  BY <1>3 DEF CallsAdvance

(* Where the provider is named, a start finds what clients were told.       *)
THEOREM NamedPersists == Spec => []NamedProviderPersists
<1>1. ASSUME TypeOK, Inv
      PROVE  NamedProviderPersists
  <2>1. SUFFICES ASSUME Persistent, status = "loading", Loaded,
                        NEW s \in Secrets \ load.failed, settled[s] # InDoubt
                 PROVE  Cached(s) = settled[s]
    BY DEF NamedProviderPersists, AcknowledgedIsLoaded, Persistent
  <2>2. Held(secrets[s]) = settled[s]
    BY <1>1, <2>1 DEF Inv, StoredInv
  <2>3. manager # "memory" /\ Loading("get") /\ load.todo = {}
    BY <1>1, <2>1 DEF Inv, StartInv, Loaded
  <2>4. Cached(s) = Held(secrets[s])
    BY <1>1, <2>1, <2>3 DEF Inv, LoadInv
  <2>5. QED
    BY <2>2, <2>4
<1>2. QED
  BY <1>1, PlatformInvariant, PTL

-----------------------------------------------------------------------------
(* Both managers are the store                                              *)

USE StoreAssumption

(* What SecretStore sees of a call.                                         *)
LEMMA CallViews ==
    ASSUME TypeOK, NEW c \in Clients
    PROVE  /\ callView[c] = NoCall <=> calls[c] = NoCall
           /\ calls[c] # NoCall =>
                 callView[c] = [secret |-> calls[c].secret, value |-> calls[c].value,
                                applied |-> calls[c].applied]
<1>1. CASE calls[c] = NoCall
  BY <1>1 DEF callView
<1>2. CASE calls[c] # NoCall
  <2> DEFINE r == [secret |-> calls[c].secret, value |-> calls[c].value,
                   applied |-> calls[c].applied]
  <2>1. calls[c] \in Call
    BY <1>2 DEF TypeOK, ManagerTypeOK
  <2>2. r \in Store!Call
    BY <2>1 DEF Call, Store!Call
  <2>3. callView[c] = r
    BY <1>2 DEF callView
  <2>4. QED
    BY <1>2, <2>2, <2>3
<1>3. QED
  BY <1>1, <1>2

(* A request that writes nothing is a stutter of SecretStore.               *)
LEMMA LocalStutters ==
    ASSUME TypeOK, TypeOK', NEW c \in Clients, LocalStep(c)
    PROVE  UNCHANGED <<storeView, callView>>
<1>1. storeView' = storeView
  BY LocalResult DEF storeView, Held
<1>2. ASSUME NEW d \in Clients
      PROVE  callView'[d] = callView[d]
  BY LocalResult DEF callView
<1>3. callView' = callView
  BY <1>2 DEF callView
<1>4. QED
  BY <1>1, <1>3

(* A request that writes is Apply, or a stutter.                            *)
LEMMA WriteApplies ==
    ASSUME TypeOK, TypeOK', NEW c \in Clients, WriteStep(c)
    PROVE  Store!Apply(c) \/ UNCHANGED <<storeView, callView>>
<1>1. PICK v \in Contents, applied \in BOOLEAN, change \in Changes, next \in Steps :
        /\ calls[c] # NoCall
        /\ Write(c, v, applied, change, next)
        /\ IF applied THEN Held(v) = calls[c].value ELSE Held(v) = Held(Target(c))
  BY DEF WriteStep
<1> DEFINE s == calls[c].secret
<1>2. s \in Secrets /\ calls[c] \in Call
  BY <1>1 DEF TypeOK, ManagerTypeOK, Call
<1>3. secrets'[s] = v /\ \A t \in Secrets \ {s} : secrets'[t] = secrets[t]
  BY <1>1, <1>2 DEF Write, TypeOK, ManagerTypeOK
<1>4. /\ callView[c].secret = s /\ callView[c].value = calls[c].value
      /\ callView[c].applied = calls[c].applied /\ callView[c] # NoCall
  <2>1. /\ callView[c] # NoCall
        /\ callView[c] = [secret |-> s, value |-> calls[c].value, applied |-> calls[c].applied]
    BY <1>1, CallViews
  <2>2. QED
    BY <2>1
<1>5. storeView' = [storeView EXCEPT ![s] = Held(v)]
  BY <1>2, <1>3 DEF storeView, Held
<1>6. ASSUME NEW d \in Clients
      PROVE  IF d = c /\ applied THEN callView'[d] = [callView[d] EXCEPT !.applied = TRUE]
             ELSE callView'[d] = callView[d]
  <2>1. CASE calls[d] = NoCall
    <3>1. calls'[d] = NoCall /\ d # c
      BY <1>1, <2>1, WriteResult
    <3>2. QED
      BY <2>1, <3>1 DEF callView
  <2>2. CASE calls[d] # NoCall
    <3>1. /\ calls'[d] # NoCall /\ calls'[d].secret = calls[d].secret
          /\ calls'[d].value = calls[d].value
          /\ calls'[d].applied = (calls[d].applied \/ (d = c /\ applied))
          /\ calls[d].applied \in BOOLEAN
      BY <1>1, <2>2, WriteResult DEF TypeOK, ManagerTypeOK, Call
    <3>2. callView'[d] = [secret |-> calls[d].secret, value |-> calls[d].value,
                          applied |-> calls'[d].applied]
      BY <3>1 DEF callView
    <3>3. callView[d] = [secret |-> calls[d].secret, value |-> calls[d].value,
                         applied |-> calls[d].applied]
      BY <2>2 DEF callView
    <3>4. CASE d = c /\ applied
      <4>1. calls'[d].applied = TRUE
        BY <3>1, <3>4
      <4>2. callView'[d] = [secret |-> calls[d].secret, value |-> calls[d].value,
                            applied |-> TRUE]
        BY <3>2, <4>1
      <4> DEFINE r == [secret |-> calls[d].secret, value |-> calls[d].value,
                       applied |-> calls[d].applied]
      <4>3. \A t : [r EXCEPT !.applied = t]
                      = [secret |-> calls[d].secret, value |-> calls[d].value, applied |-> t]
        OBVIOUS
      <4>4. callView[d] = r
        BY <3>3
      <4> HIDE DEF r
      <4>5. QED
        BY <3>4, <4>2, <4>3, <4>4
    <3>5. CASE ~(d = c /\ applied)
      <4>1. calls'[d].applied = calls[d].applied
        BY <3>1, <3>5
      <4>2. QED
        BY <3>2, <3>3, <3>5, <4>1
    <3>6. QED
      BY <3>4, <3>5
  <2>3. QED
    BY <2>1, <2>2
<1>7. callView = [d \in Clients |-> callView[d]] /\ callView' = [d \in Clients |-> callView'[d]]
  BY DEF callView
<1>8. CASE applied
  <2>1. storeView' = [storeView EXCEPT ![callView[c].secret] = callView[c].value]
    BY <1>1, <1>4, <1>5, <1>8
  <2>2. callView' = [callView EXCEPT ![c] = [callView[c] EXCEPT !.applied = TRUE]]
    BY <1>6, <1>7, <1>8
  <2>3. QED
    BY <1>4, <2>1, <2>2 DEF Store!Apply
<1>9. CASE ~applied
  <2>1. Held(v) = storeView[s]
    BY <1>1, <1>2, <1>9 DEF storeView, Target
  <2>2. storeView' = storeView
    BY <1>2, <1>5, <2>1 DEF storeView
  <2>3. callView' = callView
    BY <1>6, <1>7, <1>9
  <2>4. QED
    BY <2>2, <2>3
<1>10. QED
  BY <1>8, <1>9

(* A call that ends is one that ends at the store.                          *)
LEMMA EndsAtStore ==
    ASSUME TypeOK, Inv, NEW c \in Clients
    PROVE  /\ Succeed(c) => Store!Succeed(c)
           /\ Fail(c) => Store!Fail(c)
<1>1. ASSUME Succeed(c) \/ Fail(c)
      PROVE  /\ callView[c] # NoCall
             /\ callView' = [callView EXCEPT ![c] = NoCall] /\ storeView' = storeView
  <2>1. calls[c] # NoCall /\ calls' = [calls EXCEPT ![c] = NoCall] /\ secrets' = secrets
    BY <1>1 DEF Succeed, Fail, Return, GiveUp, At
  <2>2. calls'[c] = NoCall /\ \A d \in Clients \ {c} : calls'[d] = calls[d]
    BY <2>1 DEF TypeOK, ManagerTypeOK
  <2>3. callView' = [callView EXCEPT ![c] = NoCall]
    BY <2>2 DEF callView
  <2>4. QED
    BY <2>1, <2>3, CallViews DEF storeView, Held
<1>2. ASSUME Succeed(c)
      PROVE  callView[c].applied
  <2>1. calls[c] # NoCall /\ calls[c].step = "done"
    BY <1>2 DEF Succeed, Return, At
  <2>2. calls[c].applied
    BY <2>1 DEF Inv, CallsInv, CallInv
  <2>3. QED
    <3>1. callView[c] = [secret |-> calls[c].secret, value |-> calls[c].value,
                         applied |-> calls[c].applied]
      BY <2>1, CallViews
    <3>2. QED
      BY <2>2, <3>1
<1>3. QED
  BY <1>1, <1>2 DEF Store!Succeed, Store!Fail

(* Every step of Platform is one of SecretStore, or a stutter.              *)
LEMMA StepIsStoreStep ==
    TypeOK /\ Inv /\ TypeOK' /\ [Next]_vars => [Store!StoreNext]_<<storeView, callView>>
<1> SUFFICES ASSUME TypeOK, Inv, TypeOK', [Next]_vars
             PROVE  Store!StoreNext \/ UNCHANGED <<storeView, callView>>
  OBVIOUS
<1>1. ASSUME UNCHANGED <<secrets, calls>>
      PROVE  UNCHANGED <<storeView, callView>>
  BY <1>1 DEF storeView, callView, Held
<1>2. CASE Start \/ Listen \/ UNCHANGED vars
  BY <1>1, <1>2 DEF Start, Listen, vars
<1>3. ASSUME NEW answered \in BOOLEAN, ProbeAWS(answered) \/ ProbeGCP(answered)
      PROVE  UNCHANGED <<storeView, callView>>
  BY <1>1, <1>3 DEF ProbeAWS, ProbeGCP
<1>4. CASE LoadSecrets
  <2>1. UNCHANGED <<secrets, calls>>
    BY <1>4 DEF LoadSecrets, LoadNothing, Aws!LoadSecrets, Gcp!LoadSecrets, Aws!ListPage,
         Aws!ListEnds, Aws!GetLoaded, Aws!GetFails, Gcp!ListPage, Gcp!ListEnds, Gcp!GetLoaded,
         Gcp!GetFails
  <2>2. QED
    BY <1>1, <2>1
<1>5. CASE Crash
  <2>1. secrets' = secrets /\ calls' = [c \in Clients |-> NoCall]
    BY <1>5 DEF Crash
  <2>2. storeView' = storeView /\ callView' = [c \in Clients |-> NoCall]
    BY <2>1 DEF storeView, callView, Held
  <2>3. QED
    BY <2>2 DEF Store!StoreNext, Store!Abandon
<1>6. ASSUME NEW s \in Secrets, NEW v \in Values \cup {None}, Remember(s, v)
      PROVE  UNCHANGED <<storeView, callView>>
  BY <1>1, <1>6 DEF Remember
<1>7. ASSUME NEW c \in Clients, NEW s \in Secrets, NEW v \in Values \cup {None},
             Invoke(c, s, v)
      PROVE  Store!StoreNext
  <2>1. PICK first \in {"list", "get", "delete"} :
          /\ calls[c] = NoCall /\ secrets' = secrets
          /\ calls' = [calls EXCEPT ![c] =
                [secret |-> s, value |-> v, step |-> first, change |-> "Undefined",
                 tries |-> 1, applied |-> FALSE, absent |-> secrets[s] \notin Values]]
    BY <1>7, InvokeBegins
  <2> DEFINE r == [secret |-> s, value |-> v, step |-> first, change |-> "Undefined",
                   tries |-> 1, applied |-> FALSE, absent |-> secrets[s] \notin Values]
  <2>2. /\ calls'[c] = r /\ r.secret = s /\ r.value = v /\ r.applied = FALSE
        /\ \A d \in Clients \ {c} : calls'[d] = calls[d]
    BY <2>1 DEF TypeOK, ManagerTypeOK
  <2>3. r # NoCall
    <3>1. r \in Call
      BY DEF Call
    <3>2. QED
      BY <3>1
  <2> HIDE DEF r
  <2>4. callView[c] = NoCall /\ storeView' = storeView
    BY <2>1, CallViews DEF storeView, Held
  <2>5. callView' = [callView EXCEPT ![c] = [secret |-> s, value |-> v, applied |-> FALSE]]
    BY <2>2, <2>3 DEF callView
  <2>6. Store!Invoke(c, s, v)
    BY <2>4, <2>5 DEF Store!Invoke
  <2>7. QED
    BY <2>6 DEF Store!StoreNext
<1>8. ASSUME NEW c \in Clients, CallStep(c)
      PROVE  Store!StoreNext \/ UNCHANGED <<storeView, callView>>
  <2>1. CASE Progress(c)
    <3>1. LocalStep(c) \/ WriteStep(c)
      BY <2>1, ProgressKind DEF Inv
    <3>2. QED
      BY <3>1, LocalStutters, WriteApplies DEF Store!StoreNext
  <2>2. CASE Succeed(c) \/ Fail(c)
    BY <2>2, EndsAtStore DEF Store!StoreNext
  <2>3. QED
    BY <1>8, <2>1, <2>2 DEF CallStep
<1>9. QED
  BY <1>2, <1>3, <1>4, <1>5, <1>6, <1>7, <1>8 DEF Next

(* The managers of both clouds implement the store: Init is a store without *)
(* calls, and every step is one of the store or leaves it alone.            *)
THEOREM ManagersImplementStore == Spec => ImplementsStore
<1>1. Init => Store!StoreInit
  <2>1. SUFFICES ASSUME Init
                 PROVE  Store!StoreInit
    OBVIOUS
  <2>2. secrets \in [Secrets -> Contents] /\ calls = [c \in Clients |-> NoCall]
    BY <2>1 DEF Init
  <2>3. storeView \in [Secrets -> Values \cup {None}]
    BY <2>2 DEF storeView, Held, Contents
  <2>4. callView = [c \in Clients |-> NoCall]
    BY <2>2 DEF callView
  <2>5. QED
    BY <2>3, <2>4 DEF Store!StoreInit
<1>2. TypeOK /\ Inv /\ TypeOK' /\ [Next]_vars => [Store!StoreNext]_(Store!storeVars)
  BY StepIsStoreStep DEF Store!storeVars
<1>3. TypeOK /\ Inv /\ [Next]_vars =>
        [\A c \in Clients : /\ Succeed(c) => Store!Succeed(c)
                            /\ Fail(c) => Store!Fail(c)]_vars
  BY EndsAtStore
<1>4. QED
  BY <1>1, <1>2, <1>3, PlatformInvariant, PTL DEF Spec, ImplementsStore, Store!StoreSpec
=============================================================================
