---------------------------- MODULE ManagerCalls ----------------------------
(***************************************************************************)
(* What the managers for AWS and GCP have in common: a call is a sequence  *)
(* of requests to the cloud, retried as a whole, and each request may fail, *)
(* take effect and be answered, or take effect and have its answer lost; a *)
(* load lists the secrets page by page and then gets one after the other.  *)
(*                                                                         *)
(* A secret can exist and hold nothing: with AWS after a delete, which     *)
(* writes the tombstone "{}", with GCP before a version was added.         *)
(***************************************************************************)
EXTENDS Naturals

CONSTANTS Clients, Secrets, Values,
          None,        \* there is no such secret; as a call's value, delete it
          Hollow,      \* there is, and it holds nothing
          NoCall, NoLoad,
          MaxTries     \* attempts that fit in MaxRetryTime

ASSUME ManagerAssumption ==
    /\ None \notin Values
    /\ Hollow \notin Values \cup {None}
    /\ MaxTries \in Nat \ {0}

VARIABLES secrets,     \* the secrets of the account, or of the project
          calls,       \* the call each client is in, and how far it got
          load         \* LoadSecrets, and how far it got

managerVars == <<secrets, calls, load>>

Contents == Values \cup {None, Hollow}

(* absent is history: the secret held no value some time during the call.   *)
Call == [secret  : Secrets,
         value   : Values \cup {None},
         step    : {"list", "get", "create", "update", "add", "delete", "error", "done"},
         change  : {"Undefined", "Inserted", "Updated"},
         tries   : 1..MaxTries,
         applied : BOOLEAN,
         absent  : BOOLEAN]

(* todo are the secrets listed and not yet got; failed is history, those    *)
(* that were neither because of a request that failed.                      *)
Load == [step   : {"list", "get"},
         paged  : BOOLEAN,
         todo   : SUBSET Secrets,
         found  : [Secrets -> Contents],
         failed : SUBSET Secrets]

ASSUME NoCallAssumption == NoCall \notin Call /\ NoLoad \notin Load

ManagerTypeOK == /\ secrets \in [Secrets -> Contents]
                 /\ calls \in [Clients -> Call \cup {NoCall}]
                 /\ load \in Load \cup {NoLoad}

-----------------------------------------------------------------------------
(* Calls                                                                    *)

At(c, step) == calls[c] # NoCall /\ calls[c].step = step

Target(c) == secrets[calls[c].secret]

IsDelete(c) == calls[c].value = None

Step(c, step) == calls' = [calls EXCEPT ![c].step = step]

Begin(c, s, v, first) ==
    /\ calls[c] = NoCall
    /\ calls' = [calls EXCEPT ![c] =
                    [secret |-> s, value |-> v, step |-> first, change |-> "Undefined",
                     tries |-> 1, applied |-> FALSE, absent |-> secrets[s] \notin Values]]
    /\ UNCHANGED <<secrets, load>>

(* A request of c writes contents v; every call for the secret has then     *)
(* seen it absent, or not.  The next step of c depends on the answer.       *)
Write(c, v, applied, change, next) ==
    LET s == calls[c].secret
    IN  /\ secrets' = [secrets EXCEPT ![s] = v]
        /\ calls' = [d \in Clients |->
              IF calls[d] = NoCall THEN NoCall
              ELSE [calls[d] EXCEPT
                       !.absent  = @ \/ (calls[d].secret = s /\ v \notin Values),
                       !.applied = @ \/ (d = c /\ applied),
                       !.change  = IF d = c THEN change ELSE @,
                       !.step    = IF d = c THEN next ELSE @]]
        /\ UNCHANGED load

(* A request that does not reach the cloud, or that the cloud refuses.      *)
Fails(c, steps) ==
    /\ \E step \in steps : At(c, step)
    /\ Step(c, "error")
    /\ UNCHANGED <<secrets, load>>

(* Mutant: the time for retries does not run out.                           *)
RetryForever(c, first) ==
    /\ At(c, "error")
    /\ calls' = [calls EXCEPT ![c].step = first, ![c].change = "Undefined"]
    /\ UNCHANGED <<secrets, load>>

(* Mutant: one attempt too many.                                            *)
RetryOnceMore(c, first) ==
    /\ At(c, "error")
    /\ calls[c].tries <= MaxTries
    /\ calls' = [calls EXCEPT ![c].step = first, ![c].tries = @ + 1, ![c].change = "Undefined"]
    /\ UNCHANGED <<secrets, load>>

RetryFrom(c, first) ==
    /\ At(c, "error")
    /\ calls[c].tries < MaxTries
    /\ calls' = [calls EXCEPT ![c].step = first, ![c].tries = @ + 1, ![c].change = "Undefined"]
    /\ UNCHANGED <<secrets, load>>

(* MaxRetryTime is over: the error goes to the caller.                      *)
GiveUp(c) ==
    /\ At(c, "error")
    /\ calls' = [calls EXCEPT ![c] = NoCall]
    /\ UNCHANGED <<secrets, load>>

Return(c) ==
    /\ At(c, "done")
    /\ calls' = [calls EXCEPT ![c] = NoCall]
    /\ UNCHANGED <<secrets, load>>

-----------------------------------------------------------------------------
(* LoadSecrets                                                              *)

Existing == {s \in Secrets : secrets[s] # None}

FreshLoad == [step |-> "list", paged |-> FALSE, todo |-> {},
              found |-> [s \in Secrets |-> None], failed |-> {}]

Loading(step) == load # NoLoad /\ load.step = step

Loaded == Loading("get") /\ load.todo = {}

(* A page of secrets that were not listed yet; it may be empty, and the     *)
(* listing goes on until all are listed.                                    *)
ListPage(page) ==
    /\ Loading("list")
    /\ page \subseteq Existing \ load.todo
    /\ load' = [load EXCEPT !.paged = TRUE, !.todo = @ \cup page,
                            !.step = IF Existing \subseteq load.todo \cup page
                                     THEN "get" ELSE "list"]
    /\ UNCHANGED <<secrets, calls>>

(* A page that fails ends the listing; what it would have listed is missed. *)
ListEnds ==
    /\ Loading("list")
    /\ load' = [load EXCEPT !.step = "get", !.failed = Existing \ load.todo]
    /\ UNCHANGED <<secrets, calls>>

GetLoaded(s, v) ==
    /\ Loading("get") /\ s \in load.todo
    /\ load' = [load EXCEPT !.todo = @ \ {s}, !.found[s] = v]
    /\ UNCHANGED <<secrets, calls>>

GetFails(s) ==
    /\ Loading("get") /\ s \in load.todo
    /\ load' = [load EXCEPT !.todo = @ \ {s}, !.failed = @ \cup {s}]
    /\ UNCHANGED <<secrets, calls>>

(* Mutant: initialLoad caches what LoadSecrets returns.                     *)
CachedAsFound(s) == load.found[s]

(* initialLoad ignores secrets with the value "{}".                         *)
Cached(s) == IF load.found[s] = Hollow THEN None ELSE load.found[s]

-----------------------------------------------------------------------------
(* A PUT is answered with 201 (Created) only if there was a time, while it  *)
(* was under way, when the secret held no value: neither what another call  *)
(* does between two requests nor a lost answer makes it say so otherwise.   *)
CreatedWasAbsent ==
    \A c \in Clients :
        At(c, "done") /\ ~IsDelete(c) /\ calls[c].change = "Inserted" => calls[c].absent
=============================================================================
