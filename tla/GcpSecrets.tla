----------------------------- MODULE GcpSecrets ------------------------------
(***************************************************************************)
(* The requests of GcpSecretsManager.  A secret of GCP is a container of   *)
(* versions, created empty; it has a value once a version was added, and   *)
(* deleting it removes container and versions.                             *)
(***************************************************************************)
EXTENDS ManagerCalls

FirstStep(v) == IF v = None THEN "delete" ELSE "get"

Invoke(c, s, v) == Begin(c, s, v, FirstStep(v))

(* Any error of GetSecret is taken to mean that there is no such secret.    *)
GetSecret(c, answered) ==
    /\ At(c, "get")
    /\ calls' = IF answered /\ Target(c) # None
                THEN [calls EXCEPT ![c].step = "add", ![c].change = "Updated"]
                ELSE [calls EXCEPT ![c].step = "create", ![c].change = "Inserted"]
    /\ UNCHANGED <<secrets, load>>

(* Mutant: a new secret is left without a version.                          *)
CreateSecretOnly(c, answered) ==
    /\ At(c, "create")
    /\ Target(c) = None
    /\ Write(c, Hollow, FALSE, calls[c].change, IF answered THEN "done" ELSE "error")

CreateSecret(c, answered) ==
    /\ At(c, "create")
    /\ Target(c) = None
    /\ Write(c, Hollow, FALSE, calls[c].change, IF answered THEN "add" ELSE "error")

AddSecretVersion(c, answered) ==
    /\ At(c, "add")
    /\ Target(c) # None
    /\ Write(c, calls[c].value, TRUE, calls[c].change, IF answered THEN "done" ELSE "error")

DeleteSecret(c, answered) ==
    /\ At(c, "delete")
    /\ Target(c) # None
    /\ Write(c, None, TRUE, calls[c].change, IF answered THEN "done" ELSE "error")

(* GetGCPProjectID and NewClient may fail before the first request.  Others *)
(* fail also if another call has created the secret before CreateSecret, or *)
(* deleted it before AddSecretVersion or DeleteSecret.                      *)
RequestFails(c) == Fails(c, {"get", "create", "add", "delete"})

Retry(c) == RetryFrom(c, FirstStep(calls[c].value))

Progress(c) ==
    \/ \E answered \in BOOLEAN :
          \/ GetSecret(c, answered) \/ CreateSecret(c, answered)
          \/ AddSecretVersion(c, answered) \/ DeleteSecret(c, answered)
    \/ RequestFails(c)
    \/ Retry(c)

(* The loop ends without a token for the next page: if the first page fails *)
(* there is none, and a later page that fails is asked for again.  A secret *)
(* without a version has no latest one.                                     *)
LoadSecrets ==
    \/ \E page \in SUBSET Secrets : ListPage(page)
    \/ load # NoLoad /\ ~load.paged /\ ListEnds
    \/ \E s \in Secrets :
          \/ GetLoaded(s, IF secrets[s] = Hollow THEN None ELSE secrets[s])
          \/ GetFails(s)
=============================================================================
