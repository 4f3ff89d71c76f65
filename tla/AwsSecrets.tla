----------------------------- MODULE AwsSecrets ------------------------------
(***************************************************************************)
(* The requests of AwsSecretsManager.  The service is consistent:          *)
(* ListSecrets sees what exists, and UpdateSecret answers with the ARN it  *)
(* was given.                                                              *)
(***************************************************************************)
EXTENDS ManagerCalls

Invoke(c, s, v) == Begin(c, s, v, "list")

(* InsertOrUpdateSecret creates what is not listed, and deleting it fails.  *)
ListSecrets(c) ==
    /\ At(c, "list")
    /\ Step(c, IF Target(c) = None
               THEN IF IsDelete(c) THEN "error" ELSE "create"
               ELSE IF IsDelete(c) THEN "update" ELSE "get")
    /\ UNCHANGED <<secrets, load>>

CreateSecret(c, answered) ==
    /\ At(c, "create")
    /\ Target(c) = None
    /\ Write(c, calls[c].value, TRUE, "Inserted", IF answered THEN "done" ELSE "error")

(* Mutant: what could not be read is taken for a tombstone.                 *)
GetSecretValueOrInsert(c, answered) ==
    /\ At(c, "get")
    /\ calls' = [calls EXCEPT
                    ![c].step = "update",
                    ![c].change = IF ~answered \/ Target(c) = Hollow
                                  THEN "Inserted" ELSE "Updated"]
    /\ UNCHANGED <<secrets, load>>

(* Tells a tombstone from a value; without an answer it is taken for a      *)
(* value.                                                                   *)
GetSecretValue(c, answered) ==
    /\ At(c, "get")
    /\ calls' = [calls EXCEPT
                    ![c].step = "update",
                    ![c].change = IF answered /\ Target(c) = Hollow
                                  THEN "Inserted" ELSE "Updated"]
    /\ UNCHANGED <<secrets, load>>

UpdateSecret(c, answered) ==
    /\ At(c, "update")
    /\ Write(c, IF IsDelete(c) THEN Hollow ELSE calls[c].value, TRUE, calls[c].change,
             IF answered THEN "done" ELSE "error")

(* CreateSecret fails also because another call has created the secret.     *)
RequestFails(c) == Fails(c, {"list", "create", "update"})

Retry(c) == RetryFrom(c, "list")

Progress(c) ==
    \/ ListSecrets(c)
    \/ \E answered \in BOOLEAN :
          CreateSecret(c, answered) \/ GetSecretValue(c, answered) \/ UpdateSecret(c, answered)
    \/ RequestFails(c)
    \/ Retry(c)

(* Any page that fails ends the listing; tombstones are got like values.    *)
LoadSecrets ==
    \/ \E page \in SUBSET Secrets : ListPage(page)
    \/ ListEnds
    \/ \E s \in Secrets : GetLoaded(s, secrets[s]) \/ GetFails(s)
=============================================================================
