# Verification of lightning-vault

TLA+ models of lightning-vault, the TLC runs that check them on small
instances, and theorems about them that TLAPS proves for all instances.
lightning-vault is an HTTP service that keeps the credentials of Lightning nodes
(a macaroon or a rune, with endpoint, certificate and API type) in a cloud
secrets manager and hands out time-limited versions of them.

## 1. Inventory

| Part | Source | State | Operations | Modelled in |
|---|---|---|---|---|
| HTTP handlers | `cmd/lightning-vault/handler.go`, `main.go` (`toLookup`, `deleteLookup`) | `Handlers.Lookup`, a Go map without a lock; the locals of each request | PUT, GET, QUERY, VERIFY, DELETE | `Vault` |
| Start | `main.go` (`main`, `initialLoad`, `httpListen`) | what is still to be cached | load, listen, crash | `Vault` |
| Rules of PUT and GET | `handler.go`, `utils/classificator.go`, `constrainer.go`, `utils.go` | none | inherit, detect, validate, limit in time | `PutRules` |
| Secrets manager | `utils/secretsmanager.go` | the secrets | InsertOrUpdateSecret, DeleteSecret, LoadSecrets | `SecretStore` |
| AWS manager | `utils/aws_secretsmanager.go` | none of its own; AWS keeps values, and tombstones | the API calls and the retry around them, the load | `AwsSecrets`, `Platform` |
| GCP manager | `utils/gcp_secretsmanager.go` | none of its own; GCP keeps containers of versions | the same | `GcpSecrets`, `Platform` |
| In-memory managers | `utils/dummy_secretsmanager.go`, `test_secretsmanager.go` | a set of names under a mutex | as above, never failing | partly, in `Platform` |
| Cloud detection | `utils/cloudprovider.go` | none; the manager is chosen once | DetermineProvider, GetGCPProjectID | `Platform` |
| Roles | `main.go` (`authMiddleware`, `toDict`, `readDurations`) | credentials and durations, fixed at start | authenticate, choose a duration | `Roles` |
| Presigned identity | `utils/presigner.go` | two caches with expiry | presign, verify | `Presigner` |
| Client library | `utils/data.go` | none | GetData | partly, in `Presigner` |
| Metrics, audit log | `cmd/lightning-vault/prometheus.go` | counters nothing reads | log | no: pure output |
| Dump | `main.go` (`allNodes`, `dump`) | files | dump | no: reads `Lookup`, changes nothing |
| Deployment | `deploy/`, `ecs/` | | two instances side by side | no |

How they interact. Each request runs in a goroutine of its own. GET, QUERY and
VERIFY read `Lookup` only. PUT reads the entry it overwrites, may ask the node
(`VerifyCall`, up to 5 s), then writes `Lookup` name by name, and then calls the
secrets manager, which retries for up to 30 s. DELETE calls the secrets manager
first and cleans `Lookup` afterwards. Nothing orders the handlers. At the start
the vault finds out where it runs, takes the manager for that cloud, and
`initialLoad` fills `Lookup` from it before the server listens. In front of the
handlers `authMiddleware` compares what a request brings with the keys of its
role: a password, or a presigned URL, which the client library signs and caches
and the vault shows to AWS STS and caches as well.

What is hard here, and the properties each part owes:

* *cache against store*: the two are written in opposite orders by PUT and
  DELETE, with other handlers, failures and crashes in between. What a client was
  told must be what is stored and what is served.
* *read, wait, write*: a PUT inherits fields from an entry it read before waiting
  for the node.
* *retries*: an attempt whose answer was lost is repeated, on top of its effect.
* *names*: an entry is cached under its pubkey and under its tags, each with the
  unique id appended. Names of tags are shared between nodes, and concatenation
  is ambiguous.
* *fields*: a PUT is validated on a mixture of what it gives and what it inherits.
* *identities*: a presigned URL is cached on both sides of the wire while it, and the
  credentials behind it, expire.
* *keys*: four lists of entries become five dictionaries, some through a Go map, in
  any order.
* *where it runs*: detection by timeout decides whether anything is stored at all.
* *progress*: a handler answers whatever the node and the cloud do.

`PROJECT.json` lists each hazard at its line, with the properties that cover it.

## 2. Modules

```
PutRules            pure rules, entries, constants
  Vault             the service            <-- INSTANCE SecretStore (Manager)
    MCVault         two concurrent requests
    MCPolicy        one request, all ways to fill in a body
    MCTags          one request, tags and unique ids
    VaultProofs     TypeOK
      VaultPolicy   KeptIsConnectable, ServedMatchesApi
      VaultSafety   IInv, Durable, Coherent
        VaultSteps  HandlersAdvance; the store as SecretStore promises it
          VaultAliases  OwnNames, AliasFresh, AliasNeverStolen, InvalidatedStaysInvalid
SecretStore         abstract secrets manager
ManagerCalls        what both managers have in common
  AwsSecrets        the requests of one to AWS
  GcpSecrets        the requests of the other to GCP
  Platform          detection, load, calls <-- INSTANCE AwsSecrets, GcpSecrets; SecretStore (Store)
    MCPlatform      machines in both clouds
    PlatformProofs  its properties but liveness
Presigner           presigned identities, from the client to STS
  PresignerProofs
Roles               keys, roles, authentication
  MCRoles           environments
  RolesProofs
```

**PutRules.** An entry (`Data`) is a record with the fields of `entities.Data`.
Strings are model values with what the code looks at: an endpoint is its scheme,
host, port and whether `url.Parse` takes it, an authenticator is a value with
membership in `LooksLikeMacaroon` and `LooksLikeRune` (it can be in both, which is
what `whenMultipleMatch` is for). `Merged` is what PUT keeps, `Rejected` the checks
that end it, `BadRequestWithoutReturn` the two that answer 400 and let it go on;
`GetConstrained` is what GET answers with.

**Vault.** `Lookup` maps names to entries, `pc` and `job` are the position and the
locals of each handler, `store` and `calls` belong to the secrets manager
(`SecretStore`, instantiated as `Manager`). A step is one access to `Lookup` or one
interaction with the manager or the node:

| Code | Actions |
|---|---|
| `obtainUniqueID` answering 400 | `InvalidUniqueID` |
| `GetHandler`, `QueryHandler` | the same, one step each: one read of `Lookup` |
| `VerifyHandler`, `verify` | `VerifyHandler`, `VerifyDone` |
| `PutHandler` up to `VerifyCall` | `PutHandler` (reads `orig`) |
| `VerifyCall` | `PutVerified` |
| `toLookup`, each tag | `AliasCheck` (the read), `AliasWrite` |
| `toLookup` last line, call of `InsertOrUpdateSecret` | `PutPrimary` |
| its attempts, its return | `Attempt`; `PutStored`, `PutNotStored` |
| `DeleteHandler` | `DeleteHandler`, `NotDeleted`, `Deleted` |
| `deleteLookup` | `DeleteAlias`, `DeletePrimary` |
| `LoadSecrets`, `initialLoad`, listening | `LoadSecrets`, `InitialLoad`, `Listen` |
| the process dies | `Crash` |

Where the code answers 400 without returning, `job.header` keeps the status, for
the first one written is the one the client gets. The order of tags in a tag list
makes no difference (each name is written once); they are a set.

Three variables are history: `settled[s]` is the value that a client can rely on,
`InDoubt` from the beginning of a write of `s` until one has succeeded that no
other overlapped (`alone`), and anew what a load has found; `missed` are the
secrets a load could not fetch.

A secret is named by a pubkey and a unique id. `prefix_pubkeyuniqueID_` ends in a
separator, so that the name filter of AWS, which matches prefixes, finds at most
one secret, and the pubkey has a fixed length, so that names do not clash; this is
`NamesAssumption`. `LegacySecrets` are those with the two-part names that
`initialLoad` still accepts.

**SecretStore** is what the handlers rely on: a call takes effect at any time
before it returns, possibly more than once, and one that fails may have taken
effect.

**ManagerCalls, AwsSecrets, GcpSecrets.** A call is a sequence of requests, and each
fails, takes effect, or takes effect and loses its answer (`answered`). `step` is the
next request; an attempt that fails is at `"error"`, from where `RetryFrom` begins
anew (`backoff.RetryNotifyWithData`) or `GiveUp` returns the error. A deleted AWS secret
is one with the value `{}`, a GCP secret can exist without a version: both are
`Hollow`.

| Code | Actions |
|---|---|
| `insertOrUpdateSecret`, `invalidateSecret` (AWS) | `ListSecrets`, then `CreateSecret`, or `GetSecretValue` and `UpdateSecret` |
| `insertOrUpdateSecretGcp`, `deleteSecretGcp` | `GetSecret`, `CreateSecret`, `AddSecretVersion`; `DeleteSecret` |
| any error of a request, `GetGCPProjectID` | `RequestFails` |
| `listSecretsAws`, `listSecretsGcp` | `ListPage`, `ListEnds` |
| `getSecretAws`, `getSecretGcp` in `LoadSecrets` | `GetLoaded`, `GetFails` |
| `if v == "{}"` in `initialLoad` | `Cached` |

**Platform** composes them: `Start` is `main`, `ProbeAWS` and `ProbeGCP` are the loop of
`DetermineProvider`, `Determined` is `GetPlatformSecretsManager` with the beginning of the
load, `Listen` its end, `Crash` the end of the process. `manager` says whose requests
the calls consist of. `settled` and `alone` are the history that `Vault` has as well:
what a client can rely on. The manager in memory keeps no values in the code either,
so that `Remember` only changes what clients were told. `ImplementsStore` is the
refinement: what is hollow reads as absent, a call with its attempts is one call.
`SecretStore` does not keep how a call ended, so `ImplementsStore` also says which step is
which: what returns without an error has to be a `Succeed`, not just a `Fail`.

**Presigner** has the client library (`identityCache`, `caller`), the vault (`tokenCache`,
`request`) and a clock. `PresignHit`, `PresignMiss`, `RetrieveFails`, `PresignHTTP` and
`CacheIdentity` are `PresignGetCallerIdentity`, `Send` and `GiveUp` the HTTP client of
`GetData`; `VerifyHit`, `VerifyMiss`, `StsVouches`, `VerifyFails` and `VerifyDone` are
`VerifyGetCallerIdentity`. `Keep` and `Reuse` are an application that signs with the
library and holds on to the result. Credentials end at any time (`CredentialsEnd`), after
which STS vouches for no query signed with them. `Tick` drops what ttlcache would
(`SkipTtlExtensionOnHit` is set: a hit extends nothing).

Time is urgent in two places. `Timeout` is that of `GetData`'s HTTP client. `Lag` bounds
what goes on without waiting for anyone: from a signature to the cache, and from the
answer of STS to the cache. Without a bound on it neither property would hold, by any
code. One clock serves both machines and STS; the skew between them has to be
counted into `Lag`.

**Roles** has `env`, the four variables as lists and sets of entries `user|secret`;
`Listen` makes `readDurations` and the dictionaries of the five subrouters from them.
`toDict(GetKeys(readDurations))` takes the keys of a Go map in any order, so it is a set
of dictionaries (`ToDictUnordered`). An entry of a variable, and an Authorization header,
can be any string: one that `toDict` takes (`Keys`), HTTP Basic authentication (`Basic`), or
something else (`Invalid`). The empty string is among the latter: it is the one entry of an
empty variable, and what a missing header reads as (`NoText`). `Request` is
`authMiddleware` and, for a GET, the duration that `GetHandler` finds under the header, which
may be any of these where an identity has let the reader in. A secret that starts with `$` is
a bcrypt hash, the flag `$iam`, or neither.

Operators marked *Mutant* are faulty variants of the operator they precede, kept
to show that the properties notice them; no specification uses them.

## 3. Runs

| Run | Shows | Bounds | Distinct states |
|---|---|---|---|
| `vault` | `Durable`, `Coherent`, `IInv`, `OwnNames`, `HandlersAdvance`, `RequestsFinish` | 2 requests, 2 nodes, one tag and one tag that is a pubkey, 4 bodies (one inherits all it can) | 489866 |
| `policy` | `TypeOK`, `KeptIsConnectable`, `ServedMatchesApi` | 1 request, 1 node, about 55 bodies, all routes | 273774 |
| `tags` | `AliasFresh`, `AliasInv`, `AliasNeverStolen` | 1 request, 2 nodes, 2 unique ids, one tag, one two-part name | 1216151 |
| `platform` | `TypeOK`, `CreatedWasAbsent`, `NamedProviderPersists`, `ImplementsStore`, `CallsAdvance`, `CallsReturn` | 2 calls, 2 secrets, 1 value, 2 attempts, 5 machines | 512344 |
| `presigner` | `TypeOK`, `AcceptedNotLongEnded`, `NotExpiredWhileWaiting`, `CallsReturn` | 2 callers, 1 set of credentials, 1 validity, 8 instants | 494154 |
| `roles` | `TypeOK`, `OnlyHoldersServed`, `RefusedOnlyIfReplaced`, `WritersMayQuery` | 3 users or globs, 4 secrets, 2 ARNs, 80 environments | 37632 |

Crashes and restarts are not bounded, and neither is the length of a behaviour,
except by the clock of `presigner`: the state spaces are finite by themselves. Two
requests are enough for every interleaving the properties speak of (an overlap of two
writers of a secret, or of a writer and an alias of another node); the theorems extend
the result to any number. In `platform` two secrets give a load more than one page, and
let a page fail after one that did not; two calls for one secret overlap in every way,
and two attempts are the least with a retry after a lost answer (`MaxTries` stands for
`MaxRetryTime`). There is one value, told apart from
none; that no value is taken for another is left to the theorems. `policy` has one
request because the rules are sequential, and starts also with an entry from before API
types were known; among its endpoints are ports 0, 65535 and 70000 and a port in a text that
is no URL, given with everything else a gRPC node needs, so that only the check of the port
decides, and one that is stored for another API and inherited.

In `presigner` a validity of 5 ticks makes a query that lives for 4 (`Second` is 2), is
handed out from the cache for 2 (`Minute` is 3), and is kept and used until it has expired;
the clock goes on past the instant when the vault has to have dropped it
(`DefaultCacheTime` and `Timeout` are 1). `Lag` is 0, which makes the bounds of the
properties exact; steps without a wait still interleave within an instant. A lag, and
validities that are not cached or that mean the default because they are not positive,
are covered by the theorems: two validities at a time are more than the run can take, for
the caches multiply.

The environments of `roles` have a user with two passwords among readers, one among
readers and writers, one key in two roles, hashed and plain passwords, a glob among
readers and among writers, invalid entries of which one is a whole header, variables that
are empty, and a write key that occurs twice.

`AliasFresh` and `AliasNeverStolen` are checked for one request at a time, and the
former for nodes that keep their tags: outside these conditions they do not hold, as
`stale_alias` and the gap between `AliasCheck` and `AliasWrite` show: with two requests TLC
finds a behaviour in which two PUTs for different nodes find one alias free, and the second
takes it from the first. `OwnNames` needs neither. `HandlersAdvance` and `CallsAdvance` are the safety half of `RequestsFinish` and
of `CallsReturn`: what goes on, goes on in one direction.

Deadlock is checked in every run.

**Fairness.** `Handler` and `Returned` are weakly fair for each request: a goroutine
that can go on is scheduled, `VerifyCall` is limited to 5 s, and retries to
`MaxRetryTime`. That a single request to the cloud ends, with an answer or an
error, is taken from the SDKs and the transport below them, for the handlers pass
a context without a deadline. Nothing is assumed of clients, of the success of
any attempt, or of the absence of crashes. In `Platform` the steps of a call are
weakly fair, on the same grounds. In `Presigner` each caller's and each verification's
steps are: `GetData` has its timeout, `VerifyGetCallerIdentity` a client timeout of 5 s and
3 s of retries, and retrieving credentials fails or does not. A listing of GCP in which
a page fails over and over is asked for without end (`gcp_secretsmanager.go:193-217`),
so nothing is claimed of the end of a load.

### Claims that do not hold

Each of these runs checks one claim of the repository and ends in a
counterexample; `PROJECT.json` quotes the claim.

| Run | Counterexample |
|---|---|
| `bad_request` | a PUT with an unsupported API type is answered 400 and stored |
| `stale_alias` | a PUT without a tag leaves the old entry readable under it |
| `lost_overwrite` | a PUT that inherits brings back what was overwritten while it was verified |
| `overlapping_puts` | two PUTs succeed, one entry is served and the other is stored |
| `role_durations` | a reader of an hour gets a macaroon for ten minutes, as every reader with a password does |
| `memory_only` | a probe times out at the start; what is acknowledged is gone after the next |

## 4. Proofs

`VaultProofs` proves `TypeInvariant == Spec => []TypeOK` from the assumptions on the
constants alone. It has a lemma for each operator of `PutRules` that yields an entry
(`MergedTyped`: what a PUT that was not rejected keeps is an entry), lemmas for the
five groups the variables fall into, and one for each group of actions.

`VaultSafety` proves `Spec => []Durable` and `Spec => []Coherent` for any number of
requests under two hypotheses: no tag with a unique id spells the name of a secret
(`TagsNeverShadow`) and there are no secrets with two-part names. Both are needed: a
tag that spells the name of another secret of the same node replaces what is cached
for it, and a secret that was deleted comes back from a two-part name, which DELETE
does not know, at the next start. Both are evaluated by the runs of `MCVault`, so
that the runs are instances of the theorems.

Neither property is inductive. `Durable` at the end of a write needs to know that
the call took effect and that no other writer has changed the secret since; for
`Coherent` a write in progress must be known to have updated `Lookup`, and the load to
lose nothing. `IInv` adds to them:

* `OwnPubKey`: a secret holds an entry of its own pubkey;
* `CallOfHandler`: handlers run only while the vault is up, and a call to the
  manager is for the secret and the entry of its handler;
* `WriterInv`: a secret under a write is in doubt, and a writer that is alone is the
  only one and finds in `Lookup` and `store` what it has done;
* `AloneWrites`, `TodoAliases`: `alone` holds writers only, and what a handler has still
  to do to `Lookup` is to aliases of its entry;
* `LoadInv`: during the load a secret is cached or about to be.

The steps fall into a few kinds, each with a lemma: those that begin or end no
write and leave primary names alone (`QuietStep`), the beginning of a write
(`BeginningStep`), its end (`EndingStep`), an attempt (`AttemptStep`), the move of a
DELETE to `Lookup` (`DeletedStep`), the load (`StartStep`) and the crash (`CrashStep`).
`ClientStep`, `HandlerStep` and `ReturnedStep` assign every action to its kind.

`VaultSteps` states once, for each step, what it does to positions, jobs and `Lookup` at
their points (`BeginEffect`, `AliasWriteEffect`, ...), for the proofs about handlers. From
that alone follow two theorems without hypotheses, for any number of requests:

* `HandlersGoOn`: a step of a handler takes it to a later stage, or leaves it fewer names
  to write (`HandlersAdvance`). The invariant is `TagToWrite`, that the tag being written
  is no longer among those still to do.
* `StoreAsPromised`: what happens to `store` and `calls` is a behaviour of `SecretStore`.
  With `ManagersImplementStore` this closes the chain from the handlers to the requests:
  `Vault` uses the abstract store as `Platform` implements it. TLC does not check
  it: evaluating `StoreNext` would enumerate all entries.

`VaultAliases` is about names, under three hypotheses, which `MCTags` evaluates
(`AliasHypotheses`). `TagsNeverShadow` is the one above. `OneRequest` excludes two requests
at a time: of two PUTs that overlap each can find an alias free, and one
can put back what the other has overwritten (`lost_overwrite`). `TagsKept` says that all
entries that are given for a node, or stored at first, have the same tags: no PUT removes the names of
tags that the new entry leaves out (`stale_alias`). Two-part names are allowed throughout.

| Theorem | Property | Hypotheses | Inductive invariant |
|---|---|---|---|
| `NamesAreOwn` | `OwnNames` | `TagsNeverShadow` | `OwnInv` |
| `AliasesStay` | `AliasNeverStolen` | `OneRequest`, `TagsNeverShadow` | `OwnInv`, `CheckedOwned` |
| `OverwrittenStaysInvalid` | `InvalidatedStaysInvalid` | `OneRequest`, `TagsNeverShadow` | `OwnInv`, `NothingRevived` |
| `AliasesAreFresh` | `AliasFresh` | all three | `AliasInv` |

`OwnInv` adds to `OwnNames` that what handlers have still to write are aliases of their
entry, which with `TagsNeverShadow` are no primary names. `CheckedOwned` carries the look at
an alias to its write, `NothingRevived` the authenticator that a PUT has inherited to
where it is cached: it is still the one that is served. `AliasFresh` speaks of a
vault without a request, and `AliasInv` of the way there: each name belongs to a secret
by `NamedBy`, and either has what the primary name has (`UpToDate`), and is
still to be written if a handler is about to change that, or the handler
has been there (`Ahead`).
`KeptTags` extends `TagsKept` to whatever the program holds.

`VaultPolicy` proves `Spec => []KeptIsConnectable`, if what the secrets manager holds
at first can be connected with (`InitialConnectable`). The lemma
`NotRejectedConnectable` has the rules, with `PortFound` for the port (`HasPort` says
what one is without `ExtractPort`): an entry that `Rejected` lets through is
connectable whatever the body and the inherited entry were, so it does not matter
that the latter may be stale by then. `KeptInv` carries this from the check to the
store: the entries of PUTs under way, and the values of calls under way, are
connectable too.

`ServedMatches`, in the same module, proves `Spec => []ServedMatchesApi` under the
hypothesis that entries with two-part names can be connected with, too
(`LegacyConnectable`): they are cached at the start and no check has seen them.
`ServedInv` extends connectability to `Lookup` and to what the load has still to cache,
and `ConstrainedMatches` has the case analysis: limiting the authenticator of an entry that
can be connected with gives one of the kind the API takes, for each duration.
`LimitedAssumption` says that a limited authenticator is not the empty string.

`PlatformProofs` proves the safety properties of `Platform` and the refinement for any
number of clients, secrets, values and attempts. Both managers' requests are of two
kinds, and the proofs about invariants know no others: a `LocalStep` changes the position
of a call, a `WriteStep` changes the secret it is for. `ProgressKind` assigns each request
to its kind, with the conditions under which it happens. `Inv` has five parts:

* `CallsInv`: what a call knows by its position; above all that `absent` is true whenever the
  secret holds nothing now, or the call is about to report that it has inserted it;
* `WritersInv`: a call that is alone is the only one for its secret, and once it has taken
  effect the secret is what it wrote;
* `StartInv`: a load only during the start, and the manager in memory never where the
  provider is named;
* `StoredInv`: what is settled is what the cloud holds;
* `LoadInv`: what was got, and is neither still to do nor failed, is what the cloud holds.

`CallsGoForward` says that a call makes boundedly many requests: `Rank` orders those of an
attempt, `AwsForward` and `GcpForward` go through them, and `WriteResult` says that
the requests of others leave a call's position alone.

`NamedPersists` is `StoredInv` and `LoadInv` at the end of a load. For
`ManagersImplementStore`, `CallViews` says what `SecretStore` sees of a call; local steps are
stutters (`LocalStutters`), writes are `Apply` or stutters (`WriteApplies`), ends are
`Succeed` or `Fail` (`EndsAtStore`, which needs `CallsInv`: what returns has taken effect), and a
crash abandons all calls. `StoreAssumption`, that the mark of no call is no call, is the
only hypothesis about the abstract side.

`PresignerProofs` proves both properties for any validities and times under
`PresignerAssumption`, which relates the constants as the code's values are related (a
token is cached for a minute less than it lives, or for even less; a minute is longer than the
timeout, a lag and a second). `ServerInv` follows a query through the vault:
vouched for while good, cached within a lag of that, dropped on time. `ClientInv` does so
through the client: what the cache returns has a minute to live, less a lag and the
fraction of a second that `X-Amz-Expires` has lost, and who waits does so in time.

`RolesProofs` proves the four properties of `Roles` for any environment. The invariant
describes the dictionaries by the lists they are made of: each password in one of
them comes from an entry, each user of an entry has one, and what is in the dictionary
for `/put/` is in that for `/query/`. `EnvironmentsAssumption` contains a fact that holds
of every finite list, that each user of an entry has a last one, since the provers
have no induction.

Only model-checked: liveness (`RequestsFinish`, `CallsReturn` of `Platform` and of
`Presigner`), which is out of reach of the prover. Of the first two, `HandlersGoOn` and
`CallsGoForward` prove the part that is not fairness: each step that is taken brings
the end closer. That a step can be taken, and is, is left to TLC.

## 5. What is left out

* `Vault` takes every request as authorized, and GET with every duration that a role
  is meant to have; what authentication admits is in `Roles`.
* Data races on `Lookup`: each access is atomic; that the Go runtime may end the
  process over concurrent access is a case of `Crash`.
* A request to the cloud that is under way when the process dies, or is given up,
  takes effect before that or not at all.
* The server closes connections after `TIMEOUT`, 10 s by default: a client may not
  get the answer that `reply` holds. The handler goes on, as in the model.
* The ambiguity of names that are not tags or pubkeys: `Lookup` is keyed by the
  concatenation of a name and a unique id, so that `/delete/tu` finds the entry put
  with tag `t` and unique id `u`, and deletes the secret without unique id. The runs
  have no base name that is such a concatenation.
* What the status of PUT says after a lost answer: a creation that is repeated is
  reported as an update (200), by both managers. `CreatedWasAbsent` is the direction
  that holds.
* `LoadSecrets` of `Vault` is one step that misses any secrets, two-part names too; the requests behind it
  are in `Platform`. There, no call is under way during a load, as in the code, and the
  secrets a load lists come in pages of any size, empty ones included.
* A delete whose answer was lost fails with GCP on every retry, for the secret is
  gone by then: DELETE answers 500 and the cached entry stays. In `Platform`
  it is a call that failed and may have taken effect, as `SecretStore` allows.
* A PUT whose tag another node has is stored with it and does not get the name; the
  DELETE of its entry then removes the name of the other node. Both are steps of
  `Vault`. Nothing in the repository says that names survive this, and no property does.
* A metadata service answers on its own cloud only.
* JSON that cannot be decoded, and secrets in the manager that are not entries,
  which `initialLoad` skips.
* Consistency of AWS and GCP: what exists is listed.
* Of `Roles`: that the keys of readers are unique is checked of the keys of a map
  (`main.go:256`), so it always holds; one user may have two passwords, of which any is
  in force. A reader whose name is a writer's, with another password, is refused by
  `/query/`, although README.md says that any authorized user may ask;
  `RefusedOnlyIfReplaced` allows it. A reader with an identity has the duration of whatever
  entry its Authorization header spells, or of the empty key an empty variable leaves;
  `Limit` does the same, and no property speaks of it, since the repository says nothing of
  it. Compiling globs and comparing hashes is in `Matching`
  and `PasswordOf`.
* Of `Presigner`: the checks of the shape of a query, which what the library signs always
  passes; the ARN a query stands for; one query that an application keeps, rather than
  any number. The next call of a caller begins when its last one is over at the vault.
* `recoveryMiddleware`, which turns a panic of a handler into an answer.

Not modelled at all: metrics and the audit log, which nothing reads; `allNodes` and
`dump`, which write files; deployment. Two instances overlap while a new version is
deployed, each with a `Lookup` of its own over one secrets manager: which of them a
request reaches, and for how long, is decided by ECS, and nothing in `src/` keeps two
`Lookup`s together, so a model of it would have no code to be faithful to and no
property to show. Two-part names and names that are a concatenation of two others
are the cases in which `Durable` and `Coherent` are known not to hold (section 4).
