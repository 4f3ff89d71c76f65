------------------------------ MODULE Presigner ------------------------------
(***************************************************************************)
(* Presigned URLs of sts/GetCallerIdentity as proof of identity, end to    *)
(* end: PresignGetCallerIdentity and its identityCache in the client       *)
(* library, the requests of GetData, VerifyGetCallerIdentity and its       *)
(* tokenCache in the vault, and STS, which alone can tell whether a query  *)
(* is good.  The three have one clock, in ticks.                           *)
(*                                                                         *)
(* Tick and the timers bound from above what the code does without         *)
(* waiting for anything (Lag) and how long GetData waits (Timeout).        *)
(***************************************************************************)
EXTENDS Integers

CONSTANTS Callers,         \* users of the client library
          Credentials,     \* sets of AWS credentials, which come and go
          Validities,      \* durations callers ask for
          Second, Minute,  \* in ticks
          DefaultValidity, DefaultCacheTime,
          Timeout,         \* of GetData's HTTP client
          Lag,             \* at most, from a signature or an answer to a cache
          MaxTime,         \* bound on the clock
          None

Positive == Nat \ {0}

ASSUME PresignerAssumption ==
    /\ Validities \subseteq Int
    /\ Second \in Positive /\ Minute \in Positive /\ Timeout \in Positive
    /\ DefaultValidity \in Positive /\ DefaultCacheTime \in Positive
    /\ Lag \in Nat /\ MaxTime \in Nat
    /\ DefaultCacheTime + Minute <= DefaultValidity
    /\ Timeout + Lag + Second <= Minute

ASSUME NoneAssumption == None \notin Int

VARIABLES now,
          kept,           \* a query that an application holds on to
          ended,          \* when each set of credentials expired, if it did
          identityCache,  \* of the client process, by validity
          caller,         \* the call of each caller
          tokenCache,     \* of the vault, by query
          request         \* the request of each caller, at the vault

clientVars == <<identityCache, caller>>
serverVars == <<tokenCache, request>>
vars == <<now, kept, ended, identityCache, caller, tokenCache, request>>

Times == 0..MaxTime

(* A query string: who signed it, when, and when that expires.              *)
Query == [cred : Credentials, signed : Times, expires : Int]

ASSUME QueryAssumption == None \notin Query

Keys == Validities \cup {DefaultValidity}

Cached == [query : Query, until : Int]

Call == [step : {"idle", "retrieve", "signed", "waiting"},
         validity : Keys, query : Query \cup {None}, since : Times, fresh : BOOLEAN]

Verification == [step : {"idle", "received", "asking", "vouched"},
                 query : Query \cup {None}, at : Times]

ASSUME CachedAssumption == None \notin Cached

NoCall == [step |-> "idle", validity |-> DefaultValidity, query |-> None,
           since |-> 0, fresh |-> FALSE]

NoRequest == [step |-> "idle", query |-> None, at |-> 0]

TypeOK ==
    /\ now \in Times
    /\ kept \in Query \cup {None}
    /\ ended \in [Credentials -> Times \cup {None}]
    /\ identityCache \in [Keys -> Cached \cup {None}]
    /\ caller \in [Callers -> Call]
    /\ tokenCache \subseteq Cached
    /\ request \in [Callers -> Verification]
    /\ \A c \in Callers : caller[c].step \in {"signed", "waiting"} => caller[c].query \in Query
    /\ \A c \in Callers : request[c].step # "idle" => request[c].query \in Query

Init ==
    /\ now = 0
    /\ kept = None
    /\ ended = [k \in Credentials |-> None]
    /\ identityCache = [v \in Keys |-> None]
    /\ caller = [c \in Callers |-> NoCall]
    /\ tokenCache = {}
    /\ request = [c \in Callers |-> NoRequest]

-----------------------------------------------------------------------------
(* The client library                                                       *)

(* A validity that is not positive means the default.                       *)
Effective(v) == IF v <= 0 THEN DefaultValidity ELSE v

(* X-Amz-Expires is in whole seconds.                                       *)
Lifetime(v) == Effective(v) - (Effective(v) % Second)

(* How long a new token stays in identityCache; not at all unless positive. *)
IdentityTTL(v) ==
    IF Effective(v) = DefaultValidity THEN DefaultCacheTime ELSE Effective(v) - Minute

(* The request of c leaves with query q, and the vault receives it.         *)
Send(c, q, fresh) ==
    /\ caller' = [caller EXCEPT ![c] =
           [NoCall EXCEPT !.step = "waiting", !.query = q, !.since = now, !.fresh = fresh]]
    /\ request' = [request EXCEPT ![c] =
           [step |-> "received", query |-> q, at |-> 0]]

(* The previous request of c is over at the vault as well.                  *)
CanCall(c) == caller[c].step = "idle" /\ request[c].step = "idle"

(* Mutant: a hit extends the time to live (SkipTtlExtensionOnHit is unset). *)
PresignHitExtends(c, v) ==
    /\ CanCall(c)
    /\ identityCache[v] # None
    /\ Send(c, identityCache[v].query, TRUE)
    /\ identityCache' = [identityCache EXCEPT ![v].until = now + IdentityTTL(v)]
    /\ UNCHANGED <<now, kept, ended, tokenCache>>

PresignHit(c, v) ==
    /\ CanCall(c)
    /\ identityCache[v] # None
    /\ Send(c, identityCache[v].query, TRUE)
    /\ UNCHANGED <<now, kept, ended, identityCache, tokenCache>>

PresignMiss(c, v) ==
    /\ CanCall(c)
    /\ identityCache[v] = None
    /\ caller' = [caller EXCEPT ![c].step = "retrieve", ![c].validity = v]
    /\ UNCHANGED <<now, kept, ended, identityCache, serverVars>>

(* Mutant: the error is not returned.                                       *)
RetrieveFailsUnnoticed(c) ==
    /\ caller[c].step = "retrieve"
    /\ caller' = [caller EXCEPT ![c].step = "signed"]
    /\ UNCHANGED <<now, kept, ended, identityCache, serverVars>>

(* Mutant: expired credentials are retrieved again, and again.              *)
RetrieveAgain(c) ==
    /\ caller[c].step = "retrieve"
    /\ caller' = [caller EXCEPT ![c] = IF \E k \in Credentials : ended[k] = None
                                           THEN NoCall ELSE @]
    /\ UNCHANGED <<now, kept, ended, identityCache, serverVars>>

(* No configuration, no credentials, or expired ones: an error.             *)
RetrieveFails(c) ==
    /\ caller[c].step = "retrieve"
    /\ caller' = [caller EXCEPT ![c] = NoCall]
    /\ UNCHANGED <<now, kept, ended, identityCache, serverVars>>

PresignHTTP(c) ==
    /\ caller[c].step = "retrieve"
    /\ \E k \in Credentials :
          /\ ended[k] = None
          /\ caller' = [caller EXCEPT
                 ![c].step = "signed",
                 ![c].query = [cred |-> k, signed |-> now,
                               expires |-> now + Lifetime(caller[c].validity)]]
    /\ UNCHANGED <<now, kept, ended, identityCache, serverVars>>

(* A validity of 0 is looked up as such and cached as the default.          *)
CacheIdentity(c) ==
    LET v == caller[c].validity
        q == caller[c].query
    IN  /\ caller[c].step = "signed"
        /\ identityCache' =
               IF IdentityTTL(v) <= 0 THEN identityCache
               ELSE [identityCache EXCEPT ![Effective(v)] =
                        [query |-> q, until |-> now + IdentityTTL(v)]]
        /\ Send(c, q, TRUE)
        /\ UNCHANGED <<now, kept, ended, tokenCache>>

(* An application, unlike GetData, keeps what PresignGetCallerIdentity      *)
(* returned ...                                                             *)
Keep(c) ==
    /\ kept = None
    /\ caller[c].step = "waiting"
    /\ kept' = caller[c].query
    /\ UNCHANGED <<now, ended, clientVars, serverVars>>

(* ... and sends it at any later time.                                      *)
Reuse(c) ==
    /\ CanCall(c)
    /\ kept # None
    /\ Send(c, kept, FALSE)
    /\ UNCHANGED <<now, kept, ended, identityCache, tokenCache>>

(* The HTTP client gives up on the vault.                                   *)
GiveUp(c) ==
    /\ caller[c].step = "waiting"
    /\ now = caller[c].since + Timeout
    /\ caller' = [caller EXCEPT ![c] = NoCall]
    /\ UNCHANGED <<now, kept, ended, identityCache, serverVars>>

-----------------------------------------------------------------------------
(* VerifyGetCallerIdentity                                                  *)

Hits(q) == {i \in tokenCache : i.query = q}

(* 200 or 401, to a caller that may have given up.                          *)
Respond(c) ==
    /\ request' = [request EXCEPT ![c] = NoRequest]
    /\ caller' = IF caller[c].step = "waiting" THEN [caller EXCEPT ![c] = NoCall] ELSE caller
    /\ UNCHANGED <<now, kept, ended, identityCache>>

(* Mutant: a hit extends the time to live.                                  *)
VerifyHitExtends(c) ==
    LET q == request[c].query IN
    /\ request[c].step = "received"
    /\ Hits(q) # {}
    /\ Respond(c)
    /\ tokenCache' = (tokenCache \ Hits(q)) \cup
                     {[query |-> q, until |-> now + DefaultCacheTime]}

VerifyHit(c) ==
    /\ request[c].step = "received"
    /\ Hits(request[c].query) # {}
    /\ Respond(c)
    /\ UNCHANGED tokenCache

VerifyMiss(c) ==
    /\ request[c].step = "received"
    /\ Hits(request[c].query) = {}
    /\ request' = [request EXCEPT ![c].step = "asking"]
    /\ UNCHANGED <<now, kept, ended, clientVars, tokenCache>>

(* STS: the query has not expired, and neither have the credentials.        *)
Good(q) == now < q.expires /\ ended[q.cred] = None

StsVouches(c) ==
    /\ request[c].step = "asking"
    /\ Good(request[c].query)
    /\ request' = [request EXCEPT ![c].step = "vouched", ![c].at = now]
    /\ UNCHANGED <<now, kept, ended, clientVars, tokenCache>>

(* STS refuses the query, cannot be reached in the time for retries, or     *)
(* answers something else.                                                  *)
VerifyFails(c) ==
    /\ request[c].step = "asking"
    /\ Respond(c)
    /\ UNCHANGED tokenCache

VerifyDone(c) ==
    LET q == request[c].query IN
    /\ request[c].step = "vouched"
    /\ tokenCache' = (tokenCache \ Hits(q)) \cup
                     {[query |-> q, until |-> now + DefaultCacheTime]}
    /\ Respond(c)

-----------------------------------------------------------------------------
(* Credentials and time                                                     *)

CredentialsEnd(k) ==
    /\ ended[k] = None
    /\ ended' = [ended EXCEPT ![k] = now]
    /\ UNCHANGED <<now, kept, clientVars, serverVars>>

TimersAllow ==
    \A c \in Callers :
        /\ caller[c].step = "waiting" => now < caller[c].since + Timeout
        /\ caller[c].step = "signed" => now < caller[c].query.signed + Lag
        /\ request[c].step = "vouched" => now < request[c].at + Lag

(* ttlcache drops what is past its time to live.                            *)
Tick ==
    /\ now < MaxTime
    /\ TimersAllow
    /\ now' = now + 1
    /\ identityCache' = [v \in Keys |->
           IF identityCache[v] # None /\ identityCache[v].until < now' THEN None
           ELSE identityCache[v]]
    /\ tokenCache' = {i \in tokenCache : i.until >= now'}
    /\ UNCHANGED <<kept, ended, caller, request>>

-----------------------------------------------------------------------------
CallerStep(c) == RetrieveFails(c) \/ PresignHTTP(c) \/ CacheIdentity(c) \/ GiveUp(c)

ServerStep(c) ==
    VerifyHit(c) \/ VerifyMiss(c) \/ StsVouches(c) \/ VerifyFails(c) \/ VerifyDone(c)

Next ==
    \/ \E c \in Callers :
          \/ \E v \in Validities : PresignHit(c, v) \/ PresignMiss(c, v)
          \/ Keep(c) \/ Reuse(c)
          \/ CallerStep(c)
          \/ ServerStep(c)
    \/ \E k \in Credentials : CredentialsEnd(k)
    \/ Tick

Spec == Init /\ [][Next]_vars

(* Retrieving credentials fails or does not; the vault's goroutines go on,  *)
(* and a verification that STS does not answer ends with HTTPRetryTime.     *)
FairSpec == Spec /\ \A c \in Callers : WF_vars(CallerStep(c)) /\ WF_vars(ServerStep(c))

-----------------------------------------------------------------------------
(* Properties                                                               *)

(* The vault accepts no identity long after it has ended: however often and *)
(* through whichever of the two caches it is asked, it takes a query for    *)
(* good at most DefaultCacheTime, and a lag, after the query or the         *)
(* credentials that signed it have expired.                                 *)
AcceptedNotLongEnded ==
    \A i \in tokenCache :
        LET end == ended[i.query.cred] IN
        /\ now <= i.query.expires + DefaultCacheTime + Lag
        /\ end # None => now <= end + DefaultCacheTime + Lag

(* The query of a caller of GetData, or of one who sends right away what    *)
(* PresignGetCallerIdentity returns, does not expire while the caller waits, *)
(* be it fresh or cached: the vault does not refuse it on that account.     *)
NotExpiredWhileWaiting ==
    \A c \in Callers :
        LET q == caller[c].query IN
        caller[c].step = "waiting" /\ caller[c].fresh /\ q.expires - q.signed > Timeout + Lag =>
            now < q.expires

(* The inductive invariants behind the two.  A query is vouched for while   *)
(* it is good, is cached within a lag of that, and leaves the cache on time. *)
VouchedOnTime(c) ==
    LET q == request[c].query
        t == request[c].at
    IN  /\ t <= now /\ now <= t + Lag
        /\ t < q.expires
        /\ ended[q.cred] # None => t <= ended[q.cred]

LeavesOnTime(i) ==
    LET end == ended[i.query.cred] IN
    /\ now <= i.until /\ i.until <= now + DefaultCacheTime
    /\ i.until < i.query.expires + DefaultCacheTime + Lag
    /\ end # None => i.until <= end + DefaultCacheTime + Lag

ServerInv ==
    /\ \A c \in Callers : request[c].step = "vouched" => VouchedOnTime(c)
    /\ \A i \in tokenCache : LeavesOnTime(i)

(* What identityCache returns has a minute to live, but for the lag and for *)
(* the fraction of a second that X-Amz-Expires has lost.                    *)
SignedOnTime(c) ==
    LET q == caller[c].query IN
    /\ now <= q.signed + Lag
    /\ q.expires = q.signed + Lifetime(caller[c].validity)

WaitsInTime(c) ==
    LET q == caller[c].query IN
    /\ now <= caller[c].since + Timeout
    /\ caller[c].fresh /\ q.expires - q.signed > Timeout + Lag =>
          caller[c].since + Timeout < q.expires

OutlivesCache(i) ==
    /\ now <= i.until
    /\ i.until + Minute < i.query.expires + Lag + Second

ClientInv ==
    /\ \A c \in Callers :
          /\ caller[c].step = "signed" => SignedOnTime(c)
          /\ caller[c].step = "waiting" => WaitsInTime(c)
    /\ \A v \in Keys : identityCache[v] # None => OutlivesCache(identityCache[v])

(* A call ends, whatever becomes of credentials, STS and the vault's cache. *)
CallsReturn == \A c \in Callers : caller[c].step # "idle" ~> caller[c].step = "idle"
=============================================================================
