--------------------------- MODULE PresignerProofs ---------------------------
(***************************************************************************)
(* Theorems about Presigner, for any number of callers and credentials and *)
(* any durations that satisfy PresignerAssumption.                         *)
(***************************************************************************)
EXTENDS Presigner, TLAPS

USE PresignerAssumption, NoneAssumption, QueryAssumption, CachedAssumption

(* X-Amz-Expires loses less than a second of a validity that is positive.   *)
LEMMA LifetimeTruncated ==
    ASSUME NEW v \in Keys
    PROVE  /\ Effective(v) \in Positive
           /\ Lifetime(v) \in Int
           /\ Effective(v) - Second < Lifetime(v)
           /\ IdentityTTL(v) \in Int
           /\ Effective(v) \in Keys
<1>1. v \in Int
  BY DEF Keys, Positive
<1>2. Effective(v) \in Positive /\ Effective(v) \in Keys
  BY <1>1 DEF Effective, Keys, Positive
<1>3. Effective(v) % Second \in 0..(Second - 1)
  BY <1>2 DEF Positive
<1>4. Lifetime(v) \in Int /\ Effective(v) - Second < Lifetime(v)
  BY <1>2, <1>3 DEF Lifetime, Positive
<1>5. IdentityTTL(v) \in Int
  BY <1>2 DEF IdentityTTL, Positive
<1>6. QED
  BY <1>2, <1>4, <1>5

(* The types of what a request at the vault and a call are left with.       *)
LEMMA RestTyped == NoCall \in Call /\ NoRequest \in Verification
<1>1. DefaultValidity \in Keys /\ 0 \in Times
  BY DEF Keys, Times
<1>2. QED
  BY <1>1 DEF NoCall, NoRequest, Call, Verification

(* Send leaves a typed call and a typed request.                            *)
LEMMA SendTyped ==
    ASSUME TypeOK, NEW c \in Callers, NEW q \in Query, NEW fresh \in BOOLEAN,
           Send(c, q, fresh)
    PROVE  /\ caller' \in [Callers -> Call]
           /\ request' \in [Callers -> Verification]
           /\ \A d \in Callers : caller'[d].step \in {"signed", "waiting"} =>
                                     caller'[d].query \in Query
           /\ \A d \in Callers : request'[d].step # "idle" => request'[d].query \in Query
<1>1. DefaultValidity \in Keys /\ 0 \in Times
  BY DEF Keys, Times
<1>2. QED
  BY <1>1 DEF TypeOK, Send, NoCall, NoRequest, Call, Verification

(* Respond does.                                                            *)
LEMMA RespondTyped ==
    ASSUME TypeOK, NEW c \in Callers, Respond(c)
    PROVE  /\ caller' \in [Callers -> Call]
           /\ request' \in [Callers -> Verification]
           /\ \A d \in Callers : caller'[d].step \in {"signed", "waiting"} =>
                                     caller'[d].query \in Query
           /\ \A d \in Callers : request'[d].step # "idle" => request'[d].query \in Query
  BY RestTyped DEF TypeOK, Respond, NoCall, NoRequest

(* Init.                                                                    *)
LEMMA InitTyped == Init => TypeOK
<1>1. 0 \in Times
  BY DEF Times
<1>2. QED
  BY <1>1, RestTyped DEF Init, TypeOK, NoCall, NoRequest

(* The induction step for TypeOK.                                           *)
LEMMA TypeStep == TypeOK /\ [Next]_vars => TypeOK'
<1> SUFFICES ASSUME TypeOK, [Next]_vars PROVE TypeOK'
  OBVIOUS
<1>1. ASSUME NEW c \in Callers, NEW v \in Validities, PresignHit(c, v) PROVE TypeOK'
  <2>1. v \in Keys
    BY DEF Keys
  <2>2. identityCache[v].query \in Query
    BY <1>1, <2>1 DEF PresignHit, TypeOK, Cached
  <2>3. Send(c, identityCache[v].query, TRUE)
    BY <1>1 DEF PresignHit
  <2>4. QED
    BY <1>1, <2>2, <2>3, SendTyped DEF PresignHit, TypeOK
<1>2. ASSUME NEW c \in Callers, NEW v \in Validities, PresignMiss(c, v) PROVE TypeOK'
  <2>1. v \in Keys
    BY DEF Keys
  <2>2. caller' \in [Callers -> Call]
    <3>1. [caller[c] EXCEPT !.step = "retrieve", !.validity = v] \in Call
      BY <2>1 DEF TypeOK, Call
    <3>2. caller' = [caller EXCEPT ![c] = [caller[c] EXCEPT !.step = "retrieve", !.validity = v]]
      BY <1>2 DEF PresignMiss, TypeOK
    <3>3. QED
      BY <3>1, <3>2 DEF TypeOK
  <2>3. \A d \in Callers : caller'[d].step \in {"signed", "waiting"} =>
                               caller'[d].query \in Query
    BY <1>2 DEF PresignMiss, TypeOK, Call
  <2>4. QED
    BY <1>2, <2>2, <2>3 DEF PresignMiss, serverVars, TypeOK
<1>3. ASSUME NEW c \in Callers, Keep(c) PROVE TypeOK'
  BY <1>3 DEF Keep, clientVars, serverVars, TypeOK
<1>4. ASSUME NEW c \in Callers, Reuse(c) PROVE TypeOK'
  <2>1. kept \in Query /\ Send(c, kept, FALSE)
    BY <1>4 DEF Reuse, TypeOK
  <2>2. QED
    BY <1>4, <2>1, SendTyped DEF Reuse, TypeOK
<1>5. ASSUME NEW c \in Callers, CallerStep(c) PROVE TypeOK'
  <2>1. CASE RetrieveFails(c) \/ GiveUp(c)
    <3>1. caller' = [caller EXCEPT ![c] = NoCall]
      BY <2>1 DEF RetrieveFails, GiveUp
    <3>2. caller' \in [Callers -> Call]
      BY <3>1, RestTyped DEF TypeOK
    <3>3. \A d \in Callers : caller'[d].step \in {"signed", "waiting"} =>
                                 caller'[d].query \in Query
      BY <3>1 DEF TypeOK, NoCall
    <3>4. QED
      BY <2>1, <3>2, <3>3 DEF RetrieveFails, GiveUp, serverVars, TypeOK
  <2>2. CASE PresignHTTP(c)
    <3>1. PICK k \in Credentials :
             caller' = [caller EXCEPT
                 ![c].step = "signed",
                 ![c].query = [cred |-> k, signed |-> now,
                               expires |-> now + Lifetime(caller[c].validity)]]
      BY <2>2 DEF PresignHTTP
    <3>2. caller[c].validity \in Keys /\ now \in Int /\ now \in Times
      BY DEF TypeOK, Call, Times
    <3>3. [cred |-> k, signed |-> now,
           expires |-> now + Lifetime(caller[c].validity)] \in Query
      BY <3>2, LifetimeTruncated DEF Query
    <3>4. caller' \in [Callers -> Call]
      <4> DEFINE q == [cred |-> k, signed |-> now,
                       expires |-> now + Lifetime(caller[c].validity)]
      <4>1. [caller[c] EXCEPT !.step = "signed", !.query = q] \in Call
        <5> HIDE DEF q
        <5> QED
          BY <3>3 DEF TypeOK, Call, q
      <4>2. caller' = [caller EXCEPT ![c] = [caller[c] EXCEPT !.step = "signed", !.query = q]]
        BY <3>1 DEF TypeOK
      <4>3. QED
        BY <4>1, <4>2 DEF TypeOK
    <3>5. \A d \in Callers : caller'[d].step \in {"signed", "waiting"} =>
                                 caller'[d].query \in Query
      BY <3>1, <3>3 DEF TypeOK, Call
    <3>6. QED
      BY <2>2, <3>4, <3>5 DEF PresignHTTP, serverVars, TypeOK
  <2>3. CASE CacheIdentity(c)
    <3> DEFINE v == caller[c].validity
               q == caller[c].query
    <3>1. Send(c, q, TRUE)
      BY <2>3 DEF CacheIdentity
    <3>2. q \in Query
      BY <2>3 DEF CacheIdentity, TypeOK
    <3>3. v \in Keys /\ now \in Int
      BY DEF TypeOK, Call, Times
    <3>4. [query |-> q, until |-> now + IdentityTTL(v)] \in Cached
      BY <3>2, <3>3, LifetimeTruncated DEF Cached
    <3>5. identityCache' \in [Keys -> Cached \cup {None}]
      BY <2>3, <3>3, <3>4, LifetimeTruncated DEF CacheIdentity, TypeOK
    <3>6. QED
      BY <2>3, <3>1, <3>2, <3>5, SendTyped DEF CacheIdentity, TypeOK
  <2>4. QED
    BY <1>5, <2>1, <2>2, <2>3 DEF CallerStep
<1>6. ASSUME NEW c \in Callers, ServerStep(c) PROVE TypeOK'
  <2>1. CASE VerifyHit(c) \/ VerifyFails(c)
    BY <2>1, RespondTyped DEF VerifyHit, VerifyFails, Respond, TypeOK
  <2>2. CASE VerifyMiss(c) \/ StsVouches(c)
    BY <2>2 DEF VerifyMiss, StsVouches, clientVars, TypeOK, Verification
  <2>3. CASE VerifyDone(c)
    <3>1. request[c].query \in Query /\ now \in Int
      BY <2>3 DEF VerifyDone, TypeOK, Times
    <3>2. [query |-> request[c].query, until |-> now + DefaultCacheTime] \in Cached
      BY <3>1 DEF Cached, Positive
    <3>3. tokenCache' \subseteq Cached
      BY <2>3, <3>2 DEF VerifyDone, TypeOK
    <3>4. QED
      BY <2>3, <3>3, RespondTyped DEF VerifyDone, Respond, TypeOK
  <2>4. QED
    BY <1>6, <2>1, <2>2, <2>3 DEF ServerStep
<1>7. ASSUME NEW k \in Credentials, CredentialsEnd(k) PROVE TypeOK'
  BY <1>7 DEF CredentialsEnd, clientVars, serverVars, TypeOK
<1>8. CASE Tick
  BY <1>8 DEF Tick, TypeOK, Times
<1>9. CASE UNCHANGED vars
  BY <1>9 DEF vars, TypeOK
<1>10. QED
  BY <1>1, <1>2, <1>3, <1>4, <1>5, <1>6, <1>7, <1>8, <1>9 DEF Next

(* Whatever callers ask for and however credentials come and go, the        *)
(* variables keep their types: a call that has a token has a query.         *)
THEOREM PresignerTypes == Spec => []TypeOK
  BY InitTyped, TypeStep, PTL DEF Spec

-----------------------------------------------------------------------------
(* The vault                                                                *)

(* A step that leaves time and credentials alone disturbs only what it      *)
(* caches and what it has vouched for.                                      *)
LEMMA ServerQuiet ==
    ASSUME ServerInv, UNCHANGED <<now, ended>>,
           \A c \in Callers : request'[c].step = "vouched" =>
               request'[c] = request[c] \/ VouchedOnTime(c)',
           \A i \in tokenCache' : i \in tokenCache \/ LeavesOnTime(i)'
    PROVE  ServerInv'
<1>1. \A c \in Callers : request'[c].step = "vouched" => VouchedOnTime(c)'
  BY DEF ServerInv, VouchedOnTime
<1>2. \A i \in tokenCache' : LeavesOnTime(i)'
  BY DEF ServerInv, LeavesOnTime
<1>3. QED
  BY <1>1, <1>2 DEF ServerInv

(* The induction step for ServerInv.                                        *)
LEMMA ServerInvStep == TypeOK /\ ServerInv /\ [Next]_vars => ServerInv'
<1> SUFFICES ASSUME TypeOK, ServerInv, [Next]_vars PROVE ServerInv'
  OBVIOUS
<1>a. now \in Int /\ now \in Times /\ DefaultCacheTime \in Int
  BY DEF TypeOK, Times, Positive
<1>1. ASSUME NEW c \in Callers, NEW q, NEW fresh, Send(c, q, fresh),
             UNCHANGED <<now, ended, tokenCache>>
      PROVE  ServerInv'
  BY <1>1, ServerQuiet DEF Send, TypeOK
<1>2. ASSUME UNCHANGED <<now, ended, serverVars>> PROVE ServerInv'
  BY <1>2, ServerQuiet DEF serverVars
<1>3. ASSUME NEW c \in Callers, Respond(c),
             \A i \in tokenCache' : i \in tokenCache \/ LeavesOnTime(i)'
      PROVE  ServerInv'
  BY <1>3, ServerQuiet DEF Respond, NoRequest, TypeOK
<1>4. ASSUME NEW c \in Callers,
             (\E v \in Validities : PresignHit(c, v) \/ PresignMiss(c, v)) \/ Keep(c) \/ Reuse(c)
      PROVE  ServerInv'
  BY <1>1, <1>2, <1>4 DEF PresignHit, PresignMiss, Keep, Reuse, serverVars
<1>5. ASSUME NEW c \in Callers, CallerStep(c) PROVE ServerInv'
  BY <1>1, <1>2, <1>5 DEF CallerStep, RetrieveFails, PresignHTTP, CacheIdentity, GiveUp, serverVars
<1>6. ASSUME NEW c \in Callers, ServerStep(c) PROVE ServerInv'
  <2>1. CASE VerifyHit(c) \/ VerifyFails(c)
    BY <1>3, <2>1 DEF VerifyHit, VerifyFails
  <2>2. CASE VerifyMiss(c)
    BY <2>2, ServerQuiet DEF VerifyMiss, TypeOK
  <2>3. CASE StsVouches(c)
    <3>1. VouchedOnTime(c)'
      BY <1>a, <2>3 DEF StsVouches, Good, VouchedOnTime, TypeOK, Verification, Query
    <3>2. QED
      BY <2>3, <3>1, ServerQuiet DEF StsVouches, TypeOK
  <2>4. CASE VerifyDone(c)
    <3>0. PICK i : i = [query |-> request[c].query, until |-> now + DefaultCacheTime]
      OBVIOUS
    <3>1. VouchedOnTime(c)
      BY <2>4 DEF VerifyDone, ServerInv
    <3>2. LeavesOnTime(i)'
      <4>1. UNCHANGED <<now, ended>>
        BY <2>4 DEF VerifyDone, Respond
      <4>2. request[c].query \in Query /\ request[c].at \in Int
        BY <2>4 DEF VerifyDone, TypeOK, Verification, Times
      <4>3. ended[request[c].query.cred] \in Int \cup {None}
        BY <4>2 DEF TypeOK, Query, Times
      <4>4. i.query = request[c].query /\ i.until = now + DefaultCacheTime
        BY <3>0
      <4>5. QED
        BY <1>a, <3>1, <4>1, <4>2, <4>3, <4>4 DEF VouchedOnTime, LeavesOnTime, Query, Positive
    <3>3. \A j \in tokenCache' : j \in tokenCache \/ LeavesOnTime(j)'
      <4>1. tokenCache' = (tokenCache \ Hits(request[c].query)) \cup {i}
        BY <2>4, <3>0 DEF VerifyDone
      <4>2. QED
        BY <3>2, <4>1
    <3>4. Respond(c)
      BY <2>4 DEF VerifyDone
    <3>5. QED
      BY <1>3, <3>3, <3>4
  <2>5. QED
    BY <1>6, <2>1, <2>2, <2>3, <2>4 DEF ServerStep
(* Credentials that end were good until now: what was vouched for and what  *)
(* is cached was so before.                                                 *)
<1>7. ASSUME NEW k \in Credentials, CredentialsEnd(k) PROVE ServerInv'
  <2>1. ASSUME NEW c \in Callers, request[c].step = "vouched" PROVE VouchedOnTime(c)'
    <3>1. VouchedOnTime(c) /\ request[c].query \in Query
      BY <2>1 DEF ServerInv, TypeOK
    <3>2. QED
      BY <1>7, <3>1 DEF CredentialsEnd, clientVars, serverVars, VouchedOnTime, TypeOK, Query
  <2>2. ASSUME NEW i \in tokenCache PROVE LeavesOnTime(i)'
    <3>1. LeavesOnTime(i) /\ i.query \in Query /\ i.until \in Int
      BY <2>2 DEF ServerInv, TypeOK, Cached
    <3>2. QED
      BY <1>a, <1>7, <3>1 DEF CredentialsEnd, clientVars, serverVars, LeavesOnTime, TypeOK, Query
  <2>3. UNCHANGED <<tokenCache, request>>
    BY <1>7 DEF CredentialsEnd, serverVars
  <2>4. QED
    BY <2>1, <2>2, <2>3 DEF ServerInv
<1>8. CASE Tick
  <2>1. ASSUME NEW c \in Callers, request[c].step = "vouched" PROVE VouchedOnTime(c)'
    <3>1. VouchedOnTime(c) /\ request[c].at \in Int
      BY <2>1 DEF ServerInv, TypeOK, Verification, Times
    <3>2. now < request[c].at + Lag
      BY <1>8, <2>1 DEF Tick, TimersAllow
    <3>3. QED
      BY <1>a, <1>8, <3>1, <3>2 DEF Tick, VouchedOnTime
  <2>2. ASSUME NEW i \in tokenCache' PROVE LeavesOnTime(i)'
    <3>1. LeavesOnTime(i) /\ i.until \in Int /\ i.until >= now'
      BY <1>8, <2>2 DEF Tick, ServerInv, TypeOK, Cached
    <3>2. QED
      BY <1>a, <1>8, <3>1 DEF Tick, LeavesOnTime
  <2>3. QED
    BY <1>8, <2>1, <2>2 DEF ServerInv, Tick
<1>9. CASE UNCHANGED vars
  BY <1>2, <1>9 DEF vars, serverVars
<1>10. QED
  BY <1>4, <1>5, <1>6, <1>7, <1>8, <1>9 DEF Next

(* The vault takes no identity for good longer than DefaultCacheTime, and a *)
(* lag, after it has ended: VerifyGetCallerIdentity and its tokenCache.     *)
THEOREM AcceptedInTime == Spec => []AcceptedNotLongEnded
<1>1. Init => ServerInv
  BY DEF Init, ServerInv, NoRequest
<1>2. TypeOK /\ ServerInv => AcceptedNotLongEnded
  <2> SUFFICES ASSUME TypeOK, ServerInv, NEW i \in tokenCache
               PROVE  LET end == ended[i.query.cred] IN
                      /\ now <= i.query.expires + DefaultCacheTime + Lag
                      /\ end # None => now <= end + DefaultCacheTime + Lag
    BY DEF AcceptedNotLongEnded
  <2>1. LeavesOnTime(i) /\ i.query \in Query /\ i.until \in Int /\ now \in Int
    BY DEF ServerInv, TypeOK, Cached, Times
  <2>2. ended[i.query.cred] \in Int \cup {None}
    BY <2>1 DEF TypeOK, Query, Times
  <2>3. QED
    BY <2>1, <2>2 DEF LeavesOnTime, Query, Positive
<1>3. QED
  BY <1>1, <1>2, PresignerTypes, ServerInvStep, PTL DEF Spec

-----------------------------------------------------------------------------
(* The client library                                                       *)

(* A step that leaves time alone disturbs only the calls it moves and what  *)
(* it caches.                                                               *)
LEMMA ClientQuiet ==
    ASSUME ClientInv, UNCHANGED now,
           \A c \in Callers :
               \/ caller'[c] = caller[c]
               \/ caller'[c].step \notin {"signed", "waiting"}
               \/ caller'[c].step = "signed" /\ SignedOnTime(c)'
               \/ caller'[c].step = "waiting" /\ WaitsInTime(c)',
           \A v \in Keys : \/ identityCache'[v] = identityCache[v]
                           \/ OutlivesCache(identityCache[v])'
    PROVE  ClientInv'
<1>1. ASSUME NEW c \in Callers
      PROVE  /\ caller'[c].step = "signed" => SignedOnTime(c)'
             /\ caller'[c].step = "waiting" => WaitsInTime(c)'
  BY DEF ClientInv, SignedOnTime, WaitsInTime
<1>2. ASSUME NEW v \in Keys, identityCache'[v] # None
      PROVE  OutlivesCache(identityCache[v])'
  BY <1>2 DEF ClientInv, OutlivesCache
<1>3. QED
  BY <1>1, <1>2 DEF ClientInv

(* Sending what has long enough to live, or what the caller does not get    *)
(* right away from PresignGetCallerIdentity.                                *)
LEMMA ClientSends ==
    ASSUME TypeOK, ClientInv, NEW c \in Callers, NEW q \in Query, NEW fresh \in BOOLEAN,
           Send(c, q, fresh), UNCHANGED now,
           fresh /\ q.expires - q.signed > Timeout + Lag => now + Timeout < q.expires,
           \A v \in Keys : \/ identityCache'[v] = identityCache[v]
                           \/ OutlivesCache(identityCache[v])'
    PROVE  ClientInv'
<1>1. /\ caller'[c].step = "waiting" /\ caller'[c].since = now
      /\ caller'[c].query = q /\ caller'[c].fresh = fresh
  BY DEF Send, TypeOK, NoCall
<1>2. now \in Int
  BY DEF TypeOK, Times
<1>3. WaitsInTime(c)'
  BY <1>1, <1>2 DEF WaitsInTime, Positive
<1>4. \A d \in Callers \ {c} : caller'[d] = caller[d]
  BY DEF Send, TypeOK
<1>5. QED
  BY <1>1, <1>3, <1>4, ClientQuiet

(* The induction step for ClientInv.                                        *)
LEMMA ClientInvStep == TypeOK /\ ClientInv /\ [Next]_vars => ClientInv'
<1> SUFFICES ASSUME TypeOK, ClientInv, [Next]_vars PROVE ClientInv'
  OBVIOUS
<1>a. now \in Int /\ now \in Times
  BY DEF TypeOK, Times
<1>1. ASSUME UNCHANGED <<now, clientVars>> PROVE ClientInv'
  BY <1>1, ClientQuiet DEF clientVars
<1>2. ASSUME NEW c \in Callers, NEW v \in Validities, PresignHit(c, v) PROVE ClientInv'
  <2>1. v \in Keys /\ identityCache[v] # None
    BY <1>2 DEF PresignHit, Keys
  <2>2. identityCache[v] \in Cached /\ OutlivesCache(identityCache[v])
    BY <2>1 DEF TypeOK, ClientInv
  <2>3. now + Timeout < identityCache[v].query.expires
    BY <1>a, <2>2 DEF OutlivesCache, Cached, Query, Positive
  <2>4. QED
    BY <1>2, <2>2, <2>3, ClientSends DEF PresignHit, Cached
<1>3. ASSUME NEW c \in Callers, NEW v \in Validities, PresignMiss(c, v) PROVE ClientInv'
  BY <1>3, ClientQuiet DEF PresignMiss, TypeOK
<1>4. ASSUME NEW c \in Callers, Reuse(c) PROVE ClientInv'
  <2>1. kept \in Query
    BY <1>4 DEF Reuse, TypeOK
  <2>2. QED
    BY <1>4, <2>1, ClientSends DEF Reuse
<1>5. ASSUME NEW c \in Callers, CallerStep(c) PROVE ClientInv'
  <2>1. CASE RetrieveFails(c) \/ GiveUp(c)
    BY <2>1, ClientQuiet DEF RetrieveFails, GiveUp, TypeOK, NoCall
  <2>2. CASE PresignHTTP(c)
    <3>1. PICK k \in Credentials :
             caller' = [caller EXCEPT
                 ![c].step = "signed",
                 ![c].query = [cred |-> k, signed |-> now,
                               expires |-> now + Lifetime(caller[c].validity)]]
      BY <2>2 DEF PresignHTTP
    <3>2. /\ caller'[c].step = "signed"
          /\ caller'[c].validity = caller[c].validity
          /\ caller'[c].query.signed = now
          /\ caller'[c].query.expires = now + Lifetime(caller[c].validity)
      BY <3>1 DEF TypeOK, Call
    <3>3. SignedOnTime(c)'
      BY <1>a, <2>2, <3>2 DEF SignedOnTime, PresignHTTP
    <3>4. \A d \in Callers \ {c} : caller'[d] = caller[d]
      BY <3>1 DEF TypeOK
    <3>5. QED
      BY <2>2, <3>2, <3>3, <3>4, ClientQuiet DEF PresignHTTP
  <2>3. CASE CacheIdentity(c)
    <3>0. PICK v, q : v = caller[c].validity /\ q = caller[c].query
      OBVIOUS
    <3>1. v \in Keys /\ q \in Query /\ SignedOnTime(c)
      BY <2>3, <3>0 DEF CacheIdentity, TypeOK, Call, ClientInv
    <3>2. now <= q.signed + Lag /\ q.expires = q.signed + Lifetime(v) /\ q.signed \in Int
      BY <3>0, <3>1 DEF SignedOnTime, Query, Times
    <3>3. q.expires - q.signed > Timeout + Lag => now + Timeout < q.expires
      BY <1>a, <3>1, <3>2 DEF Query, Positive
(* The margin: what is cached for less than its validity outlives the cache. *)
    <3>4. IdentityTTL(v) > 0 =>
             /\ now <= now + IdentityTTL(v)
             /\ now + IdentityTTL(v) + Minute < q.expires + Lag + Second
      <4>1. IdentityTTL(v) + Minute <= Effective(v)
        BY <3>1, LifetimeTruncated DEF IdentityTTL, Positive
      <4>2. QED
        BY <1>a, <3>1, <3>2, <4>1, LifetimeTruncated DEF Positive
    <3>5. \A w \in Keys : \/ identityCache'[w] = identityCache[w]
                          \/ OutlivesCache(identityCache[w])'
      <4>1. SUFFICES ASSUME NEW w \in Keys, identityCache'[w] # identityCache[w]
                     PROVE  OutlivesCache(identityCache[w])'
        OBVIOUS
      <4>2. /\ IdentityTTL(v) > 0
            /\ identityCache'[w] = [query |-> q, until |-> now + IdentityTTL(v)]
            /\ now' = now
        BY <2>3, <3>0, <3>1, <4>1, LifetimeTruncated DEF CacheIdentity, TypeOK
      <4>3. QED
        BY <3>4, <4>2 DEF OutlivesCache
    <3>6. QED
      BY <2>3, <3>0, <3>1, <3>3, <3>5, ClientSends DEF CacheIdentity
  <2>4. QED
    BY <1>5, <2>1, <2>2, <2>3 DEF CallerStep
<1>6. ASSUME NEW c \in Callers, ServerStep(c) PROVE ClientInv'
  <2>1. CASE VerifyMiss(c) \/ StsVouches(c)
    BY <1>1, <2>1 DEF VerifyMiss, StsVouches
  <2>2. CASE VerifyHit(c) \/ VerifyFails(c) \/ VerifyDone(c)
    <3>1. Respond(c)
      BY <2>2 DEF VerifyHit, VerifyFails, VerifyDone
    <3>2. QED
      BY <3>1, ClientQuiet DEF Respond, TypeOK, NoCall
  <2>3. QED
    BY <1>6, <2>1, <2>2 DEF ServerStep
<1>7. CASE Tick
  <2>1. ASSUME NEW c \in Callers, caller[c].step = "signed" PROVE SignedOnTime(c)'
    <3>1. SignedOnTime(c) /\ now < caller[c].query.signed + Lag /\ caller[c].query.signed \in Int
      BY <1>7, <2>1 DEF Tick, TimersAllow, ClientInv, TypeOK, Query, Times
    <3>2. QED
      BY <1>a, <1>7, <3>1 DEF Tick, SignedOnTime
  <2>2. ASSUME NEW c \in Callers, caller[c].step = "waiting" PROVE WaitsInTime(c)'
    <3>1. WaitsInTime(c) /\ now < caller[c].since + Timeout /\ caller[c].since \in Int
      BY <1>7, <2>2 DEF Tick, TimersAllow, ClientInv, TypeOK, Call, Times
    <3>2. QED
      BY <1>a, <1>7, <3>1 DEF Tick, WaitsInTime, Positive
  <2>3. ASSUME NEW v \in Keys, identityCache'[v] # None PROVE OutlivesCache(identityCache[v])'
    <3>1. /\ identityCache'[v] = identityCache[v]
          /\ ~(identityCache[v].until < now')
      BY <1>7, <2>3 DEF Tick
    <3>2. identityCache[v] \in Cached /\ OutlivesCache(identityCache[v])
      BY <2>3, <3>1 DEF TypeOK, ClientInv
    <3>3. QED
      BY <1>a, <1>7, <3>1, <3>2 DEF Tick, OutlivesCache, Cached
  <2>4. QED
    BY <1>7, <2>1, <2>2, <2>3 DEF Tick, ClientInv
<1>8. ASSUME (\E c \in Callers : Keep(c)) \/ (\E k \in Credentials : CredentialsEnd(k))
      PROVE  ClientInv'
  BY <1>1, <1>8 DEF Keep, CredentialsEnd
<1>9. CASE UNCHANGED vars
  BY <1>1, <1>9 DEF vars, clientVars
<1>10. QED
  BY <1>2, <1>3, <1>4, <1>5, <1>6, <1>7, <1>8, <1>9 DEF Next

(* No query expires under a caller of GetData that waits: the margins of    *)
(* PresignGetCallerIdentity suffice for any validity longer than the wait.  *)
THEOREM WaitingInTime == Spec => []NotExpiredWhileWaiting
<1>1. Init => ClientInv
  BY DEF Init, ClientInv, NoCall
<1>2. TypeOK /\ ClientInv => NotExpiredWhileWaiting
  <2> SUFFICES ASSUME TypeOK, ClientInv, NEW c \in Callers,
                      caller[c].step = "waiting", caller[c].fresh,
                      caller[c].query.expires - caller[c].query.signed > Timeout + Lag
               PROVE  now < caller[c].query.expires
    BY DEF NotExpiredWhileWaiting
  <2>1. WaitsInTime(c) /\ now \in Int /\ caller[c].since \in Int /\ caller[c].query \in Query
    BY DEF ClientInv, TypeOK, Times, Call
  <2>2. QED
    BY <2>1 DEF WaitsInTime, Query, Positive
<1>3. QED
  BY <1>1, <1>2, PresignerTypes, ClientInvStep, PTL DEF Spec
=============================================================================
