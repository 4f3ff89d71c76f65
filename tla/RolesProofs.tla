----------------------------- MODULE RolesProofs -----------------------------
(***************************************************************************)
(* Theorems about Roles, for any users, entries, globs and environments.   *)
(***************************************************************************)
EXTENDS Roles, TLAPS

(* d is a dictionary that toDict can make of the entries K.                 *)
IsDictOf(d, K) ==
    /\ d \in Dictionaries
    /\ \A u \in DOMAIN d : [user |-> u, secret |-> d[u]] \in K
    /\ \A k \in K \cap Keys : k.user \in DOMAIN d

(* What Listen has set up, as long as the vault is up.                      *)
DictInv ==
    phase = "up" =>
        /\ IsDictOf(dict["get"], ReadKeys(env))
        /\ IsDictOf(dict["query"], ReadKeys(env) \cup WriteKeys(env))
        /\ \A p \in {"put", "delete", "verify"} :
              /\ IsDictOf(dict[p], WriteKeys(env))
              /\ dict[p] = dict["put"]
        /\ \A u \in DOMAIN dict["put"] :
              u \in DOMAIN dict["query"] /\ dict["query"][u] = dict["put"][u]

RolesInv == TypeOK /\ DictInv /\ OnlyHoldersServed /\ RefusedOnlyIfReplaced

-----------------------------------------------------------------------------
(* Dictionaries                                                             *)

(* The entries of an environment are entries.                               *)
LEMMA KeysTyped ==
    ASSUME NEW e \in Environments
    PROVE  /\ ReadKeys(e) \subseteq Entries
           /\ WriteKeys(e) \subseteq Entries
<1>1. e.write \in Seq(Entries)
  BY EnvironmentsAssumption
<1>2. WriteKeys(e) \subseteq Entries
  BY <1>1 DEF WriteKeys, Range
<1>3. ReadKeys(e) \subseteq Entries
  BY EnvironmentsAssumption DEF ReadKeys
<1>4. QED
  BY <1>2, <1>3

(* The users of entries, and the entry that a user and a secret make up.    *)
LEMMA EntryOf ==
    ASSUME NEW K \in SUBSET Entries, NEW k \in K \cap Keys
    PROVE  /\ k.user \in Users /\ k.user \in UsersOf(K)
           /\ k.secret \in Texts
           /\ k = [user |-> k.user, secret |-> k.secret]
<1>1. k \in [user : Users, secret : Texts]
  BY DEF Keys
<1>2. QED
  BY <1>1 DEF UsersOf

(* toDict of keys in any order.                                             *)
LEMMA UnorderedIsDict ==
    ASSUME NEW K \in SUBSET Entries, NEW d \in ToDictUnordered(K)
    PROVE  IsDictOf(d, K)
<1>1. d \in [UsersOf(K) -> Texts] /\ \A u \in UsersOf(K) : [user |-> u, secret |-> d[u]] \in K
  BY DEF ToDictUnordered
<1>2. UsersOf(K) \in SUBSET Users
  BY EntryOf DEF UsersOf
<1>3. d \in Dictionaries
  BY <1>1, <1>2 DEF Dictionaries
<1>4. \A k \in K \cap Keys : k.user \in UsersOf(K)
  BY DEF UsersOf
<1>5. QED
  BY <1>1, <1>3, <1>4 DEF IsDictOf

(* toDict of the entries of writers: the last one of a user is one of them. *)
LEMMA OrderedIsDict ==
    ASSUME NEW e \in Environments
    PROVE  IsDictOf(ToDict(e.write), WriteKeys(e))
<1> DEFINE K == WriteKeys(e)
           last(u) == CHOOSE i \in DOMAIN e.write : IsLastOf(e.write, i, u)
           d == ToDict(e.write)
<1>1. K \subseteq Entries
  BY KeysTyped
<1>2. ASSUME NEW u \in UsersOf(K)
      PROVE  last(u) \in DOMAIN e.write /\ IsLastOf(e.write, last(u), u)
  BY EnvironmentsAssumption DEF WriteKeys
<1>3. ASSUME NEW u \in UsersOf(K)
      PROVE  /\ e.write[last(u)] \in K \cap Keys
             /\ e.write[last(u)].user = u
  <2> HIDE DEF last
  <2>1. e.write[last(u)] \in K
    BY <1>2 DEF WriteKeys, Range
  <2>2. QED
    BY <1>2, <2>1 DEF IsLastOf
<1>4. d = [u \in UsersOf(K) |-> e.write[last(u)].secret]
  BY DEF ToDict, WriteKeys
<1> HIDE DEF last, d
<1>5. ASSUME NEW u \in UsersOf(K)
      PROVE  [user |-> u, secret |-> d[u]] \in K /\ d[u] \in Texts /\ u \in Users
  <2>1. d[u] = e.write[last(u)].secret
    BY <1>4
  <2>2. QED
    BY <1>1, <1>3, <2>1, EntryOf
<1>6. d \in Dictionaries
  <2>1. UsersOf(K) \in SUBSET Users
    BY <1>5
  <2>2. DOMAIN d = UsersOf(K) /\ d = [u \in UsersOf(K) |-> d[u]]
    BY <1>4
  <2>3. d \in [UsersOf(K) -> Texts]
    BY <1>5, <2>2
  <2>4. QED
    BY <2>1, <2>3 DEF Dictionaries
<1>7. \A k \in K \cap Keys : k.user \in UsersOf(K)
  BY DEF UsersOf
<1>8. IsDictOf(d, K)
  BY <1>4, <1>5, <1>6, <1>7 DEF IsDictOf
<1>9. QED
  BY <1>8 DEF d

(* Entries appended to others.                                              *)
LEMMA AppendedIsDict ==
    ASSUME NEW K, NEW d, IsDictOf(d, K), NEW L, NEW later, IsDictOf(later, L)
    PROVE  IsDictOf(Appended(d, later), K \cup L)
<1> DEFINE a == Appended(d, later)
<1>1. DOMAIN a = DOMAIN d \cup DOMAIN later
  BY DEF Appended
<1>2. \A u \in DOMAIN a : a[u] = IF u \in DOMAIN later THEN later[u] ELSE d[u]
  BY DEF Appended
<1>3. a = [u \in DOMAIN a |-> a[u]]
  BY DEF Appended
<1>4. PICK U \in SUBSET Users : d \in [U -> Texts]
  BY DEF IsDictOf, Dictionaries
<1>5. PICK V \in SUBSET Users : later \in [V -> Texts]
  BY DEF IsDictOf, Dictionaries
<1> HIDE DEF a
<1>6. a \in [U \cup V -> Texts]
  BY <1>1, <1>2, <1>3, <1>4, <1>5
<1>7. a \in Dictionaries
  BY <1>6 DEF Dictionaries
<1>8. \A u \in DOMAIN a : [user |-> u, secret |-> a[u]] \in K \cup L
  BY <1>1, <1>2 DEF IsDictOf
<1>9. \A k \in (K \cup L) \cap Keys : k.user \in DOMAIN a
  BY <1>1 DEF IsDictOf
<1>10. IsDictOf(a, K \cup L)
  BY <1>7, <1>8, <1>9 DEF IsDictOf
<1>11. QED
  BY <1>10 DEF a

-----------------------------------------------------------------------------
(* What a dictionary lets through                                           *)

(* Who is authorized holds an entry.                                        *)
LEMMA AuthorizedHolds ==
    ASSUME NEW K \in SUBSET Entries, NEW d, IsDictOf(d, K),
           NEW authorization \in Entries, NEW arn, Authorized(d, authorization, arn)
    PROVE  \E k \in K : Opens(k, authorization, arn)
<1> DEFINE key(u) == [user |-> u, secret |-> d[u]]
<1>1. \A u \in DOMAIN d : key(u) \in K /\ u \in Users /\ d[u] \in Texts
  BY DEF IsDictOf, Dictionaries
<1>2. \A u \in DOMAIN d : key(u) \in Keys
  BY <1>1 DEF Keys
<1>3. CASE VerifyPresign(d, arn)
  <2>1. PICK u \in DOMAIN d : d[u] = Iam /\ <<u, arn>> \in Matching
    BY <1>3 DEF VerifyPresign
  <2>2. Opens(key(u), authorization, arn)
    BY <1>2, <2>1 DEF Opens
  <2>3. QED
    BY <1>1, <2>2
<1>4. CASE CheckPassword(d, authorization)
  <2>1. authorization \in Basic /\ authorization.user \in DOMAIN d
    BY <1>4 DEF CheckPassword
  <2>2. \/ d[authorization.user] \in Texts \ Dollar /\ authorization.pass = d[authorization.user]
        \/ d[authorization.user] \in DOMAIN PasswordOf
           /\ authorization.pass = PasswordOf[d[authorization.user]]
    BY <1>1, <1>4, <2>1 DEF CheckPassword
  <2>3. Opens(key(authorization.user), authorization, arn)
    BY <1>2, <2>1, <2>2 DEF Opens
  <2>4. QED
    BY <1>1, <2>1, <2>3
<1>5. QED
  BY <1>3, <1>4 DEF Authorized

(* Who holds an entry and is refused has another one.                       *)
LEMMA RefusedHasAnother ==
    ASSUME NEW K \in SUBSET Entries, NEW d, IsDictOf(d, K),
           NEW authorization \in Entries, NEW arn, ~Authorized(d, authorization, arn),
           NEW k \in K, Opens(k, authorization, arn)
    PROVE  \E other \in (K \cap Keys) \ {k} : other.user = k.user
<1> DEFINE u == k.user
           other == [user |-> u, secret |-> d[u]]
<1>1. k \in Keys
  BY DEF Opens
<1>2. u \in DOMAIN d /\ other \in K /\ k = [user |-> u, secret |-> k.secret]
  BY <1>1, EntryOf DEF IsDictOf
<1>3. u \in Users /\ d[u] \in Texts
  BY <1>2 DEF IsDictOf, Dictionaries
<1>4. other \in Keys
  BY <1>3 DEF Keys
<1>5. d[u] # k.secret
  <2> SUFFICES ASSUME d[u] = k.secret PROVE FALSE
    OBVIOUS
  <2>1. CASE k.secret = Iam /\ <<u, arn>> \in Matching
    BY <1>2, <2>1 DEF Authorized, VerifyPresign
  <2>2. CASE authorization \in Basic /\ authorization.user = u
             /\ \/ k.secret \in Texts \ Dollar /\ authorization.pass = k.secret
                \/ k.secret \in DOMAIN PasswordOf /\ authorization.pass = PasswordOf[k.secret]
    <3>1. DOMAIN PasswordOf \subseteq Dollar
      BY TextsAssumption
    <3>2. CheckPassword(d, authorization)
      BY <1>2, <2>2, <3>1 DEF CheckPassword
    <3>3. QED
      BY <3>2 DEF Authorized
  <2>3. QED
    BY <2>1, <2>2 DEF Opens
<1>6. other # k
  BY <1>2, <1>5
<1>7. QED
  BY <1>2, <1>4, <1>6

-----------------------------------------------------------------------------
(* The steps                                                                *)

(* Listen sets up the dictionaries.                                         *)
LEMMA ListenStep ==
    ASSUME RolesInv, Listen
    PROVE  RolesInv'
<1> DEFINE written == ToDict(env.write)
<1>0. env \in Environments
  BY DEF RolesInv, TypeOK
<1>1. PICK read \in ToDictUnordered(ReadKeys(env)), queried \in ToDictUnordered(ReadKeys(env)) :
        dict' = [p \in Prefixes |->
                    CASE p = "get" -> read
                      [] p = "query" -> Appended(queried, written)
                      [] OTHER -> written]
  BY DEF Listen
<1> HIDE DEF written
<1>2. /\ dict'["get"] = read /\ dict'["query"] = Appended(queried, written)
      /\ dict'["put"] = written /\ dict'["delete"] = written /\ dict'["verify"] = written
  BY <1>1 DEF Prefixes
<1>3. /\ IsDictOf(read, ReadKeys(env)) /\ IsDictOf(queried, ReadKeys(env))
      /\ IsDictOf(written, WriteKeys(env))
  BY <1>0, KeysTyped, UnorderedIsDict, OrderedIsDict DEF written
<1>4. IsDictOf(Appended(queried, written), ReadKeys(env) \cup WriteKeys(env))
  BY <1>3, AppendedIsDict
<1>5. \A u \in DOMAIN written :
         /\ u \in DOMAIN Appended(queried, written)
         /\ Appended(queried, written)[u] = written[u]
  BY DEF Appended
<1>6. env' = env /\ answer' = answer /\ phase' = "up" /\ readDurations' = Durations(env)
  BY DEF Listen
<1>7. DictInv'
  BY <1>2, <1>3, <1>4, <1>5, <1>6 DEF DictInv, ReadKeys, WriteKeys
<1>8. dict' \in [Prefixes -> Dictionaries]
  <2>1. /\ read \in Dictionaries /\ written \in Dictionaries
        /\ Appended(queried, written) \in Dictionaries
    BY <1>3, <1>4 DEF IsDictOf
  <2>2. QED
    BY <1>1, <2>1
<1>9. /\ DOMAIN Durations(env) \subseteq Entries
      /\ Durations(env) \in [DOMAIN Durations(env) -> {TenMinutes, Hour, Day}]
  BY <1>0, KeysTyped DEF Durations
<1>10. TypeOK'
  BY <1>6, <1>8, <1>9 DEF TypeOK, RolesInv
<1>11. OnlyHoldersServed' /\ RefusedOnlyIfReplaced'
  BY <1>6 DEF RolesInv, OnlyHoldersServed, RefusedOnlyIfReplaced, KeysFor, ReadKeys, WriteKeys
<1>12. QED
  BY <1>7, <1>10, <1>11 DEF RolesInv

(* The dictionary in front of a handler is one of the entries of its role.  *)
LEMMA RouteDict ==
    ASSUME RolesInv, phase = "up", NEW prefix \in Prefixes, NEW handler \in HandlersOf(prefix)
    PROVE  /\ IsDictOf(dict[prefix], KeysFor(handler))
           /\ KeysFor(handler) \subseteq Entries
           /\ handler \in Handlers
<1>1. DictInv /\ env \in Environments
  BY DEF RolesInv, TypeOK
<1>2. KeysFor(handler) \subseteq Entries
  BY <1>1, KeysTyped DEF KeysFor
<1>3. CASE prefix = "get"
  <2>1. handler = "GetHandler"
    BY <1>3 DEF HandlersOf
  <2>2. KeysFor(handler) = ReadKeys(env)
    BY <2>1 DEF KeysFor
  <2>3. IsDictOf(dict["get"], ReadKeys(env))
    BY <1>1 DEF DictInv
  <2>4. QED
    BY <1>2, <1>3, <2>1, <2>2, <2>3 DEF Handlers
<1>4. CASE prefix = "query"
  <2>1. handler = "QueryHandler"
    BY <1>4 DEF HandlersOf
  <2>2. KeysFor(handler) = ReadKeys(env) \cup WriteKeys(env)
    BY <2>1 DEF KeysFor
  <2>3. IsDictOf(dict["query"], ReadKeys(env) \cup WriteKeys(env))
    BY <1>1 DEF DictInv
  <2>4. QED
    BY <1>2, <1>4, <2>1, <2>2, <2>3 DEF Handlers
<1>5. CASE prefix \in {"put", "delete", "verify"}
  <2>1. handler \in {"PutHandler", "DeleteHandler", "VerifyHandler"}
    BY <1>5 DEF HandlersOf
  <2>2. KeysFor(handler) = WriteKeys(env)
    BY <2>1 DEF KeysFor
  <2>3. QED
    BY <1>1, <1>2, <1>5, <2>1, <2>2 DEF DictInv, Handlers
<1>6. QED
  BY <1>2, <1>3, <1>4, <1>5 DEF Prefixes

(* A request.                                                               *)
LEMMA RequestStep ==
    ASSUME RolesInv, NEW prefix \in Prefixes, NEW handler \in HandlersOf(prefix),
           NEW authorization \in Entries, NEW arn \in Arns \cup {NoArn},
           Request(prefix, handler, authorization, arn)
    PROVE  RolesInv'
<1> DEFINE served == Authorized(dict[prefix], authorization, arn)
           limit == IF served /\ handler = "GetHandler" THEN Limit(authorization) ELSE NoLimit
<1>1. /\ phase = "up" /\ UNCHANGED <<env, phase, readDurations, dict>>
      /\ answer' = [handler |-> handler, authorization |-> authorization, arn |-> arn,
                    served |-> served, limit |-> limit]
  BY DEF Request
<1>2. /\ IsDictOf(dict[prefix], KeysFor(handler)) /\ KeysFor(handler) \subseteq Entries
      /\ handler \in Handlers
  BY <1>1, RouteDict
<1>3. served \in BOOLEAN
  BY DEF Authorized, VerifyPresign, CheckPassword
<1>4. limit \in {TenMinutes, Hour, Day, NoLimit}
  BY DEF Limit, RolesInv, TypeOK
<1>5. served => \E k \in KeysFor(handler) : Opens(k, authorization, arn)
  BY <1>2, AuthorizedHolds
<1>6. ~served => \A k \in KeysFor(handler) : Opens(k, authorization, arn) =>
                    \E other \in (KeysFor(handler) \cap Keys) \ {k} : other.user = k.user
  BY <1>2, RefusedHasAnother
<1> HIDE DEF served, limit
<1>7. answer' \in Answer
  BY <1>1, <1>2, <1>3, <1>4 DEF Answer
<1>8. KeysFor(handler)' = KeysFor(handler)
  BY <1>1 DEF KeysFor, ReadKeys, WriteKeys
<1>9. OnlyHoldersServed' /\ RefusedOnlyIfReplaced'
  BY <1>1, <1>5, <1>6, <1>8 DEF OnlyHoldersServed, RefusedOnlyIfReplaced, KeysFor, ReadKeys,
                                WriteKeys
<1>10. TypeOK' /\ DictInv'
  BY <1>1, <1>7 DEF RolesInv, TypeOK, DictInv, ReadKeys, WriteKeys
<1>11. QED
  BY <1>9, <1>10 DEF RolesInv

(* The invariant of Roles.                                                  *)
THEOREM RolesInvariant == Spec => []RolesInv
<1>1. Init => RolesInv
  <2> SUFFICES ASSUME Init PROVE RolesInv
    OBVIOUS
  <2>1. [u \in {} |-> Iam] \in Dictionaries
    BY DEF Dictionaries
  <2>2. TypeOK
    BY <2>1 DEF Init, TypeOK, NoDurations, NoDictionaries
  <2>3. QED
    BY <2>2 DEF Init, RolesInv, DictInv, OnlyHoldersServed, RefusedOnlyIfReplaced
<1>2. RolesInv /\ [Next]_vars => RolesInv'
  <2> SUFFICES ASSUME RolesInv, [Next]_vars PROVE RolesInv'
    OBVIOUS
  <2>1. CASE NotUnique
    <3>1. env' = env /\ phase' = "fatal" /\ dict' = dict /\ answer' = answer
          /\ readDurations' = Durations(env) /\ env \in Environments
      BY <2>1 DEF NotUnique, RolesInv, TypeOK
    <3>2. /\ DOMAIN Durations(env) \subseteq Entries
          /\ Durations(env) \in [DOMAIN Durations(env) -> {TenMinutes, Hour, Day}]
      BY <3>1, KeysTyped DEF Durations
    <3>3. TypeOK' /\ DictInv'
      BY <3>1, <3>2 DEF RolesInv, TypeOK, DictInv
    <3>4. OnlyHoldersServed' /\ RefusedOnlyIfReplaced'
      BY <3>1 DEF RolesInv, OnlyHoldersServed, RefusedOnlyIfReplaced, KeysFor, ReadKeys, WriteKeys
    <3>5. QED
      BY <3>3, <3>4 DEF RolesInv
  <2>2. CASE Listen
    BY <2>2, ListenStep
  <2>3. ASSUME NEW e \in Environments, Restart(e)
        PROVE  RolesInv'
    <3>1. [u \in {} |-> Iam] \in Dictionaries
      BY DEF Dictionaries
    <3>2. TypeOK'
      BY <2>3, <3>1 DEF Restart, TypeOK, NoDurations, NoDictionaries
    <3>3. QED
      BY <2>3, <3>2 DEF Restart, RolesInv, DictInv, OnlyHoldersServed, RefusedOnlyIfReplaced
  <2>4. ASSUME NEW prefix \in Prefixes, NEW authorization \in Entries,
               NEW arn \in Arns \cup {NoArn}, NEW handler \in HandlersOf(prefix),
               Request(prefix, handler, authorization, arn)
        PROVE  RolesInv'
    BY <2>4, RequestStep
  <2>5. CASE UNCHANGED vars
    BY <2>5 DEF vars, RolesInv, TypeOK, DictInv, OnlyHoldersServed, RefusedOnlyIfReplaced,
                KeysFor, ReadKeys, WriteKeys
  <2>6. QED
    BY <2>1, <2>2, <2>3, <2>4, <2>5 DEF Next
<1>3. QED
  BY <1>1, <1>2, PTL DEF Spec

(* The type invariant of Roles.                                             *)
THEOREM RolesTypes == Spec => []TypeOK
<1>1. RolesInv => TypeOK
  BY DEF RolesInv
<1>2. QED
  BY <1>1, RolesInvariant, PTL

(* A handler runs only for who holds an entry of its role, whatever the     *)
(* environment and in whatever order the Go maps are read.                  *)
THEOREM HoldersOnly == Spec => []OnlyHoldersServed
<1>1. RolesInv => OnlyHoldersServed
  BY DEF RolesInv
<1>2. QED
  BY <1>1, RolesInvariant, PTL

(* Who holds an entry is refused only because of another one of the user.   *)
THEOREM HoldersServed == Spec => []RefusedOnlyIfReplaced
<1>1. RolesInv => RefusedOnlyIfReplaced
  BY DEF RolesInv
<1>2. QED
  BY <1>1, RolesInvariant, PTL

(* Whoever may write may query.                                             *)
THEOREM WritersQuery == Spec => []WritersMayQuery
<1>1. RolesInv => WritersMayQuery
  <2> SUFFICES ASSUME RolesInv, phase = "up", NEW authorization \in Entries,
                      NEW arn \in Arns \cup {NoArn}, Authorized(dict["put"], authorization, arn)
               PROVE  Authorized(dict["query"], authorization, arn)
    BY DEF WritersMayQuery
  <2>1. \A u \in DOMAIN dict["put"] :
           u \in DOMAIN dict["query"] /\ dict["query"][u] = dict["put"][u]
    BY DEF RolesInv, DictInv
  <2>2. QED
    BY <2>1 DEF Authorized, VerifyPresign, CheckPassword
<1>2. QED
  BY <1>1, RolesInvariant, PTL
=============================================================================
