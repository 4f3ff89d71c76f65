-------------------------------- MODULE Roles --------------------------------
(***************************************************************************)
(* Who may call which handler: the entries of the four environment         *)
(* variables, the dictionaries httpListen makes of them, authMiddleware in *)
(* front of the handlers, and the time limit GetHandler looks up.          *)
(*                                                                         *)
(* A text is what stands behind the separator of an entry, or is given as  *)
(* a password.  Texts that start with "$" are hashes, or the flag for IAM. *)
(* What a variable lists, and what an Authorization header says, can be    *)
(* any string: an entry that toDict takes, a header with HTTP Basic        *)
(* authentication, or something else.                                      *)
(***************************************************************************)
EXTENDS Naturals, Sequences, Functions

CONSTANTS Users,         \* user names, and globs
          Texts,
          Dollar,        \* texts that start with "$"
          PasswordOf,    \* the password of each text that is a bcrypt hash
          Iam,           \* IAMAuthFlag
          Arns,
          Matching,      \* pairs of a glob that compiles and an ARN it matches
          Invalid,       \* strings that are neither of the two forms below
          NoText,        \* the empty string
          Environments,  \* values of the four variables
          NoArn, NoAnswer, NoLimit

(* An entry that splits in two at the separator.                            *)
Keys == [user : Users, secret : Texts]

(* A header with HTTP Basic authentication.                                 *)
Basic == [scheme : {"Basic"}, user : Users, pass : Texts]

(* An empty variable is split into one entry, the empty string, and that is *)
(* also what a header that is missing reads as.                             *)
Entries == Keys \cup Basic \cup Invalid

ASSUME TextsAssumption ==
    /\ Dollar \subseteq Texts
    /\ Iam \in Dollar
    /\ DOMAIN PasswordOf \subseteq Dollar \ {Iam}
    /\ PasswordOf \in [DOMAIN PasswordOf -> Texts]
    /\ Matching \subseteq Users \X Arns
    /\ NoArn \notin Arns
    /\ Invalid \cap (Keys \cup Basic) = {}
    /\ NoText \in Invalid

UsersOf(K) == {k.user : k \in K \cap Keys}

IsLastOf(tokens, i, u) ==
    /\ tokens[i] \in Keys /\ tokens[i].user = u
    /\ \A j \in DOMAIN tokens : j > i /\ tokens[j] \in Keys => tokens[j].user # u

(* The last conjunct holds of every finite list; the provers, which have no *)
(* induction, are given it.                                                 *)
ASSUME EnvironmentsAssumption ==
    \A e \in Environments :
        /\ e.ten \subseteq Entries /\ e.hour \subseteq Entries /\ e.day \subseteq Entries
        /\ e.write \in Seq(Entries)
        /\ \A u \in UsersOf(Range(e.write)) : \E i \in DOMAIN e.write : IsLastOf(e.write, i, u)

VARIABLES env,            \* the environment of the process
          phase,          \* "down", "up", or "fatal" after fatalError
          readDurations,  \* minutes for each entry of the three read roles
          dict,           \* the credentials of authMiddleware, for each prefix
          answer          \* the last request and what became of it

vars == <<env, phase, readDurations, dict, answer>>

TenMinutes == 10
Hour == 60
Day == 1440

Prefixes == {"get", "put", "delete", "verify", "query"}

Handlers == {"GetHandler", "PutHandler", "DeleteHandler", "VerifyHandler", "QueryHandler"}

Dictionaries == UNION {[U -> Texts] : U \in SUBSET Users}

Answer == [handler       : Handlers,
           authorization : Entries,
           arn           : Arns \cup {NoArn},
           served        : BOOLEAN,
           limit         : {TenMinutes, Hour, Day, NoLimit}]

TypeOK == /\ env \in Environments
          /\ phase \in {"down", "up", "fatal"}
          /\ DOMAIN readDurations \subseteq Entries
          /\ readDurations \in [DOMAIN readDurations -> {TenMinutes, Hour, Day}]
          /\ dict \in [Prefixes -> Dictionaries]
          /\ answer \in Answer \cup {NoAnswer}

NoDurations == [k \in {} |-> Day]
NoDictionaries == [p \in Prefixes |-> [u \in {} |-> Iam]]

Init == /\ env \in Environments
        /\ phase = "down"
        /\ readDurations = NoDurations
        /\ dict = NoDictionaries
        /\ answer = NoAnswer

-----------------------------------------------------------------------------
(* httpListen                                                               *)

ReadKeys(e) == e.ten \cup e.hour \cup e.day

(* An entry of several roles has the longest of their durations.            *)
Durations(e) ==
    [k \in ReadKeys(e) |-> IF k \in e.day THEN Day
                           ELSE IF k \in e.hour THEN Hour ELSE TenMinutes]

(* toDict of the keys of a Go map, which come in any order: whichever entry *)
(* of a user is the last one is the one that counts.                        *)
ToDictUnordered(K) ==
    {d \in [UsersOf(K) -> Texts] : \A u \in UsersOf(K) : [user |-> u, secret |-> d[u]] \in K}

(* Mutant: an invalid entry ends the loop.                                  *)
ToDictUntilMalformed(tokens) ==
    LET valid == {i \in DOMAIN tokens : \A j \in 1..i : tokens[j] \in Keys}
    IN  [u \in {tokens[i].user : i \in valid} |->
            tokens[CHOOSE i \in valid : tokens[i].user = u].secret]

ToDict(tokens) ==
    [u \in UsersOf(Range(tokens)) |->
        tokens[CHOOSE i \in DOMAIN tokens : IsLastOf(tokens, i, u)].secret]

(* Mutant: the keys of writers come first.                                  *)
AppendedBefore(d, later) ==
    [u \in DOMAIN d \cup DOMAIN later |-> IF u \in DOMAIN d THEN d[u] ELSE later[u]]

(* toDict of a list of keys that begins with those of d.                    *)
Appended(d, later) ==
    [u \in DOMAIN d \cup DOMAIN later |-> IF u \in DOMAIN later THEN later[u] ELSE d[u]]

Unique(tokens) == \A i, j \in DOMAIN tokens : tokens[i] = tokens[j] => i = j

NotUnique ==
    /\ phase = "down"
    /\ ~Unique(env.write)
    /\ phase' = "fatal"
    /\ readDurations' = Durations(env)
    /\ UNCHANGED <<env, dict, answer>>

Listen ==
    /\ phase = "down"
    /\ Unique(env.write)
    /\ phase' = "up"
    /\ readDurations' = Durations(env)
    /\ \E read, queried \in ToDictUnordered(ReadKeys(env)) :
          dict' = [p \in Prefixes |->
                      CASE p = "get" -> read
                        [] p = "query" -> Appended(queried, ToDict(env.write))
                        [] OTHER -> ToDict(env.write)]
    /\ UNCHANGED <<env, answer>>

(* The process ends, and starts with the same environment or another one.   *)
Restart(e) ==
    /\ phase # "down"
    /\ env' = e
    /\ phase' = "down"
    /\ readDurations' = NoDurations
    /\ dict' = NoDictionaries
    /\ answer' = NoAnswer

-----------------------------------------------------------------------------
(* authMiddleware                                                           *)

(* arn is what VerifyGetCallerIdentity made of the header.                  *)
VerifyPresign(credentials, arn) ==
    \E glob \in DOMAIN credentials :
        credentials[glob] = Iam /\ <<glob, arn>> \in Matching

(* Mutant: every text is compared as a password, too.                       *)
CheckPasswordOrText(credentials, authorization) ==
    /\ authorization \in Basic
    /\ authorization.user \in DOMAIN credentials
    /\ LET pass == credentials[authorization.user]
       IN  \/ authorization.pass = pass
           \/ pass \in DOMAIN PasswordOf /\ PasswordOf[pass] = authorization.pass

CheckPassword(credentials, authorization) ==
    /\ authorization \in Basic
    /\ authorization.user \in DOMAIN credentials
    /\ LET pass == credentials[authorization.user]
       IN  IF pass \in Dollar
           THEN pass \in DOMAIN PasswordOf /\ PasswordOf[pass] = authorization.pass
           ELSE authorization.pass = pass

(* Who is let in by an identity may have any Authorization header.          *)
Authorized(credentials, authorization, arn) ==
    VerifyPresign(credentials, arn) \/ CheckPassword(credentials, authorization)

HandlersOf(prefix) ==
    CASE prefix = "get"    -> {"GetHandler"}
      [] prefix = "query"  -> {"QueryHandler"}
      [] prefix = "verify" -> {"VerifyHandler"}
      [] prefix = "delete" -> {"DeleteHandler"}
      [] prefix = "put"    -> {"PutHandler", "DeleteHandler"}

(* Mutant: what is missing in a Go map is zero.                             *)
LimitOrZero(authorization) ==
    IF authorization \in DOMAIN readDurations THEN readDurations[authorization] ELSE 0

(* GetHandler: the key is the whole header, whatever it says.               *)
Limit(authorization) ==
    IF authorization \in DOMAIN readDurations THEN readDurations[authorization] ELSE TenMinutes

Request(prefix, handler, authorization, arn) ==
    /\ phase = "up"
    /\ LET served == Authorized(dict[prefix], authorization, arn)
       IN  answer' = [handler |-> handler, authorization |-> authorization, arn |-> arn,
                      served |-> served,
                      limit |-> IF served /\ handler = "GetHandler"
                                THEN Limit(authorization) ELSE NoLimit]
    /\ UNCHANGED <<env, phase, readDurations, dict>>

Next ==
    \/ NotUnique
    \/ Listen
    \/ \E e \in Environments : Restart(e)
    \/ \E prefix \in Prefixes, authorization \in Entries, arn \in Arns \cup {NoArn} :
          \E handler \in HandlersOf(prefix) : Request(prefix, handler, authorization, arn)

Spec == Init /\ [][Next]_vars

-----------------------------------------------------------------------------
(* Properties                                                               *)

WriteKeys(e) == Range(e.write)

KeysFor(handler) ==
    CASE handler = "GetHandler"   -> ReadKeys(env)
      [] handler = "QueryHandler" -> ReadKeys(env) \cup WriteKeys(env)
      [] OTHER                    -> WriteKeys(env)

(* The three ways in which an entry can be used.                            *)
Opens(k, authorization, arn) ==
    /\ k \in Keys
    /\ \/ k.secret = Iam /\ <<k.user, arn>> \in Matching
       \/ /\ authorization \in Basic /\ authorization.user = k.user
          /\ \/ k.secret \in Texts \ Dollar /\ authorization.pass = k.secret
             \/ k.secret \in DOMAIN PasswordOf /\ authorization.pass = PasswordOf[k.secret]

(* A handler runs only for who holds an entry of its role, and neither the  *)
(* flag for IAM nor the text of a hash is a password: what readers have     *)
(* never opens a handler that writes, through any of the five routers.      *)
OnlyHoldersServed ==
    answer # NoAnswer /\ answer.served =>
        \E k \in KeysFor(answer.handler) : Opens(k, answer.authorization, answer.arn)

(* Who holds an entry of the role is refused only if the same user has      *)
(* another one, which toDict has put in its place; entries that are invalid *)
(* and entries of other users do not matter.                                *)
RefusedOnlyIfReplaced ==
    answer # NoAnswer /\ ~answer.served =>
        \A k \in KeysFor(answer.handler) :
            Opens(k, answer.authorization, answer.arn) =>
                \E other \in (KeysFor(answer.handler) \cap Keys) \ {k} : other.user = k.user

(* Whoever may write may query, also if the user name is a reader's, with   *)
(* another password.                                                        *)
WritersMayQuery ==
    phase = "up" =>
        \A authorization \in Entries, arn \in Arns \cup {NoArn} :
            Authorized(dict["put"], authorization, arn) =>
                Authorized(dict["query"], authorization, arn)

(* Claimed by README.md, and not kept: who reads as a user of an hour gets  *)
(* an authenticator that is valid for an hour.                              *)
HourForReadersOfAnHour ==
    answer # NoAnswer /\ answer.served /\ answer.handler = "GetHandler" =>
        \A k \in env.hour :
            (/\ Opens(k, answer.authorization, answer.arn)
             /\ \A other \in ReadKeys(env) \ {k} : ~Opens(other, answer.authorization, answer.arn))
            => answer.limit = Hour
=============================================================================
