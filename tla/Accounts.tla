------------------------------- MODULE Accounts -------------------------------
(***************************************************************************)
(* The tokens WebSocketController hands out, and their revocation: the     *)
(* record user:<name> that a login reads and writes, the keys              *)
(* revoked_token:<token> and their time to live.                           *)
(*                                                                         *)
(* A call of generateToken reads and writes the record in up to four       *)
(* separate Redis commands; one command, with the code up to the next, is  *)
(* one action.  RedisService.get answers null when a command fails, and    *)
(* set returns as if it had not.  The calls modelled are those of one user *)
(* name (the records of two names have nothing in common), in one process  *)
(* or in several.  user_token:* is written and never read.                 *)
(***************************************************************************)
EXTENDS Integers, FiniteSets

CONSTANTS
    Calls,       \* calls of generateToken or generateTestToken: a call stands
                 \* for the uuid it makes and for the token it signs
    Watched,     \* the tokens somebody validates or revokes (a bound)
    Passwords,
    Lifetime,    \* expiresIn of a token
    UserTTL,     \* 60 * 60 * 24 * 30
    Buffer,      \* the 10 seconds added to the TTL of a revocation
    MaxTime,     \* bound on the clock
    MaxRevoking, \* bound on the revocations in flight
    None,        \* null, undefined
    Forever      \* a key without a TTL

ASSUME AccountsAssumption ==
    /\ Watched \subseteq Calls
    /\ Lifetime \in Nat /\ UserTTL \in Nat \ {0} /\ Buffer \in Nat
    /\ MaxTime \in Nat /\ MaxRevoking \in Nat
    /\ None \notin Nat \cup Passwords \cup Calls \cup {Forever}
    /\ Forever \notin Nat
    /\ None \notin [password : Passwords, id : Calls \cup {None}, expires : Nat]

VARIABLES
    now,        \* the clock, in seconds
    account,    \* user:<name>, None while there is no such key
    pc,         \* the command a call awaits
    given,      \* loginDto.password
    copy,       \* the password in the record that getUserId has read
    userId,     \* the sub of the token a call has signed
    exp,        \* the exp of that token
    revoked,    \* when revoked_token:<token> expires, None without the key
    revoking,   \* calls of revokeToken whose SET is not executed yet
    check,      \* the latest validation of a token
    \* history
    written,    \* tokens whose revocation Redis has stored
    settled,    \* the record, since it has an id and no login will write it
    lone        \* the login that is alone in flight since it began, while Redis
                \* executes every command of it and the record does not expire

login == <<account, pc, given, copy, userId, exp, settled, lone>>
revocation == <<revoked, revoking, written>>
vars == <<now, login, revocation, check>>

UserRecord == [password : Passwords, id : Calls \cup {None}, expires : Nat]
InFlight == {"validate", "register", "getId", "saveId", "store"}

Init ==
    /\ now = 0
    /\ account = None
    /\ pc = [c \in Calls |-> "idle"]
    /\ given = [c \in Calls |-> None]
    /\ copy = [c \in Calls |-> None]
    /\ userId = [c \in Calls |-> None]
    /\ exp = [c \in Calls |-> 0]
    /\ revoked = [t \in Watched |-> None]
    /\ revoking = {}
    /\ check = [t \in Watched |-> "none"]
    /\ written = {}
    /\ settled = None
    /\ lone = None

Goto(c, label) == pc' = [pc EXCEPT ![c] = label]

\* The call needs its passwords no more.
Forget(c) ==
    /\ given' = [given EXCEPT ![c] = None]
    /\ copy' = [copy EXCEPT ![c] = None]

\* The record has an id, no login has found it missing or without one and is
\* about to write it, and those past the check of the password gave the one in it.
Complete ==
    /\ account # None
    /\ account.id # None
    /\ \A c \in Calls :
          /\ pc[c] \notin {"register", "saveId"}
          /\ pc[c] = "getId" => given[c] = account.password

\* A complete record is settled, until it expires or a lookup of it fails.
Settle(failed) ==
    settled' = IF failed \/ account' = None THEN None
               ELSE IF settled = None /\ Complete' THEN account' ELSE settled
-----------------------------------------------------------------------------
(***************************************************************************)
(* generateToken.  A body without name or password is answered at once.    *)
(***************************************************************************)

Login(c, password) ==
    /\ pc[c] = "idle"
    /\ Goto(c, "validate")
    /\ given' = [given EXCEPT ![c] = password]
    /\ lone' = IF \E d \in Calls : pc[d] \in InFlight THEN None ELSE c
    /\ UNCHANGED <<now, account, copy, userId, exp, settled, revocation, check>>

\* Mutant: the password is not looked at.
PasswordIgnored(c, user) == TRUE

\* user.password === password
PasswordMatches(c, user) == user.password = given[c]

\* validateUserCredentials reads the record: user is what RedisService.get
\* returns, the record or, when there is none or the command fails, null.
ValidateUser(c, user) ==
    /\ pc[c] = "validate"
    /\ \/ user = None /\ Goto(c, "register") /\ UNCHANGED <<given, copy>>
       \/ user # None /\ PasswordMatches(c, user) /\ Goto(c, "getId") /\ UNCHANGED <<given, copy>>
       \/ user # None /\ ~PasswordMatches(c, user) /\ Goto(c, "rejected") /\ Forget(c)
    /\ lone' = IF user # account \/ pc'[c] = "rejected" THEN None ELSE lone
    /\ UNCHANGED <<now, account, userId, exp, revocation, check>>
    /\ Settle(user # account)

\* Mutant: the record is written without a TTL.
WriteForever(password, id) ==
    account' = [password |-> password, id |-> id, expires |-> Forever]

Write(password, id) ==
    account' = [password |-> password, id |-> id, expires |-> now + UserTTL]

\* Auto-register new users, or go on although the command failed.
Register(c) ==
    /\ pc[c] = "register"
    /\ \/ Write(given[c], None) /\ UNCHANGED lone
       \/ UNCHANGED account /\ lone' = None
    /\ Goto(c, "getId")
    /\ UNCHANGED <<now, given, copy, userId, exp, revocation, check>>
    /\ Settle(FALSE)

Sign(c, id) ==
    /\ Forget(c)
    /\ userId' = [userId EXCEPT ![c] = id]
    /\ exp' = [exp EXCEPT ![c] = now + Lifetime]

\* Mutant: every login gets an id of its own.
HasIdNever(user) == FALSE

\* user.id
HasId(user) == user.id # None

\* getUserId reads the record again, which may have changed or gone.
GetUserId(c, user) ==
    /\ pc[c] = "getId"
    /\ \/ /\ user = None
          /\ Sign(c, c)
          /\ Goto(c, "store")
       \/ /\ user # None /\ HasId(user)
          /\ Sign(c, user.id)
          /\ Goto(c, "store")
       \/ /\ user # None /\ ~HasId(user)
          /\ copy' = [copy EXCEPT ![c] = user.password]
          /\ Goto(c, "saveId")
          /\ UNCHANGED <<given, userId, exp>>
    /\ lone' = IF user # account THEN None ELSE lone
    /\ UNCHANGED <<now, account, revocation, check>>
    /\ Settle(user # account)

\* Mutant: the id is given to the record only after it is written.
SaveIdLate(c) ==
    /\ pc[c] = "saveId"
    /\ \/ Write(copy[c], None) /\ UNCHANGED lone
       \/ UNCHANGED account /\ lone' = None
    /\ Sign(c, c)
    /\ Goto(c, "store")
    /\ UNCHANGED <<now, revocation, check>>
    /\ Settle(FALSE)

\* The record is written back as it was read, with a new id.
SaveId(c) ==
    /\ pc[c] = "saveId"
    /\ \/ Write(copy[c], c) /\ UNCHANGED lone
       \/ UNCHANGED account /\ lone' = None
    /\ Sign(c, c)
    /\ Goto(c, "store")
    /\ UNCHANGED <<now, revocation, check>>
    /\ Settle(FALSE)

\* The entry user_token:* is written, or not, and the caller gets its token.
StoreToken(c) ==
    /\ pc[c] = "store"
    /\ Goto(c, "answered")
    /\ lone' = None
    /\ UNCHANGED <<now, account, given, copy, userId, exp, revocation, check>>
    /\ Settle(FALSE)

\* The process of a call ends.
Crash(c) ==
    /\ pc[c] \in InFlight
    /\ Goto(c, "gone")
    /\ Forget(c)
    /\ lone' = None
    /\ UNCHANGED <<now, account, userId, exp, revocation, check>>
    /\ Settle(FALSE)

\* generateTestToken
TestToken(c) ==
    /\ pc[c] = "idle"
    /\ Goto(c, "answered")
    /\ Sign(c, c)
    /\ UNCHANGED <<now, account, settled, lone, revocation, check>>
-----------------------------------------------------------------------------
(***************************************************************************)
(* ClientAuthService: revokeToken and validateToken.                       *)
(***************************************************************************)

\* Mutant: the key lives just as long as the token.
RevocationTTLTight(t) == exp[t] - now

\* decoded['exp'] - Math.floor(Date.now() / 1000) + 10
RevocationTTL(t) == exp[t] - now + Buffer

Revoke(t) ==
    /\ pc[t] = "answered"
    /\ Cardinality(revoking) < MaxRevoking
    /\ revoking' = revoking \cup {[token |-> t, ttl |-> RevocationTTL(t)]}
    /\ UNCHANGED <<now, login, revoked, written, check>>

\* RedisService.set, executed any time later: without EX if the TTL is 0, and
\* refused by Redis if it is negative.
Revoked(r) ==
    /\ r \in revoking
    /\ r.ttl >= 0
    /\ revoking' = revoking \ {r}
    /\ revoked' = [revoked EXCEPT ![r.token] = IF r.ttl = 0 THEN Forever ELSE now + r.ttl]
    /\ written' = written \cup {r.token}
    /\ UNCHANGED <<now, login, check>>

RevokeFails(r) ==
    /\ r \in revoking
    /\ revoking' = revoking \ {r}
    /\ UNCHANGED <<now, login, revoked, written, check>>

\* jwtService.verify; a token that has expired is refused before the lookup.
Verify(t) ==
    /\ pc[t] = "answered"
    /\ check[t] # "pending"
    /\ now < exp[t]
    /\ check' = [check EXCEPT ![t] = "pending"]
    /\ UNCHANGED <<now, login, revocation>>

Answer(t, answer) ==
    /\ check[t] = "pending"
    /\ check' = [check EXCEPT ![t] = answer]
    /\ UNCHANGED <<now, login, revocation>>

Lookup(t) ==
    \/ revoked[t] # None /\ Answer(t, "refused")
    \/ revoked[t] = None /\ Answer(t, "accepted")

\* null: the token is accepted unchecked.
LookupFails(t) == Answer(t, "unchecked")
-----------------------------------------------------------------------------
\* Time passes, and Redis removes the keys whose time has come.
Tick ==
    /\ now < MaxTime
    /\ now' = now + 1
    /\ account' = IF account # None /\ account.expires <= now' THEN None ELSE account
    /\ revoked' = [t \in Watched |->
                      IF revoked[t] \in Nat /\ revoked[t] <= now' THEN None ELSE revoked[t]]
    /\ lone' = IF account' # account THEN None ELSE lone
    /\ UNCHANGED <<pc, given, copy, userId, exp, revoking, check, written>>
    /\ Settle(FALSE)

Next ==
    \/ Tick
    \/ \E c \in Calls :
          \/ \E password \in Passwords : Login(c, password)
          \/ \E user \in {account, None} : ValidateUser(c, user) \/ GetUserId(c, user)
          \/ Register(c) \/ SaveId(c) \/ StoreToken(c) \/ Crash(c) \/ TestToken(c)
    \/ \E t \in Watched : Revoke(t) \/ Verify(t) \/ Lookup(t) \/ LookupFails(t)
    \/ \E r \in revoking : Revoked(r) \/ RevokeFails(r)

Spec == Init /\ [][Next]_vars
-----------------------------------------------------------------------------
(***************************************************************************)
(* Properties.                                                             *)
(***************************************************************************)

TypeOK ==
    /\ now \in 0..MaxTime
    /\ account \in UserRecord \cup {None}
    /\ pc \in [Calls -> InFlight \cup {"idle", "answered", "rejected", "gone"}]
    /\ given \in [Calls -> Passwords \cup {None}]
    /\ copy \in [Calls -> Passwords \cup {None}]
    /\ userId \in [Calls -> Calls \cup {None}]
    /\ exp \in [Calls -> Nat]
    /\ revoked \in [Watched -> Nat \cup {None, Forever}]
    /\ revoking \in SUBSET [token : Watched, ttl : Int]
    /\ check \in [Watched -> {"none", "pending", "accepted", "refused", "unchecked"}]
    /\ written \in SUBSET Watched
    /\ settled \in UserRecord \cup {None}
    /\ lone \in Calls \cup {None}

\* However logins overlap, fail and crash: once the record has an id and those
\* that read it before have written it, the others leave its password and its
\* id alone, until it expires or a lookup fails.
SettledIsKept == settled # None => account = settled

\* A login that signs a token while the record is settled gave the password in
\* it, and the token names the id in it.
SignSettled ==
    \A c \in Calls : pc[c] # "store" /\ pc'[c] = "store" /\ settled # None /\ settled' # None =>
        given[c] = settled.password /\ userId'[c] = settled.id
SettledTokens == [][SignSettled]_vars

\* Whatever earlier logins left, overlapping, failing or crashing between the
\* registration and the id: one login that nothing disturbs completes the
\* record, and its token names the id the logins that follow will find.
LoneLoginSettles ==
    lone # None /\ pc[lone] = "store" =>
        settled # None /\ account = settled /\ userId[lone] = settled.id

\* A token whose revocation Redis has stored is accepted only by a lookup that
\* failed, or that came more than the buffer after the token had expired,
\* however late the revocation was stored and whatever its TTL.
AcceptUnrevoked ==
    \A t \in written : check[t] = "pending" /\ check'[t] = "accepted" => now >= exp[t] + Buffer
RevokedIsRefused == [][AcceptUnrevoked]_vars

=============================================================================
