---------------------------- MODULE AccountsProofs ----------------------------
(***************************************************************************)
(* Theorems of Accounts, for any number of calls, passwords and tokens,    *)
(* any lifetimes and any bound on the clock.                               *)
(***************************************************************************)
EXTENDS Accounts, TLAPS

\* A call that will write a password has one.
LocalInv ==
    \A c \in Calls :
        /\ pc[c] \in {"validate", "register", "getId"} => given[c] \in Passwords
        /\ pc[c] = "saveId" => copy[c] \in Passwords

\* A settled record is the one that is stored, and it stays complete.
SettledInv == settled # None => account = settled /\ Complete

\* The login that is alone and undisturbed: the record has its password once
\* that is checked or registered, and is settled once the token is signed.
LoneInv ==
    lone # None =>
        /\ pc[lone] \in InFlight
        /\ \A c \in Calls : c # lone => pc[c] \notin InFlight
        /\ pc[lone] = "getId" => account # None /\ account.password = given[lone]
        /\ pc[lone] = "store" => settled # None /\ userId[lone] = settled.id

\* The key of a stored revocation lives until the buffer after its token's
\* expiry, and so will one that is stored from now on.
RevocationInv ==
    /\ \A t \in written :
          /\ pc[t] = "answered"
          /\ \/ revoked[t] = Forever
             \/ revoked[t] \in Nat /\ revoked[t] >= exp[t] + Buffer
             \/ now >= exp[t] + Buffer
    /\ \A r \in revoking :
          pc[r.token] = "answered" /\ r.ttl + now >= exp[r.token] + Buffer

IInv == TypeOK /\ LocalInv /\ SettledInv /\ LoneInv /\ RevocationInv

LEMMA InitAccounts ==
    ASSUME Init PROVE IInv
BY AccountsAssumption
   DEF Init, IInv, TypeOK, LocalInv, SettledInv, LoneInv, RevocationInv, InFlight

\* The actions of generateToken and generateTestToken.
LoginStep ==
    \E c \in Calls :
        \/ \E password \in Passwords : Login(c, password)
        \/ \E user \in {account, None} : ValidateUser(c, user) \/ GetUserId(c, user)
        \/ Register(c) \/ SaveId(c) \/ StoreToken(c) \/ Crash(c) \/ TestToken(c)

\* The actions of revokeToken and validateToken.
TokenStep ==
    \/ \E t \in Watched : Revoke(t) \/ Verify(t) \/ Lookup(t) \/ LookupFails(t)
    \/ \E r \in revoking : Revoked(r) \/ RevokeFails(r)

LEMMA NextSteps == Next <=> Tick \/ LoginStep \/ TokenStep
BY DEF Next, LoginStep, TokenStep

-----------------------------------------------------------------------------
(***************************************************************************)
(* Types.                                                                  *)
(***************************************************************************)
LEMMA WriteType ==
    ASSUME TypeOK, NEW password \in Passwords, NEW id \in Calls \cup {None},
           Write(password, id)
    PROVE  account' \in UserRecord
BY AccountsAssumption DEF TypeOK, Write, UserRecord

LEMMA SettleType ==
    ASSUME TypeOK, NEW failed \in BOOLEAN, Settle(failed),
           account' \in UserRecord \cup {None}
    PROVE  settled' \in UserRecord \cup {None}
BY DEF TypeOK, Settle

LEMMA LoginTypes ==
    ASSUME TypeOK, LocalInv, LoginStep
    PROVE  TypeOK' /\ LocalInv'
<1> USE DEF InFlight
<1>0. PICK c \in Calls :
          \/ \E password \in Passwords : Login(c, password)
          \/ \E user \in {account, None} : ValidateUser(c, user) \/ GetUserId(c, user)
          \/ Register(c) \/ SaveId(c) \/ StoreToken(c) \/ Crash(c) \/ TestToken(c)
  BY DEF LoginStep
<1>1. ASSUME NEW password \in Passwords, Login(c, password)
      PROVE  TypeOK' /\ LocalInv'
  BY <1>1 DEF Login, Goto, TypeOK, LocalInv, revocation
<1>2. ASSUME NEW user \in {account, None}, ValidateUser(c, user)
      PROVE  TypeOK' /\ LocalInv'
  <2>1. settled' \in UserRecord \cup {None}
    BY <1>2, SettleType DEF ValidateUser, TypeOK
  <2>2. QED
    BY <1>2, <2>1 DEF ValidateUser, Goto, Forget, TypeOK, LocalInv, revocation
<1>3. ASSUME NEW user \in {account, None}, GetUserId(c, user)
      PROVE  TypeOK' /\ LocalInv'
  <2>1. settled' \in UserRecord \cup {None}
    BY <1>3, SettleType DEF GetUserId, TypeOK
  <2>2. user # None => user.password \in Passwords /\ user.id \in Calls \cup {None}
    BY DEF TypeOK, UserRecord
  <2>3. exp' \in [Calls -> Nat] /\ userId' \in [Calls -> Calls \cup {None}]
    BY <1>3, <2>2, AccountsAssumption DEF GetUserId, Sign, HasId, TypeOK
  <2>4. /\ given' \in [Calls -> Passwords \cup {None}]
        /\ copy' \in [Calls -> Passwords \cup {None}]
        /\ pc' \in [Calls -> InFlight \cup {"idle", "answered", "rejected", "gone"}]
    BY <1>3, <2>2 DEF GetUserId, Sign, Forget, Goto, TypeOK
  <2>5. LocalInv'
    BY <1>3, <2>2 DEF GetUserId, Sign, Forget, Goto, TypeOK, LocalInv
  <2>6. QED
    BY <1>3, <2>1, <2>3, <2>4, <2>5 DEF GetUserId, TypeOK, revocation
<1>4. CASE Register(c)
  <2>1. account' \in UserRecord \cup {None}
    BY <1>4, WriteType DEF Register, LocalInv, TypeOK
  <2>2. settled' \in UserRecord \cup {None}
    BY <1>4, <2>1, SettleType DEF Register
  <2>3. QED
    BY <1>4, <2>1, <2>2 DEF Register, Goto, TypeOK, LocalInv, revocation
<1>5. CASE SaveId(c)
  <2>1. account' \in UserRecord \cup {None}
    BY <1>5, WriteType DEF SaveId, LocalInv, TypeOK
  <2>2. settled' \in UserRecord \cup {None}
    BY <1>5, <2>1, SettleType DEF SaveId
  <2>3. exp' \in [Calls -> Nat] /\ userId' \in [Calls -> Calls \cup {None}]
    BY <1>5, AccountsAssumption DEF SaveId, Sign, TypeOK
  <2>4. QED
    BY <1>5, <2>1, <2>2, <2>3 DEF SaveId, Sign, Forget, Goto, TypeOK, LocalInv, revocation
<1>6. CASE StoreToken(c) \/ Crash(c)
  <2>1. settled' \in UserRecord \cup {None}
    BY <1>6, SettleType DEF StoreToken, Crash, TypeOK
  <2>2. QED
    BY <1>6, <2>1 DEF StoreToken, Crash, Forget, Goto, TypeOK, LocalInv, revocation
<1>7. CASE TestToken(c)
  BY <1>7, AccountsAssumption
     DEF TestToken, Sign, Forget, Goto, TypeOK, LocalInv, revocation
<1>8. QED
  BY <1>0, <1>1, <1>2, <1>3, <1>4, <1>5, <1>6, <1>7

LEMMA TokenTypes ==
    ASSUME TypeOK, LocalInv, TokenStep
    PROVE  TypeOK' /\ LocalInv'
<1>1. ASSUME NEW t \in Watched, Revoke(t) \/ Verify(t) \/ Lookup(t) \/ LookupFails(t)
      PROVE  TypeOK' /\ LocalInv'
  BY <1>1, AccountsAssumption
     DEF Revoke, RevocationTTL, Verify, Lookup, LookupFails, Answer,
         TypeOK, LocalInv, login, revocation
<1>2. ASSUME NEW r \in revoking, Revoked(r) \/ RevokeFails(r)
      PROVE  TypeOK' /\ LocalInv'
  BY <1>2 DEF Revoked, RevokeFails, TypeOK, LocalInv, login
<1>3. QED
  BY <1>1, <1>2 DEF TokenStep

LEMMA TickTypes ==
    ASSUME TypeOK, LocalInv, Tick
    PROVE  TypeOK' /\ LocalInv'
<1>1. account' \in UserRecord \cup {None}
  BY DEF Tick, TypeOK
<1>2. settled' \in UserRecord \cup {None}
  BY <1>1, SettleType DEF Tick
<1>3. QED
  BY <1>1, <1>2, AccountsAssumption DEF Tick, TypeOK, LocalInv

-----------------------------------------------------------------------------
(***************************************************************************)
(* The record of the user.                                                 *)
(***************************************************************************)

\* When Settle ends with a settled record, either it was settled before and
\* nothing failed, or the record is complete now.
LEMMA SettleFacts ==
    ASSUME NEW failed \in BOOLEAN, Settle(failed), settled' # None
    PROVE  /\ ~failed
           /\ \/ settled' = settled /\ settled # None
              \/ settled' = account' /\ Complete'
BY DEF Settle

\* A step that settles keeps SettledInv if, whenever the record was settled and
\* nothing failed, it leaves the record and sends no call to write it.
LEMMA SettledKept ==
    ASSUME SettledInv, NEW failed \in BOOLEAN, Settle(failed),
           settled # None /\ ~failed /\ account' # None =>
              /\ account' = account
              /\ \A c \in Calls :
                    /\ pc'[c] \notin {"register", "saveId"}
                    /\ pc'[c] = "getId" => given'[c] = settled.password
    PROVE  SettledInv'
<1>1. SUFFICES ASSUME settled' # None
               PROVE  account' = settled' /\ Complete'
  BY DEF SettledInv
<1>2. account' # None
  BY <1>1 DEF Settle
<1>3. CASE settled' = settled /\ settled # None
  BY <1>1, <1>2, <1>3, SettleFacts DEF SettledInv, Complete
<1>4. CASE settled' = account' /\ Complete'
  BY <1>4
<1>5. QED
  BY <1>1, <1>3, <1>4, SettleFacts

LEMMA LoginSettled ==
    ASSUME TypeOK, SettledInv, LoginStep
    PROVE  SettledInv'
<1>0. PICK c \in Calls :
          \/ \E password \in Passwords : Login(c, password)
          \/ \E user \in {account, None} : ValidateUser(c, user) \/ GetUserId(c, user)
          \/ Register(c) \/ SaveId(c) \/ StoreToken(c) \/ Crash(c) \/ TestToken(c)
  BY DEF LoginStep
<1>1. ASSUME NEW password \in Passwords, Login(c, password)
      PROVE  SettledInv'
  BY <1>1 DEF Login, Goto, TypeOK, SettledInv, Complete
<1>2. ASSUME NEW user \in {account, None}, ValidateUser(c, user)
      PROVE  SettledInv'
  <2>1. settled # None /\ ~(user # account) =>
            \A d \in Calls : /\ pc'[d] \notin {"register", "saveId"}
                             /\ pc'[d] = "getId" => given'[d] = settled.password
    BY <1>2 DEF ValidateUser, PasswordMatches, Goto, Forget, TypeOK, SettledInv, Complete
  <2>2. QED
    BY <1>2, <2>1, SettledKept DEF ValidateUser
<1>3. ASSUME NEW user \in {account, None}, GetUserId(c, user)
      PROVE  SettledInv'
  <2>1. settled # None /\ ~(user # account) =>
            \A d \in Calls : /\ pc'[d] \notin {"register", "saveId"}
                             /\ pc'[d] = "getId" => given'[d] = settled.password
    BY <1>3 DEF GetUserId, HasId, Sign, Goto, Forget, TypeOK, SettledInv, Complete
  <2>2. QED
    BY <1>3, <2>1, SettledKept DEF GetUserId
<1>4. CASE Register(c) \/ SaveId(c)
  <2>1. settled = None /\ Settle(FALSE)
    BY <1>4 DEF Register, SaveId, SettledInv, Complete
  <2>2. QED
    BY <2>1, SettledKept
<1>5. CASE StoreToken(c) \/ Crash(c)
  <2>1. settled # None =>
            \A d \in Calls : /\ pc'[d] \notin {"register", "saveId"}
                             /\ pc'[d] = "getId" => given'[d] = settled.password
    BY <1>5 DEF StoreToken, Crash, Goto, Forget, TypeOK, SettledInv, Complete
  <2>2. QED
    BY <1>5, <2>1, SettledKept DEF StoreToken, Crash
<1>6. CASE TestToken(c)
  BY <1>6 DEF TestToken, Sign, Goto, Forget, TypeOK, SettledInv, Complete
<1>7. QED
  BY <1>0, <1>1, <1>2, <1>3, <1>4, <1>5, <1>6

LEMMA NextSettled ==
    ASSUME TypeOK, SettledInv, [Next]_vars
    PROVE  SettledInv'
<1>1. CASE UNCHANGED vars
  BY <1>1 DEF vars, login, SettledInv, Complete
<1>2. CASE Tick
  <2>1. /\ Settle(FALSE) /\ UNCHANGED <<pc, given>>
        /\ account' = None \/ account' = account
    BY <1>2 DEF Tick
  <2>2. QED
    BY <2>1, SettledKept DEF SettledInv, Complete
<1>3. CASE LoginStep
  BY <1>3, LoginSettled
<1>4. CASE TokenStep
  <2>1. UNCHANGED login
    BY <1>4 DEF TokenStep, Revoke, Verify, Lookup, LookupFails, Answer, Revoked, RevokeFails
  <2>2. QED
    BY <2>1 DEF login, SettledInv, Complete
<1>5. QED
  BY <1>1, <1>2, <1>3, <1>4, NextSteps

-----------------------------------------------------------------------------
(***************************************************************************)
(* A login that nothing disturbs.                                          *)
(***************************************************************************)

\* A record that is complete when Settle looks at it, and is the settled one if
\* there is one, is settled.
LEMMA SettlesComplete ==
    ASSUME Settle(FALSE), Complete', settled # None => settled = account'
    PROVE  settled' = account' /\ settled' # None
BY DEF Settle, Complete

LEMMA LoginLone ==
    ASSUME TypeOK, LocalInv, SettledInv, LoneInv, LoginStep
    PROVE  LoneInv'
<1> USE DEF InFlight
<1>0. PICK c \in Calls :
          \/ \E password \in Passwords : Login(c, password)
          \/ \E user \in {account, None} : ValidateUser(c, user) \/ GetUserId(c, user)
          \/ Register(c) \/ SaveId(c) \/ StoreToken(c) \/ Crash(c) \/ TestToken(c)
  BY DEF LoginStep
<1>a. c # None
  BY AccountsAssumption
<1>1. ASSUME NEW password \in Passwords, Login(c, password)
      PROVE  LoneInv'
  BY <1>1 DEF Login, Goto, TypeOK, LoneInv
<1>2. ASSUME NEW user \in {account, None}, ValidateUser(c, user)
      PROVE  LoneInv'
  <2>1. SUFFICES ASSUME lone' # None PROVE LoneInv'
    BY DEF LoneInv
  <2>2. lone' = lone /\ lone = c /\ user = account /\ pc'[c] # "rejected"
    BY <1>2, <2>1 DEF ValidateUser, LoneInv
  <2>3. /\ \A d \in Calls : d # c => pc'[d] = pc[d]
        /\ pc'[c] \in {"register", "getId"}
        /\ pc'[c] = "getId" => account # None /\ account.password = given[c]
        /\ UNCHANGED <<given, account>>
    BY <1>2, <2>2 DEF ValidateUser, PasswordMatches, Goto, TypeOK
  <2>4. QED
    BY <2>2, <2>3 DEF LoneInv
<1>3. ASSUME NEW user \in {account, None}, GetUserId(c, user)
      PROVE  LoneInv'
  <2>1. SUFFICES ASSUME lone' # None PROVE LoneInv'
    BY DEF LoneInv
  <2>2. /\ lone' = lone /\ lone = c /\ user = account /\ account # None
        /\ \A d \in Calls : d # c => pc[d] \notin InFlight
    BY <1>3, <2>1 DEF GetUserId, LoneInv
  <2>3. /\ \A d \in Calls : d # c => pc'[d] = pc[d]
        /\ account' = account
        /\ \/ pc'[c] = "saveId"
           \/ pc'[c] = "store" /\ userId'[c] = account.id /\ account.id # None
    BY <1>3, <2>2 DEF GetUserId, HasId, Sign, Goto, TypeOK
  <2>4. CASE pc'[c] = "saveId"
    BY <2>2, <2>3, <2>4 DEF LoneInv
  <2>5. CASE pc'[c] = "store" /\ userId'[c] = account.id /\ account.id # None
    <3>1. Complete'
      BY <2>2, <2>3, <2>5 DEF Complete
    <3>2. settled' = account /\ settled' # None
      BY <1>3, <2>2, <2>3, <3>1, SettlesComplete DEF GetUserId, SettledInv
    <3>3. QED
      BY <2>2, <2>3, <2>5, <3>2 DEF LoneInv
  <2>6. QED
    BY <2>3, <2>4, <2>5
<1>4. CASE Register(c)
  <2>1. SUFFICES ASSUME lone' # None PROVE LoneInv'
    BY DEF LoneInv
  <2>2. /\ lone' = lone /\ lone = c /\ Write(given[c], None)
        /\ \A d \in Calls : d # c => pc[d] \notin InFlight
    BY <1>4, <2>1 DEF Register, LoneInv
  <2>3. account' # None /\ account'.password = given[c]
    BY <1>4, <2>2, WriteType, AccountsAssumption DEF Register, LocalInv, Write, UserRecord
  <2>4. QED
    BY <1>4, <2>2, <2>3 DEF Register, Goto, TypeOK, LoneInv
<1>5. CASE SaveId(c)
  <2>1. SUFFICES ASSUME lone' # None PROVE LoneInv'
    BY DEF LoneInv
  <2>2. /\ lone' = lone /\ lone = c /\ Write(copy[c], c) /\ Settle(FALSE)
        /\ \A d \in Calls : d # c => pc[d] \notin InFlight
    BY <1>5, <2>1 DEF SaveId, LoneInv
  <2>3. account' # None /\ account'.id = c /\ settled = None
    BY <1>5, <2>2, WriteType, AccountsAssumption
       DEF SaveId, LocalInv, Write, UserRecord, SettledInv, Complete
  <2>4. /\ \A d \in Calls : d # c => pc'[d] = pc[d]
        /\ pc'[c] = "store" /\ userId'[c] = c
    BY <1>5 DEF SaveId, Sign, Goto, TypeOK
  <2>5. Complete'
    BY <1>a, <2>2, <2>3, <2>4 DEF Complete
  <2>6. settled' = account' /\ settled' # None
    BY <2>2, <2>3, <2>5, SettlesComplete
  <2>7. QED
    BY <2>2, <2>3, <2>4, <2>6 DEF LoneInv
<1>6. CASE StoreToken(c) \/ Crash(c)
  BY <1>6 DEF StoreToken, Crash, LoneInv
<1>7. CASE TestToken(c)
  BY <1>7 DEF TestToken, Sign, Forget, Goto, TypeOK, LoneInv
<1>8. QED
  BY <1>0, <1>1, <1>2, <1>3, <1>4, <1>5, <1>6, <1>7

LEMMA NextLone ==
    ASSUME TypeOK, LocalInv, SettledInv, LoneInv, [Next]_vars
    PROVE  LoneInv'
<1>1. CASE UNCHANGED vars
  BY <1>1 DEF vars, login, LoneInv
<1>2. CASE Tick
  <2>1. SUFFICES ASSUME lone' # None PROVE LoneInv'
    BY DEF LoneInv
  <2>2. lone' = lone /\ account' = account /\ UNCHANGED <<pc, given, userId>> /\ Settle(FALSE)
    BY <1>2, <2>1 DEF Tick
  <2>3. settled # None => settled' = settled
    BY <2>2 DEF Settle, SettledInv, Complete
  <2>4. QED
    BY <2>2, <2>3 DEF LoneInv
<1>3. CASE LoginStep
  BY <1>3, LoginLone
<1>4. CASE TokenStep
  <2>1. UNCHANGED login
    BY <1>4 DEF TokenStep, Revoke, Verify, Lookup, LookupFails, Answer, Revoked, RevokeFails
  <2>2. QED
    BY <2>1 DEF login, LoneInv
<1>5. QED
  BY <1>1, <1>2, <1>3, <1>4, NextSteps

-----------------------------------------------------------------------------
(***************************************************************************)
(* Revocations.                                                            *)
(***************************************************************************)

\* A token that somebody holds, and its expiry, stay what they are.
LEMMA TokensStay ==
    ASSUME TypeOK, [Next]_vars, NEW t \in Calls, pc[t] = "answered"
    PROVE  pc'[t] = "answered" /\ exp'[t] = exp[t]
<1>1. CASE UNCHANGED vars \/ Tick \/ TokenStep
  BY <1>1 DEF vars, login, Tick, TokenStep, Revoke, Verify, Lookup, LookupFails, Answer,
              Revoked, RevokeFails
<1>2. CASE LoginStep
  BY <1>2 DEF LoginStep, Login, ValidateUser, Register, GetUserId, SaveId, StoreToken, Crash,
              TestToken, Sign, Forget, Goto, TypeOK, InFlight
<1>3. QED
  BY <1>1, <1>2, NextSteps

LEMMA RevocationTypes ==
    ASSUME TypeOK
    PROVE  /\ now \in Nat /\ written \subseteq Calls
           /\ \A t \in Calls : exp[t] + Buffer \in Nat
           /\ \A r \in revoking : r.token \in Watched /\ r.token \in Calls /\ r.ttl \in Int
BY AccountsAssumption DEF TypeOK

LEMMA NextRevocation ==
    ASSUME TypeOK, RevocationInv, [Next]_vars
    PROVE  RevocationInv'
<1>1. CASE UNCHANGED <<now, revocation>>
  BY <1>1, TokensStay, RevocationTypes DEF revocation, RevocationInv
<1>2. CASE Tick
  <2>1. /\ now' = now + 1
        /\ UNCHANGED <<revoking, written>>
        /\ \A t \in written :
              revoked'[t] = revoked[t] \/ (revoked[t] \in Nat /\ now' >= revoked[t])
    BY <1>2, AccountsAssumption DEF Tick, TypeOK
  <2>2. ASSUME NEW t \in written
        PROVE  /\ pc'[t] = "answered"
               /\ \/ revoked'[t] = Forever
                  \/ revoked'[t] \in Nat /\ revoked'[t] >= exp'[t] + Buffer
                  \/ now' >= exp'[t] + Buffer
    <3>1. /\ t \in Calls /\ now \in Nat /\ exp[t] + Buffer \in Nat
          /\ pc[t] = "answered"
      BY <2>2, RevocationTypes DEF RevocationInv
    <3>2. pc'[t] = "answered" /\ exp'[t] = exp[t]
      BY <3>1, TokensStay
    <3>3. CASE now >= exp[t] + Buffer
      BY <2>1, <3>1, <3>2, <3>3
    <3>4. CASE revoked[t] = Forever
      BY <2>1, <2>2, <3>2, <3>4, AccountsAssumption
    <3>5. CASE revoked[t] \in Nat /\ revoked[t] >= exp[t] + Buffer
      BY <2>1, <2>2, <3>1, <3>2, <3>5
    <3>6. QED
      BY <2>2, <3>3, <3>4, <3>5 DEF RevocationInv
  <2>3. ASSUME NEW r \in revoking
        PROVE  pc'[r.token] = "answered" /\ r.ttl + now' >= exp'[r.token] + Buffer
    BY <2>1, TokensStay, RevocationTypes DEF RevocationInv
  <2>4. QED
    BY <2>1, <2>2, <2>3 DEF RevocationInv
<1>3. ASSUME NEW t \in Watched, Revoke(t) PROVE RevocationInv'
  <2> DEFINE r == [token |-> t, ttl |-> RevocationTTL(t)]
  <2>1. /\ t \in Calls /\ pc[t] = "answered"
        /\ revoking' = revoking \cup {r}
        /\ UNCHANGED <<now, pc, exp, revoked, written>>
    BY <1>3, AccountsAssumption DEF Revoke, login
  <2>2. r.token = t /\ r.ttl + now >= exp[t] + Buffer
    BY <2>1, AccountsAssumption DEF RevocationTTL, TypeOK
  <2>3. QED
    BY <2>1, <2>2 DEF RevocationInv
<1>4. ASSUME NEW r \in revoking, Revoked(r) PROVE RevocationInv'
  <2>1. /\ r.token \in Watched /\ r.ttl \in Int /\ r.ttl >= 0
        /\ revoked' = [revoked EXCEPT ![r.token] =
                          IF r.ttl = 0 THEN Forever ELSE now + r.ttl]
        /\ written' = written \cup {r.token}
        /\ revoking' = revoking \ {r}
        /\ UNCHANGED <<now, pc, exp>>
    BY <1>4, RevocationTypes DEF Revoked, login
  <2>2. \/ revoked'[r.token] = Forever
        \/ revoked'[r.token] \in Nat /\ revoked'[r.token] >= exp[r.token] + Buffer
    BY <2>1, RevocationTypes DEF RevocationInv, TypeOK
  <2>3. \A t \in written : t # r.token => revoked'[t] = revoked[t]
    BY <2>1 DEF TypeOK
  <2>4. QED
    BY <2>1, <2>2, <2>3 DEF RevocationInv
<1>5. ASSUME NEW r \in revoking, RevokeFails(r) PROVE RevocationInv'
  BY <1>5 DEF RevokeFails, login, RevocationInv
<1>6. CASE LoginStep
  BY <1>1, <1>6 DEF LoginStep, Login, ValidateUser, Register, GetUserId, SaveId, StoreToken,
                    Crash, TestToken
<1>7. CASE UNCHANGED vars
  BY <1>1, <1>7 DEF vars
<1>8. ASSUME NEW t \in Watched, Verify(t) \/ Lookup(t) \/ LookupFails(t)
      PROVE  RevocationInv'
  BY <1>1, <1>8 DEF Verify, Lookup, LookupFails, Answer
<1>9. QED
  BY <1>2, <1>3, <1>4, <1>5, <1>6, <1>7, <1>8, NextSteps DEF TokenStep

-----------------------------------------------------------------------------
(***************************************************************************)
(* The theorems.                                                           *)
(***************************************************************************)
LEMMA NextAccounts ==
    ASSUME IInv, [Next]_vars PROVE IInv'
<1>1. TypeOK' /\ LocalInv'
  <2>1. CASE UNCHANGED vars
    BY <2>1 DEF IInv, TypeOK, LocalInv, vars, login, revocation
  <2>2. QED
    BY <2>1, NextSteps, LoginTypes, TokenTypes, TickTypes DEF IInv
<1>2. QED
  BY <1>1, NextSettled, NextLone, NextRevocation DEF IInv

\* The inductive invariant.
THEOREM AccountsInvariant == Spec => []IInv
<1>1. Init => IInv
  BY InitAccounts
<1>2. IInv /\ [Next]_vars => IInv'
  BY NextAccounts
<1>3. QED
  BY <1>1, <1>2, PTL DEF Spec

\* Every variable keeps its type, and a login always has a password to write.
THEOREM AccountsTypes == Spec => []TypeOK
<1>1. IInv => TypeOK
  BY DEF IInv
<1>2. QED
  BY <1>1, AccountsInvariant, PTL

\* However many logins overlap, fail and crash: a settled record is kept.
THEOREM SettledRecordIsKept == Spec => []SettledIsKept
<1>1. IInv => SettledIsKept
  BY DEF IInv, SettledInv, SettledIsKept
<1>2. QED
  BY <1>1, AccountsInvariant, PTL

\* Whatever the logins before it left, one that nothing disturbs leaves a settled
\* record with the id its token names.
THEOREM LoneLogins == Spec => []LoneLoginSettles
<1>1. IInv => LoneLoginSettles
  BY DEF IInv, SettledInv, LoneInv, LoneLoginSettles
<1>2. QED
  BY <1>1, AccountsInvariant, PTL

\* A login that signs while the record is settled knows its password and names
\* its id.
THEOREM SettledLogins == Spec => SettledTokens
<1>1. ASSUME IInv, [Next]_vars PROVE [SignSettled]_vars
  <2>1. SUFFICES ASSUME NEW c \in Calls, pc[c] # "store", pc'[c] = "store",
                        settled # None, settled' # None
                 PROVE  given[c] = settled.password /\ userId'[c] = settled.id
    BY DEF SignSettled
  <2>2. TypeOK /\ SettledInv
    BY <1>1 DEF IInv
  <2>3. LoginStep
    BY <1>1, <2>1, NextSteps
       DEF vars, login, Tick, TokenStep, Revoke, Verify, Lookup, LookupFails, Answer,
           Revoked, RevokeFails
  <2>4. PICK d \in Calls :
            \/ \E password \in Passwords : Login(d, password)
            \/ \E user \in {account, None} : ValidateUser(d, user) \/ GetUserId(d, user)
            \/ Register(d) \/ SaveId(d) \/ StoreToken(d) \/ Crash(d) \/ TestToken(d)
    BY <2>3 DEF LoginStep
  <2>5. PICK user \in {account, None} : d = c /\ GetUserId(c, user)
    BY <2>1, <2>2, <2>4
       DEF Login, ValidateUser, Register, SaveId, StoreToken, Crash, TestToken, GetUserId,
           Goto, TypeOK, SettledInv, Complete
  <2>6. user = account
    BY <2>1, <2>5, SettleFacts DEF GetUserId
  <2>7. QED
    BY <2>1, <2>2, <2>5, <2>6 DEF GetUserId, HasId, Sign, Goto, SettledInv, Complete, TypeOK
<1>2. QED
  BY <1>1, AccountsInvariant, PTL DEF Spec, SettledTokens

\* A stored revocation is honoured by every lookup that Redis answers, until the
\* buffer after the expiry of the token.
THEOREM RevocationsHold == Spec => RevokedIsRefused
<1>1. ASSUME IInv, [Next]_vars PROVE [AcceptUnrevoked]_vars
  <2>1. SUFFICES ASSUME NEW t \in written, check[t] = "pending", check'[t] = "accepted"
                 PROVE  now >= exp[t] + Buffer
    BY DEF AcceptUnrevoked
  <2>2. TypeOK /\ RevocationInv /\ t \in Watched
    BY <1>1 DEF IInv, TypeOK
  <2>3. revoked[t] = None
    BY <1>1, <2>1, <2>2, NextSteps
       DEF vars, Tick, LoginStep, Login, ValidateUser, GetUserId, Register, SaveId, StoreToken,
           Crash, TestToken, TokenStep, Revoke, Verify, Lookup, LookupFails, Answer, Revoked,
           RevokeFails, TypeOK
  <2>4. QED
    BY <2>2, <2>3, AccountsAssumption DEF RevocationInv
<1>2. QED
  BY <1>1, AccountsInvariant, PTL DEF Spec, RevokedIsRefused

=============================================================================
