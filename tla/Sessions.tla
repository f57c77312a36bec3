------------------------------ MODULE Sessions ------------------------------
(***************************************************************************)
(* The session of one account: AuthService's login with its lockout,       *)
(* refresh (web and mobile), logout, e-mail verification, login by an      *)
(* external provider, the two steps of a password reset, and the profile   *)
(* edit that saves the same row.  The Redis keys and the row of different  *)
(* accounts are disjoint, so one account, with a password, is modelled.    *)
(* Requests run from one await to the next and interleave; a request may   *)
(* stop at any await, since none is fair.                                  *)
(*                                                                         *)
(* A token or a password is named by the request that made it: a refresh   *)
(* token by the request that issued it, a reset token by the request that  *)
(* mailed it, a password by the reset that set it.  Hashing is injective.  *)
(***************************************************************************)
EXTENDS Integers

CONSTANTS
  Requests,
  First,        \* the session, password and reset token there were before
  None,         \* no token
  LockAfter,    \* wrong passwords that lock the account (5 in the code)
  MaxExpiries   \* bound: Redis keys and reset tokens that expire

ASSUME NamesAssumption ==
  First \notin Requests /\ None \notin Requests /\ First # None
ASSUME BoundsAssumption == LockAfter \in Nat \ {0} /\ MaxExpiries \in Nat

VARIABLES
  session,     \* sf:session:refresh: whose hash it holds, or None
  attempts,    \* sf:login:attempts, 0 when there is no such key
  locked,      \* sf:login:locked
  row,         \* users: password, isVerified, password_reset_token
  lapsed,      \* reset tokens whose password_reset_expires_at has passed
  pc,          \* [Requests -> Labels]: the await a request is at
  kind,        \* [Requests -> Kinds]: its route
  presents,    \* [Requests -> Token]: the token or password it was given
  count,       \* [Requests -> Nat]: attempts as it has read them
  held,        \* [Requests -> Row]: the row as an edit has loaded it
  dead,        \* history: requests whose secret was dead on arrival
  wrong,       \* history: wrong passwords that have been counted
  expiries

redis   == <<session, attempts, locked>>
account == <<row, lapsed>>
locals  == <<kind, presents, count, held, dead>>
vars    == <<redis, account, pc, locals, wrong, expiries>>

Token      == Requests \cup {First, None}
Row        == [password : Requests \cup {First}, verified : BOOLEAN, reset : Token]
Refreshes  == {"web", "mobile"}
Openers    == {"login", "verify", "oauth"}
Kinds      == Openers \cup Refreshes \cup {"logout", "forgot", "confirm", "edit"}
Ended      == {"done", "failed"}
Labels     == {"idle", "checkLock", "compare", "count", "record", "lock",
               "clearAttempts", "clearLock", "verify", "setVerified", "read",
               "save", "end", "mail", "findReset", "change", "cleanup",
               "loadRow", "saveRow"} \cup Ended

TypeOK ==
  /\ session \in Token /\ attempts \in Nat /\ locked \in BOOLEAN
  /\ row \in Row /\ lapsed \subseteq Token
  /\ pc \in [Requests -> Labels] /\ kind \in [Requests -> Kinds]
  /\ presents \in [Requests -> Token] /\ count \in [Requests -> Nat]
  /\ held \in [Requests -> Row]
  /\ dead \subseteq Requests /\ wrong \in Nat
  /\ expiries \in 0..MaxExpiries

Init ==
  /\ session \in {First, None} /\ attempts = 0 /\ locked = FALSE
  /\ row \in [password : {First}, verified : BOOLEAN, reset : {First, None}]
  /\ lapsed = {}
  /\ pc = [r \in Requests |-> "idle"]
  /\ kind = [r \in Requests |-> "login"]
  /\ presents = [r \in Requests |-> None]
  /\ count = [r \in Requests |-> 0]
  /\ held = [r \in Requests |-> row]
  /\ dead = {} /\ wrong = 0 /\ expiries = 0
-----------------------------------------------------------------------------
Over(t)      == t = First \/ (t \in Requests /\ pc[t] \in Ended)
Answered(ks) == {First} \cup {r \in Requests : pc[r] = "done" /\ kind[r] \in ks}

(* What a client may present: a refresh token or a reset token that it was  *)
(* sent, a password that it has chosen, or a wrong one.                     *)
Presentable(k) ==
  IF k = "login" THEN {None, First} \cup {r \in Requests : kind[r] = "confirm"}
  ELSE IF k \in Refreshes THEN Answered(Openers \cup Refreshes)
  ELSE IF k = "confirm" THEN Answered({"forgot"})
  ELSE {None}

(* A secret is dead when it is not the one stored and whoever was to store  *)
(* it is done: a refresh token that was rotated, logged out, reset or has   *)
(* expired; a password or a reset token that was replaced or used, unless   *)
(* an edit still holds the row that has it.                                 *)
Dead(k, t) ==
  /\ Over(t)
  /\ \/ k \in Refreshes /\ session # t
     \/ /\ k = "login" /\ row.password # t
        /\ \A e \in Requests : pc[e] = "saveRow" => held[e].password # t
     \/ /\ k = "confirm" /\ row.reset # t
        /\ \A e \in Requests : pc[e] = "saveRow" => held[e].reset # t

Entry(k) ==
  IF k = "login" THEN "checkLock" ELSE IF k = "verify" THEN "verify"
  ELSE IF k = "oauth" THEN "save" ELSE IF k = "logout" THEN "end"
  ELSE IF k = "forgot" THEN "mail" ELSE IF k = "confirm" THEN "findReset"
  ELSE IF k = "edit" THEN "loadRow" ELSE "read"

Goto(r, label) == pc' = [pc EXCEPT ![r] = label]

Arrive(r) ==
  /\ pc[r] = "idle"
  /\ \E k \in Kinds : \E t \in Presentable(k) :
       /\ kind' = [kind EXCEPT ![r] = k]
       /\ presents' = [presents EXCEPT ![r] = t]
       /\ Goto(r, Entry(k))
       /\ dead' = dead \cup IF Dead(k, t) THEN {r} ELSE {}
  /\ UNCHANGED <<redis, account, count, held, wrong, expiries>>
-----------------------------------------------------------------------------
(* login.                                                                   *)
CheckLock(r) ==
  /\ pc[r] = "checkLock" /\ Goto(r, IF locked THEN "failed" ELSE "compare")
  /\ UNCHANGED <<redis, account, locals, wrong, expiries>>

ComparePassword(r) ==
  /\ pc[r] = "compare"
  /\ Goto(r, IF presents[r] # row.password THEN "count"
             ELSE IF row.verified THEN "clearAttempts" ELSE "failed")
  /\ UNCHANGED <<redis, account, locals, wrong, expiries>>

CountAttempts(r) ==
  /\ pc[r] = "count" /\ Goto(r, "record")
  /\ count' = [count EXCEPT ![r] = attempts]
  /\ UNCHANGED <<redis, account, kind, presents, held, dead, wrong, expiries>>

RecordAttemptEarly(r) ==
  /\ pc[r] = "record"
  /\ attempts' = count[r] + 1 /\ wrong' = wrong + 1
  /\ Goto(r, IF count[r] + 2 >= LockAfter THEN "lock" ELSE "failed")
  /\ UNCHANGED <<session, locked, account, locals, expiries>>

RecordAttempt(r) ==
  /\ pc[r] = "record"
  /\ attempts' = count[r] + 1 /\ wrong' = wrong + 1
  /\ Goto(r, IF count[r] + 1 >= LockAfter THEN "lock" ELSE "failed")
  /\ UNCHANGED <<session, locked, account, locals, expiries>>

LockAccount(r) ==
  /\ pc[r] = "lock" /\ Goto(r, "failed") /\ locked' = TRUE
  /\ UNCHANGED <<session, attempts, account, locals, wrong, expiries>>

ClearAttempts(r) ==
  /\ pc[r] = "clearAttempts" /\ Goto(r, "clearLock") /\ attempts' = 0
  /\ UNCHANGED <<session, locked, account, locals, wrong, expiries>>

ClearLock(r) ==
  /\ pc[r] = "clearLock" /\ Goto(r, "save") /\ locked' = FALSE
  /\ UNCHANGED <<session, attempts, account, locals, wrong, expiries>>

(* verifyEmail: the row has a verification token until it is verified.      *)
FindVerification(r) ==
  /\ pc[r] = "verify" /\ Goto(r, IF row.verified THEN "failed" ELSE "setVerified")
  /\ UNCHANGED <<redis, account, locals, wrong, expiries>>

SetVerified(r) ==
  /\ pc[r] = "setVerified" /\ Goto(r, "save")
  /\ row' = [row EXCEPT !.verified = TRUE]
  /\ UNCHANGED <<redis, lapsed, locals, wrong, expiries>>

(* refreshTokens and refreshTokensMobile: read the stored hash and compare  *)
(* it with the token; the mobile one ends the session on a mismatch.        *)
ReadSessionUnmatched(r) ==
  /\ pc[r] = "read" /\ Goto(r, IF session = None THEN "failed" ELSE "save")
  /\ UNCHANGED <<redis, account, locals, wrong, expiries>>

ReadSessionOrNone(r) ==
  /\ pc[r] = "read"
  /\ Goto(r, IF session \in {None, presents[r]} THEN "save"
             ELSE IF kind[r] = "mobile" THEN "end" ELSE "failed")
  /\ UNCHANGED <<redis, account, locals, wrong, expiries>>

ReadSession(r) ==
  /\ pc[r] = "read"
  /\ Goto(r, IF session = None THEN "failed"
             ELSE IF session = presents[r] THEN "save"
             ELSE IF kind[r] = "mobile" THEN "end" ELSE "failed")
  /\ UNCHANGED <<redis, account, locals, wrong, expiries>>

(* generateTokens and saveRefreshTokenHash, then the answer with the token. *)
SaveSession(r) ==
  /\ pc[r] = "save" /\ Goto(r, "done") /\ session' = r
  /\ UNCHANGED <<attempts, locked, account, locals, wrong, expiries>>

(* The session key is deleted: logout, a reset, or a mobile mismatch.       *)
EndSession(r) ==
  /\ pc[r] = "end" /\ session' = None
  /\ Goto(r, IF kind[r] = "mobile" THEN "failed" ELSE "done")
  /\ UNCHANGED <<attempts, locked, account, locals, wrong, expiries>>

(* sendPasswordReset and confirmPasswordReset.                              *)
MailResetToken(r) ==
  /\ pc[r] = "mail" /\ Goto(r, "done") /\ row' = [row EXCEPT !.reset = r]
  /\ UNCHANGED <<redis, lapsed, locals, wrong, expiries>>

FindReset(r) ==
  /\ pc[r] = "findReset"
  /\ Goto(r, IF row.reset # presents[r] THEN "failed"
             ELSE IF presents[r] \in lapsed THEN "cleanup" ELSE "change")
  /\ UNCHANGED <<redis, account, locals, wrong, expiries>>

CleanupReset(r) ==
  /\ pc[r] = "cleanup" /\ Goto(r, "failed") /\ row' = [row EXCEPT !.reset = None]
  /\ UNCHANGED <<redis, lapsed, locals, wrong, expiries>>

ChangePassword(r) ==
  /\ pc[r] = "change" /\ Goto(r, "end")
  /\ row' = [password |-> r, verified |-> row.verified, reset |-> None]
  /\ UNCHANGED <<redis, lapsed, locals, wrong, expiries>>

(* updateProfile saves the row it has loaded, with the columns it does not  *)
(* edit as they were then.                                                  *)
LoadRow(r) ==
  /\ pc[r] = "loadRow" /\ Goto(r, "saveRow") /\ held' = [held EXCEPT ![r] = row]
  /\ UNCHANGED <<redis, account, kind, presents, count, dead, wrong, expiries>>

SaveRow(r) ==
  /\ pc[r] = "saveRow" /\ Goto(r, "done") /\ row' = held[r]
  /\ UNCHANGED <<redis, lapsed, locals, wrong, expiries>>

(* Time passes.                                                             *)
Expire ==
  /\ expiries < MaxExpiries /\ expiries' = expiries + 1
  /\ \/ session' = None  /\ UNCHANGED <<attempts, locked, lapsed>>
     \/ attempts' = 0    /\ UNCHANGED <<session, locked, lapsed>>
     \/ locked' = FALSE  /\ UNCHANGED <<session, attempts, lapsed>>
     \/ /\ \E t \in Answered({"forgot"}) : lapsed' = lapsed \cup {t}
        /\ UNCHANGED redis
  /\ UNCHANGED <<row, pc, locals, wrong>>

Step(r) ==
  \/ CheckLock(r) \/ ComparePassword(r) \/ CountAttempts(r)
  \/ RecordAttempt(r) \/ LockAccount(r) \/ ClearAttempts(r) \/ ClearLock(r)
  \/ FindVerification(r) \/ SetVerified(r)
  \/ ReadSession(r) \/ SaveSession(r) \/ EndSession(r)
  \/ MailResetToken(r) \/ FindReset(r) \/ CleanupReset(r) \/ ChangePassword(r)
  \/ LoadRow(r) \/ SaveRow(r)

Next == Expire \/ \E r \in Requests : Arrive(r) \/ Step(r)

Spec == Init /\ [][Next]_vars
-----------------------------------------------------------------------------
(* A secret that was dead when a request arrived with it stays dead: no     *)
(* rotation, login, logout, reset or edit that interleaves with the request *)
(* makes a refresh answer it with tokens, a login accept it as the password *)
(* or a reset change the password for it.                                   *)
DeadSecretRefused ==
  \A r \in dead :
    /\ kind[r] \in Refreshes => pc[r] \notin {"save", "done"}
    /\ kind[r] = "login"     => pc[r] \notin {"clearAttempts", "clearLock", "save", "done"}
    /\ kind[r] = "confirm"   => pc[r] \notin {"change", "end", "done"}

(* When there is no session, and no refresh that has seen one is still to   *)
(* save its own, only a login opens one, by password, link or provider.     *)
Closed ==
  /\ session = None
  /\ \A r \in Requests : pc[r] = "save" => kind[r] \in Openers

OnlyLoginsReopen ==
  [][Closed => Closed' \/ \E r \in Requests : kind[r] \in Openers /\ session' = r]_vars

(* However many logins race between reading and writing the counter, and    *)
(* whatever expires meanwhile, an account is locked only after LockAfter    *)
(* wrong passwords.                                                         *)
LockIsEarned == locked => wrong >= LockAfter
=============================================================================
