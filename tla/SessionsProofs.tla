--------------------------- MODULE SessionsProofs ---------------------------
(***************************************************************************)
(* Proofs about Sessions, for every set of requests and every bound: its   *)
(* types, that a dead secret stays dead, that a lock is earned, and that   *)
(* only a login reopens a closed session.                                  *)
(***************************************************************************)
EXTENDS Sessions, TLAPS

LEMMA TypeInit == Init => TypeOK
<1> SUFFICES ASSUME Init PROVE TypeOK
  OBVIOUS
<1>1. row \in Row
  BY DEF Init, Row, Token
<1>2. session \in Token /\ attempts \in Nat /\ locked \in BOOLEAN /\ lapsed \subseteq Token
  BY DEF Init, Token
<1> QED
  BY <1>1, <1>2, BoundsAssumption DEF Init, TypeOK, Token, Labels, Kinds, Openers

(* Every kind of request starts at a label.                                  *)
LEMMA EntryType == \A k \in Kinds : Entry(k) \in Labels
  BY DEF Entry, Labels

(* Whatever token a client can present has the type of a token.              *)
LEMMA PresentableType == \A k : Presentable(k) \subseteq Token
  BY DEF Presentable, Answered, Token

(* Every handler of the authentication service keeps the types.              *)
LEMMA TypeStep == TypeOK /\ [Next]_vars => TypeOK'
<1> SUFFICES ASSUME TypeOK, [Next]_vars PROVE TypeOK'
  OBVIOUS
<1> USE DEF TypeOK, redis, account, locals, Goto, Ended
<1>1. ASSUME NEW r \in Requests, Arrive(r) PROVE TypeOK'
  <2>1. PICK k \in Kinds : \E t \in Presentable(k) :
           /\ kind' = [kind EXCEPT ![r] = k]
           /\ presents' = [presents EXCEPT ![r] = t]
           /\ Goto(r, Entry(k))
           /\ dead' = dead \cup IF Dead(k, t) THEN {r} ELSE {}
    BY <1>1 DEF Arrive
  <2>2. Entry(k) \in Labels /\ \A t \in Presentable(k) : t \in Token
    BY EntryType, PresentableType
  <2> QED
    BY <1>1, <2>1, <2>2 DEF Arrive
<1>2. ASSUME NEW r \in Requests,
             CheckLock(r) \/ ComparePassword(r) \/ CountAttempts(r) \/ RecordAttempt(r)
      PROVE  TypeOK'
  BY <1>2 DEF CheckLock, ComparePassword, CountAttempts, RecordAttempt, Labels
<1>3. ASSUME NEW r \in Requests,
             LockAccount(r) \/ ClearAttempts(r) \/ ClearLock(r) \/ FindVerification(r)
      PROVE  TypeOK'
  <2>1. locked' \in BOOLEAN
    BY <1>3 DEF LockAccount, ClearAttempts, ClearLock, FindVerification
  <2>2. pc' \in [Requests -> Labels] /\ attempts' \in Nat
    BY <1>3 DEF LockAccount, ClearAttempts, ClearLock, FindVerification, Labels
  <2> QED
    BY <1>3, <2>1, <2>2 DEF LockAccount, ClearAttempts, ClearLock, FindVerification
<1>4. ASSUME NEW r \in Requests, ReadSession(r) \/ SaveSession(r) \/ EndSession(r)
      PROVE  TypeOK'
  BY <1>4 DEF ReadSession, SaveSession, EndSession, Labels, Token
<1>5. ASSUME NEW r \in Requests, SetVerified(r) \/ MailResetToken(r) \/ CleanupReset(r)
      PROVE  TypeOK'
  <2>1. row' \in Row
    BY <1>5 DEF SetVerified, MailResetToken, CleanupReset, Row, Token
  <2> QED
    BY <1>5, <2>1 DEF SetVerified, MailResetToken, CleanupReset, Labels
<1>6. ASSUME NEW r \in Requests, FindReset(r) \/ ChangePassword(r) PROVE TypeOK'
  <2>1. row' \in Row
    BY <1>6 DEF FindReset, ChangePassword, Row, Token
  <2> QED
    BY <1>6, <2>1 DEF FindReset, ChangePassword, Labels
<1>7. ASSUME NEW r \in Requests, LoadRow(r) \/ SaveRow(r) PROVE TypeOK'
  BY <1>7 DEF LoadRow, SaveRow, Labels
<1>8. ASSUME Expire PROVE TypeOK'
  <2>1. lapsed' \subseteq Token /\ session' \in Token /\ attempts' \in Nat
    BY <1>8 DEF Expire, Answered, Token
  <2>2. expiries' \in 0..MaxExpiries
    BY <1>8, BoundsAssumption DEF Expire
  <2>3. locked' = locked \/ locked' = FALSE
    BY <1>8 DEF Expire
  <2>4. locked' \in BOOLEAN
    BY <2>3
  <2> QED
    BY <1>8, <2>1, <2>2, <2>4 DEF Expire
<1>9. ASSUME UNCHANGED vars PROVE TypeOK'
  BY <1>9 DEF vars
<1> QED
  BY <1>1, <1>2, <1>3, <1>4, <1>5, <1>6, <1>7, <1>8, <1>9 DEF Next, Step

(* Every variable of Sessions keeps its type.                               *)
THEOREM SessionTypes == Spec => []TypeOK
  BY TypeInit, TypeStep, PTL DEF Spec
-----------------------------------------------------------------------------
(* LockIsEarned: the counter, and every copy of it a login has read, is at  *)
(* most the number of wrong passwords.                                      *)
EarnedInv ==
  /\ attempts <= wrong
  /\ \A r \in Requests : count[r] <= wrong
  /\ \A r \in Requests : pc[r] = "lock" => wrong >= LockAfter
  /\ LockIsEarned

LEMMA EarnedInit == Init => EarnedInv
  BY BoundsAssumption DEF Init, EarnedInv, LockIsEarned

(* No step counts more wrong passwords than there were.                      *)
LEMMA EarnedStep == TypeOK /\ EarnedInv /\ [Next]_vars => EarnedInv'
<1> SUFFICES ASSUME TypeOK, EarnedInv, [Next]_vars PROVE EarnedInv'
  OBVIOUS
<1> USE BoundsAssumption DEF TypeOK, EarnedInv, LockIsEarned, redis, account, locals, Goto
<1>1. ASSUME NEW r \in Requests, Arrive(r) PROVE EarnedInv'
  <2>1. PICK k \in Kinds : pc' = [pc EXCEPT ![r] = Entry(k)]
    BY <1>1 DEF Arrive
  <2>2. Entry(k) # "lock"
    BY DEF Entry
  <2> QED
    BY <1>1, <2>1, <2>2 DEF Arrive
<1>2. ASSUME NEW r \in Requests, CountAttempts(r) PROVE EarnedInv'
  BY <1>2 DEF CountAttempts
<1>3. ASSUME NEW r \in Requests, RecordAttempt(r) PROVE EarnedInv'
  BY <1>3 DEF RecordAttempt
<1>4. ASSUME NEW r \in Requests,
             CheckLock(r) \/ ComparePassword(r) \/ LockAccount(r) \/ ClearAttempts(r)
               \/ ClearLock(r) \/ FindVerification(r) \/ SetVerified(r)
      PROVE  EarnedInv'
  BY <1>4 DEF CheckLock, ComparePassword, LockAccount, ClearAttempts, ClearLock,
     FindVerification, SetVerified
<1>5. ASSUME NEW r \in Requests,
             ReadSession(r) \/ SaveSession(r) \/ EndSession(r) \/ MailResetToken(r)
               \/ FindReset(r) \/ CleanupReset(r) \/ ChangePassword(r)
               \/ LoadRow(r) \/ SaveRow(r)
      PROVE  EarnedInv'
  BY <1>5 DEF ReadSession, SaveSession, EndSession, MailResetToken, FindReset,
     CleanupReset, ChangePassword, LoadRow, SaveRow
<1>6. ASSUME Expire PROVE EarnedInv'
  BY <1>6 DEF Expire
<1>7. ASSUME UNCHANGED vars PROVE EarnedInv'
  BY <1>7 DEF vars
<1> QED
  BY <1>1, <1>2, <1>3, <1>4, <1>5, <1>6, <1>7 DEF Next, Step

(* An account is locked only after LockAfter wrong passwords, however many  *)
(* logins overlap between reading and writing the counter.                  *)
THEOREM LockNeedsWrongPasswords == Spec => []LockIsEarned
<1>1. EarnedInv => LockIsEarned
  BY DEF EarnedInv
<1> QED
  BY <1>1, EarnedInit, EarnedStep, TypeInit, TypeStep, PTL DEF Spec
-----------------------------------------------------------------------------
(* OnlyLoginsReopen: a request that comes to save a session without having  *)
(* read one is a login.                                                     *)
KindInv ==
  \A r \in Requests :
    /\ pc[r] \in {"checkLock", "compare", "clearAttempts", "clearLock"} => kind[r] = "login"
    /\ pc[r] \in {"verify", "setVerified"} => kind[r] = "verify"

LEMMA KindInit == Init => KindInv
  BY DEF Init, KindInv

(* Only a login stands at the lines of login(), and only a verification at   *)
(* those of verifyEmail().                                                   *)
LEMMA KindStep == TypeOK /\ KindInv /\ [Next]_vars => KindInv'
<1> SUFFICES ASSUME TypeOK, KindInv, [Next]_vars PROVE KindInv'
  OBVIOUS
<1> USE DEF TypeOK, KindInv, redis, account, locals, Goto
<1>1. ASSUME NEW r \in Requests, Arrive(r) PROVE KindInv'
  <2>1. PICK k \in Kinds : kind' = [kind EXCEPT ![r] = k] /\ pc' = [pc EXCEPT ![r] = Entry(k)]
    BY <1>1 DEF Arrive
  <2> QED
    BY <2>1 DEF Entry
<1>2. ASSUME NEW r \in Requests,
             CheckLock(r) \/ ComparePassword(r) \/ CountAttempts(r) \/ RecordAttempt(r)
               \/ LockAccount(r) \/ ClearAttempts(r) \/ ClearLock(r)
               \/ FindVerification(r) \/ SetVerified(r)
      PROVE  KindInv'
  BY <1>2 DEF CheckLock, ComparePassword, CountAttempts, RecordAttempt, LockAccount,
     ClearAttempts, ClearLock, FindVerification, SetVerified
<1>3. ASSUME NEW r \in Requests,
             ReadSession(r) \/ SaveSession(r) \/ EndSession(r) \/ MailResetToken(r)
               \/ FindReset(r) \/ CleanupReset(r) \/ ChangePassword(r)
               \/ LoadRow(r) \/ SaveRow(r)
      PROVE  KindInv'
  BY <1>3 DEF ReadSession, SaveSession, EndSession, MailResetToken, FindReset,
     CleanupReset, ChangePassword, LoadRow, SaveRow
<1>4. ASSUME Expire \/ UNCHANGED vars PROVE KindInv'
  BY <1>4 DEF Expire, vars
<1> QED
  BY <1>1, <1>2, <1>3, <1>4 DEF Next, Step

Reopens == \E r \in Requests : kind[r] \in Openers /\ session' = r

(* A closed account stays closed, unless the step is one that reopens it.    *)
LEMMA ClosedStep ==
  ASSUME TypeOK, KindInv, [Next]_vars, Closed PROVE Closed' \/ Reopens
<1> USE DEF TypeOK, KindInv, Closed, redis, account, locals, Goto, Openers
<1>1. ASSUME NEW r \in Requests, Arrive(r) PROVE Closed'
  <2>1. PICK k \in Kinds : kind' = [kind EXCEPT ![r] = k] /\ pc' = [pc EXCEPT ![r] = Entry(k)]
    BY <1>1 DEF Arrive
  <2> QED
    BY <1>1, <2>1 DEF Arrive, Entry
<1>2. ASSUME NEW r \in Requests,
             CheckLock(r) \/ ComparePassword(r) \/ CountAttempts(r) \/ RecordAttempt(r)
               \/ LockAccount(r) \/ ClearAttempts(r) \/ ClearLock(r)
               \/ FindVerification(r) \/ SetVerified(r)
      PROVE  Closed'
  BY <1>2 DEF CheckLock, ComparePassword, CountAttempts, RecordAttempt, LockAccount,
     ClearAttempts, ClearLock, FindVerification, SetVerified
<1>3. ASSUME NEW r \in Requests, SaveSession(r) PROVE Reopens
  BY <1>3 DEF SaveSession, Reopens
<1>4. ASSUME NEW r \in Requests,
             ReadSession(r) \/ EndSession(r) \/ MailResetToken(r)
               \/ FindReset(r) \/ CleanupReset(r) \/ ChangePassword(r)
               \/ LoadRow(r) \/ SaveRow(r)
      PROVE  Closed'
  BY <1>4 DEF ReadSession, EndSession, MailResetToken, FindReset,
     CleanupReset, ChangePassword, LoadRow, SaveRow
<1>5. ASSUME Expire \/ UNCHANGED vars PROVE Closed'
  BY <1>5 DEF Expire, vars
<1> QED
  BY <1>1, <1>2, <1>3, <1>4, <1>5 DEF Next, Step

(* A session that was ended with no refresh left to save its own is opened  *)
(* again by a login only.                                                   *)
THEOREM OnlyLoginsReopenSessions == Spec => OnlyLoginsReopen
<1>1. TypeOK /\ KindInv /\ [Next]_vars => [Closed => Closed' \/ Reopens]_vars
  BY ClosedStep
<1>2. [Closed => Closed' \/ Reopens]_vars
        => [Closed => Closed' \/ \E r \in Requests : kind[r] \in Openers /\ session' = r]_vars
  BY DEF Reopens
<1> QED
  BY <1>1, <1>2, TypeInit, TypeStep, KindInit, KindStep, PTL DEF Spec, OnlyLoginsReopen
-----------------------------------------------------------------------------
(* DeadSecretRefused: whoever stored a dead secret has ended, neither the   *)
(* stored state nor an edit that will save has it, and the request with it  *)
(* is short of the point that would accept it.                              *)
DeadAt(r) ==
  /\ Over(presents[r])
  /\ \/ /\ kind[r] = "web" /\ pc[r] \in {"read", "failed"}
        /\ session # presents[r]
     \/ /\ kind[r] = "mobile" /\ pc[r] \in {"read", "end", "failed"}
        /\ session # presents[r]
     \/ /\ kind[r] = "login"
        /\ pc[r] \in {"checkLock", "compare", "count", "record", "lock", "failed"}
        /\ row.password # presents[r]
        /\ \A e \in Requests : pc[e] = "saveRow" => held[e].password # presents[r]
     \/ /\ kind[r] = "confirm" /\ pc[r] \in {"findReset", "failed"}
        /\ row.reset # presents[r]
        /\ \A e \in Requests : pc[e] = "saveRow" => held[e].reset # presents[r]

DeadInv == \A r \in dead : DeadAt(r)

(* What is over of a token stays over.                                       *)
LEMMA OverStays ==
  ASSUME TypeOK, [Next]_vars, NEW t, Over(t) PROVE Over(t)'
<1> USE DEF TypeOK, Over, redis, account, locals, Goto, Ended
<1>1. ASSUME NEW r \in Requests, pc[r] \notin Ended,
             \E label : pc' = [pc EXCEPT ![r] = label]
      PROVE  Over(t)'
  BY <1>1
<1>2. ASSUME NEW r \in Requests, Arrive(r) PROVE Over(t)'
  BY <1>1, <1>2 DEF Arrive
<1>3. ASSUME NEW r \in Requests,
             CheckLock(r) \/ ComparePassword(r) \/ CountAttempts(r) \/ RecordAttempt(r)
               \/ LockAccount(r) \/ ClearAttempts(r) \/ ClearLock(r)
               \/ FindVerification(r) \/ SetVerified(r)
      PROVE  Over(t)'
  BY <1>1, <1>3 DEF CheckLock, ComparePassword, CountAttempts, RecordAttempt,
     LockAccount, ClearAttempts, ClearLock, FindVerification, SetVerified
<1>4. ASSUME NEW r \in Requests,
             ReadSession(r) \/ SaveSession(r) \/ EndSession(r) \/ MailResetToken(r)
               \/ FindReset(r) \/ CleanupReset(r) \/ ChangePassword(r)
               \/ LoadRow(r) \/ SaveRow(r)
      PROVE  Over(t)'
  BY <1>1, <1>4 DEF ReadSession, SaveSession, EndSession, MailResetToken, FindReset,
     CleanupReset, ChangePassword, LoadRow, SaveRow
<1>5. ASSUME Expire \/ UNCHANGED vars PROVE Over(t)'
  BY <1>5 DEF Expire, vars
<1> QED
  BY <1>2, <1>3, <1>4, <1>5 DEF Next, Step

LEMMA DeadInit == Init => DeadInv
  BY DEF Init, DeadInv

(* Every step keeps a request with a dead token on its way to the refusal.   *)
LEMMA DeadStep == TypeOK /\ DeadInv /\ [Next]_vars => DeadInv'
<1> SUFFICES ASSUME TypeOK, DeadInv, [Next]_vars, NEW d \in dead' PROVE DeadAt(d)'
  BY DEF DeadInv
<1> USE NamesAssumption DEF TypeOK, redis, account, locals, Goto
(* A request that arrives with a dead secret, and one already there. *)
<1>1. ASSUME NEW r \in Requests, Arrive(r) PROVE DeadAt(d)'
  <2>1. PICK k \in Kinds : \E t \in Presentable(k) :
           /\ kind' = [kind EXCEPT ![r] = k]
           /\ presents' = [presents EXCEPT ![r] = t]
           /\ pc' = [pc EXCEPT ![r] = Entry(k)]
           /\ dead' = dead \cup IF Dead(k, t) THEN {r} ELSE {}
    BY <1>1 DEF Arrive
  <2>2. PICK t \in Presentable(k) :
           /\ presents' = [presents EXCEPT ![r] = t]
           /\ dead' = dead \cup IF Dead(k, t) THEN {r} ELSE {}
    BY <2>1
  <2>3. Entry(k) # "saveRow"
    BY DEF Entry
  <2>4. CASE d \in dead
    <3>1. DeadAt(d) /\ pc[r] = "idle" /\ d # r
      BY <1>1, <2>4 DEF DeadInv, DeadAt, Arrive
    <3>2. Over(presents[d])'
      BY <2>2, <3>1, OverStays DEF DeadAt
    <3> QED
      BY <1>1, <2>1, <2>3, <2>4, <3>1, <3>2 DEF Arrive, DeadAt
  <2>5. CASE d \notin dead
    <3>1. d = r /\ Dead(k, t) /\ presents'[d] = t /\ kind'[d] = k /\ pc'[d] = Entry(k)
      BY <2>1, <2>2, <2>5
    <3>2. Over(presents[d])'
      BY <3>1, OverStays DEF Dead
    <3>3. session' = session /\ row' = row /\ held' = held
      BY <1>1 DEF Arrive
    <3>4. \A e \in Requests : pc'[e] = "saveRow" => pc[e] = "saveRow"
      BY <2>1, <2>3
    <3>5. CASE k \in Refreshes
      BY <3>1, <3>2, <3>3, <3>5 DEF DeadAt, Dead, Entry, Refreshes
    <3>6. CASE k = "login"
      BY <3>1, <3>2, <3>3, <3>4, <3>6 DEF DeadAt, Dead, Entry, Refreshes
    <3>7. CASE k = "confirm"
      BY <3>1, <3>2, <3>3, <3>4, <3>7 DEF DeadAt, Dead, Entry, Refreshes
    <3> QED
      BY <3>1, <3>5, <3>6, <3>7 DEF Dead
  <2> QED
    BY <2>4, <2>5
(* All the other actions leave the requests and their secrets alone. *)
<1>2. ASSUME dead' = dead, presents' = presents, kind' = kind
      PROVE  DeadAt(d) /\ Over(presents[d])'
  BY <1>2, OverStays DEF DeadInv, DeadAt
<1>3. ASSUME NEW r \in Requests,
             CheckLock(r) \/ ComparePassword(r) \/ CountAttempts(r) \/ RecordAttempt(r)
      PROVE  DeadAt(d)'
  BY <1>2, <1>3 DEF DeadAt, CheckLock, ComparePassword, CountAttempts, RecordAttempt
<1>4. ASSUME NEW r \in Requests,
             LockAccount(r) \/ ClearAttempts(r) \/ ClearLock(r) \/ FindVerification(r)
      PROVE  DeadAt(d)'
  BY <1>2, <1>4 DEF DeadAt, LockAccount, ClearAttempts, ClearLock, FindVerification
<1>5. ASSUME NEW r \in Requests, SetVerified(r) PROVE DeadAt(d)'
  <2>1. row'.password = row.password /\ row'.reset = row.reset
    BY <1>5 DEF SetVerified, Row
  <2> QED
    BY <1>2, <1>5, <2>1 DEF DeadAt, SetVerified
<1>6. ASSUME NEW r \in Requests, ReadSession(r) \/ EndSession(r) PROVE DeadAt(d)'
  BY <1>2, <1>6 DEF DeadAt, ReadSession, EndSession, Over
<1>7. ASSUME NEW r \in Requests, SaveSession(r) PROVE DeadAt(d)'
  BY <1>2, <1>7 DEF DeadAt, SaveSession, Over, Ended
<1>8. ASSUME NEW r \in Requests, MailResetToken(r) \/ CleanupReset(r) PROVE DeadAt(d)'
  <2>1. row'.password = row.password /\ row'.reset \in {r, None}
    BY <1>8 DEF MailResetToken, CleanupReset, Row
  <2>2. presents[d] # None /\ (pc[r] = "mail" => presents[d] # r)
    BY <1>2, <1>8 DEF DeadAt, Over, Ended, MailResetToken, CleanupReset
  <2>3. row'.reset # presents[d]
    BY <1>8, <2>1, <2>2 DEF MailResetToken, CleanupReset, Row
  <2> QED
    BY <1>2, <1>8, <2>1, <2>3 DEF DeadAt, MailResetToken, CleanupReset
<1>9. ASSUME NEW r \in Requests, FindReset(r) PROVE DeadAt(d)'
  BY <1>2, <1>9 DEF DeadAt, FindReset
<1>10. ASSUME NEW r \in Requests, ChangePassword(r) PROVE DeadAt(d)'
  <2>1. presents[d] # None /\ presents[d] # r
    BY <1>2, <1>10 DEF DeadAt, Over, Ended, ChangePassword
  <2> QED
    BY <1>2, <1>10, <2>1 DEF DeadAt, ChangePassword
<1>11. ASSUME NEW r \in Requests, LoadRow(r) \/ SaveRow(r) PROVE DeadAt(d)'
  BY <1>2, <1>11 DEF DeadAt, LoadRow, SaveRow
<1>12. ASSUME Expire PROVE DeadAt(d)'
  BY <1>2, <1>12 DEF DeadAt, Expire, Over
<1>13. ASSUME UNCHANGED vars PROVE DeadAt(d)'
  BY <1>2, <1>13 DEF DeadAt, vars
<1> QED
  BY <1>1, <1>3, <1>4, <1>5, <1>6, <1>7, <1>8, <1>9, <1>10, <1>11, <1>12, <1>13
     DEF Next, Step

(* However requests interleave, no refresh, login or reset accepts a secret *)
(* that was dead when it arrived.                                           *)
THEOREM DeadSecretsStayDead == Spec => []DeadSecretRefused
<1>1. DeadInv => DeadSecretRefused
  BY DEF DeadInv, DeadAt, DeadSecretRefused, Refreshes
<1> QED
  BY <1>1, DeadInit, DeadStep, TypeInit, TypeStep, PTL DEF Spec
=============================================================================
