--------------------------- MODULE AccountsProofs ---------------------------
(***************************************************************************)
(* Proofs about Accounts, for any numbers of requests, addresses and       *)
(* accounts at providers: whatever overlaps, an account at a provider      *)
(* whose address is told belongs to one user, nobody is joined to a        *)
(* stranger, what is half made belongs to a request that failed, and the   *)
(* link in a mail works.                                                   *)
(***************************************************************************)
EXTENDS Accounts, TLAPS

Reachable(u) == users[u].token \/ users[u].verified

(* The row of a request at each of its steps.  Until it inserts, no user is *)
(* named after it; then it has the row that it goes on with.                *)
Before == {"idle", "register", "hash", "verify", "verified", "login", "poll",
           "provider", "email", "create"}

RowOK(r) ==
  /\ pc[r] \in Before => ~Exists(r)
  /\ pc[r] \in {"profile", "token", "emit"} => Exists(r)
  /\ pc[r] = "profile" => found[r] = r /\ users[r].email = email[r]
  /\ Exists(r) /\ pc[r] = "link" => found[r] = r
  /\ Exists(r) /\ pc[r] \in {"token", "emit", "link"} => users[r].profile
  /\ pc[r] = "emit" => Reachable(r)

(* A login by a provider knows its identity, the address that the provider  *)
(* told of it or none, and at the end the user with that address or, with   *)
(* none, the one it has created.                                            *)
LoginOK(r) ==
  /\ pc[r] \in {"idle", "poll"} => identity[r] = None
  /\ pc[r] \in {"register", "hash"} => kind[r] = "register"
  /\ pc[r] \in {"poll", "provider", "email", "create"} => kind[r] # "register"
  /\ \/ pc[r] \in {"provider", "email", "create", "link"}
     \/ pc[r] = "profile" /\ kind[r] # "register"
     => identity[r] \in Identities
  /\ pc[r] = "email" => email[r] # None
  /\ identity[r] # None => email[r] \in {address[identity[r]], None}
  /\ pc[r] = "link" =>
       /\ found[r] \in Requests
       /\ IF email[r] = None THEN found[r] = r ELSE HasEmail(found[r], email[r])

(* What a request that succeeded leaves, and the token that one opens.      *)
EndOK(r) ==
  /\ Exists(r) /\ pc[r] \in {"answered", "in"} =>
       users[r].profile /\ (Reachable(r) \/ \E l \in links : l.user = r)
  /\ pc[r] \in {"verify", "verified"} => found[r] \in mails

RequestOK(r) == RowOK(r) /\ LoginOK(r) /\ EndOK(r)

(* Links are left by logins that are over, and addresses are unique.        *)
LinkInv == \A l \in links : pc[l.id] = "in" /\ l.identity = identity[l.id]

UniqueAddress ==
  \A u, v \in Requests : \A e \in Emails : HasEmail(u, e) /\ HasEmail(v, e) => u = v

(* Only users whose link works, or has worked, are mailed.                  *)
MailInv ==
  \A u \in Requests : mailJob[u] # None \/ u \in mails => Exists(u) /\ Reachable(u)

IInv ==
  /\ TypeOK /\ \A r \in Requests : RequestOK(r)
  /\ LinkInv /\ LinkedByAddress /\ UniqueAddress /\ MailInv

(* A step of the request r: what the others have stays, users keep their    *)
(* address and lose nothing, and no row appears but its own.                *)
StepOf(r) ==
  /\ UNCHANGED <<provider, address, mails>> /\ links \subseteq links'
  /\ \A s \in Requests \ {r} :
       /\ pc'[s] = pc[s] /\ kind'[s] = kind[s] /\ email'[s] = email[s]
       /\ identity'[s] = identity[s] /\ found'[s] = found[s]
       /\ Exists(s)' => Exists(s)
  /\ \A s \in Requests : Exists(s) =>
       /\ Exists(s)' /\ users'[s].email = users[s].email
       /\ users[s].profile => users'[s].profile
       /\ Reachable(s) => Reachable(s)'
-----------------------------------------------------------------------------
(* Initially nothing has been asked for and there is no user.               *)
LEMMA AccountsInit == Init => IInv
  BY AttemptsAssumption, FaultsAssumption
  DEF Init, IInv, TypeOK, RequestOK, RowOK, LoginOK, EndOK, LinkInv, UniqueAddress, MailInv,
      LinkedByAddress, Exists, HasEmail, Providers, Kinds, Steps, Before

(* A step of one request leaves every other request as it must be.          *)
LEMMA OthersKeep ==
  ASSUME IInv, TypeOK', NEW r \in Requests, StepOf(r), NEW s \in Requests, s # r
  PROVE  RequestOK(s)'
<1>1. RequestOK(s) /\ s \in Requests \ {r}
  BY DEF IInv
<1>2. RowOK(s)'
  BY <1>1 DEF RequestOK, RowOK, StepOf
<1>3. LoginOK(s)'
  <2>1. pc'[s] = pc[s] /\ kind'[s] = kind[s] /\ email'[s] = email[s]
        /\ identity'[s] = identity[s] /\ found'[s] = found[s] /\ address' = address
    BY <1>1 DEF StepOf
  <2>2. ASSUME found[s] \in Requests, HasEmail(found[s], email[s])
        PROVE  HasEmail(found[s], email[s])'
    BY <2>1, <2>2 DEF StepOf, HasEmail
  <2> QED
    BY <1>1, <2>1, <2>2 DEF RequestOK, LoginOK
<1>4. EndOK(s)'
  BY <1>1 DEF RequestOK, EndOK, StepOf
<1> QED
  BY <1>2, <1>3, <1>4 DEF RequestOK

(* Links stay right in a step that adds none and is not of a login that is  *)
(* over.                                                                    *)
LEMMA LinksKept ==
  ASSUME IInv, NEW r \in Requests, StepOf(r), links' = links, pc[r] # "in"
  PROVE  LinkInv' /\ LinkedByAddress'
<1> SUFFICES ASSUME NEW l \in links
             PROVE  /\ pc'[l.id] = "in" /\ l.identity = identity'[l.id]
                    /\ IF email'[l.id] = None THEN l.user = l.id
                       ELSE HasEmail(l.user, email[l.id])'
  BY DEF LinkInv, LinkedByAddress
<1>1. l.id \in Requests /\ l.user \in Requests /\ pc[l.id] = "in" /\ l.id # r
  BY DEF IInv, TypeOK, Link, LinkInv
<1>2. pc'[l.id] = pc[l.id] /\ email'[l.id] = email[l.id] /\ identity'[l.id] = identity[l.id]
  BY <1>1 DEF StepOf
<1>3. ASSUME HasEmail(l.user, email[l.id]) PROVE HasEmail(l.user, email[l.id])'
  BY <1>1, <1>2, <1>3 DEF StepOf, HasEmail
<1> QED
  BY <1>1, <1>2, <1>3 DEF IInv, LinkInv, LinkedByAddress

(* Addresses stay unique in a step that inserts no user.                    *)
LEMMA UniqueKept ==
  ASSUME IInv, NEW r \in Requests, StepOf(r), Exists(r)' => Exists(r)
  PROVE  UniqueAddress'
<1>1. ASSUME NEW u \in Requests, NEW e \in Emails, HasEmail(u, e)' PROVE HasEmail(u, e)
  BY <1>1 DEF StepOf, HasEmail
<1> QED
  BY <1>1 DEF IInv, UniqueAddress

(* A step that inserts no user, links none and mails none keeps the         *)
(* invariant if its own request stays as it must be.                        *)
LEMMA StepKeeps ==
  ASSUME IInv, NEW r \in Requests, StepOf(r), TypeOK', RequestOK(r)',
         pc[r] # "in", UNCHANGED <<links, mailJob>>, Exists(r)' => Exists(r)
  PROVE  IInv'
<1>1. \A s \in Requests : RequestOK(s)'
  BY OthersKeep
<1>2. LinkInv' /\ LinkedByAddress'
  BY LinksKept
<1>3. UniqueAddress'
  BY UniqueKept
<1>4. MailInv'
  BY DEF IInv, MailInv, StepOf
<1> QED
  BY <1>1, <1>2, <1>3, <1>4 DEF IInv
-----------------------------------------------------------------------------
(* Requests arrive.                                                         *)
LEMMA SubmitRegistrationKeeps ==
  ASSUME IInv, NEW r \in Requests, SubmitRegistration(r)
  PROVE  IInv'
<1> USE DEF rows, queue, request
<1>1. TypeOK'
  BY AttemptsAssumption, FaultsAssumption, NoneAssumption
  DEF IInv, TypeOK, SubmitRegistration, Begin, Kinds, Steps
<1>2. StepOf(r)
  BY DEF IInv, TypeOK, StepOf, Exists, Reachable, SubmitRegistration, Begin
<1>3. RequestOK(r)'
  <2>1. RowOK(r)'
    BY NoneAssumption
    DEF IInv, TypeOK, RequestOK, RowOK, Exists, Before, Reachable,
        SubmitRegistration, Begin
  <2>2. LoginOK(r)'
    BY NoneAssumption
    DEF IInv, TypeOK, RequestOK, LoginOK, Exists, HasEmail, SubmitRegistration,
        Begin
  <2>3. EndOK(r)'
    BY NoneAssumption
    DEF IInv, TypeOK, RequestOK, RowOK, LoginOK, EndOK, Exists, HasEmail,
        Before, Reachable, SubmitRegistration, Begin
  <2> QED
    BY <2>1, <2>2, <2>3 DEF RequestOK
<1>4. pc[r] # "in" /\ UNCHANGED <<users, links, mailJob>>
  BY DEF SubmitRegistration, Begin
<1> QED
  BY <1>1, <1>2, <1>3, <1>4, StepKeeps DEF Exists

LEMMA SubmitLoginKeeps == ASSUME IInv, NEW r \in Requests, SubmitLogin(r) PROVE IInv'
<1> USE DEF rows, queue, request
<1>1. TypeOK'
  BY AttemptsAssumption, FaultsAssumption, NoneAssumption
  DEF IInv, TypeOK, SubmitLogin, Begin, Kinds, Steps
<1>2. StepOf(r)
  BY DEF IInv, TypeOK, StepOf, Exists, Reachable, SubmitLogin, Begin
<1>3. RequestOK(r)'
  <2>1. RowOK(r)'
    BY NoneAssumption
    DEF IInv, TypeOK, RequestOK, RowOK, Exists, Before, Reachable, SubmitLogin,
        Begin
  <2>2. LoginOK(r)'
    BY NoneAssumption
    DEF IInv, TypeOK, RequestOK, LoginOK, Exists, HasEmail, SubmitLogin, Begin
  <2>3. EndOK(r)'
    BY NoneAssumption
    DEF IInv, TypeOK, RequestOK, RowOK, LoginOK, EndOK, Exists, HasEmail,
        Before, Reachable, SubmitLogin, Begin
  <2> QED
    BY <2>1, <2>2, <2>3 DEF RequestOK
<1>4. pc[r] # "in" /\ UNCHANGED <<users, links, mailJob>>
  BY DEF SubmitLogin, Begin
<1> QED
  BY <1>1, <1>2, <1>3, <1>4, StepKeeps DEF Exists

LEMMA OpenLinkKeeps == ASSUME IInv, NEW r \in Requests, OpenLink(r) PROVE IInv'
<1> USE DEF rows, queue, request
<1>1. TypeOK'
  BY AttemptsAssumption, FaultsAssumption, NoneAssumption
  DEF IInv, TypeOK, OpenLink, Begin, Kinds, Steps
<1>2. StepOf(r)
  BY DEF IInv, TypeOK, StepOf, Exists, Reachable, OpenLink, Begin
<1>3. RequestOK(r)'
  <2>1. RowOK(r)'
    BY NoneAssumption
    DEF IInv, TypeOK, RequestOK, RowOK, Exists, Before, Reachable, OpenLink,
        Begin
  <2>2. LoginOK(r)'
    BY NoneAssumption
    DEF IInv, TypeOK, RequestOK, LoginOK, Exists, HasEmail, OpenLink, Begin
  <2>3. EndOK(r)'
    BY NoneAssumption
    DEF IInv, TypeOK, RequestOK, RowOK, LoginOK, EndOK, Exists, HasEmail,
        Before, Reachable, OpenLink, Begin
  <2> QED
    BY <2>1, <2>2, <2>3 DEF RequestOK
<1>4. pc[r] # "in" /\ UNCHANGED <<users, links, mailJob>>
  BY DEF OpenLink, Begin
<1> QED
  BY <1>1, <1>2, <1>3, <1>4, StepKeeps DEF Exists

LEMMA GoogleLoginKeeps == ASSUME IInv, NEW r \in Requests, GoogleLogin(r) PROVE IInv'
<1> USE DEF rows, queue, request
<1>1. TypeOK'
  BY AttemptsAssumption, FaultsAssumption, NoneAssumption
  DEF IInv, TypeOK, GoogleLogin, Begin, Kinds, Steps
<1>2. StepOf(r)
  BY DEF IInv, TypeOK, StepOf, Exists, Reachable, GoogleLogin, Begin
<1>3. RequestOK(r)'
  <2>1. RowOK(r)'
    BY NoneAssumption
    DEF IInv, TypeOK, RequestOK, RowOK, Exists, Before, Reachable, GoogleLogin,
        Begin
  <2>2. LoginOK(r)'
    BY NoneAssumption
    DEF IInv, TypeOK, RequestOK, LoginOK, Exists, HasEmail, GoogleLogin, Begin
  <2>3. EndOK(r)'
    BY NoneAssumption
    DEF IInv, TypeOK, RequestOK, RowOK, LoginOK, EndOK, Exists, HasEmail,
        Before, Reachable, GoogleLogin, Begin
  <2> QED
    BY <2>1, <2>2, <2>3 DEF RequestOK
<1>4. pc[r] # "in" /\ UNCHANGED <<users, links, mailJob>>
  BY DEF GoogleLogin, Begin
<1> QED
  BY <1>1, <1>2, <1>3, <1>4, StepKeeps DEF Exists

LEMMA GithubLoginKeeps == ASSUME IInv, NEW r \in Requests, GithubLogin(r) PROVE IInv'
<1> USE DEF rows, queue, request
<1>1. TypeOK'
  BY AttemptsAssumption, FaultsAssumption, NoneAssumption
  DEF IInv, TypeOK, GithubLogin, Begin, Told, Kinds, Steps
<1>2. StepOf(r)
  BY DEF IInv, TypeOK, StepOf, Exists, Reachable, GithubLogin, Begin, Told
<1>3. RequestOK(r)'
  <2>1. RowOK(r)'
    BY NoneAssumption
    DEF IInv, TypeOK, RequestOK, RowOK, Exists, Before, Reachable, GithubLogin,
        Begin, Told
  <2>2. LoginOK(r)'
    BY NoneAssumption
    DEF IInv, TypeOK, RequestOK, LoginOK, Exists, HasEmail, GithubLogin, Begin,
        Told
  <2>3. EndOK(r)'
    BY NoneAssumption
    DEF IInv, TypeOK, RequestOK, RowOK, LoginOK, EndOK, Exists, HasEmail,
        Before, Reachable, GithubLogin, Begin, Told
  <2> QED
    BY <2>1, <2>2, <2>3 DEF RequestOK
<1>4. pc[r] # "in" /\ UNCHANGED <<users, links, mailJob>>
  BY DEF GithubLogin, Begin, Told
<1> QED
  BY <1>1, <1>2, <1>3, <1>4, StepKeeps DEF Exists

LEMMA PollDeviceKeeps == ASSUME IInv, NEW r \in Requests, PollDevice(r) PROVE IInv'
<1> USE DEF rows, queue, request
<1>1. TypeOK'
  BY AttemptsAssumption, FaultsAssumption, NoneAssumption
  DEF IInv, TypeOK, PollDevice, Begin, Kinds, Steps
<1>2. StepOf(r)
  BY DEF IInv, TypeOK, StepOf, Exists, Reachable, PollDevice, Begin
<1>3. RequestOK(r)'
  <2>1. RowOK(r)'
    BY NoneAssumption
    DEF IInv, TypeOK, RequestOK, RowOK, Exists, Before, Reachable, PollDevice,
        Begin
  <2>2. LoginOK(r)'
    BY NoneAssumption
    DEF IInv, TypeOK, RequestOK, LoginOK, Exists, HasEmail, PollDevice, Begin
  <2>3. EndOK(r)'
    BY NoneAssumption
    DEF IInv, TypeOK, RequestOK, RowOK, LoginOK, EndOK, Exists, HasEmail,
        Before, Reachable, PollDevice, Begin
  <2> QED
    BY <2>1, <2>2, <2>3 DEF RequestOK
<1>4. pc[r] # "in" /\ UNCHANGED <<users, links, mailJob>>
  BY DEF PollDevice, Begin
<1> QED
  BY <1>1, <1>2, <1>3, <1>4, StepKeeps DEF Exists

-----------------------------------------------------------------------------
(* Steps that read, are answered or fail.                                   *)
LEMMA FindFreeKeeps == ASSUME IInv, NEW r \in Requests, FindFree(r) PROVE IInv'
<1> USE DEF rows, queue, request
<1>1. TypeOK'
  BY AttemptsAssumption, FaultsAssumption, NoneAssumption
  DEF IInv, TypeOK, FindFree, Step, Keeps, Kinds, Steps
<1>2. StepOf(r)
  BY DEF IInv, TypeOK, StepOf, Exists, Reachable, FindFree, Step, Keeps
<1>3. RequestOK(r)'
  <2>1. RowOK(r)'
    BY NoneAssumption
    DEF IInv, TypeOK, RequestOK, RowOK, Exists, Before, Reachable, FindFree,
        Step, Keeps
  <2>2. LoginOK(r)'
    BY NoneAssumption
    DEF IInv, TypeOK, RequestOK, LoginOK, Exists, HasEmail, FindFree, Step,
        Keeps
  <2>3. EndOK(r)'
    BY NoneAssumption
    DEF IInv, TypeOK, RequestOK, RowOK, LoginOK, EndOK, Exists, HasEmail,
        Before, Reachable, FindFree, Step, Keeps
  <2> QED
    BY <2>1, <2>2, <2>3 DEF RequestOK
<1>4. pc[r] # "in" /\ UNCHANGED <<users, links, mailJob>>
  BY DEF FindFree, Step, Keeps
<1> QED
  BY <1>1, <1>2, <1>3, <1>4, StepKeeps DEF Exists

LEMMA FindTokenKeeps == ASSUME IInv, NEW r \in Requests, FindToken(r) PROVE IInv'
<1> USE DEF rows, queue, request
<1>1. TypeOK'
  BY AttemptsAssumption, FaultsAssumption, NoneAssumption
  DEF IInv, TypeOK, FindToken, Step, Keeps, Kinds, Steps
<1>2. StepOf(r)
  BY DEF IInv, TypeOK, StepOf, Exists, Reachable, FindToken, Step, Keeps
<1>3. RequestOK(r)'
  <2>1. RowOK(r)'
    BY NoneAssumption
    DEF IInv, TypeOK, RequestOK, RowOK, Exists, Before, Reachable, FindToken,
        Step, Keeps
  <2>2. LoginOK(r)'
    BY NoneAssumption
    DEF IInv, TypeOK, RequestOK, LoginOK, Exists, HasEmail, FindToken, Step,
        Keeps
  <2>3. EndOK(r)'
    BY NoneAssumption
    DEF IInv, TypeOK, RequestOK, RowOK, LoginOK, EndOK, Exists, HasEmail,
        Before, Reachable, FindToken, Step, Keeps
  <2> QED
    BY <2>1, <2>2, <2>3 DEF RequestOK
<1>4. pc[r] # "in" /\ UNCHANGED <<users, links, mailJob>>
  BY DEF FindToken, Step, Keeps
<1> QED
  BY <1>1, <1>2, <1>3, <1>4, StepKeeps DEF Exists

LEMMA LoginKeeps == ASSUME IInv, NEW r \in Requests, Login(r) PROVE IInv'
<1> USE DEF rows, queue, request
<1>1. TypeOK'
  BY AttemptsAssumption, FaultsAssumption, NoneAssumption
  DEF IInv, TypeOK, Login, Step, Keeps, Kinds, Steps
<1>2. StepOf(r)
  BY DEF IInv, TypeOK, StepOf, Exists, Reachable, Login, Step, Keeps
<1>3. RequestOK(r)'
  <2>1. RowOK(r)'
    BY NoneAssumption
    DEF IInv, TypeOK, RequestOK, RowOK, Exists, Before, Reachable, Login, Step,
        Keeps
  <2>2. LoginOK(r)'
    BY NoneAssumption
    DEF IInv, TypeOK, RequestOK, LoginOK, Exists, HasEmail, Login, Step, Keeps
  <2>3. EndOK(r)'
    BY NoneAssumption
    DEF IInv, TypeOK, RequestOK, RowOK, LoginOK, EndOK, Exists, HasEmail,
        Before, Reachable, Login, Step, Keeps
  <2> QED
    BY <2>1, <2>2, <2>3 DEF RequestOK
<1>4. pc[r] # "in" /\ UNCHANGED <<users, links, mailJob>>
  BY DEF Login, Step, Keeps
<1> QED
  BY <1>1, <1>2, <1>3, <1>4, StepKeeps DEF Exists

LEMMA PollKeeps == ASSUME IInv, NEW r \in Requests, Poll(r) PROVE IInv'
<1> USE DEF rows, queue, request
<1>1. TypeOK'
  BY AttemptsAssumption, FaultsAssumption, NoneAssumption
  DEF IInv, TypeOK, Poll, Step, Told, Kinds, Steps
<1>2. StepOf(r)
  BY DEF IInv, TypeOK, StepOf, Exists, Reachable, Poll, Step, Told
<1>3. RequestOK(r)'
  <2>1. RowOK(r)'
    BY NoneAssumption
    DEF IInv, TypeOK, RequestOK, RowOK, Exists, Before, Reachable, Poll, Step,
        Told
  <2>2. LoginOK(r)'
    BY NoneAssumption
    DEF IInv, TypeOK, RequestOK, LoginOK, Exists, HasEmail, Poll, Step, Told
  <2>3. EndOK(r)'
    BY NoneAssumption
    DEF IInv, TypeOK, RequestOK, RowOK, LoginOK, EndOK, Exists, HasEmail,
        Before, Reachable, Poll, Step, Told
  <2> QED
    BY <2>1, <2>2, <2>3 DEF RequestOK
<1>4. pc[r] # "in" /\ UNCHANGED <<users, links, mailJob>>
  BY DEF Poll, Step, Told
<1> QED
  BY <1>1, <1>2, <1>3, <1>4, StepKeeps DEF Exists

LEMMA FindByProviderKeeps == ASSUME IInv, NEW r \in Requests, FindByProvider(r) PROVE IInv'
<1> USE DEF rows, queue, request
<1>1. TypeOK'
  BY AttemptsAssumption, FaultsAssumption, NoneAssumption
  DEF IInv, TypeOK, FindByProvider, Step, Keeps, Linked, Link, Kinds, Steps
<1>2. StepOf(r)
  BY
  DEF IInv, TypeOK, StepOf, Exists, Reachable, FindByProvider, Step, Keeps,
      Linked, Link
<1>3. RequestOK(r)'
  <2>1. RowOK(r)'
    BY NoneAssumption
    DEF IInv, TypeOK, RequestOK, RowOK, Exists, Before, Reachable,
        FindByProvider, Step, Keeps, Linked, Link
  <2>2. LoginOK(r)'
    BY NoneAssumption
    DEF IInv, TypeOK, RequestOK, LoginOK, Exists, HasEmail, FindByProvider,
        Step, Keeps, Linked, Link
  <2>3. EndOK(r)'
    BY NoneAssumption
    DEF IInv, TypeOK, RequestOK, RowOK, LoginOK, EndOK, Exists, HasEmail,
        Before, Reachable, FindByProvider, Step, Keeps, Linked, Link
  <2> QED
    BY <2>1, <2>2, <2>3 DEF RequestOK
<1>4. pc[r] # "in" /\ UNCHANGED <<users, links, mailJob>>
  BY DEF FindByProvider, Step, Keeps, Linked, Link
<1> QED
  BY <1>1, <1>2, <1>3, <1>4, StepKeeps DEF Exists

LEMMA FindByEmailKeeps == ASSUME IInv, NEW r \in Requests, FindByEmail(r) PROVE IInv'
<1> USE DEF rows, queue, request
<1>1. TypeOK'
  BY AttemptsAssumption, FaultsAssumption, NoneAssumption
  DEF IInv, TypeOK, FindByEmail, Step, Keeps, Kinds, Steps
<1>2. StepOf(r)
  BY DEF IInv, TypeOK, StepOf, Exists, Reachable, FindByEmail, Step, Keeps
<1>3. RequestOK(r)'
  <2>1. RowOK(r)'
    BY NoneAssumption
    DEF IInv, TypeOK, RequestOK, RowOK, Exists, Before, Reachable, FindByEmail,
        Step, Keeps
  <2>2. LoginOK(r)'
    BY NoneAssumption
    DEF IInv, TypeOK, RequestOK, LoginOK, Exists, HasEmail, FindByEmail, Step,
        Keeps
  <2>3. EndOK(r)'
    BY NoneAssumption
    DEF IInv, TypeOK, RequestOK, RowOK, LoginOK, EndOK, Exists, HasEmail,
        Before, Reachable, FindByEmail, Step, Keeps
  <2> QED
    BY <2>1, <2>2, <2>3 DEF RequestOK
<1>4. pc[r] # "in" /\ UNCHANGED <<users, links, mailJob>>
  BY DEF FindByEmail, Step, Keeps
<1> QED
  BY <1>1, <1>2, <1>3, <1>4, StepKeeps DEF Exists

LEMMA AbortKeeps == ASSUME IInv, NEW r \in Requests, Abort(r) PROVE IInv'
<1> USE DEF rows, queue, request
<1>1. TypeOK'
  BY AttemptsAssumption, FaultsAssumption, NoneAssumption
  DEF IInv, TypeOK, Abort, Kinds, Steps
<1>2. StepOf(r)
  BY DEF IInv, TypeOK, StepOf, Exists, Reachable, Abort
<1>3. RequestOK(r)'
  <2>1. RowOK(r)'
    BY NoneAssumption
    DEF IInv, TypeOK, RequestOK, RowOK, Exists, Before, Reachable, Abort
  <2>2. LoginOK(r)'
    BY NoneAssumption DEF IInv, TypeOK, RequestOK, LoginOK, Exists, HasEmail, Abort
  <2>3. EndOK(r)'
    BY NoneAssumption
    DEF IInv, TypeOK, RequestOK, RowOK, LoginOK, EndOK, Exists, HasEmail,
        Before, Reachable, Abort
  <2> QED
    BY <2>1, <2>2, <2>3 DEF RequestOK
<1>4. pc[r] # "in" /\ UNCHANGED <<users, links, mailJob>>
  BY DEF Abort
<1> QED
  BY <1>1, <1>2, <1>3, <1>4, StepKeeps DEF Exists

-----------------------------------------------------------------------------
(* Steps that change the request's own row or, opening a link, another's.   *)
LEMMA SaveProfileKeeps == ASSUME IInv, NEW r \in Requests, SaveProfile(r) PROVE IInv'
<1> USE DEF rows, queue, request
<1>1. r \in Requests /\ Exists(r) /\ users[r] \in Row
  BY
  DEF IInv, TypeOK, RequestOK, RowOK, EndOK, MailInv, Exists, SaveProfile, Step,
      Keeps
<1>2. users' = [users EXCEPT ![r] = [users[r] EXCEPT !.profile = TRUE]]
  BY <1>1 DEF SaveProfile, Step, Keeps, Row
<1>3. [users[r] EXCEPT !.profile = TRUE] \in Row
  BY <1>1 DEF Row
<1>4. TypeOK'
  BY <1>1, <1>2, <1>3 DEF IInv, TypeOK, SaveProfile, Step, Keeps, Steps
<1>5. \A s \in Requests : Exists(s)' <=> Exists(s)
  BY <1>1, <1>2, <1>3, RowAssumption DEF IInv, TypeOK, Exists
<1>6. \A s \in Requests : Exists(s) =>
        /\ users'[s].email = users[s].email /\ users[s].profile => users'[s].profile
        /\ Reachable(s) => Reachable(s)'
  BY <1>1, <1>2 DEF IInv, TypeOK, Reachable, Exists, Row
<1>7. StepOf(r)
  BY <1>5, <1>6 DEF IInv, TypeOK, StepOf, SaveProfile, Step, Keeps
<1>8. RequestOK(r)'
  <2>1. RowOK(r)'
    BY <1>1, <1>2, <1>5, <1>6
    DEF IInv, TypeOK, RequestOK, RowOK, EndOK, Before, Reachable, Row,
        SaveProfile, Step, Keeps
  <2>2. LoginOK(r)'
    BY <1>1, <1>5, <1>6, NoneAssumption
    DEF IInv, TypeOK, RequestOK, RowOK, LoginOK, HasEmail, SaveProfile, Step,
        Keeps
  <2>3. EndOK(r)'
    BY <1>1, <1>2, <1>5
    DEF IInv, TypeOK, RequestOK, RowOK, EndOK, Before, Reachable, Row,
        SaveProfile, Step, Keeps
  <2> QED
    BY <2>1, <2>2, <2>3 DEF RequestOK
<1>9. pc[r] # "in" /\ UNCHANGED <<links, mailJob>>
  BY DEF SaveProfile, Step, Keeps
<1> QED
  BY <1>4, <1>5, <1>7, <1>8, <1>9, StepKeeps

LEMMA SaveTokenKeeps == ASSUME IInv, NEW r \in Requests, SaveToken(r) PROVE IInv'
<1> USE DEF rows, queue, request
<1>1. r \in Requests /\ Exists(r) /\ users[r] \in Row
  BY DEF IInv, TypeOK, RequestOK, RowOK, EndOK, MailInv, Exists, SaveToken, Step, Keeps
<1>2. users' = [users EXCEPT ![r] = [users[r] EXCEPT !.token = TRUE]]
  BY <1>1 DEF SaveToken, Step, Keeps, Row
<1>3. [users[r] EXCEPT !.token = TRUE] \in Row
  BY <1>1 DEF Row
<1>4. TypeOK'
  BY <1>1, <1>2, <1>3 DEF IInv, TypeOK, SaveToken, Step, Keeps, Steps
<1>5. \A s \in Requests : Exists(s)' <=> Exists(s)
  BY <1>1, <1>2, <1>3, RowAssumption DEF IInv, TypeOK, Exists
<1>6. \A s \in Requests : Exists(s) =>
        /\ users'[s].email = users[s].email /\ users[s].profile => users'[s].profile
        /\ Reachable(s) => Reachable(s)'
  BY <1>1, <1>2 DEF IInv, TypeOK, Reachable, Exists, Row
<1>7. StepOf(r)
  BY <1>5, <1>6 DEF IInv, TypeOK, StepOf, SaveToken, Step, Keeps
<1>8. RequestOK(r)'
  <2>1. RowOK(r)'
    BY <1>1, <1>2, <1>5, <1>6
    DEF IInv, TypeOK, RequestOK, RowOK, EndOK, Before, Reachable, Row,
        SaveToken, Step, Keeps
  <2>2. LoginOK(r)'
    BY <1>1, <1>5, <1>6, NoneAssumption
    DEF IInv, TypeOK, RequestOK, RowOK, LoginOK, HasEmail, SaveToken, Step,
        Keeps
  <2>3. EndOK(r)'
    BY <1>1, <1>2, <1>5
    DEF IInv, TypeOK, RequestOK, RowOK, EndOK, Before, Reachable, Row,
        SaveToken, Step, Keeps
  <2> QED
    BY <2>1, <2>2, <2>3 DEF RequestOK
<1>9. pc[r] # "in" /\ UNCHANGED <<links, mailJob>>
  BY DEF SaveToken, Step, Keeps
<1> QED
  BY <1>4, <1>5, <1>7, <1>8, <1>9, StepKeeps

LEMMA SetVerifiedKeeps == ASSUME IInv, NEW r \in Requests, SetVerified(r) PROVE IInv'
<1> USE DEF rows, queue, request
<1>1. found[r] \in Requests /\ Exists(found[r]) /\ users[found[r]] \in Row
  BY
  DEF IInv, TypeOK, RequestOK, RowOK, EndOK, MailInv, Exists, SetVerified, Step,
      Keeps
<1>2. users' = [users EXCEPT ![found[r]] = [users[found[r]] EXCEPT !.verified = TRUE, !.token = FALSE]]
  BY <1>1 DEF SetVerified, Step, Keeps, Row
<1>3. [users[found[r]] EXCEPT !.verified = TRUE, !.token = FALSE] \in Row
  BY <1>1 DEF Row
<1>4. TypeOK'
  BY <1>1, <1>2, <1>3 DEF IInv, TypeOK, SetVerified, Step, Keeps, Steps
<1>5. \A s \in Requests : Exists(s)' <=> Exists(s)
  BY <1>1, <1>2, <1>3, RowAssumption DEF IInv, TypeOK, Exists
<1>6. \A s \in Requests : Exists(s) =>
        /\ users'[s].email = users[s].email /\ users[s].profile => users'[s].profile
        /\ Reachable(s) => Reachable(s)'
  BY <1>1, <1>2 DEF IInv, TypeOK, Reachable, Exists, Row
<1>7. StepOf(r)
  BY <1>5, <1>6 DEF IInv, TypeOK, StepOf, SetVerified, Step, Keeps
<1>8. RequestOK(r)'
  <2>1. RowOK(r)'
    BY <1>1, <1>2, <1>5, <1>6
    DEF IInv, TypeOK, RequestOK, RowOK, EndOK, Before, Reachable, Row,
        SetVerified, Step, Keeps
  <2>2. LoginOK(r)'
    BY <1>1, <1>5, <1>6, NoneAssumption
    DEF IInv, TypeOK, RequestOK, RowOK, LoginOK, HasEmail, SetVerified, Step,
        Keeps
  <2>3. EndOK(r)'
    BY <1>1, <1>2, <1>5
    DEF IInv, TypeOK, RequestOK, RowOK, EndOK, Before, Reachable, Row,
        SetVerified, Step, Keeps
  <2> QED
    BY <2>1, <2>2, <2>3 DEF RequestOK
<1>9. pc[r] # "in" /\ UNCHANGED <<links, mailJob>>
  BY DEF SetVerified, Step, Keeps
<1> QED
  BY <1>4, <1>5, <1>7, <1>8, <1>9, StepKeeps

LEMMA InsertUserKeeps == ASSUME IInv, NEW r \in Requests, InsertUser(r) PROVE IInv'
<1> USE DEF rows, queue, request
<1>1. CASE ~Insertable(email[r])
  <2>1. pc[r] \in {"hash", "create"} /\ pc' = [pc EXCEPT ![r] = "failed"] /\ UNCHANGED <<users, found>>
    BY <1>1 DEF InsertUser, Step
  <2>2. TypeOK'
    BY <2>1 DEF IInv, TypeOK, InsertUser, Keeps, Steps
  <2>3. StepOf(r)
    BY <2>1 DEF IInv, TypeOK, StepOf, Exists, Reachable, InsertUser, Keeps
  <2>4. RequestOK(r)'
    BY <2>1
    DEF IInv, TypeOK, RequestOK, RowOK, LoginOK, EndOK, Exists, Before,
        Reachable, InsertUser, Keeps
  <2> QED
    BY <2>1, <2>2, <2>3, <2>4, StepKeeps DEF InsertUser, Exists
<1>2. CASE Insertable(email[r])
  <2> DEFINE row == NewRow(email[r], pc[r] = "hash")
  <2>1. /\ pc[r] \in {"hash", "create"}
        /\ pc' = [pc EXCEPT ![r] = "profile"] /\ found' = [found EXCEPT ![r] = r]
        /\ users' = [users EXCEPT ![r] = row]
        /\ UNCHANGED <<provider, address, kind, identity, faults, links, email, queue, device>>
    BY <1>2 DEF InsertUser, Step, Keeps
  <2>2. /\ row \in Row /\ row.email = email[r]
    BY DEF IInv, TypeOK, NewRow, Row
  <2>3. ~Exists(r) /\ Exists(r)' /\ users'[r].email = email[r]
    BY <2>1, <2>2, RowAssumption DEF IInv, TypeOK, RequestOK, RowOK, Before, Exists
  <2>4. \A s \in Requests \ {r} : users'[s] = users[s]
    BY <2>1 DEF IInv, TypeOK
  <2>5. TypeOK'
    BY <2>1, <2>2 DEF IInv, TypeOK, Steps
  <2>6. StepOf(r)
    BY <2>1, <2>3, <2>4 DEF IInv, TypeOK, StepOf, Exists, Reachable
  <2>7. RequestOK(r)'
    <3>1. pc'[r] = "profile" /\ found'[r] = r /\ email'[r] = email[r] /\ kind'[r] = kind[r]
          /\ identity'[r] = identity[r]
      BY <2>1 DEF IInv, TypeOK
    <3> QED
      BY <2>1, <2>3, <3>1 DEF IInv, RequestOK, RowOK, LoginOK, EndOK, Before
  <2>8. \A s \in Requests : RequestOK(s)'
    BY <2>5, <2>6, <2>7, OthersKeep
  <2>9. LinkInv' /\ LinkedByAddress'
    BY <2>1, <2>6, LinksKept
  <2>10. UniqueAddress'
    <3>1. \A s \in Requests \ {r} : \A e \in Emails : HasEmail(s, e)' => HasEmail(s, e)
      BY <2>4 DEF HasEmail, Exists
    <3>2. ASSUME NEW s \in Requests \ {r}, NEW e \in Emails, HasEmail(s, e)', HasEmail(r, e)'
          PROVE  FALSE
      <4>1. HasEmail(s, e) /\ email[r] = e
        BY <2>3, <3>1, <3>2 DEF HasEmail
      <4> QED
        BY <1>2, <4>1, NoneAssumption DEF Insertable
    <3> QED
      BY <3>1, <3>2 DEF IInv, UniqueAddress
  <2>11. MailInv'
    BY <2>1, <2>6 DEF IInv, MailInv, StepOf
  <2> QED
    BY <2>5, <2>8, <2>9, <2>10, <2>11 DEF IInv
<1> QED
  BY <1>1, <1>2

LEMMA LinkProviderKeeps == ASSUME IInv, NEW r \in Requests, LinkProvider(r) PROVE IInv'
<1> USE DEF rows, queue, request
<1>1. CASE ~Linkable(found[r], identity[r])
  <2>1. pc[r] = "link" /\ pc' = [pc EXCEPT ![r] = "failed"] /\ links' = links
    BY <1>1 DEF LinkProvider, Step
  <2>2. TypeOK'
    BY <2>1 DEF IInv, TypeOK, LinkProvider, Keeps, Steps
  <2>3. StepOf(r)
    BY <2>1 DEF IInv, TypeOK, StepOf, Exists, Reachable, LinkProvider, Keeps
  <2>4. RequestOK(r)'
    BY <2>1
    DEF IInv, TypeOK, RequestOK, RowOK, LoginOK, EndOK, Exists, Before,
        Reachable, LinkProvider, Keeps
  <2> QED
    BY <2>1, <2>2, <2>3, <2>4, StepKeeps DEF LinkProvider, Exists
<1>2. CASE Linkable(found[r], identity[r])
  <2> DEFINE link == [id |-> r, user |-> found[r], identity |-> identity[r]]
  <2>1. /\ pc[r] = "link" /\ pc' = [pc EXCEPT ![r] = "in"] /\ links' = links \cup {link}
        /\ UNCHANGED <<provider, address, users, kind, email, identity, found, queue, device, faults>>
    BY <1>2 DEF LinkProvider, Step, Keeps
  <2>2. found[r] \in Requests /\ identity[r] \in Identities
    BY <2>1 DEF IInv, RequestOK, LoginOK
  <2>3. TypeOK'
    BY <2>1, <2>2 DEF IInv, TypeOK, Steps, Link
  <2>4. StepOf(r)
    BY <2>1 DEF IInv, TypeOK, StepOf, Exists, Reachable
  <2>5. pc'[r] = "in"
    BY <2>1 DEF IInv, TypeOK
  <2>6. RequestOK(r)'
    <3>1. ASSUME Exists(r) PROVE users[r].profile /\ link.user = r
      BY <2>1, <3>1 DEF IInv, RequestOK, RowOK
    <3> QED
      BY <2>1, <2>5, <3>1 DEF IInv, RequestOK, RowOK, LoginOK, EndOK, Exists, Before
  <2>7. \A s \in Requests : RequestOK(s)'
    BY <2>3, <2>4, <2>6, OthersKeep
  <2>8. LinkInv'
    <3>1. ASSUME NEW l \in links PROVE pc'[l.id] = "in" /\ l.identity = identity'[l.id]
      BY <2>1 DEF IInv, TypeOK, Link, LinkInv
    <3> QED
      BY <2>1, <2>5, <3>1 DEF LinkInv
  <2>9. LinkedByAddress'
    <3>1. IF email[r] = None THEN link.user = link.id ELSE HasEmail(link.user, email[r])
      BY <2>1 DEF IInv, RequestOK, LoginOK
    <3> QED
      BY <2>1, <3>1 DEF IInv, LinkedByAddress, HasEmail, Exists
  <2>10. UniqueAddress' /\ MailInv'
    BY <2>1 DEF IInv, UniqueAddress, MailInv, HasEmail, Exists, Reachable
  <2> QED
    BY <2>3, <2>7, <2>8, <2>9, <2>10 DEF IInv
<1> QED
  BY <1>1, <1>2

-----------------------------------------------------------------------------
(* The mail: a job is put into the queue, and its tries.                    *)
LEMMA EmitRegisteredKeeps == ASSUME IInv, NEW r \in Requests, EmitRegistered(r) PROVE IInv'
<1> USE DEF rows, queue, request
<1>1. TypeOK'
  BY AttemptsAssumption, FaultsAssumption
  DEF IInv, TypeOK, EmitRegistered, Step, Keeps, Steps
<1>2. StepOf(r)
  BY DEF IInv, TypeOK, StepOf, Exists, Reachable, EmitRegistered, Step, Keeps
<1>3. RequestOK(r)'
  BY
  DEF IInv, TypeOK, RequestOK, RowOK, LoginOK, EndOK, Exists, Before, Reachable,
      EmitRegistered, Step, Keeps
<1>4. \A s \in Requests : RequestOK(s)'
  BY <1>1, <1>2, <1>3, OthersKeep
<1>5. LinkInv' /\ LinkedByAddress'
  BY <1>2, LinksKept DEF EmitRegistered, Step, Keeps
<1>6. UniqueAddress'
  BY <1>2, UniqueKept DEF EmitRegistered, Step, Keeps, Exists
<1>7. MailInv'
  <2>1. Exists(r) /\ Reachable(r)
    BY DEF IInv, RequestOK, RowOK, EmitRegistered, Step, Keeps
  <2> QED
    BY <2>1 DEF IInv, TypeOK, MailInv, Exists, Reachable, EmitRegistered, Step, Keeps
<1> QED
  BY <1>1, <1>4, <1>5, <1>6, <1>7 DEF IInv

LEMMA EmitLostKeeps == ASSUME IInv, NEW r \in Requests, EmitLost(r) PROVE IInv'
<1> USE DEF rows, queue, request
<1>1. TypeOK'
  BY AttemptsAssumption, FaultsAssumption DEF IInv, TypeOK, EmitLost, Step, Steps
<1>2. StepOf(r)
  BY DEF IInv, TypeOK, StepOf, Exists, Reachable, EmitLost, Step
<1>3. RequestOK(r)'
  BY
  DEF IInv, TypeOK, RequestOK, RowOK, LoginOK, EndOK, Exists, Before, Reachable,
      EmitLost, Step
<1>4. \A s \in Requests : RequestOK(s)'
  BY <1>1, <1>2, <1>3, OthersKeep
<1>5. LinkInv' /\ LinkedByAddress'
  BY <1>2, LinksKept DEF EmitLost, Step
<1>6. UniqueAddress'
  BY <1>2, UniqueKept DEF EmitLost, Step, Exists
<1>7. MailInv'
  <2>1. Exists(r) /\ Reachable(r)
    BY DEF IInv, RequestOK, RowOK, EmitLost, Step
  <2> QED
    BY <2>1 DEF IInv, TypeOK, MailInv, Exists, Reachable, EmitLost, Step
<1> QED
  BY <1>1, <1>4, <1>5, <1>6, <1>7 DEF IInv

LEMMA MailKeeps ==
  ASSUME IInv, NEW u \in Requests, SendMail(u) \/ MailFails(u) PROVE IInv'
<1> USE DEF rows, queue, request
<1>1. /\ mailJob[u] \in 1..Attempts /\ mailJob' = [mailJob EXCEPT ![u] = mailJob'[u]]
      /\ mailJob'[u] \in 0..Attempts
      /\ mails \subseteq mails' /\ mails' \subseteq mails \cup {u}
      /\ faults' \in 0..MaxFaults /\ UNCHANGED <<provider, address, rows, request, device>>
  BY AttemptsAssumption, FaultsAssumption DEF IInv, TypeOK, SendMail, MailFails
<1>2. TypeOK'
  BY <1>1 DEF IInv, TypeOK
<1>3. \A r \in Requests : RequestOK(r)'
  BY <1>1 DEF IInv, RequestOK, RowOK, LoginOK, EndOK, Exists, HasEmail, Reachable
<1>4. LinkInv' /\ LinkedByAddress' /\ UniqueAddress'
  BY <1>1 DEF IInv, LinkInv, LinkedByAddress, UniqueAddress, HasEmail, Exists
<1>5. MailInv'
  <2>1. Exists(u) /\ Reachable(u)
    BY <1>1, NoneAssumption DEF IInv, MailInv
  <2> QED
    BY <1>1, <2>1 DEF IInv, TypeOK, MailInv, Exists, Reachable
<1> QED
  BY <1>2, <1>3, <1>4, <1>5 DEF IInv

(* GitHub's own steps, and steps of nobody.                                 *)
LEMMA DeviceKeeps ==
  ASSUME IInv, InitDevice \/ Authorize \/ UNCHANGED vars PROVE IInv'
<1> USE DEF rows, queue, request
<1>1. UNCHANGED <<provider, address, rows, request, queue, faults>>
  BY DEF InitDevice, Authorize, vars
<1>2. TypeOK'
  BY <1>1 DEF IInv, TypeOK, InitDevice, Authorize, vars
<1>3. \A r \in Requests : RequestOK(r)'
  BY <1>1 DEF IInv, RequestOK, RowOK, LoginOK, EndOK, Exists, HasEmail, Reachable
<1>4. LinkInv' /\ LinkedByAddress' /\ UniqueAddress' /\ MailInv'
  BY <1>1
  DEF IInv, LinkInv, LinkedByAddress, UniqueAddress, MailInv, HasEmail, Exists,
      Reachable
<1> QED
  BY <1>2, <1>3, <1>4 DEF IInv
-----------------------------------------------------------------------------
(* Whatever step the system takes, the invariant stays.                     *)
LEMMA AccountsStep == IInv /\ [Next]_vars => IInv'
<1> SUFFICES ASSUME IInv, [Next]_vars PROVE IInv'
  OBVIOUS
<1>1. ASSUME NEW r \in Requests, Arrive(r) PROVE IInv'
  BY <1>1, SubmitRegistrationKeeps, SubmitLoginKeeps, OpenLinkKeeps, GoogleLoginKeeps,
     GithubLoginKeeps, PollDeviceKeeps DEF Arrive
<1>2. ASSUME NEW r \in Requests, Proceed(r) PROVE IInv'
  BY <1>2, FindFreeKeeps, InsertUserKeeps, SaveProfileKeeps, SaveTokenKeeps,
     EmitRegisteredKeeps, FindTokenKeeps, SetVerifiedKeeps, LoginKeeps, PollKeeps,
     FindByProviderKeeps, FindByEmailKeeps, LinkProviderKeeps DEF Proceed
<1>3. ASSUME NEW r \in Requests, EmitLost(r) \/ Abort(r) PROVE IInv'
  BY <1>3, EmitLostKeeps, AbortKeeps
<1>4. ASSUME NEW u \in Requests, SendMail(u) \/ MailFails(u) PROVE IInv'
  BY <1>4, MailKeeps
<1>5. CASE InitDevice \/ Authorize \/ UNCHANGED vars
  BY <1>5, DeviceKeeps
<1> QED
  BY <1>1, <1>2, <1>3, <1>4, <1>5 DEF Next

LEMMA AccountsInvariant == Spec => []IInv
  BY AccountsInit, AccountsStep, PTL DEF Spec

(* An account at a provider is one user's, since a told address is that of  *)
(* the identity, and one user has it.                                       *)
LEMMA OneUser == IInv => OneUserPerIdentity
<1> SUFFICES ASSUME IInv, NEW l \in links, NEW m \in links,
                    l.identity = m.identity, email[l.id] # None, email[m.id] # None
             PROVE  l.user = m.user
  BY DEF OneUserPerIdentity
<1>1. /\ l.id \in Requests /\ m.id \in Requests /\ l.user \in Requests /\ m.user \in Requests
      /\ l.identity = identity[l.id] /\ m.identity = identity[m.id]
      /\ l.identity \in Identities
  BY DEF IInv, TypeOK, Link, LinkInv
<1>2. email[l.id] = address[l.identity] /\ email[m.id] = address[l.identity]
  BY <1>1, NoneAssumption DEF IInv, RequestOK, LoginOK
<1>3. HasEmail(l.user, address[l.identity]) /\ HasEmail(m.user, address[l.identity])
  BY <1>2 DEF IInv, LinkedByAddress
<1>4. address[l.identity] \in Emails
  BY <1>1, <1>2 DEF IInv, TypeOK
<1> QED
  BY <1>1, <1>3, <1>4 DEF IInv, UniqueAddress

(* However registrations and first logins overlap and fail, an account at a *)
(* provider whose address is told is linked to one user, who has that       *)
(* address, and a request that succeeded leaves its user complete.          *)
THEOREM AccountsAreSound == Spec => []AccountsSound
<1>1. IInv => CompleteUnlessFailed
  BY DEF IInv, CompleteUnlessFailed, RequestOK, EndOK, Reachable
<1>2. IInv => AccountsSound
  BY <1>1, OneUser DEF IInv, AccountsSound
<1> QED
  BY <1>2, AccountsInvariant, PTL

(* The link in a mail works from the moment the mail may lie in the mailbox *)
(* until it has been opened.                                                *)
THEOREM MailedTokensOpen == Spec => []MailedTokenOpens
<1>1. IInv => MailedTokenOpens
  BY DEF IInv, TypeOK, MailInv, MailedTokenOpens, Reachable
<1> QED
  BY <1>1, AccountsInvariant, PTL
=============================================================================
