------------------------------ MODULE Accounts ------------------------------
(* How accounts come to be: registration with its verification mail, first  *)
(* and later logins through Google and GitHub (the browser's callbacks, the *)
(* app's tokens and codes, the device flow), and who is let in afterwards.  *)
(* A step is what a request does between two awaits.  A user is named by    *)
(* the request that inserted its row, and so is the one verification token  *)
(* that the row ever gets.  What signing in writes is in Sessions.           *)
EXTENDS Integers, FiniteSets

CONSTANTS
  Requests,   \* the requests, and with them the users they may create
  Emails,
  Identities, \* accounts at a provider
  Attempts,   \* how often BullMQ tries a mail
  MaxFaults,  \* bound: requests and mails that fail
  None

ASSUME AttemptsAssumption == Attempts \in Nat \ {0}
ASSUME FaultsAssumption == MaxFaults \in Nat
ASSUME NoneAssumption == None \notin Requests \cup Emails \cup Identities \cup Nat

VARIABLES
  provider, address, \* of each identity: fixed
  users,      \* the rows
  links,      \* user_providers: a row is named by the request that inserted it
  kind, email, identity, found, pc, \* of each request: its arguments, the user it found, its step
  mailJob,    \* of each user: the tries left to its verification mail
  mails,      \* the users whose token lies in their mailbox
  device,     \* GitHub's device code
  faults

rows    == <<users, links>>
request == <<kind, email, identity, found, pc>>
queue   == <<mailJob, mails>>
vars    == <<provider, address, rows, request, queue, device, faults>>

Providers == {"google", "github"}
Kinds     == {"register", "verify", "login", "oauth", "poll", None}
Steps     == {"idle", "register", "hash", "profile", "token", "emit", "verify", "verified",
              "login", "poll", "provider", "email", "create", "link",
              "answered", "in", "refused", "failed"}
Row       == [email : Emails \cup {None}, password : BOOLEAN, verified : BOOLEAN,
              token : BOOLEAN, profile : BOOLEAN]
(* A row that is there differs from none.                                   *)
ASSUME RowAssumption == None \notin Row

Link      == [id : Requests, user : Requests, identity : Identities]

Exists(u)     == users[u] # None
HasEmail(u, e) == Exists(u) /\ users[u].email = e
Linked(i)     == {l \in links : l.identity = i}

(* Google tells the address of every account; GitHub has accounts without.  *)
Init ==
  /\ provider \in [Identities -> Providers]
  /\ address \in [Identities -> Emails \cup {None}]
  /\ \A i \in Identities : provider[i] = "google" => address[i] # None
  /\ users = [r \in Requests |-> None] /\ links = {}
  /\ kind = [r \in Requests |-> None] /\ email = [r \in Requests |-> None]
  /\ identity = [r \in Requests |-> None] /\ found = [r \in Requests |-> None]
  /\ pc = [r \in Requests |-> "idle"]
  /\ mailJob = [r \in Requests |-> None] /\ mails = {}
  /\ device = "none" /\ faults = 0
-----------------------------------------------------------------------------
(* Requests arrive.  A link in a mail is opened any number of times.        *)
Begin(r, k, step) ==
  /\ pc[r] = "idle" /\ pc' = [pc EXCEPT ![r] = step] /\ kind' = [kind EXCEPT ![r] = k]
  /\ UNCHANGED <<provider, address, rows, queue, device, faults>>

SubmitRegistration(r) ==
  /\ Begin(r, "register", "register") /\ UNCHANGED <<identity, found>>
  /\ \E e \in Emails : email' = [email EXCEPT ![r] = e]

SubmitLogin(r) ==
  /\ Begin(r, "login", "login") /\ UNCHANGED <<identity, found>>
  /\ \E e \in Emails : email' = [email EXCEPT ![r] = e]

OpenLink(r) ==
  /\ Begin(r, "verify", "verify") /\ UNCHANGED <<email, identity>>
  /\ \E u \in mails : found' = [found EXCEPT ![r] = u]

GoogleLogin(r) ==
  \E i \in Identities :
    /\ provider[i] = "google" /\ Begin(r, "oauth", "provider") /\ UNCHANGED found
    /\ identity' = [identity EXCEPT ![r] = i] /\ email' = [email EXCEPT ![r] = address[i]]

(* GitHub's address may be private, and asking for it may fail unnoticed.   *)
Told(i) == {address[i], None}

GithubLogin(r) ==
  \E i \in Identities : \E e \in Told(i) :
    /\ provider[i] = "github" /\ Begin(r, "oauth", "provider") /\ UNCHANGED found
    /\ identity' = [identity EXCEPT ![r] = i] /\ email' = [email EXCEPT ![r] = e]

PollDevice(r) ==
  /\ device # "none" /\ Begin(r, "poll", "poll") /\ UNCHANGED <<email, identity, found>>

Arrive(r) ==
  \/ SubmitRegistration(r) \/ SubmitLogin(r) \/ OpenLink(r)
  \/ GoogleLogin(r) \/ GithubLogin(r) \/ PollDevice(r)

(* One step of a request.                                                   *)
Step(r, from, to) == pc[r] = from /\ pc' = [pc EXCEPT ![r] = to]
Keeps == UNCHANGED <<provider, address, kind, identity, faults>>
-----------------------------------------------------------------------------
(* register()                                                               *)
FindFree(r) ==
  /\ \/ Step(r, "register", "refused") /\ \E u \in Requests : HasEmail(u, email[r])
     \/ Step(r, "register", "hash") /\ ~\E u \in Requests : HasEmail(u, email[r])
  /\ Keeps /\ UNCHANGED <<rows, email, found, queue, device>>

NewRow(e, p) == [email |-> e, password |-> p, verified |-> FALSE, token |-> FALSE, profile |-> FALSE]

InsertableTwice(e) == TRUE

(* The unique index on the address refuses the second of two.               *)
Insertable(e) == e = None \/ ~\E u \in Requests : HasEmail(u, e)

InsertUser(r) ==
  /\ pc[r] \in {"hash", "create"}
  /\ \/ /\ Insertable(email[r]) /\ Step(r, pc[r], "profile")
        /\ users' = [users EXCEPT ![r] = NewRow(email[r], pc[r] = "hash")]
        /\ found' = [found EXCEPT ![r] = r]
     \/ ~Insertable(email[r]) /\ Step(r, pc[r], "failed") /\ UNCHANGED <<users, found>>
  /\ Keeps /\ UNCHANGED <<links, email, queue, device>>

SaveProfile(r) ==
  /\ Step(r, "profile", IF kind[r] = "register" THEN "token" ELSE "link")
  /\ users' = [users EXCEPT ![r].profile = TRUE]
  /\ Keeps /\ UNCHANGED <<links, email, found, queue, device>>

SaveToken(r) ==
  /\ Step(r, "token", "emit") /\ users' = [users EXCEPT ![r].token = TRUE]
  /\ Keeps /\ UNCHANGED <<links, email, found, queue, device>>

(* The listener that puts the mail into the queue is not waited for.        *)
EmitNothing(r) ==
  /\ Step(r, "emit", "answered") /\ Keeps /\ UNCHANGED <<rows, email, found, queue, device>>

EmitRegistered(r) ==
  /\ Step(r, "emit", "answered") /\ mailJob' = [mailJob EXCEPT ![r] = Attempts]
  /\ Keeps /\ UNCHANGED <<rows, email, found, mails, device>>

(* The queue refuses the job, and only the log tells.                       *)
EmitLost(r) ==
  /\ Step(r, "emit", "answered") /\ faults < MaxFaults /\ faults' = faults + 1
  /\ mailJob' = [mailJob EXCEPT ![r] = 0]
  /\ UNCHANGED <<provider, address, kind, identity, rows, email, found, mails, device>>
-----------------------------------------------------------------------------
(* The mail queue: a try succeeds, or it fails with the mail out or not.    *)
SendMail(u) ==
  /\ mailJob[u] \in 1..Attempts /\ mails' = mails \cup {u}
  /\ mailJob' = [mailJob EXCEPT ![u] = 0]
  /\ UNCHANGED <<provider, address, rows, request, device, faults>>

MailFails(u) ==
  /\ mailJob[u] \in 1..Attempts /\ faults < MaxFaults /\ faults' = faults + 1
  /\ mailJob' = [mailJob EXCEPT ![u] = @ - 1]
  /\ mails' \in {mails, mails \cup {u}}
  /\ UNCHANGED <<provider, address, rows, request, device>>
-----------------------------------------------------------------------------
(* verifyEmail() and login()                                                *)
FindToken(r) ==
  /\ pc[r] = "verify" /\ Step(r, "verify", IF users[found[r]].token THEN "verified" ELSE "refused")
  /\ Keeps /\ UNCHANGED <<rows, email, found, queue, device>>

SetVerifiedNot(r) ==
  /\ Step(r, "verified", "in") /\ users' = [users EXCEPT ![found[r]].token = FALSE]
  /\ Keeps /\ UNCHANGED <<links, email, found, queue, device>>

SetVerified(r) ==
  /\ Step(r, "verified", "in")
  /\ users' = [users EXCEPT ![found[r]].verified = TRUE, ![found[r]].token = FALSE]
  /\ Keeps /\ UNCHANGED <<links, email, found, queue, device>>

(* A wrong password is refused too.                                         *)
Login(r) ==
  /\ pc[r] = "login" /\ Keeps /\ UNCHANGED <<rows, email, queue, device>>
  /\ \/ \E u \in Requests :
          /\ HasEmail(u, email[r]) /\ users[u].password /\ users[u].verified
          /\ Step(r, "login", "in") /\ found' = [found EXCEPT ![r] = u]
     \/ Step(r, "login", "refused") /\ UNCHANGED found
-----------------------------------------------------------------------------
(* findOrCreateOAuthUser()                                                  *)
FindByProvider(r) ==
  /\ pc[r] = "provider" /\ Keeps /\ UNCHANGED <<rows, email, queue, device>>
  /\ \/ \E l \in Linked(identity[r]) :
          Step(r, "provider", "in") /\ found' = [found EXCEPT ![r] = l.user]
     \/ /\ Linked(identity[r]) = {} /\ UNCHANGED found
        /\ Step(r, "provider", IF email[r] = None THEN "create" ELSE "email")

FindByEmail(r) ==
  /\ pc[r] = "email" /\ Keeps /\ UNCHANGED <<rows, email, queue, device>>
  /\ \/ \E u \in Requests :
          /\ HasEmail(u, email[r]) /\ Step(r, "email", "link")
          /\ found' = [found EXCEPT ![r] = u]
     \/ /\ ~\E u \in Requests : HasEmail(u, email[r])
        /\ Step(r, "email", "create") /\ UNCHANGED found

(* A user has one account at a provider: the index refuses a second.        *)
Linkable(u, i) == ~\E l \in links : l.user = u /\ provider[l.identity] = provider[i]

LinkProvider(r) ==
  /\ pc[r] = "link" /\ Keeps /\ UNCHANGED <<users, email, found, queue, device>>
  /\ \/ /\ Linkable(found[r], identity[r]) /\ Step(r, "link", "in")
        /\ links' = links \cup {[id |-> r, user |-> found[r], identity |-> identity[r]]}
     \/ ~Linkable(found[r], identity[r]) /\ Step(r, "link", "failed") /\ UNCHANGED links
-----------------------------------------------------------------------------
(* GitHub's device flow.  The identity that authorizes is known to GitHub,  *)
(* which redeems a code once.  The key that Redis has for a code is written *)
(* and deleted, but never read: it is left out.                             *)
InitDevice ==
  /\ device = "none" /\ device' = "pending"
  /\ UNCHANGED <<provider, address, rows, request, queue, faults>>

Authorize ==
  /\ device = "pending"
  /\ device' \in {i \in Identities : provider[i] = "github"} \cup {"expired"}
  /\ UNCHANGED <<provider, address, rows, request, queue, faults>>

Poll(r) ==
  /\ pc[r] = "poll" /\ UNCHANGED <<provider, address, rows, kind, found, queue, faults>>
  /\ \/ /\ device = "pending" /\ Step(r, "poll", "answered")
        /\ UNCHANGED <<identity, email, device>>
     \/ /\ device \in Identities /\ Step(r, "poll", "provider") /\ device' = "redeemed"
        /\ identity' = [identity EXCEPT ![r] = device]
        /\ \E e \in Told(device) : email' = [email EXCEPT ![r] = e]
     \/ /\ device \in {"redeemed", "expired"} /\ Step(r, "poll", "refused")
        /\ UNCHANGED <<identity, email, device>>
-----------------------------------------------------------------------------
(* An await fails, or the process ends.                                     *)
Abort(r) ==
  /\ pc[r] \notin {"idle", "answered", "in", "refused", "failed"}
  /\ faults < MaxFaults /\ faults' = faults + 1 /\ pc' = [pc EXCEPT ![r] = "failed"]
  /\ UNCHANGED <<provider, address, rows, kind, email, identity, found, queue, device>>

Proceed(r) ==
  \/ FindFree(r) \/ InsertUser(r) \/ SaveProfile(r) \/ SaveToken(r) \/ EmitRegistered(r)
  \/ FindToken(r) \/ SetVerified(r) \/ Login(r) \/ Poll(r)
  \/ FindByProvider(r) \/ FindByEmail(r) \/ LinkProvider(r)

Next ==
  \/ \E r \in Requests : Arrive(r) \/ Proceed(r) \/ EmitLost(r) \/ Abort(r)
  \/ \E u \in Requests : SendMail(u) \/ MailFails(u)
  \/ InitDevice \/ Authorize

Spec == Init /\ [][Next]_vars
(* Awaits settle and the mail worker runs.                                  *)
FairSpec == /\ Spec
            /\ \A r \in Requests : WF_vars(Proceed(r)) /\ WF_vars(SendMail(r))
-----------------------------------------------------------------------------
(* JwtStrategy lets a token in whose user is verified, and the page that a  *)
(* request ends on: the app's requests have none.                           *)
Served(u) == Exists(u) /\ users[u].verified

Welcomed(r) == pc[r] = "in" /\ kind[r] = "oauth"

Page(r) ==
  CASE pc[r] = "answered" /\ kind[r] = "register" -> "login?registered"
    [] pc[r] = "in" /\ kind[r] = "verify" -> "login?verified"
    [] pc[r] = "in" /\ kind[r] = "login"  -> "courses"
    [] Welcomed(r) -> "dashboard"
    [] pc[r] \in {"refused", "failed"}    -> "error"
    [] OTHER -> "form"
-----------------------------------------------------------------------------
TypeOK ==
  /\ provider \in [Identities -> Providers] /\ address \in [Identities -> Emails \cup {None}]
  /\ users \in [Requests -> Row \cup {None}] /\ links \subseteq Link
  /\ kind \in [Requests -> Kinds] /\ email \in [Requests -> Emails \cup {None}]
  /\ identity \in [Requests -> Identities \cup {None}]
  /\ found \in [Requests -> Requests \cup {None}] /\ pc \in [Requests -> Steps]
  /\ mailJob \in [Requests -> 0..Attempts \cup {None}] /\ mails \subseteq Requests
  /\ device \in Identities \cup {"none", "pending", "redeemed", "expired"}
  /\ faults \in 0..MaxFaults

(* The lookup by provider is there to avoid duplicates (users.service.ts):  *)
(* however first logins overlap, an account at a provider whose address is  *)
(* told is linked to one user.  (Without an address it may get several.)    *)
OneUserPerIdentity ==
  \A l, m \in links :
    l.identity = m.identity /\ email[l.id] # None /\ email[m.id] # None => l.user = m.user

(* A login is only ever joined to the user of its own address, or to the    *)
(* user it has created itself.                                              *)
LinkedByAddress ==
  \A l \in links : IF email[l.id] = None THEN l.user = l.id
                   ELSE HasEmail(l.user, email[l.id])

(* The link in a mail works from the moment it may be opened until it has   *)
(* been: the token is in the row before the mail can be.                    *)
MailedTokenOpens == \A u \in mails : Exists(u) /\ (users[u].token \/ users[u].verified)

(* A user without its student profile, or one whom nobody can ever sign in  *)
(* as (no link, no token, not verified), belongs to a request that is under *)
(* way or has failed behind the insert.                                     *)
CompleteUnlessFailed ==
  \A u \in Requests : Exists(u) /\ pc[u] \in {"answered", "in"} =>
    /\ users[u].profile
    /\ users[u].token \/ users[u].verified \/ \E l \in links : l.user = u

(* Races of first logins and registrations leave no account twice, joined   *)
(* to a stranger, or half made behind a request that succeeded.             *)
AccountsSound ==
  TypeOK /\ OneUserPerIdentity /\ LinkedByAddress /\ CompleteUnlessFailed

(* Who was told to look into the mailbox gets the mail, though tries fail,  *)
(* unless all of them do or the queue did not take the job.                 *)
RegisteredIsMailed ==
  \A r \in Requests : Page(r) = "login?registered" ~> (r \in mails \/ mailJob[r] = 0)

(* What the README promises (README.md:130): a user whom a login through    *)
(* Google or GitHub shows the dashboard is served there. No run lists it:   *)
(* as an INVARIANT of Accounts.cfg it is refuted by the first such login,   *)
(* since createOAuthUser() leaves isVerified FALSE and the guard asks it.   *)
OAuthIsServed == \A r \in Requests : Page(r) = "dashboard" => Served(found[r])
=============================================================================
