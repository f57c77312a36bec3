---------------------------- MODULE Subscriptions ----------------------------
(***************************************************************************)
(* The premium subscription: POST /payments/subscribe, POST                *)
(* /payments/subscription/cancel, the webhook by which Braintree reports   *)
(* what becomes of a subscription, and PATCH /users/me, which saves the    *)
(* same row of users.  Requests and deliveries run from one await to the   *)
(* next and interleave; notices arrive in any order and more than once.    *)
(*                                                                         *)
(* A subscription is named by the request that created it.  TypeORM's      *)
(* save() of a loaded entity is two awaited statements: a SELECT that reads *)
(* the row again, and an UPDATE of the columns in which the entity differs *)
(* from what was read.                                                     *)
(***************************************************************************)
EXTENDS Integers, FiniteSets

CONSTANTS
  Users, Requests,
  Deliveries,   \* calls of POST /payments/webhook
  None,         \* no subscription
  MaxNotices,   \* bound: notices of charges and of missed payments
  MaxExpiries,  \* bound: idempotency keys that expire
  MaxFaults     \* bound: deliveries that reject

ASSUME NoneAssumption   == None \notin Requests
ASSUME BoundsAssumption == MaxNotices \in Nat /\ MaxExpiries \in Nat
                             /\ MaxFaults \in Nat

VARIABLES
  row,       \* [Users -> Row]: the subscription columns of users
  payments,  \* rows of payments; "by" is the delivery that inserted it
  keys,      \* notices whose idempotency key is in Redis
  created,   \* history: the subscriptions Braintree has created
  live,      \* the subscriptions Braintree goes on charging
  sent,      \* the notices Braintree has to deliver
  pc,        \* [Requests -> Labels]: the await a request is at
  kind,      \* [Requests -> Kinds]: its route
  user,      \* [Requests -> Users]: req.user.id
  plan,      \* [Requests -> Plans]: dto.plan, or its default
  held,      \* [Requests -> Row]: the user entity it works on
  reread,    \* [Requests -> Row]: the row as its save() has read it again
  dpc,       \* [Deliveries -> DeliveryLabels]: the await a delivery is at
  notice,    \* [Deliveries -> Notice]: what it delivers
  dheld,     \* [Deliveries -> Row]: the user entity it works on
  dreread,   \* [Deliveries -> Row]: the row as its save() has read it again
  duser,     \* [Deliveries -> Users]: whose
  mixed,     \* history: users whose row is a mixture of the columns of two saves
  expiries, faults

gateway    == <<created, live, sent>>
requests   == <<pc, kind, user, plan, held, reread>>
deliveries == <<dpc, notice, dheld, dreread, duser>>
vars == <<row, payments, keys, gateway, requests, deliveries, mixed, expiries,
          faults>>

Plans  == {"free", "premium"}
Row    == [plan : Plans, sub : Requests \cup {None},
           status : {"none", "active", "past_due"}]
NoRow  == [plan |-> "free", sub |-> None, status |-> "none"]
Kinds  == {"subscribe", "cancel", "profile"}
Labels == {"find", "create", "cancel", "save", "write", "done", "failed"}
DeliveryLabels ==
  {"idle", "get", "set", "find", "save", "write", "record", "done", "aborted"}
NoticeKinds == {"charged", "chargeFailed", "pastDue", "canceled"}
Notice   == [kind : NoticeKinds, sub : Requests, n : 0..MaxNotices]
NoNotice == [kind |-> "none", sub |-> None, n |-> 0]
Payment  == [by : Deliveries, user : Users, notice : Notice,
             status : {"COMPLETED", "FAILED"}]

TypeOK ==
  /\ row \in [Users -> Row] /\ payments \subseteq Payment
  /\ keys \subseteq Notice /\ sent \subseteq Notice
  /\ created \subseteq Requests /\ live \subseteq created
  /\ pc \in [Requests -> Labels] /\ kind \in [Requests -> Kinds]
  /\ user \in [Requests -> Users] /\ plan \in [Requests -> Plans]
  /\ held \in [Requests -> Row] /\ reread \in [Requests -> Row]
  /\ dpc \in [Deliveries -> DeliveryLabels]
  /\ notice \in [Deliveries -> Notice \cup {NoNotice}]
  /\ \A d \in Deliveries :
       dpc[d] \notin {"idle", "aborted"} => notice[d] \in Notice
  /\ dheld \in [Deliveries -> Row] /\ dreread \in [Deliveries -> Row]
  /\ duser \in [Deliveries -> Users] /\ mixed \subseteq Users
  /\ expiries \in 0..MaxExpiries /\ faults \in 0..MaxFaults

Init ==
  /\ row = [u \in Users |-> NoRow] /\ payments = {} /\ keys = {}
  /\ created = {} /\ live = {} /\ sent = {}
  /\ pc = [r \in Requests |-> "find"]
  /\ kind \in [Requests -> Kinds] /\ user \in [Requests -> Users]
  /\ plan \in {f \in [Requests -> Plans] :
                \A r \in Requests : kind[r] # "subscribe" => f[r] = "premium"}
  /\ held = [r \in Requests |-> NoRow] /\ reread = held
  /\ dpc = [d \in Deliveries |-> "idle"]
  /\ notice = [d \in Deliveries |-> NoNotice]
  /\ \E u \in Users : duser = [d \in Deliveries |-> u]
  /\ dheld = [d \in Deliveries |-> NoRow] /\ dreread = dheld
  /\ mixed = {}
  /\ expiries = 0 /\ faults = 0
-----------------------------------------------------------------------------
Goto(r, label) == pc' = [pc EXCEPT ![r] = label]

HasActive(h) == h.plan = "premium" /\ h.sub # None

(* findOne of the user, and the check that each route makes on it. subscribe *)
(* sets all three columns, so nothing of what it loads reaches its save().  *)
FindUser(r) ==
  LET found == row[user[r]] IN
  /\ pc[r] = "find"
  /\ \/ kind[r] = "subscribe"
          /\ Goto(r, IF HasActive(found) THEN "failed" ELSE "create")
     \/ kind[r] = "cancel"
          /\ Goto(r, IF HasActive(found) THEN "cancel" ELSE "failed")
     \/ kind[r] = "profile" /\ Goto(r, "save")
  /\ held' = [held EXCEPT ![r] = IF kind[r] = "subscribe" \/ pc'[r] = "failed"
                                  THEN NoRow ELSE found]
  /\ UNCHANGED <<row, payments, keys, gateway, kind, user, plan, reread,
                 deliveries, mixed, expiries, faults>>

(* customer.create, paymentMethod.create, subscription.create: accepted;    *)
(* refused by one of them; or accepted with its answer lost.                *)
CreateSubscription(r) ==
  /\ pc[r] = "create"
  /\ \/ Goto(r, "save") /\ created' = created \cup {r} /\ live' = live \cup {r}
     \/ Goto(r, "failed") /\ UNCHANGED <<created, live>>
     \/ Goto(r, "failed") /\ created' = created \cup {r} /\ live' = live \cup {r}
  /\ UNCHANGED <<row, payments, keys, sent, kind, user, plan, held, reread,
                 deliveries, mixed, expiries, faults>>

(* A subscription that ends is reported by a notice of its own.             *)
EndSubscription(s) ==
  /\ live' = live \ {s}
  /\ sent' = sent \cup IF s \in live THEN {[kind |-> "canceled", sub |-> s, n |-> 0]}
                                     ELSE {}

(* subscription.cancel: an error is logged, and the route goes on.          *)
CancelSubscription(r) ==
  /\ pc[r] = "cancel" /\ Goto(r, "save")
  /\ \/ EndSubscription(held[r].sub)
     \/ UNCHANGED <<live, sent>>
  /\ UNCHANGED <<row, payments, keys, created, kind, user, plan, held,
                 reread, deliveries, mixed, expiries, faults>>

SavedKeepsPlan(r) ==
  IF kind[r] = "subscribe"
    THEN [plan |-> plan[r], sub |-> r, status |-> "active"]
    ELSE [held[r] EXCEPT !.sub = IF kind[r] = "cancel" THEN None ELSE @]

(* The entity that a route saves.                                           *)
Saved(r) ==
  IF kind[r] = "subscribe"
    THEN [plan |-> plan[r], sub |-> r, status |-> "active"]
    ELSE IF kind[r] = "cancel"
      THEN [plan |-> "free", sub |-> None, status |-> held[r].status]
      ELSE held[r]

(* save(): the SELECT, and the UPDATE of the columns that differ from it.   *)
Column(new, old, now) == IF new = old THEN now ELSE new
Updated(new, old, now) ==
  [plan   |-> Column(new.plan, old.plan, now.plan),
   sub    |-> Column(new.sub, old.sub, now.sub),
   status |-> Column(new.status, old.status, now.status)]

Mixture(u, new) == IF row'[u] \in {new, row[u]} THEN {} ELSE {u}

SaveUser(r) ==
  /\ pc[r] = "save" /\ Goto(r, "write")
  /\ reread' = [reread EXCEPT ![r] = row[user[r]]]
  /\ UNCHANGED <<row, payments, keys, gateway, kind, user, plan, held,
                 deliveries, mixed, expiries, faults>>

WriteUser(r) ==
  LET u == user[r] IN
  /\ pc[r] = "write" /\ Goto(r, "done")
  /\ row' = [row EXCEPT ![u] = Updated(Saved(r), reread[r], @)]
  /\ mixed' = mixed \cup Mixture(u, Saved(r))
  /\ held' = [held EXCEPT ![r] = NoRow]
  /\ reread' = [reread EXCEPT ![r] = NoRow]
  /\ UNCHANGED <<payments, keys, gateway, kind, user, plan, deliveries,
                 expiries, faults>>
-----------------------------------------------------------------------------
(* Braintree charges a live subscription, flags it, or ends it itself.      *)
IsCharge(m) == m.kind \in {"charged", "chargeFailed"}
Charges(s)  == {m \in sent : m.sub = s /\ IsCharge(m)}

Charge(s) ==
  /\ s \in live /\ Cardinality(sent) < MaxNotices
  /\ \E k \in {"charged", "chargeFailed"}, n \in 1..MaxNotices :
       /\ {m.n : m \in Charges(s)} = 1..(n - 1)
       /\ sent' = sent \cup {[kind |-> k, sub |-> s, n |-> n]}
  /\ UNCHANGED <<row, payments, keys, created, live, requests, deliveries,
                 mixed, expiries, faults>>

PastDue(s) ==
  /\ s \in live /\ Cardinality(sent) < MaxNotices
  /\ sent' = sent \cup {[kind |-> "pastDue", sub |-> s, n |-> 0]}
  /\ UNCHANGED <<row, payments, keys, created, live, requests, deliveries,
                 mixed, expiries, faults>>

EndByBraintree(s) ==
  /\ s \in live /\ EndSubscription(s)
  /\ UNCHANGED <<row, payments, keys, created, requests, deliveries, mixed,
                 expiries, faults>>
-----------------------------------------------------------------------------
(* handleWebhook: parse; look for the key; set it; then process the notice. *)
DGoto(d, label) == dpc' = [dpc EXCEPT ![d] = label]

Deliver(d) ==
  /\ dpc[d] = "idle" /\ DGoto(d, "get")
  /\ \E m \in sent : notice' = [notice EXCEPT ![d] = m]
  /\ UNCHANGED <<row, payments, keys, gateway, requests, dheld, dreread, duser,
                 mixed, expiries, faults>>

GetKeyAfterSet(d) ==
  /\ dpc[d] = "get" /\ DGoto(d, "done")
  /\ keys' = keys \cup {notice[d]}
  /\ UNCHANGED <<row, payments, gateway, requests, notice, dheld, dreread,
                 duser, mixed, expiries, faults>>

GetKey(d) ==
  /\ dpc[d] = "get"
  /\ DGoto(d, IF notice[d] \in keys THEN "done" ELSE "set")
  /\ UNCHANGED <<row, payments, keys, gateway, requests, notice, dheld, dreread,
                 duser, mixed, expiries, faults>>

SetKey(d) ==
  /\ dpc[d] = "set" /\ DGoto(d, "find")
  /\ keys' = keys \cup {notice[d]}
  /\ UNCHANGED <<row, payments, gateway, requests, notice, dheld, dreread,
                 duser, mixed, expiries, faults>>

(* 3600 is a time in milliseconds to cache-manager.                         *)
KeyExpires(m) ==
  /\ expiries < MaxExpiries /\ expiries' = expiries + 1
  /\ m \in keys /\ keys' = keys \ {m}
  /\ UNCHANGED <<row, payments, gateway, requests, deliveries, mixed, faults>>

(* The user found by subscription_id; a failed charge changes no user, and  *)
(* only the handler of pastDue saves a column that it has not set.          *)
AfterFind(m)   == IF m.kind = "chargeFailed" THEN "record" ELSE "save"
Loaded(m, found) == IF m.kind = "pastDue" THEN found ELSE NoRow

FindSubscriberByOwner(d) ==
  LET owner == user[notice[d].sub] IN
  /\ dpc[d] = "find" /\ DGoto(d, AfterFind(notice[d]))
  /\ dheld' = [dheld EXCEPT ![d] = Loaded(notice[d], row[owner])]
  /\ duser' = [duser EXCEPT ![d] = owner]
  /\ UNCHANGED <<row, payments, keys, gateway, requests, notice, dreread, mixed,
                 expiries, faults>>

FindSubscriber(d) ==
  /\ dpc[d] = "find"
  /\ \/ /\ \A u \in Users : row[u].sub # notice[d].sub
        /\ DGoto(d, "done") /\ UNCHANGED <<dheld, duser>>
     \/ \E u \in Users :
          /\ row[u].sub = notice[d].sub
          /\ DGoto(d, AfterFind(notice[d]))
          /\ dheld' = [dheld EXCEPT ![d] = Loaded(notice[d], row[u])]
          /\ duser' = [duser EXCEPT ![d] = u]
  /\ UNCHANGED <<row, payments, keys, gateway, requests, notice, dreread, mixed,
                 expiries, faults>>

(* What the three handlers that save the user have set on it, and save().   *)
DSaved(d) ==
  LET m == notice[d] IN
  IF m.kind = "charged"
    THEN [plan |-> "premium", sub |-> m.sub, status |-> "active"]
    ELSE IF m.kind = "pastDue" THEN [dheld[d] EXCEPT !.status = "past_due"]
                               ELSE NoRow

SaveSubscriber(d) ==
  /\ dpc[d] = "save" /\ DGoto(d, "write")
  /\ dreread' = [dreread EXCEPT ![d] = row[duser[d]]]
  /\ UNCHANGED <<row, payments, keys, gateway, requests, notice, dheld, duser,
                 mixed, expiries, faults>>

WriteSubscriber(d) ==
  LET u == duser[d] IN
  /\ dpc[d] = "write"
  /\ DGoto(d, IF notice[d].kind = "charged" THEN "record" ELSE "done")
  /\ row' = [row EXCEPT ![u] = Updated(DSaved(d), dreread[d], @)]
  /\ mixed' = mixed \cup Mixture(u, DSaved(d))
  /\ dheld' = [dheld EXCEPT ![d] = NoRow]
  /\ dreread' = [dreread EXCEPT ![d] = NoRow]
  /\ UNCHANGED <<payments, keys, gateway, requests, notice, duser, expiries,
                 faults>>

RecordAnyAsCompleted(d) ==
  /\ dpc[d] = "record" /\ DGoto(d, "done")
  /\ payments' = payments \cup
       {[by |-> d, user |-> duser[d], notice |-> notice[d],
         status |-> "COMPLETED"]}
  /\ UNCHANGED <<row, keys, gateway, requests, notice, dheld, dreread,
                 duser, mixed, expiries, faults>>

RecordCharge(d) ==
  /\ dpc[d] = "record" /\ DGoto(d, "done")
  /\ payments' = payments \cup
       {[by |-> d, user |-> duser[d], notice |-> notice[d],
         status |-> IF notice[d].kind = "charged" THEN "COMPLETED"
                                                  ELSE "FAILED"]}
  /\ UNCHANGED <<row, keys, gateway, requests, notice, dheld, dreread,
                 duser, mixed, expiries, faults>>

(* Any await of a delivery may reject.  A request that rejects takes no     *)
(* further step, as any request here may, since none is fair.               *)
Abort(d) ==
  /\ faults < MaxFaults /\ faults' = faults + 1
  /\ dpc[d] \notin {"idle", "done", "aborted"} /\ DGoto(d, "aborted")
  /\ dheld' = [dheld EXCEPT ![d] = NoRow]
  /\ dreread' = [dreread EXCEPT ![d] = NoRow]
  /\ notice' = [notice EXCEPT ![d] = NoNotice]
  /\ UNCHANGED <<row, payments, keys, gateway, requests, duser, mixed, expiries>>

Step(r) ==
  \/ FindUser(r) \/ CreateSubscription(r) \/ CancelSubscription(r)
  \/ SaveUser(r) \/ WriteUser(r)

DeliveryStep(d) ==
  \/ GetKey(d) \/ SetKey(d) \/ FindSubscriber(d)
  \/ SaveSubscriber(d) \/ WriteSubscriber(d) \/ RecordCharge(d)

Next ==
  \/ \E r \in Requests : Step(r)
  \/ \E s \in Requests : Charge(s) \/ PastDue(s) \/ EndByBraintree(s)
  \/ \E d \in Deliveries : Deliver(d) \/ DeliveryStep(d) \/ Abort(d)
  \/ \E m \in keys : KeyExpires(m)

Spec     == Init /\ [][Next]_vars
FairSpec == Spec /\ \A d \in Deliveries : WF_vars(DeliveryStep(d))
-----------------------------------------------------------------------------
(* However cancellations, webhooks and profile edits overwrite each other's *)
(* row, a subscription it names is one that Braintree has created for this  *)
(* user; and a premium user has one, however old the copy that was saved,   *)
(* unless a save() whose two statements another one came between has made a *)
(* mixture of his row.                                                      *)
PremiumIsSubscribed ==
  \A u \in Users :
    /\ row[u].sub # None => row[u].sub \in created /\ user[row[u].sub] = u
    /\ row[u].plan = "premium" => row[u].sub # None \/ u \in mixed

(* A payment row of a subscription names a charge that Braintree made, with *)
(* the outcome it had, and belongs to the user who took the subscription.   *)
PaymentsBilled ==
  \A p \in payments :
    /\ p.notice \in sent /\ IsCharge(p.notice)
    /\ p.status = "COMPLETED" <=> p.notice.kind = "charged"
    /\ user[p.notice.sub] = p.user

(* Once a user's subscription is gone from his row and nobody who loaded it *)
(* before is still to save, no late notice, duplicate or profile edit gives *)
(* it back: only subscribing anew does.                                     *)
Saving == {"save", "write"}
Holds(r) == pc[r] \in Saving /\ kind[r] = "profile" /\ held[r].sub # None
Dropped(u) ==
  /\ row[u].sub = None
  /\ \A r \in Requests : user[r] = u => ~Holds(r)
  /\ \A d \in Deliveries : duser[d] = u => dpc[d] \notin Saving

DroppedStays ==
  [][\A u \in Users : Dropped(u) =>
       \/ Dropped(u)'
       \/ \E r \in Requests : kind[r] = "subscribe" /\ user[r] = u
                                /\ pc[r] = "write" /\ row'[u].sub = r]_vars

(* A successful charge whose notice is being delivered for the first time   *)
(* is recorded, although the key that makes every further delivery skip it  *)
(* is set before the work is done, unless something rejects or the user's   *)
(* row moves to another subscription meanwhile.                             *)
Recorded(m)    == \E p \in payments : p.notice = m
Subscribes(m)  == \E u \in Users : row[u].sub = m.sub
FirstDelivery(d) ==
  LET m == notice[d] IN
  dpc[d] = "get" /\ m \notin keys /\ m.kind = "charged" /\ Subscribes(m)

ChargeRecorded ==
  \A d \in Deliveries :
    FirstDelivery(d) ~>
      Recorded(notice[d]) \/ ~Subscribes(notice[d]) \/ faults > 0
-----------------------------------------------------------------------------
(* "Verify idempotency: duplicate webhook must not create duplicates": no   *)
(* charge has two payment rows. No run lists it: as an INVARIANT of         *)
(* Subscriptions.cfg it is refuted, because two deliveries at once both     *)
(* read the key before either sets it.                                      *)
OnePaymentPerCharge ==
  \A p, q \in payments : p.notice = q.notice => p = q
=============================================================================
