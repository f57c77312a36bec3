------------------------- MODULE SubscriptionsProofs -------------------------
(***************************************************************************)
(* Proofs about Subscriptions, for every set of users, requests and        *)
(* deliveries and every bound: its types, that a premium user has a        *)
(* subscription of his own, that payment rows are charges Braintree made,  *)
(* and that a subscription that is gone stays gone.                        *)
(***************************************************************************)
EXTENDS Subscriptions, TLAPS

LEMMA TypeInit == Init => TypeOK
  BY BoundsAssumption DEF Init, TypeOK, Row, NoRow, Plans, Labels,
     DeliveryLabels

(* What a delivery saves, by the kind of its notice.                        *)
LEMMA DSavedRow ==
  ASSUME NEW d \in Deliveries, notice[d] \in Notice, dheld[d] \in Row
  PROVE  /\ DSaved(d) \in Row
         /\ notice[d].kind = "charged" =>
              DSaved(d).plan = "premium" /\ DSaved(d).sub = notice[d].sub
         /\ notice[d].kind = "pastDue" =>
              DSaved(d).plan = dheld[d].plan /\ DSaved(d).sub = dheld[d].sub
         /\ notice[d].kind \notin {"charged", "pastDue"} =>
              DSaved(d) = NoRow
<1>1. NoRow \in Row
  BY DEF NoRow, Row, Plans
<1>2. CASE notice[d].kind = "charged"
  BY <1>2 DEF DSaved, Row, Plans, Notice
<1>3. CASE notice[d].kind = "pastDue"
  <2>1. DSaved(d) = [dheld[d] EXCEPT !.status = "past_due"]
    BY <1>3 DEF DSaved
  <2>2. [dheld[d] EXCEPT !.status = "past_due"] =
          [plan |-> dheld[d].plan, sub |-> dheld[d].sub, status |-> "past_due"]
    BY DEF Row
  <2> QED
    BY <1>3, <2>1, <2>2 DEF Row
<1>4. CASE notice[d].kind \notin {"charged", "pastDue"}
  BY <1>1, <1>4 DEF DSaved
<1> QED
  BY <1>2, <1>3, <1>4

(* Every handler, delivery and job keeps the types.                          *)
LEMMA TypeStep == TypeOK /\ [Next]_vars => TypeOK'
<1> SUFFICES ASSUME TypeOK, [Next]_vars PROVE TypeOK'
  OBVIOUS
<1> USE DEF TypeOK, gateway, requests, deliveries, Goto, DGoto
<1>0. NoRow \in Row
  BY DEF NoRow, Row, Plans
<1>1. ASSUME NEW r \in Requests, FindUser(r) PROVE TypeOK'
  BY <1>0, <1>1 DEF FindUser, Labels
<1>2. ASSUME NEW r \in Requests, CreateSubscription(r) PROVE TypeOK'
  BY <1>2 DEF CreateSubscription, Labels
<1>3. ASSUME NEW s \in Requests, EndSubscription(s)
      PROVE  sent' \subseteq Notice /\ live' \subseteq created
  BY <1>3, BoundsAssumption DEF EndSubscription, Notice, NoticeKinds
<1>4. ASSUME NEW r \in Requests, CancelSubscription(r) PROVE TypeOK'
  <2>1. sent' \subseteq Notice /\ live' \subseteq created
    <3>1. CASE EndSubscription(held[r].sub)
      <4>1. CASE held[r].sub \in Requests
        BY <1>3, <3>1, <4>1
      <4>2. CASE held[r].sub \notin Requests
        BY <3>1, <4>2 DEF EndSubscription
      <4> QED
        BY <4>1, <4>2
    <3> QED
      BY <1>4, <3>1 DEF CancelSubscription
  <2> QED
    BY <1>4, <2>1 DEF CancelSubscription, Labels
<1>15. ASSUME NEW new \in Row, NEW old \in Row, NEW now \in Row
       PROVE  Updated(new, old, now) \in Row
  BY DEF Updated, Column, Row
<1>5. ASSUME NEW r \in Requests, SaveUser(r) \/ WriteUser(r) PROVE TypeOK'
  <2>1. CASE SaveUser(r)
    BY <2>1 DEF SaveUser, Labels
  <2>2. CASE WriteUser(r)
    <3>1. Saved(r) \in Row
      BY DEF Saved, Row, Plans
    <3>2. Updated(Saved(r), reread[r], row[user[r]]) \in Row
      BY <1>15, <3>1
    <3>3. row' \in [Users -> Row] /\ mixed' \subseteq Users
      BY <2>2, <3>2 DEF WriteUser, Mixture
    <3> QED
      BY <1>0, <2>2, <3>3 DEF WriteUser, Labels
  <2> QED
    BY <1>5, <2>1, <2>2
<1>6. ASSUME NEW s \in Requests, Charge(s) \/ PastDue(s) PROVE TypeOK'
  <2>1. sent' \subseteq Notice
    BY <1>6, BoundsAssumption DEF Charge, PastDue, Notice, NoticeKinds
  <2> QED
    BY <1>6, <2>1 DEF Charge, PastDue
<1>7. ASSUME NEW s \in Requests, EndByBraintree(s) PROVE TypeOK'
  BY <1>3, <1>7 DEF EndByBraintree
<1>8. ASSUME NEW d \in Deliveries, Deliver(d) \/ GetKey(d) \/ SetKey(d)
      PROVE  TypeOK'
  BY <1>8 DEF Deliver, GetKey, SetKey, DeliveryLabels
<1>9. ASSUME NEW d \in Deliveries, FindSubscriber(d) PROVE TypeOK'
  <2>1. \A u \in Users : Loaded(notice[d], row[u]) \in Row
    BY <1>0 DEF Loaded
  <2> QED
    BY <1>9, <2>1 DEF FindSubscriber, AfterFind, DeliveryLabels
<1>10. ASSUME NEW d \in Deliveries, SaveSubscriber(d) \/ WriteSubscriber(d)
       PROVE  TypeOK'
  <2>1. CASE SaveSubscriber(d)
    BY <2>1 DEF SaveSubscriber, DeliveryLabels
  <2>2. CASE WriteSubscriber(d)
    <3>1. dpc[d] = "write" /\ notice[d] \in Notice
      BY <2>2 DEF WriteSubscriber
    <3>2. DSaved(d) \in Row
      BY <3>1, DSavedRow
    <3>3. Updated(DSaved(d), dreread[d], row[duser[d]]) \in Row
      BY <1>15, <3>2
    <3>4. row' \in [Users -> Row] /\ mixed' \subseteq Users
      BY <2>2, <3>3 DEF WriteSubscriber, Mixture
    <3>5. dpc' \in [Deliveries -> DeliveryLabels]
      BY <2>2 DEF WriteSubscriber, DeliveryLabels
    <3>6. dheld' \in [Deliveries -> Row] /\ dreread' \in [Deliveries -> Row]
      BY <1>0, <2>2 DEF WriteSubscriber
    <3> QED
      BY <2>2, <3>1, <3>4, <3>5, <3>6 DEF WriteSubscriber
  <2> QED
    BY <1>10, <2>1, <2>2
<1>11. ASSUME NEW d \in Deliveries, RecordCharge(d) PROVE TypeOK'
  <2>1. payments' \subseteq Payment
    BY <1>11 DEF RecordCharge, Payment
  <2> QED
    BY <1>11, <2>1 DEF RecordCharge, DeliveryLabels
<1>12. ASSUME NEW d \in Deliveries, Abort(d) PROVE TypeOK'
  BY <1>0, <1>12, BoundsAssumption DEF Abort, DeliveryLabels
<1>13. ASSUME NEW m \in keys, KeyExpires(m) PROVE TypeOK'
  BY <1>13, BoundsAssumption DEF KeyExpires
<1>14. CASE UNCHANGED vars
  BY <1>14 DEF vars
<1> QED
  BY <1>1, <1>2, <1>4, <1>5, <1>6, <1>7, <1>8, <1>9, <1>10, <1>11, <1>12,
     <1>13, <1>14
  DEF Next, Step, DeliveryStep

(* Every variable keeps its type.                                           *)
THEOREM SubscriptionTypes == Spec => []TypeOK
  BY TypeInit, TypeStep, PTL DEF Spec
-----------------------------------------------------------------------------
(* Why a premium user has a subscription of his own.  A subscription named  *)
(* in any copy of a row, in the table or held by a request or a delivery    *)
(* that will save it, was created for that user, so it does not matter      *)
(* which column is written last.  A copy whose plan is premium names one,   *)
(* as long as no two saves have mixed the user's columns.                   *)
Owned(h, u) == h.sub # None => h.sub \in created /\ user[h.sub] = u
Whole(h, u) == h.plan = "premium" => h.sub # None \/ u \in mixed
Consistent(h, u) == Owned(h, u) /\ Whole(h, u)

RowsConsistent ==
  /\ \A u \in Users : Consistent(row[u], u)
  /\ \A r \in Requests : Consistent(held[r], user[r])
  /\ \A d \in Deliveries : Consistent(dheld[d], duser[d])

CreatedBeforeSave ==
  \A r \in Requests :
    pc[r] \in Saving /\ kind[r] = "subscribe" => r \in created

AtRoute ==
  \A r \in Requests :
    /\ pc[r] = "create" => kind[r] = "subscribe"
    /\ pc[r] = "cancel" => kind[r] = "cancel"

(* A delivery carries a notice that Braintree has sent, and once it has     *)
(* found a user he is the one who took the subscription.                    *)
NoticesReal ==
  \A d \in Deliveries :
    /\ dpc[d] \notin {"idle", "aborted"} => notice[d] \in sent
    /\ dpc[d] \in Saving \cup {"record"} =>
         notice[d].sub \in created /\ user[notice[d].sub] = duser[d]
    /\ dpc[d] = "record" => IsCharge(notice[d])

RowInv == /\ RowsConsistent /\ CreatedBeforeSave /\ AtRoute
          /\ NoticesReal /\ PaymentsBilled

LEMMA RowInit == Init => RowInv
  BY DEF Init, RowInv, RowsConsistent, Consistent, Owned, Whole, NoRow,
     CreatedBeforeSave, AtRoute, NoticesReal, PaymentsBilled, Saving

(* What an UPDATE leaves in the row, given that the row, and the entity that *)
(* is saved, are consistent: each column is the one or the other, and when  *)
(* the result is neither of the two rows the user is marked.                *)
LEMMA UpdateConsistent ==
  ASSUME TypeOK, NEW u \in Users, NEW new \in Row, NEW old \in Row,
         Consistent(new, u), Consistent(row[u], u),
         row' = [row EXCEPT ![u] = Updated(new, old, @)],
         mixed' = mixed \cup Mixture(u, new),
         UNCHANGED <<created, user>>
  PROVE  /\ \A v \in Users : Consistent(row[v], v) => Consistent(row[v], v)'
         /\ \A h, v : Consistent(h, v) => Consistent(h, v)'
<1>1. \A h, v : Consistent(h, v) => Consistent(h, v)'
  BY DEF Consistent, Owned, Whole
<1>2. row'[u] = Updated(new, old, row[u]) /\ row[u] \in Row
  BY DEF TypeOK
<1>3. row'[u].sub \in {new.sub, row[u].sub}
  BY <1>2 DEF Updated, Column
<1>4. Owned(row[u], u)'
  BY <1>3 DEF Consistent, Owned
<1>5. Whole(row[u], u)'
  <2>1. CASE row'[u] \in {new, row[u]}
    BY <2>1 DEF Consistent, Whole
  <2>2. CASE row'[u] \notin {new, row[u]}
    BY <2>2 DEF Whole, Mixture
  <2> QED
    BY <2>1, <2>2
<1>6. Consistent(row[u], u)'
  BY <1>4, <1>5 DEF Consistent
<1>7. \A v \in Users : v # u => row'[v] = row[v]
  BY DEF TypeOK
<1>8. ASSUME NEW v \in Users, v # u, Consistent(row[v], v)
      PROVE  Consistent(row[v], v)'
  BY <1>7, <1>8 DEF Consistent, Owned, Whole
<1> QED
  BY <1>1, <1>6, <1>8

(* Every step keeps the rows, the notices and the payments in the relation   *)
(* the five parts of RowInv describe.                                        *)
LEMMA RowStep == TypeOK /\ RowInv /\ [Next]_vars => RowInv'
<1> SUFFICES ASSUME TypeOK, RowInv, [Next]_vars PROVE RowInv'
  OBVIOUS
<1> USE DEF TypeOK, RowInv, gateway, requests, deliveries, Goto, DGoto
<1>1. ASSUME NEW r \in Requests, FindUser(r) PROVE RowInv'
  <2>1. RowsConsistent'
    BY <1>1 DEF FindUser, RowsConsistent, Consistent, Owned, Whole, NoRow
  <2>2. CreatedBeforeSave' /\ AtRoute'
    BY <1>1 DEF FindUser, CreatedBeforeSave, AtRoute, Saving
  <2>3. NoticesReal' /\ PaymentsBilled'
    BY <1>1 DEF FindUser, NoticesReal, PaymentsBilled, IsCharge
  <2> QED
    BY <2>1, <2>2, <2>3
<1>2. ASSUME NEW r \in Requests, CreateSubscription(r) PROVE RowInv'
  <2>1. created \subseteq created' /\ (pc'[r] = "save" => r \in created')
    BY <1>2 DEF CreateSubscription
  <2>2. RowsConsistent'
    BY <1>2, <2>1 DEF CreateSubscription, RowsConsistent, Consistent, Owned, Whole
  <2>3. CreatedBeforeSave' /\ AtRoute'
    BY <1>2, <2>1 DEF CreateSubscription, CreatedBeforeSave, AtRoute, Saving
  <2>4. NoticesReal' /\ PaymentsBilled'
    BY <1>2, <2>1 DEF CreateSubscription, NoticesReal, PaymentsBilled, IsCharge
  <2> QED
    BY <2>2, <2>3, <2>4
<1>14. ASSUME NEW r \in Requests, SaveUser(r) PROVE RowInv'
  <2>1. UNCHANGED <<row, payments, created, sent, held, user, kind, dheld,
                    duser, dpc, notice, mixed>>
    BY <1>14 DEF SaveUser
  <2>2. RowsConsistent' /\ NoticesReal' /\ PaymentsBilled'
    BY <2>1 DEF RowsConsistent, Consistent, Owned, Whole, NoticesReal,
       PaymentsBilled, IsCharge
  <2>3. CreatedBeforeSave' /\ AtRoute'
    BY <1>14, <2>1 DEF SaveUser, CreatedBeforeSave, AtRoute, Saving
  <2> QED
    BY <2>2, <2>3
<1>3. ASSUME NEW r \in Requests, WriteUser(r) PROVE RowInv'
  <2>1. Saved(r) \in Row /\ Consistent(Saved(r), user[r])
    <3>1. Saved(r) \in Row
      BY DEF Saved, Row, Plans
    <3>2. CASE kind[r] = "subscribe"
      BY <1>3, <3>1, <3>2, NoneAssumption
      DEF WriteUser, Saved, Consistent, Owned, Whole, CreatedBeforeSave, Saving
    <3>3. CASE kind[r] = "cancel"
      BY <3>1, <3>3 DEF Saved, Consistent, Owned, Whole
    <3>4. CASE kind[r] = "profile"
      BY <3>1, <3>4 DEF Saved, RowsConsistent
    <3> QED
      BY <3>1, <3>2, <3>3, <3>4 DEF Kinds
  <2>2. /\ row' = [row EXCEPT ![user[r]] = Updated(Saved(r), reread[r], @)]
        /\ mixed' = mixed \cup Mixture(user[r], Saved(r))
        /\ held' = [held EXCEPT ![r] = NoRow]
        /\ UNCHANGED <<created, user, dheld, duser>>
    BY <1>3 DEF WriteUser
  <2>3. /\ \A v \in Users : Consistent(row[v], v)'
        /\ \A h, v : Consistent(h, v) => Consistent(h, v)'
    BY <2>1, <2>2, UpdateConsistent DEF RowsConsistent
  <2>6. \A v : Consistent(NoRow, v)
    BY DEF Consistent, Owned, Whole, NoRow
  <2>4. RowsConsistent'
    BY <2>2, <2>3, <2>6 DEF RowsConsistent
  <2>5. CreatedBeforeSave' /\ AtRoute' /\ NoticesReal' /\ PaymentsBilled'
    BY <1>3 DEF WriteUser, CreatedBeforeSave, AtRoute, NoticesReal, PaymentsBilled,
         IsCharge, Saving
  <2> QED
    BY <2>4, <2>5
<1>4. ASSUME UNCHANGED <<row, payments, created, requests, dheld, duser, dpc,
                         notice, mixed>>, sent \subseteq sent'
      PROVE  RowInv'
  BY <1>4 DEF RowsConsistent, Consistent, Owned, Whole, CreatedBeforeSave,
     AtRoute, NoticesReal, PaymentsBilled, IsCharge, Saving
<1>5. ASSUME NEW r \in Requests, CancelSubscription(r) PROVE RowInv'
  <2>1. sent \subseteq sent' /\ UNCHANGED <<row, payments, created, dheld,
          duser, dpc, notice, held, user, kind, mixed>>
    BY <1>5 DEF CancelSubscription, EndSubscription
  <2>2. RowsConsistent' /\ NoticesReal' /\ PaymentsBilled'
    BY <2>1 DEF RowsConsistent, Consistent, Owned, Whole, NoticesReal,
       PaymentsBilled, IsCharge
  <2>3. CreatedBeforeSave' /\ AtRoute'
    BY <1>5, <2>1 DEF CancelSubscription, CreatedBeforeSave, AtRoute, Saving
  <2> QED
    BY <2>2, <2>3
<1>6. ASSUME NEW s \in Requests, Charge(s) \/ PastDue(s) \/ EndByBraintree(s)
      PROVE  RowInv'
  BY <1>4, <1>6 DEF Charge, PastDue, EndByBraintree, EndSubscription
<1>7. ASSUME NEW d \in Deliveries,
             Deliver(d) \/ GetKey(d) \/ SetKey(d) \/ Abort(d)
      PROVE  RowInv'
  <2>1. /\ UNCHANGED <<row, payments, created, sent, requests, duser, mixed>>
        /\ dheld' = dheld \/ dheld' = [dheld EXCEPT ![d] = NoRow]
    BY <1>7 DEF Deliver, GetKey, SetKey, Abort
  <2>2. RowsConsistent' /\ CreatedBeforeSave' /\ AtRoute' /\ PaymentsBilled'
    BY <2>1 DEF RowsConsistent, Consistent, Owned, Whole, NoRow,
       CreatedBeforeSave, AtRoute, PaymentsBilled, Saving
  <2>3. NoticesReal'
    BY <1>7, <2>1 DEF Deliver, GetKey, SetKey, Abort, NoticesReal, Saving
  <2> QED
    BY <2>2, <2>3
<1>8. ASSUME NEW d \in Deliveries, FindSubscriber(d) PROVE RowInv'
  <2>1. UNCHANGED <<row, payments, created, sent, requests, notice, mixed>>
    BY <1>8 DEF FindSubscriber
  <2>2. CreatedBeforeSave' /\ AtRoute' /\ PaymentsBilled'
    BY <2>1 DEF CreatedBeforeSave, AtRoute, PaymentsBilled, Saving
  <2>3. RowsConsistent'
    BY <1>8, <2>1 DEF FindSubscriber, RowsConsistent, Consistent, Owned, Whole,
         NoRow, Loaded
  <2>4. NoticesReal'
    <3>1. CASE \A u \in Users : row[u].sub # notice[d].sub
      BY <1>8, <2>1, <3>1 DEF FindSubscriber, NoticesReal, Saving
    <3>2. ASSUME NEW u \in Users, row[u].sub = notice[d].sub,
                 DGoto(d, AfterFind(notice[d])),
                 duser' = [duser EXCEPT ![d] = u]
          PROVE  NoticesReal'
      <4>2. dpc[d] = "find" /\ notice[d] \in sent
              /\ notice[d] \in Notice
        BY <1>8 DEF FindSubscriber, NoticesReal
      <4>1. notice[d].sub \in created /\ user[notice[d].sub] = u
        BY <3>2, <4>2, NoneAssumption DEF RowsConsistent, Consistent, Owned, Notice
      <4>3. dpc'[d] = "record" => IsCharge(notice[d])
        BY <3>2 DEF AfterFind, IsCharge
      <4> QED
        BY <2>1, <3>2, <4>1, <4>2, <4>3 DEF NoticesReal, Saving
    <3> QED
      BY <1>8, <3>1, <3>2 DEF FindSubscriber
  <2> QED
    BY <2>2, <2>3, <2>4
<1>13. ASSUME NEW d \in Deliveries, SaveSubscriber(d) PROVE RowInv'
  <2>1. UNCHANGED <<row, payments, created, sent, requests, notice, dheld,
                    duser, mixed>>
    BY <1>13 DEF SaveSubscriber
  <2>2. RowsConsistent' /\ CreatedBeforeSave' /\ AtRoute' /\ PaymentsBilled'
    BY <2>1 DEF RowsConsistent, Consistent, Owned, Whole, CreatedBeforeSave,
       AtRoute, PaymentsBilled, Saving
  <2>3. NoticesReal'
    BY <1>13, <2>1 DEF SaveSubscriber, NoticesReal, Saving
  <2> QED
    BY <2>2, <2>3
<1>9. ASSUME NEW d \in Deliveries, WriteSubscriber(d) PROVE RowInv'
  <2>1. /\ UNCHANGED <<payments, created, sent, requests, notice, duser>>
        /\ dheld' = [dheld EXCEPT ![d] = NoRow] /\ dpc[d] = "write"
        /\ row' = [row EXCEPT ![duser[d]] = Updated(DSaved(d), dreread[d], @)]
        /\ mixed' = mixed \cup Mixture(duser[d], DSaved(d))
    BY <1>9 DEF WriteSubscriber
  <2>2. CreatedBeforeSave' /\ AtRoute' /\ PaymentsBilled'
    BY <2>1 DEF CreatedBeforeSave, AtRoute, PaymentsBilled, Saving
  <2>3. /\ notice[d].sub \in created /\ user[notice[d].sub] = duser[d]
        /\ notice[d] \in Notice
    BY <2>1 DEF NoticesReal, Saving
  <2>8. DSaved(d) \in Row /\ Consistent(DSaved(d), duser[d])
    <3>1. Consistent(dheld[d], duser[d])
      BY DEF RowsConsistent
    <3>2. notice[d].sub # None
      BY <2>3, NoneAssumption
    <3>3. DSaved(d) = NoRow => DSaved(d).plan = "free" /\ DSaved(d).sub = None
      BY DEF NoRow
    <3>4. dheld[d] \in Row
      OBVIOUS
    <3> QED
      BY <2>3, <3>1, <3>2, <3>3, <3>4, DSavedRow DEF Consistent, Owned, Whole
  <2>4. /\ \A v \in Users : Consistent(row[v], v)'
        /\ \A h, v : Consistent(h, v) => Consistent(h, v)'
    <3>1. UNCHANGED <<created, user>>
      BY <2>1
    <3> QED
      BY <2>1, <2>8, <3>1, UpdateConsistent DEF RowsConsistent
  <2>5. \A v : Consistent(NoRow, v)
    BY DEF Consistent, Owned, Whole, NoRow
  <2>6. RowsConsistent'
    BY <2>1, <2>4, <2>5 DEF RowsConsistent
  <2>7. NoticesReal'
    BY <1>9, <2>1 DEF WriteSubscriber, NoticesReal, IsCharge, Saving
  <2> QED
    BY <2>2, <2>6, <2>7
<1>10. ASSUME NEW d \in Deliveries, RecordCharge(d) PROVE RowInv'
  <2>1. UNCHANGED <<row, created, sent, requests, notice, dheld, duser, mixed>>
          /\ dpc[d] = "record"
    BY <1>10 DEF RecordCharge
  <2>2. RowsConsistent' /\ CreatedBeforeSave' /\ AtRoute'
    BY <2>1 DEF RowsConsistent, Consistent, Owned, Whole, CreatedBeforeSave,
       AtRoute, Saving
  <2>3. NoticesReal'
    BY <1>10, <2>1 DEF RecordCharge, NoticesReal, Saving
  <2>4. PaymentsBilled'
    BY <1>10, <2>1 DEF RecordCharge, NoticesReal, PaymentsBilled, IsCharge
  <2> QED
    BY <2>2, <2>3, <2>4
<1>11. ASSUME NEW m \in keys, KeyExpires(m) PROVE RowInv'
  BY <1>4, <1>11 DEF KeyExpires
<1>12. CASE UNCHANGED vars
  BY <1>4, <1>12 DEF vars
<1> QED
  BY <1>1, <1>2, <1>3, <1>5, <1>6, <1>7, <1>8, <1>9, <1>10, <1>11, <1>12,
     <1>13, <1>14
  DEF Next, Step, DeliveryStep

(* However cancellations, webhooks and profile edits overwrite each other,  *)
(* a subscription a row names was created for that user, and a premium user *)
(* has one unless two saves have mixed the columns of his row.              *)
THEOREM PremiumSubscribed == Spec => []PremiumIsSubscribed
<1>1. Init => TypeOK /\ RowInv
  BY TypeInit, RowInit
<1>2. TypeOK /\ RowInv /\ [Next]_vars => TypeOK' /\ RowInv'
  BY TypeStep, RowStep
<1>3. RowInv => PremiumIsSubscribed
  BY DEF RowInv, RowsConsistent, Consistent, Owned, Whole, PremiumIsSubscribed
<1> QED
  BY <1>1, <1>2, <1>3, PTL DEF Spec

(* Every payment row of a subscription is a charge that Braintree made.     *)
THEOREM SubscriptionPaymentsBilled == Spec => []PaymentsBilled
<1>1. Init => TypeOK /\ RowInv
  BY TypeInit, RowInit
<1>2. TypeOK /\ RowInv /\ [Next]_vars => TypeOK' /\ RowInv'
  BY TypeStep, RowStep
<1>3. RowInv => PaymentsBilled
  BY DEF RowInv
<1> QED
  BY <1>1, <1>2, <1>3, PTL DEF Spec
-----------------------------------------------------------------------------
(* A subscription that is gone stays gone: a delivery finds a user only by  *)
(* the subscription in his row, and a profile edit saves what it has read.  *)
DroppedStep(u) ==
  Dropped(u) =>
    \/ Dropped(u)'
    \/ \E r \in Requests : kind[r] = "subscribe" /\ user[r] = u
                             /\ pc[r] = "write" /\ row'[u].sub = r

(* The action property of SubscriptionEndStays, one user at a time.          *)
LEMMA DroppedKept ==
  ASSUME TypeOK, AtRoute, [Next]_vars, NEW u \in Users
  PROVE  DroppedStep(u)
<1> SUFFICES ASSUME Dropped(u) PROVE DroppedStep(u)
  BY DEF DroppedStep
<1> USE DEF TypeOK, gateway, requests, deliveries, Goto, DGoto, Dropped, Holds,
           Saving
<1>1. ASSUME NEW r \in Requests, FindUser(r) PROVE Dropped(u)'
  BY <1>1 DEF FindUser
<1>2. ASSUME NEW r \in Requests, CreateSubscription(r) \/ CancelSubscription(r)
      PROVE  Dropped(u)'
  <2>1. UNCHANGED <<row, held, user, dpc, duser, kind>>
    BY <1>2 DEF CreateSubscription, CancelSubscription
  <2>2. \A q \in Requests : q # r => pc'[q] = pc[q]
    BY <1>2 DEF CreateSubscription, CancelSubscription
  <2>3. ~Holds(r)'
    BY <1>2, <2>1 DEF CreateSubscription, CancelSubscription, AtRoute
  <2> QED
    BY <2>1, <2>2, <2>3
<1>11. ASSUME NEW r \in Requests, SaveUser(r) PROVE Dropped(u)'
  BY <1>11 DEF SaveUser
<1>3. ASSUME NEW r \in Requests, WriteUser(r) PROVE DroppedStep(u)
  <2>1. row'[u].sub = None \/ (user[r] = u /\ row'[u].sub = Saved(r).sub)
    <3>1. user[r] = u => row'[u] = Updated(Saved(r), reread[r], row[u])
      BY <1>3 DEF WriteUser
    <3>2. user[r] # u => row'[u] = row[u]
      BY <1>3 DEF WriteUser
    <3> QED
      BY <3>1, <3>2 DEF Updated, Column
  <2>2. CASE row'[u].sub = None
    BY <1>3, <2>2 DEF WriteUser, DroppedStep, NoRow
  <2>3. CASE user[r] = u /\ kind[r] = "subscribe" /\ row'[u].sub = Saved(r).sub
    BY <1>3, <2>3 DEF WriteUser, Saved, DroppedStep
  <2>4. CASE user[r] = u /\ kind[r] # "subscribe"
    <3>1. Saved(r).sub = None
      BY <1>3, <2>4 DEF WriteUser, Saved, Kinds
    <3> QED
      BY <2>1, <2>2, <3>1
  <2> QED
    BY <2>1, <2>2, <2>3, <2>4
<1>4. ASSUME NEW s \in Requests, Charge(s) \/ PastDue(s) \/ EndByBraintree(s)
      PROVE  Dropped(u)'
  BY <1>4 DEF Charge, PastDue, EndByBraintree
<1>5. ASSUME NEW d \in Deliveries,
             \/ Deliver(d) \/ GetKey(d) \/ SetKey(d) \/ Abort(d)
             \/ RecordCharge(d)
      PROVE  Dropped(u)'
  BY <1>5 DEF Deliver, GetKey, SetKey, Abort, RecordCharge
<1>6. ASSUME NEW d \in Deliveries, FindSubscriber(d) PROVE Dropped(u)'
  BY <1>6, NoneAssumption DEF FindSubscriber, AfterFind, Notice
<1>7. ASSUME NEW d \in Deliveries, SaveSubscriber(d) \/ WriteSubscriber(d)
      PROVE  Dropped(u)'
  BY <1>7 DEF SaveSubscriber, WriteSubscriber
<1>8. ASSUME NEW m \in keys, KeyExpires(m) PROVE Dropped(u)'
  BY <1>8 DEF KeyExpires
<1>9. CASE UNCHANGED vars
  BY <1>9 DEF vars, DroppedStep
<1>10. Dropped(u)' => DroppedStep(u)
  BY DEF DroppedStep
<1> QED
  BY <1>1, <1>2, <1>3, <1>4, <1>5, <1>6, <1>7, <1>8, <1>9, <1>10, <1>11
  DEF Next, Step, DeliveryStep

(* Only subscribing anew gives a subscription back.                         *)
THEOREM DroppedIsFinal == Spec => DroppedStays
<1>1. Init => TypeOK /\ RowInv
  BY TypeInit, RowInit
<1>2. TypeOK /\ RowInv /\ [Next]_vars => TypeOK' /\ RowInv'
  BY TypeStep, RowStep
<1>3. TypeOK /\ RowInv /\ [Next]_vars =>
        [\A u \in Users : Dropped(u) =>
           \/ Dropped(u)'
           \/ \E r \in Requests : kind[r] = "subscribe" /\ user[r] = u
                                    /\ pc[r] = "write" /\ row'[u].sub = r]_vars
  BY DroppedKept DEF DroppedStep, RowInv
<1> QED
  BY <1>1, <1>2, <1>3, PTL DEF Spec, DroppedStays
=============================================================================
