--------------------------- MODULE PurchaseProofs ---------------------------
(***************************************************************************)
(* Proofs about Purchase, for every set of users, courses and requests and *)
(* every bound: its types, that access to a priced course is backed by a   *)
(* completed payment, and that completed payments are lines of sales the   *)
(* gateway accepted.                                                       *)
(***************************************************************************)
EXTENDS Purchase, TLAPS

(* The variables keep their types.                                          *)
LEMMA TypeInit == Init => TypeOK
<1> SUFFICES ASSUME Init PROVE TypeOK
  OBVIOUS
<1>1. line \in [Requests -> Line]
  <2>1. ASSUME NEW l \in [course : Courses, amount : Amounts] PROVE l \in Line
    <3>1. l = [course |-> l.course, amount |-> l.amount]
      OBVIOUS
    <3>2. l.course \in Courses /\ l.amount \in Amounts
      OBVIOUS
    <3>3. l.amount \in Int
      <4>1. \A a \in Amounts : a \in Int
        BY AmountsAssumption
      <4> QED
        BY <3>2, <4>1
    <3> QED
      BY <3>1, <3>2, <3>3 DEF Line
  <2> QED
    BY <2>1 DEF Init
<1>2. items \in [Requests -> SUBSET Line]
  BY <1>1 DEF Init
<1> QED
  BY <1>1, <1>2, BoundsAssumption DEF Init, TypeOK, Labels

(* Every step of the checkout, of the enrollment and of the catalogue keeps  *)
(* the types.                                                                *)
LEMMA TypeStep == TypeOK /\ [Next]_vars => TypeOK'
<1> SUFFICES ASSUME TypeOK, [Next]_vars PROVE TypeOK'
  OBVIOUS
<1> USE DEF TypeOK, tables, locals, Goto, Go, Course
<1>1. ASSUME NEW r \in Requests, Arrive(r) PROVE TypeOK'
  BY <1>1 DEF Arrive, Labels, EnrollLabels, Kinds
<1>2. ASSUME NEW r \in Requests, CheckoutProfile(r) \/ EnrollProfile(r)
      PROVE  TypeOK'
  BY <1>2 DEF CheckoutProfile, EnrollProfile, FindProfile, Labels, EnrollLabels
<1>3. ASSUME NEW r \in Requests, CheckoutNewProfile(r) \/ EnrollNewProfile(r)
      PROVE  TypeOK'
  BY <1>3 DEF CheckoutNewProfile, EnrollNewProfile, SaveProfile, Labels,
              EnrollLabels, Ended
<1>4. ASSUME NEW r \in Requests,
             \/ CheckoutCourse(r) \/ CheckoutExisting(r) \/ ValidateProfile(r)
             \/ ValidateExisting(r) \/ EnrollPayment(r) \/ EnrollExisting(r)
      PROVE  TypeOK'
  BY <1>4 DEF CheckoutCourse, CheckoutExisting, ValidateProfile,
              ValidateExisting, EnrollPayment, EnrollExisting, Labels,
              EnrollLabels, Ended
<1>5. ASSUME NEW r \in Requests, ValidateItems(r) PROVE TypeOK'
  <2>1. {[course |-> c, amount |-> price[c]] : c \in CartOf(user[r])} \in SUBSET Line
    <3> SUFFICES ASSUME NEW c \in CartOf(user[r])
                 PROVE  [course |-> c, amount |-> price[c]] \in Line
      OBVIOUS
    <3>1. c \in Courses /\ price[c] \in Int
      BY PricesAssumption DEF CartOf
    <3> QED
      BY <3>1 DEF Line
  <2> QED
    BY <1>5, <2>1 DEF ValidateItems, Labels, EnrollLabels, Ended
<1>6. ASSUME NEW r \in Requests, Sale(r) PROVE TypeOK'
  <2>1. [tx |-> r, user |-> user[r], lines |-> items[r]] \in Charge
    BY DEF Charge
  <2> QED
    BY <1>6, <2>1 DEF Sale, Labels
<1>7. ASSUME NEW r \in Requests, RecordFailure(r) PROVE TypeOK'
  <2> PICK l \in todo[r] : 
        /\ SavePayment(r, l, "FAILED")
        /\ todo' = [todo EXCEPT ![r] = @ \ {l}]
        /\ Goto(r, IF Exists(l.course) /\ todo[r] # {l}
                    THEN "recordFailure" ELSE "failed")
    BY <1>7 DEF RecordFailure
  <2>1. l \in Line
    OBVIOUS
  <2>2. payments' \subseteq Payment
    BY <2>1 DEF SavePayment, Payment, Line
  <2> QED
    BY <1>7, <2>2 DEF RecordFailure, Labels, Ended
<1>8. ASSUME NEW r \in Requests, RecordPayment(r) PROVE TypeOK'
  <2> PICK l \in todo[r] :
       /\ Go(r, "record", Exists(l.course), "enrollProfile")
       /\ SavePayment(r, l, "COMPLETED")
       /\ todo' = [todo EXCEPT ![r] = @ \ {l}]
       /\ line' = [line EXCEPT ![r] = l]
    BY <1>8 DEF RecordPayment
  <2>1. l \in Line
    OBVIOUS
  <2>2. payments' \subseteq Payment
    BY <2>1 DEF SavePayment, Payment, Line
  <2> QED
    BY <1>8, <2>1, <2>2 DEF RecordPayment, Labels, EnrollLabels, Ended
<1>9. ASSUME NEW r \in Requests, EnrollCourse(r) PROVE TypeOK'
  BY <1>9, PricesAssumption DEF EnrollCourse, Labels, EnrollLabels, Ended, Line
<1>10. ASSUME NEW r \in Requests, EnrollInsert(r) PROVE TypeOK'
  <2>1. [by |-> r, user |-> user[r], course |-> Course(r),
         price |-> listed[r]] \in Enrollment
    BY DEF Enrollment, Line
  <2> QED
    BY <1>10, <2>1 DEF EnrollInsert, Labels, EnrollLabels, Ended
<1>11. ASSUME NEW r \in Requests, EnrollEmit(r) PROVE TypeOK'
  BY <1>11 DEF EnrollEmit, Labels, EnrollLabels, Ended, Line
<1>12. ASSUME NEW r \in Requests, EnrollPublish(r) PROVE TypeOK'
  BY <1>12 DEF EnrollPublish, Labels, Ended
<1>13. ASSUME NEW r \in Requests, DropItem(r) \/ ClearCart(r) PROVE TypeOK'
  BY <1>13 DEF DropItem, ClearCart, Labels, Ended
<1>14. ASSUME NEW r \in Requests, Abort(r) PROVE TypeOK'
  BY <1>14, BoundsAssumption DEF Abort, Labels, Ended
<1>15. ASSUME NEW c \in Courses, UpdateCourse(c) PROVE TypeOK'
  BY <1>15, BoundsAssumption DEF UpdateCourse, Change, CourseStatus
<1>16. ASSUME NEW c \in Courses, DeleteCourse(c) PROVE TypeOK'
  BY <1>16, BoundsAssumption DEF DeleteCourse, Change, CourseStatus
<1>17. ASSUME NEW u \in Users, NEW c \in Courses,
              AddItem(u, c) \/ RemoveItem(u, c)
       PROVE  TypeOK'
  BY <1>17, BoundsAssumption DEF AddItem, RemoveItem, Change
<1>18. CASE UNCHANGED vars
  BY <1>18 DEF vars
<1> QED
  BY <1>1, <1>2, <1>3, <1>4, <1>5, <1>6, <1>7, <1>8, <1>9, <1>10, <1>11,
     <1>12, <1>13, <1>14, <1>15, <1>16, <1>17, <1>18
  DEF Next, Step

(* In every reachable state the rows, the cart, the locals of the requests   *)
(* and the gateway's records have the types the entities declare.            *)
THEOREM TypeCorrect == Spec => []TypeOK
  BY TypeInit, TypeStep, PTL DEF Spec
-----------------------------------------------------------------------------
(* Why access stays paid for.  Between enroll()'s payment check and its     *)
(* insert the payment it saw can only disappear together with the course,   *)
(* and then the insert fails too.                                           *)
PaymentSeen ==
  \A r \in Requests :
    /\ pc[r] = "enrollPayment" => listed[r] > 0
    /\ pc[r] \in {"enrollExisting", "enrollInsert"} /\ Exists(Course(r)) =>
         \/ listed[r] <= 0 /\ Course(r) \in everFree
         \/ listed[r] > 0 /\ Paid(user[r], Course(r))

PastPrice == {"enrollPayment", "enrollExisting", "enrollInsert"}

FreeIsRecorded == \A c \in Courses : price[c] <= 0 => c \in everFree

PaidInv == PaidAccess /\ PaymentSeen /\ FreeIsRecorded

(* Why payments stay backed by sales.  A row belongs to a request that is   *)
(* past its sale, and is a line its loop has already taken off todo.        *)
AfterSale == {"recordFailure", "record", "dropItem", "clearCart"}
               \cup EnrollLabels \cup Ended
LineOf(p) == [course |-> p.course, amount |-> p.amount]
SaleOf(r) == [tx |-> r, user |-> user[r], lines |-> items[r]]

RowsOfLines ==
  \A p \in payments :
    /\ pc[p.by] \in AfterSale /\ p.user = user[p.by]
    /\ LineOf(p) \in items[p.by] /\ LineOf(p) \notin todo[p.by]

LinesTodo ==
  \A r \in Requests :
    /\ todo[r] \subseteq items[r]
    /\ pc[r] \notin AfterSale => todo[r] = {}
    /\ \A l, m \in items[r] : l.course = m.course => l = m

OneOutcome ==
  \A p \in payments :
    /\ pc[p.by] = "recordFailure" => p.status = "FAILED"
    /\ pc[p.by] \in {"record"} \cup EnrollLabels => p.status = "COMPLETED"
    /\ \A q \in payments : p.by = q.by => p.status = q.status

SalesKnown ==
  /\ \A r \in Requests :
       pc[r] = "record" \/ (kind[r] # "enroll" /\ pc[r] \in EnrollLabels)
         => SaleOf(r) \in charges
  /\ \A p \in payments : p.status = "COMPLETED" => SaleOf(p.by) \in charges

ChargedInv == RowsOfLines /\ LinesTodo /\ OneOutcome /\ SalesKnown

(* Why at most one row of a sale lacks its enrollment: it is the row of the *)
(* line the loop is at.                                                     *)
RowsExist == \A p \in payments : Exists(p.course)

Settled == {"record", "dropItem", "clearCart", "enrollEmit", "enrollPublish"}

UnentitledIsCurrent ==
  \A p \in payments : Unentitled(p) =>
    /\ LineOf(p) = line[p.by]
    /\ pc[p.by] \notin Settled

EntitledInv == RowsExist /\ UnentitledIsCurrent
-----------------------------------------------------------------------------
LEMMA PaidInit == Init => PaidInv
  BY DEF Init, PaidInv, PaidAccess, PaymentSeen, FreeIsRecorded

(* A step of a request that touches none of what PaidInv reads, and does    *)
(* not take the request past enroll()'s payment check.                      *)
LEMMA PaidQuiet ==
  ASSUME TypeOK, PaidInv, NEW r \in Requests, NEW label,
         Goto(r, label), label \notin PastPrice,
         UNCHANGED <<status, price, everFree, payments, enrollments>>,
         UNCHANGED user,
         \A s \in Requests \ {r} :
           line'[s] = line[s] /\ listed'[s] = listed[s]
  PROVE  PaidInv'
<1>1. \A s \in Requests : pc'[s] \in PastPrice =>
        s # r /\ pc'[s] = pc[s]
  BY DEF Goto, TypeOK
<1>2. PaidAccess'
  BY DEF PaidInv, PaidAccess, Paid
<1>3. PaymentSeen'
  BY <1>1 DEF PaidInv, PaymentSeen, Paid, Exists, Course, PastPrice
<1>4. FreeIsRecorded'
  BY DEF PaidInv, FreeIsRecorded
<1> QED
  BY <1>2, <1>3, <1>4 DEF PaidInv

(* No step gives access to a course without what enroll() asks for: a price  *)
(* of zero, or a payment row.                                                *)
LEMMA PaidStep == TypeOK /\ PaidInv /\ [Next]_vars => PaidInv'
<1> SUFFICES ASSUME TypeOK, PaidInv, [Next]_vars PROVE PaidInv'
  OBVIOUS
<1> USE DEF tables, locals, PastPrice
<1>1. ASSUME NEW r \in Requests, Arrive(r) PROVE PaidInv'
  BY <1>1, PaidQuiet DEF Arrive
<1>2. ASSUME NEW r \in Requests, CheckoutProfile(r) \/ EnrollProfile(r)
      PROVE  PaidInv'
  <2>1. \E label \in {"newProfile", "course", "enrollNewProfile", "enrollCourse"} :
          Goto(r, label)
    BY <1>2 DEF CheckoutProfile, EnrollProfile, FindProfile
  <2> QED
    BY <1>2, <2>1, PaidQuiet DEF CheckoutProfile, EnrollProfile, FindProfile
<1>3. ASSUME NEW r \in Requests, CheckoutNewProfile(r) \/ EnrollNewProfile(r)
      PROVE  PaidInv'
  BY <1>3, PaidQuiet DEF CheckoutNewProfile, EnrollNewProfile, SaveProfile
<1>4. ASSUME NEW r \in Requests,
             \/ CheckoutCourse(r) \/ CheckoutExisting(r) \/ ValidateProfile(r)
             \/ ValidateItems(r) \/ ValidateExisting(r) \/ EnrollEmit(r)
             \/ DropItem(r) \/ ClearCart(r) \/ Abort(r) \/ Sale(r)
             \/ EnrollPublish(r)
      PROVE  PaidInv'
  <2>1. \E label \in Labels \ PastPrice : Goto(r, label)
    BY <1>4 DEF CheckoutCourse, CheckoutExisting, ValidateProfile,
         ValidateItems, ValidateExisting, EnrollEmit, DropItem, ClearCart,
         Abort, Sale, EnrollPublish, Go, Labels, Ended, EnrollLabels
  <2> QED
    BY <1>4, <2>1, PaidQuiet DEF CheckoutCourse, CheckoutExisting,
         ValidateProfile, ValidateItems, ValidateExisting, EnrollEmit,
         DropItem, ClearCart, Abort, Sale, EnrollPublish
<1>5. ASSUME NEW r \in Requests, RecordFailure(r) \/ RecordPayment(r)
      PROVE  PaidInv'
  <2>1. \E label \in {"recordFailure", "failed", "enrollProfile"} :
          pc' = [pc EXCEPT ![r] = label]
    BY <1>5 DEF RecordFailure, RecordPayment, Go, Goto
  <2>2. \A s \in Requests : pc'[s] \in PastPrice =>
          /\ pc'[s] = pc[s] /\ line'[s] = line[s] /\ listed'[s] = listed[s]
          /\ user'[s] = user[s]
    BY <1>5, <2>1 DEF RecordFailure, RecordPayment, TypeOK
  <2>3. payments \subseteq payments'
    BY <1>5 DEF RecordFailure, RecordPayment, SavePayment
  <2>4. UNCHANGED <<status, price, everFree, enrollments>>
    BY <1>5 DEF RecordFailure, RecordPayment
  <2> QED
    BY <2>2, <2>3, <2>4 DEF PaidInv, PaidAccess, PaymentSeen, FreeIsRecorded,
         Paid, Exists, Course
<1>6. ASSUME NEW r \in Requests, EnrollCourse(r) PROVE PaidInv'
  <2>1. price[Course(r)] \in Int
    BY PricesAssumption DEF TypeOK, Course, Line
  <2>2. UNCHANGED <<status, price, everFree, enrollments, payments, line, user>>
    BY <1>6 DEF EnrollCourse
  <2>3. PaidAccess' /\ FreeIsRecorded'
    BY <2>2 DEF PaidInv, PaidAccess, FreeIsRecorded, Paid
  <2>4. \A s \in Requests \ {r} : pc'[s] = pc[s] /\ listed'[s] = listed[s]
    BY <1>6 DEF EnrollCourse, Go, Goto, TypeOK
  <2>5. pc'[r] \in {"enrollExisting", "enrollInsert"} =>
          listed'[r] <= 0 /\ Course(r) \in everFree
    BY <1>6, <2>1 DEF EnrollCourse, Go, Goto, TypeOK, PaidInv, FreeIsRecorded,
         Course, Line
  <2>7. pc'[r] = "enrollPayment" => listed'[r] > 0
    BY <1>6, <2>1 DEF EnrollCourse, Go, Goto, TypeOK
  <2>6. PaymentSeen'
    BY <2>2, <2>4, <2>5, <2>7 DEF PaidInv, PaymentSeen, Paid, Exists, Course
  <2> QED
    BY <2>3, <2>6 DEF PaidInv
<1>7. ASSUME NEW r \in Requests, EnrollPayment(r) PROVE PaidInv'
  <2>1. UNCHANGED <<tables, locals>>
    BY <1>7 DEF EnrollPayment
  <2>2. \A s \in Requests \ {r} : pc'[s] = pc[s]
    BY <1>7 DEF EnrollPayment, Go, Goto, TypeOK
  <2>3. pc'[r] \in {"enrollExisting", "enrollInsert"} =>
          Paid(user[r], Course(r)) /\ listed[r] > 0
    BY <1>7 DEF EnrollPayment, Go, Goto, TypeOK, PaidInv, PaymentSeen
  <2> QED
    BY <1>7, <2>1, <2>2, <2>3 DEF EnrollPayment, Go, Goto, TypeOK, PaidInv,
         PaidAccess, PaymentSeen, FreeIsRecorded, Paid, Exists, Course
<1>8. ASSUME NEW r \in Requests, EnrollExisting(r) PROVE PaidInv'
  <2>1. UNCHANGED <<tables, locals>>
    BY <1>8 DEF EnrollExisting
  <2>2. pc[r] = "enrollExisting" /\ pc'[r] # "enrollPayment"
    BY <1>8 DEF EnrollExisting, Go, Goto, TypeOK
  <2>3. \A s \in Requests \ {r} : pc'[s] = pc[s]
    BY <1>8 DEF EnrollExisting, Go, Goto, TypeOK
  <2> QED
    BY <2>1, <2>2, <2>3 DEF PaidInv, PaidAccess, FreeIsRecorded, PaymentSeen,
         Paid, Exists, Course
<1>9. ASSUME NEW r \in Requests, EnrollInsert(r) PROVE PaidInv'
  <2>1. UNCHANGED <<status, price, everFree, payments, user, line, listed>>
    BY <1>9 DEF EnrollInsert
  <2>2. \A s \in Requests : pc'[s] \in PastPrice =>
          pc'[s] = pc[s]
    BY <1>9 DEF EnrollInsert, Go, Goto, TypeOK
  <2>3. PaymentSeen' /\ FreeIsRecorded'
    BY <2>1, <2>2 DEF PaidInv, PaymentSeen, FreeIsRecorded, Paid, Exists, Course
  <2>4. Exists(Course(r)) /\ listed[r] > 0 => Paid(user[r], Course(r))
    BY <1>9 DEF EnrollInsert, Go, PaidInv, PaymentSeen, TypeOK
  <2>5. PaidAccess'
    BY <1>9, <2>1, <2>4 DEF EnrollInsert, PaidInv, PaidAccess, Paid
  <2> QED
    BY <2>3, <2>5 DEF PaidInv
<1>10. ASSUME NEW c \in Courses, UpdateCourse(c) PROVE PaidInv'
  <2>1. UNCHANGED <<payments, enrollments, pc, user, line, listed>>
    BY <1>10 DEF UpdateCourse
  <2>2. \A d \in Courses : (Exists(d))' => Exists(d)
    BY <1>10 DEF UpdateCourse, Exists, TypeOK
  <2>3. everFree \subseteq everFree'
    BY <1>10 DEF UpdateCourse
  <2>4. FreeIsRecorded'
    BY <1>10 DEF UpdateCourse, PaidInv, FreeIsRecorded, TypeOK
  <2>5. PaidAccess'
    BY <2>1 DEF PaidInv, PaidAccess, Paid
  <2>6. PaymentSeen'
    BY <2>1, <2>2, <2>3 DEF PaidInv, PaymentSeen, Paid, Course, TypeOK, Line
  <2> QED
    BY <2>4, <2>5, <2>6 DEF PaidInv
<1>11. ASSUME NEW c \in Courses, DeleteCourse(c) PROVE PaidInv'
  <2>1. UNCHANGED <<price, everFree, pc, user, line, listed>>
    BY <1>11 DEF DeleteCourse
  <2>2. \A d \in Courses : (Exists(d))' => d # c /\ Exists(d)
    BY <1>11 DEF DeleteCourse, Exists, TypeOK
  <2>3. \A u, d : d # c /\ Paid(u, d) => Paid(u, d)'
    BY <1>11 DEF DeleteCourse, Paid
  <2>4. PaidAccess'
    BY <1>11, <2>3 DEF DeleteCourse, PaidInv, PaidAccess
  <2>5. PaymentSeen'
    BY <2>1, <2>2, <2>3 DEF PaidInv, PaymentSeen, Course, TypeOK, Line
  <2> QED
    BY <2>1, <2>4, <2>5 DEF PaidInv, FreeIsRecorded
<1>12. ASSUME NEW u \in Users, NEW c \in Courses,
              AddItem(u, c) \/ RemoveItem(u, c)
       PROVE  PaidInv'
  BY <1>12 DEF AddItem, RemoveItem, PaidInv, PaidAccess, PaymentSeen,
       FreeIsRecorded, Paid, Exists, Course
<1>13. CASE UNCHANGED vars
  BY <1>13 DEF vars, PaidInv, PaidAccess, PaymentSeen, FreeIsRecorded, Paid,
       Exists, Course
<1> QED
  BY <1>1, <1>2, <1>3, <1>4, <1>5, <1>6, <1>7, <1>8, <1>9, <1>10, <1>11,
     <1>12, <1>13
  DEF Next, Step

(* Whoever is enrolled in a course that enroll() found priced has paid.     *)
THEOREM AccessIsPaid == Spec => []PaidAccess
<1>1. Init => TypeOK /\ PaidInv
  BY TypeInit, PaidInit
<1>2. TypeOK /\ PaidInv /\ [Next]_vars => TypeOK' /\ PaidInv'
  BY TypeStep, PaidStep
<1>3. PaidInv => PaidAccess
  BY DEF PaidInv
<1> QED
  BY <1>1, <1>2, <1>3, PTL DEF Spec
-----------------------------------------------------------------------------
LEMMA ChargedInit == Init => ChargedInv
  BY DEF Init, ChargedInv, RowsOfLines, LinesTodo, OneOutcome, SalesKnown,
     EnrollLabels, AfterSale, Ended

(* A step that only moves a request on: past its sale it stays past it, and *)
(* it neither starts to record nor enters enroll() unless its sale is known.*)
LEMMA ChargedQuiet ==
  ASSUME TypeOK, ChargedInv, NEW r \in Requests, NEW label, Goto(r, label),
         UNCHANGED <<payments, charges, kind, user, items, todo>>,
         pc[r] \in AfterSale => label \in AfterSale,
         label = "recordFailure" => pc[r] = "recordFailure",
         label \in {"record"} \cup EnrollLabels =>
           \/ pc[r] \in {"record"} \cup EnrollLabels
           \/ pc[r] = "idle" /\ kind[r] = "enroll",
         label = "record" => kind[r] # "enroll"
  PROVE  ChargedInv'
<1>1. \A s \in Requests : pc'[s] = IF s = r THEN label ELSE pc[s]
  BY DEF Goto, TypeOK
<1>2. \A p \in payments : p.by \in Requests
  BY DEF TypeOK, Payment
<1>3. RowsOfLines'
  BY <1>1, <1>2 DEF ChargedInv, RowsOfLines, LineOf
<1>4. LinesTodo'
  BY <1>1 DEF ChargedInv, LinesTodo
<1>5. OneOutcome'
  BY <1>1, <1>2 DEF ChargedInv, OneOutcome, RowsOfLines, AfterSale,
     EnrollLabels, Ended
<1>6. SalesKnown'
  BY <1>1, <1>2 DEF ChargedInv, SalesKnown, SaleOf
<1> QED
  BY <1>3, <1>4, <1>5, <1>6 DEF ChargedInv

(* Every step keeps the rows, the lines still to write and the sale of a     *)
(* request in the relation AfterSale describes.                              *)
LEMMA ChargedStep == TypeOK /\ ChargedInv /\ [Next]_vars => ChargedInv'
<1> SUFFICES ASSUME TypeOK, ChargedInv, [Next]_vars PROVE ChargedInv'
  OBVIOUS
<1> USE DEF tables, locals
<1>1. ASSUME NEW r \in Requests, Arrive(r) PROVE ChargedInv'
  <2>1. pc[r] = "idle" /\ \E label \in {"profile", "cartProfile", "enrollProfile"} :
          Goto(r, label) /\ (label = "enrollProfile" => kind[r] = "enroll")
    BY <1>1 DEF Arrive
  <2> QED
    BY <1>1, <2>1, ChargedQuiet DEF Arrive, AfterSale, EnrollLabels, Ended
<1>2. ASSUME NEW r \in Requests, CheckoutProfile(r) \/ EnrollProfile(r)
      PROVE  ChargedInv'
  <2>1. \/ pc[r] = "profile" /\ \E label \in {"newProfile", "course"} : Goto(r, label)
        \/ pc[r] = "enrollProfile"
             /\ \E label \in {"enrollNewProfile", "enrollCourse"} : Goto(r, label)
    BY <1>2 DEF CheckoutProfile, EnrollProfile, FindProfile
  <2> QED
    BY <1>2, <2>1, ChargedQuiet DEF CheckoutProfile, EnrollProfile,
         FindProfile, AfterSale, EnrollLabels, Ended
<1>3. ASSUME NEW r \in Requests, CheckoutNewProfile(r) \/ EnrollNewProfile(r)
      PROVE  ChargedInv'
  <2>1. \/ pc[r] = "newProfile" /\ \E label \in {"failed", "course"} : Goto(r, label)
        \/ pc[r] = "enrollNewProfile"
             /\ \E label \in {"failed", "enrollCourse"} : Goto(r, label)
    BY <1>3 DEF CheckoutNewProfile, EnrollNewProfile, SaveProfile
  <2> QED
    BY <1>3, <2>1, ChargedQuiet DEF CheckoutNewProfile, EnrollNewProfile,
         SaveProfile, AfterSale, EnrollLabels, Ended
<1>4. ASSUME NEW r \in Requests,
             CheckoutCourse(r) \/ CheckoutExisting(r) \/ ValidateProfile(r)
               \/ ValidateExisting(r)
      PROVE  ChargedInv'
  <2>1. pc[r] \notin AfterSale
          /\ \E label \in {"existing", "sale", "cartItems", "failed"} : Goto(r, label)
    BY <1>4 DEF CheckoutCourse, CheckoutExisting, ValidateProfile,
         ValidateExisting, Go, AfterSale, EnrollLabels, Ended
  <2> QED
    BY <1>4, <2>1, ChargedQuiet DEF CheckoutCourse, CheckoutExisting,
         ValidateProfile, ValidateExisting, AfterSale, EnrollLabels, Ended
<1>5. ASSUME NEW r \in Requests, EnrollCourse(r) \/ EnrollPayment(r)
               \/ EnrollExisting(r) \/ EnrollInsert(r) \/ EnrollEmit(r)
      PROVE  ChargedInv'
  <2>1. pc[r] \in EnrollLabels
          /\ \E label \in EnrollLabels \cup {"failed"} : Goto(r, label)
    BY <1>5 DEF EnrollCourse, EnrollPayment, EnrollExisting, EnrollInsert,
         EnrollEmit, Go, EnrollLabels
  <2> QED
    BY <1>5, <2>1, ChargedQuiet DEF EnrollCourse, EnrollPayment,
         EnrollExisting, EnrollInsert, EnrollEmit, AfterSale, EnrollLabels, Ended
<1>6. ASSUME NEW r \in Requests, EnrollPublish(r) PROVE ChargedInv'
  <2>1. pc[r] \in EnrollLabels
          /\ \E label \in {"done", "dropItem", "record", "clearCart"} :
               Goto(r, label) /\ (label = "record" => kind[r] # "enroll")
    BY <1>6 DEF EnrollPublish, EnrollLabels
  <2> QED
    BY <1>6, <2>1, ChargedQuiet DEF EnrollPublish, AfterSale, EnrollLabels, Ended
<1>7. ASSUME NEW r \in Requests, DropItem(r) \/ ClearCart(r) \/ Abort(r)
      PROVE  ChargedInv'
  <2>1. \E label \in {"done", "aborted"} : Goto(r, label)
    BY <1>7 DEF DropItem, ClearCart, Abort, Go
  <2> QED
    BY <1>7, <2>1, ChargedQuiet DEF DropItem, ClearCart, Abort, AfterSale,
         EnrollLabels, Ended
<1>8. ASSUME NEW r \in Requests, ValidateItems(r) PROVE ChargedInv'
  <2>1. pc[r] = "cartItems" /\ pc'[r] \in {"cartExisting", "failed"}
          /\ \A s \in Requests \ {r} : pc'[s] = pc[s] /\ items'[s] = items[s]
    BY <1>8 DEF ValidateItems, Go, Goto, TypeOK
  <2>2. items'[r] = {[course |-> c, amount |-> price[c]] : c \in CartOf(user[r])}
    BY <1>8 DEF ValidateItems, TypeOK
  <2>3. UNCHANGED <<payments, charges, kind, user, todo>>
    BY <1>8 DEF ValidateItems
  <2>4. \A p \in payments : p.by \in Requests /\ p.by # r
    BY <2>1 DEF TypeOK, Payment, ChargedInv, RowsOfLines, AfterSale,
         EnrollLabels, Ended
  <2>5. todo[r] = {}
    BY <2>1 DEF ChargedInv, LinesTodo, AfterSale, EnrollLabels, Ended
  <2>6. RowsOfLines'
    BY <2>1, <2>3, <2>4 DEF ChargedInv, RowsOfLines, LineOf
  <2>7. LinesTodo'
    BY <2>1, <2>2, <2>3, <2>5 DEF ChargedInv, LinesTodo
  <2>8. OneOutcome'
    BY <2>1, <2>3, <2>4 DEF ChargedInv, OneOutcome
  <2>9. SalesKnown'
    BY <2>1, <2>3, <2>4 DEF ChargedInv, SalesKnown, SaleOf, EnrollLabels
  <2> QED
    BY <2>6, <2>7, <2>8, <2>9 DEF ChargedInv
<1>9. ASSUME NEW r \in Requests, Sale(r) PROVE ChargedInv'
  <2>1. pc[r] = "sale" /\ UNCHANGED <<payments, kind, user, items>>
    BY <1>9 DEF Sale
  <2>2. \/ pc'[r] = "recordFailure"
        \/ pc'[r] = "record" /\ SaleOf(r) \in charges'
    BY <1>9 DEF Sale, Goto, TypeOK, SaleOf
  <2>3. charges \subseteq charges' /\ todo'[r] = items[r]
    BY <1>9 DEF Sale, TypeOK
  <2>4. \A s \in Requests \ {r} : pc'[s] = pc[s] /\ todo'[s] = todo[s]
    BY <1>9 DEF Sale, Goto, TypeOK
  <2>5. \A p \in payments : p.by \in Requests /\ p.by # r
    BY <2>1 DEF TypeOK, Payment, ChargedInv, RowsOfLines, AfterSale,
         EnrollLabels, Ended
  <2>6. RowsOfLines'
    BY <2>1, <2>4, <2>5 DEF ChargedInv, RowsOfLines, LineOf
  <2>7. LinesTodo'
    BY <2>1, <2>2, <2>3, <2>4 DEF ChargedInv, LinesTodo, AfterSale
  <2>8. OneOutcome'
    BY <2>1, <2>4, <2>5 DEF ChargedInv, OneOutcome
  <2>9. SalesKnown'
    BY <2>1, <2>2, <2>3, <2>4, <2>5 DEF ChargedInv, SalesKnown, SaleOf,
         EnrollLabels
  <2> QED
    BY <2>6, <2>7, <2>8, <2>9 DEF ChargedInv
<1>10. ASSUME NEW r \in Requests, RecordFailure(r) PROVE ChargedInv'
  <2> PICK l \in todo[r] :
        /\ SavePayment(r, l, "FAILED")
        /\ todo' = [todo EXCEPT ![r] = @ \ {l}]
    BY <1>10 DEF RecordFailure
  <2> DEFINE row == [by |-> r, user |-> user[r], course |-> l.course,
                     amount |-> l.amount, status |-> "FAILED"]
  <2>1. pc[r] = "recordFailure" /\ pc'[r] \in {"recordFailure", "failed"}
    BY <1>10 DEF RecordFailure, Go, Goto, TypeOK
  <2>2. \A s \in Requests \ {r} : pc'[s] = pc[s] /\ todo'[s] = todo[s]
    BY <1>10 DEF RecordFailure, Go, Goto, TypeOK
  <2>3. UNCHANGED <<charges, kind, user, items>>
    BY <1>10 DEF RecordFailure
  <2>4. payments' = payments \/ payments' = payments \cup {row}
    BY DEF SavePayment
  <2>5. l \in items[r] /\ l \in Line /\ todo'[r] = todo[r] \ {l}
    BY DEF ChargedInv, LinesTodo, TypeOK
  <2>6. LineOf(row) = l
    BY <2>5 DEF LineOf, Line
  <2>7. \A p \in payments : p.by \in Requests
    BY DEF TypeOK, Payment
  <2>8. RowsOfLines'
    <3>1. \A p \in payments : (pc[p.by] \in AfterSale => pc'[p.by] \in AfterSale)
                              /\ todo'[p.by] \subseteq todo[p.by]
      BY <2>1, <2>2, <2>5, <2>7 DEF AfterSale, EnrollLabels, Ended
    <3>2. \A p \in payments : /\ pc'[p.by] \in AfterSale /\ p.user = user[p.by]
                              /\ LineOf(p) \in items[p.by] /\ LineOf(p) \notin todo'[p.by]
      BY <3>1 DEF ChargedInv, RowsOfLines
    <3>3. /\ pc'[row.by] \in AfterSale /\ row.user = user[row.by]
          /\ LineOf(row) \in items[row.by] /\ LineOf(row) \notin todo'[row.by]
      BY <2>1, <2>5, <2>6 DEF AfterSale, EnrollLabels, Ended
    <3> QED
      BY <2>3, <2>4, <3>2, <3>3 DEF RowsOfLines, LineOf
  <2>9. LinesTodo'
    BY <2>1, <2>2, <2>3, <2>5 DEF ChargedInv, LinesTodo, AfterSale, EnrollLabels, Ended
  <2>10. OneOutcome'
    BY <2>1, <2>2, <2>4, <2>7 DEF ChargedInv, OneOutcome, EnrollLabels
  <2>11. SalesKnown'
    BY <2>1, <2>2, <2>3, <2>4, <2>7 DEF ChargedInv, SalesKnown, SaleOf, EnrollLabels
  <2> QED
    BY <2>8, <2>9, <2>10, <2>11 DEF ChargedInv
<1>11. ASSUME NEW r \in Requests, RecordPayment(r) PROVE ChargedInv'
  <2> PICK l \in todo[r] :
        /\ SavePayment(r, l, "COMPLETED")
        /\ todo' = [todo EXCEPT ![r] = @ \ {l}]
    BY <1>11 DEF RecordPayment
  <2> DEFINE row == [by |-> r, user |-> user[r], course |-> l.course,
                     amount |-> l.amount, status |-> "COMPLETED"]
  <2>1. pc[r] = "record" /\ pc'[r] \in {"enrollProfile", "failed"}
    BY <1>11 DEF RecordPayment, Go, Goto, TypeOK
  <2>2. \A s \in Requests \ {r} : pc'[s] = pc[s] /\ todo'[s] = todo[s]
    BY <1>11 DEF RecordPayment, Go, Goto, TypeOK
  <2>3. UNCHANGED <<charges, kind, user, items>>
    BY <1>11 DEF RecordPayment
  <2>4. payments' = payments \/ payments' = payments \cup {row}
    BY DEF SavePayment
  <2>5. l \in items[r] /\ l \in Line /\ todo'[r] = todo[r] \ {l}
    BY DEF ChargedInv, LinesTodo, TypeOK
  <2>6. LineOf(row) = l
    BY <2>5 DEF LineOf, Line
  <2>7. \A p \in payments : p.by \in Requests
    BY DEF TypeOK, Payment
  <2>8. RowsOfLines'
    <3>1. \A p \in payments : (pc[p.by] \in AfterSale => pc'[p.by] \in AfterSale)
                              /\ todo'[p.by] \subseteq todo[p.by]
      BY <2>1, <2>2, <2>5, <2>7 DEF AfterSale, EnrollLabels, Ended
    <3>2. \A p \in payments : /\ pc'[p.by] \in AfterSale /\ p.user = user[p.by]
                              /\ LineOf(p) \in items[p.by] /\ LineOf(p) \notin todo'[p.by]
      BY <3>1 DEF ChargedInv, RowsOfLines
    <3>3. /\ pc'[row.by] \in AfterSale /\ row.user = user[row.by]
          /\ LineOf(row) \in items[row.by] /\ LineOf(row) \notin todo'[row.by]
      BY <2>1, <2>5, <2>6 DEF AfterSale, EnrollLabels, Ended
    <3> QED
      BY <2>3, <2>4, <3>2, <3>3 DEF RowsOfLines, LineOf
  <2>9. LinesTodo'
    BY <2>1, <2>2, <2>3, <2>5 DEF ChargedInv, LinesTodo, AfterSale, EnrollLabels, Ended
  <2>10. OneOutcome'
    BY <2>1, <2>2, <2>4, <2>7 DEF ChargedInv, OneOutcome, EnrollLabels
  <2>11. SalesKnown'
    BY <2>1, <2>2, <2>3, <2>4, <2>7 DEF ChargedInv, SalesKnown, SaleOf, EnrollLabels
  <2> QED
    BY <2>8, <2>9, <2>10, <2>11 DEF ChargedInv
<1>12. ASSUME NEW c \in Courses, DeleteCourse(c) PROVE ChargedInv'
  <2>1. payments' \subseteq payments
          /\ UNCHANGED <<pc, charges, kind, user, items, todo>>
    BY <1>12 DEF DeleteCourse
  <2> QED
    BY <2>1 DEF ChargedInv, RowsOfLines, LinesTodo, OneOutcome, SalesKnown,
         SaleOf, LineOf
<1>13. ASSUME NEW u \in Users, NEW c \in Courses,
              AddItem(u, c) \/ RemoveItem(u, c)
       PROVE  ChargedInv'
  <2>1. UNCHANGED <<pc, payments, charges, kind, user, items, todo>>
    BY <1>13 DEF AddItem, RemoveItem
  <2> QED
    BY <2>1 DEF ChargedInv, RowsOfLines, LinesTodo, OneOutcome, SalesKnown,
         SaleOf, LineOf
<1>14. CASE UNCHANGED vars
  BY <1>14 DEF vars, ChargedInv, RowsOfLines, LinesTodo, OneOutcome,
       SalesKnown, SaleOf, LineOf
<1>15. ASSUME NEW c \in Courses, UpdateCourse(c) PROVE ChargedInv'
  <2>1. UNCHANGED <<pc, payments, charges, kind, user, items, todo>>
    BY <1>15 DEF UpdateCourse
  <2> QED
    BY <2>1 DEF ChargedInv, RowsOfLines, LinesTodo, OneOutcome, SalesKnown,
         SaleOf, LineOf
<1> QED
  BY <1>1, <1>2, <1>3, <1>4, <1>5, <1>6, <1>7, <1>8, <1>9, <1>10, <1>11,
     <1>12, <1>13, <1>14, <1>15
  DEF Next, Step

(* Every COMPLETED row is a line of a sale the gateway accepted, and no     *)
(* sale backs two rows of one course.                                       *)
THEOREM PaymentsAreCharged == Spec => []PaymentsCharged
<1>1. Init => TypeOK /\ ChargedInv
  BY TypeInit, ChargedInit
<1>2. TypeOK /\ ChargedInv /\ [Next]_vars => TypeOK' /\ ChargedInv'
  BY TypeStep, ChargedStep
<1>3. TypeOK /\ ChargedInv => PaymentsCharged
  <2> SUFFICES ASSUME TypeOK, ChargedInv, NEW p \in payments,
                      p.status = "COMPLETED"
               PROVE  /\ \E ch \in charges :
                           /\ ch.tx = p.by /\ ch.user = p.user
                           /\ LineOf(p) \in ch.lines
                      /\ \A q \in payments :
                           q.by = p.by /\ q.course = p.course => q = p
    BY DEF PaymentsCharged, LineOf
  <2>1. SaleOf(p.by) \in charges /\ LineOf(p) \in items[p.by] /\ p.user = user[p.by]
    BY DEF ChargedInv, SalesKnown, RowsOfLines
  <2>2. ASSUME NEW q \in payments, q.by = p.by, q.course = p.course
        PROVE  q = p
    <3>1. LineOf(q) \in items[p.by] /\ q.user = p.user /\ q.status = p.status
      BY <2>2 DEF ChargedInv, RowsOfLines, OneOutcome
    <3>2. p.by \in Requests
      BY DEF TypeOK, Payment
    <3>3. LineOf(q) = LineOf(p)
      BY <2>1, <2>2, <3>1, <3>2 DEF ChargedInv, LinesTodo, LineOf
    <3>4. q.amount = p.amount
      BY <3>3 DEF LineOf
    <3> QED
      BY <2>2, <3>1, <3>4 DEF TypeOK, Payment
  <2> QED
    BY <2>1, <2>2 DEF SaleOf
<1> QED
  BY <1>1, <1>2, <1>3, PTL DEF Spec
-----------------------------------------------------------------------------
LEMMA EntitledInit == Init => EntitledInv
  BY DEF Init, EntitledInv, RowsExist, UnentitledIsCurrent

(* A step that writes no row, and takes its request past enroll() only if    *)
(* it was past it, keeps the invariant.                                      *)
LEMMA EntitledQuiet ==
  ASSUME TypeOK, EntitledInv, NEW r \in Requests, NEW label, Goto(r, label),
         UNCHANGED <<payments, status, line>>, enrollments \subseteq enrollments',
         label \in Settled => pc[r] \in Settled
  PROVE  EntitledInv'
<1>1. \A s \in Requests : pc'[s] = IF s = r THEN label ELSE pc[s]
  BY DEF Goto, TypeOK
<1>2. \A p \in payments : p.by \in Requests /\ (Unentitled(p)' => Unentitled(p))
  BY DEF TypeOK, Payment, Unentitled, Enrolled
<1>3. RowsExist'
  BY DEF EntitledInv, RowsExist, Exists
<1>4. UnentitledIsCurrent'
  BY <1>1, <1>2 DEF EntitledInv, UnentitledIsCurrent, LineOf
<1> QED
  BY <1>3, <1>4 DEF EntitledInv

(* Every step keeps the row without enrollment the one of the current line.  *)
LEMMA EntitledStep ==
  TypeOK /\ ChargedInv /\ EntitledInv /\ [Next]_vars => EntitledInv'
<1> SUFFICES ASSUME TypeOK, ChargedInv, EntitledInv, [Next]_vars
             PROVE  EntitledInv'
  OBVIOUS
<1> USE DEF tables, locals
<1>1. ASSUME NEW r \in Requests,
             \/ Arrive(r) \/ CheckoutProfile(r) \/ CheckoutNewProfile(r)
             \/ CheckoutCourse(r) \/ CheckoutExisting(r) \/ ValidateProfile(r)
             \/ ValidateItems(r) \/ ValidateExisting(r)
             \/ EnrollProfile(r) \/ EnrollNewProfile(r) \/ EnrollCourse(r)
             \/ EnrollPayment(r) \/ EnrollExisting(r) \/ Abort(r)
      PROVE  EntitledInv'
  <2>1. \E label \in Labels \ Settled : Goto(r, label)
    BY <1>1 DEF Arrive, CheckoutProfile, CheckoutNewProfile, CheckoutCourse,
         CheckoutExisting, ValidateProfile, ValidateItems, ValidateExisting,
         EnrollProfile, EnrollNewProfile, EnrollCourse, EnrollPayment,
         EnrollExisting, Abort, FindProfile, SaveProfile, Go, Labels, Settled,
         EnrollLabels, Ended
  <2>2. UNCHANGED <<payments, status, line, enrollments>>
    BY <1>1 DEF Arrive, CheckoutProfile, CheckoutNewProfile, CheckoutCourse,
         CheckoutExisting, ValidateProfile, ValidateItems, ValidateExisting,
         EnrollProfile, EnrollNewProfile, EnrollCourse, EnrollPayment,
         EnrollExisting, Abort, FindProfile, SaveProfile
  <2> QED
    BY <2>1, <2>2, EntitledQuiet
<1>2. ASSUME NEW r \in Requests,
             EnrollEmit(r) \/ EnrollPublish(r) \/ DropItem(r) \/ ClearCart(r)
      PROVE  EntitledInv'
  <2>1. pc[r] \in Settled /\ \E label : Goto(r, label)
    BY <1>2 DEF EnrollEmit, EnrollPublish, DropItem, ClearCart, Go, Settled
  <2>2. UNCHANGED <<payments, status, line, enrollments>>
    BY <1>2 DEF EnrollEmit, EnrollPublish, DropItem, ClearCart
  <2> QED
    BY <2>1, <2>2, EntitledQuiet
<1>3. ASSUME NEW r \in Requests, Sale(r) PROVE EntitledInv'
  <2>1. \A p \in payments : p.by \in Requests \ {r}
    BY <1>3 DEF Sale, ChargedInv, RowsOfLines, AfterSale, EnrollLabels, Ended,
         TypeOK, Payment
  <2>2. UNCHANGED <<payments, status, line, enrollments>>
          /\ \A s \in Requests \ {r} : pc'[s] = pc[s]
    BY <1>3 DEF Sale, Goto, TypeOK
  <2> QED
    BY <2>1, <2>2 DEF EntitledInv, RowsExist, UnentitledIsCurrent, Exists,
         Unentitled, Enrolled, LineOf
<1>4. ASSUME NEW r \in Requests, RecordFailure(r) PROVE EntitledInv'
  <2> PICK l \in todo[r] : SavePayment(r, l, "FAILED")
    BY <1>4 DEF RecordFailure
  <2>1. UNCHANGED <<status, line, enrollments>>
          /\ \A s \in Requests : pc'[s] \in Settled => pc'[s] = pc[s]
    BY <1>4 DEF RecordFailure, Goto, TypeOK, Settled
  <2>2. \A p \in payments' : p \in payments \/ (~Unentitled(p) /\ Exists(p.course))
    BY DEF SavePayment, Unentitled
  <2> QED
    BY <2>1, <2>2 DEF EntitledInv, RowsExist, UnentitledIsCurrent, Exists,
         Unentitled, Enrolled, LineOf, TypeOK, Payment
<1>5. ASSUME NEW r \in Requests, RecordPayment(r) PROVE EntitledInv'
  <2> PICK l \in todo[r] : SavePayment(r, l, "COMPLETED") /\ line' = [line EXCEPT ![r] = l]
    BY <1>5 DEF RecordPayment
  <2>1. pc[r] = "record" /\ pc'[r] \notin Settled
          /\ \A s \in Requests \ {r} : pc'[s] = pc[s] /\ line'[s] = line[s]
    BY <1>5 DEF RecordPayment, Go, Goto, TypeOK, Settled
  <2>2. UNCHANGED <<status, enrollments>> /\ line'[r] = l /\ l \in Line
    BY <1>5 DEF RecordPayment, TypeOK
  <2>3. \A p \in payments' :
          \/ p \in payments
          \/ p.by = r /\ LineOf(p) = l /\ Exists(p.course)
    BY <2>2 DEF SavePayment, LineOf, Line
  <2>4. RowsExist'
    BY <2>2, <2>3 DEF EntitledInv, RowsExist, Exists
  <2>5. ASSUME NEW p \in payments', Unentitled(p)'
        PROVE  LineOf(p) = line'[p.by] /\ pc'[p.by] \notin Settled
    <3>1. CASE p \in payments
      <4>1. Unentitled(p) /\ p.by \in Requests
        BY <2>2, <2>5, <3>1 DEF Unentitled, Enrolled, TypeOK, Payment
      <4>2. p.by # r
        BY <2>1, <3>1, <4>1 DEF EntitledInv, UnentitledIsCurrent, Settled
      <4> QED
        BY <2>1, <3>1, <4>1, <4>2 DEF EntitledInv, UnentitledIsCurrent
    <3>2. CASE p \notin payments
      BY <2>1, <2>2, <2>3, <3>2
    <3> QED
      BY <3>1, <3>2
  <2>6. UnentitledIsCurrent'
    BY <2>5 DEF UnentitledIsCurrent, LineOf
  <2> QED
    BY <2>4, <2>6 DEF EntitledInv
<1>6. ASSUME NEW r \in Requests, EnrollInsert(r) PROVE EntitledInv'
  <2>1. UNCHANGED <<payments, status, line, user>> /\ enrollments \subseteq enrollments'
    BY <1>6 DEF EnrollInsert
  <2>2. CASE ~Exists(Course(r))
    BY <1>6, <2>1, <2>2, EntitledQuiet DEF EnrollInsert, Go, Settled
  <2>3. CASE Exists(Course(r))
    <3> DEFINE row == [by |-> r, user |-> user[r], course |-> Course(r),
                       price |-> listed[r]]
    <3>0. row \in enrollments'
      BY <1>6, <2>3 DEF EnrollInsert
    <3>1. Enrolled(user[r], Course(r))'
      BY <2>1, <3>0 DEF Enrolled, Course
    <3>2. \A s \in Requests \ {r} : pc'[s] = pc[s]
      BY <1>6 DEF EnrollInsert, Go, Goto, TypeOK
    <3>3. ASSUME NEW p \in payments, Unentitled(p)'
          PROVE  p.by \in Requests \ {r} /\ Unentitled(p)
      <4>1. Unentitled(p) /\ p.by \in Requests /\ p.user = user[p.by]
        BY <2>1, <3>3 DEF Unentitled, Enrolled, TypeOK, Payment, ChargedInv,
             RowsOfLines
      <4>2. p.course = Course(p.by)
        <5>1. LineOf(p) = line[p.by] /\ LineOf(p).course = p.course
          BY <4>1 DEF EntitledInv, UnentitledIsCurrent, LineOf
        <5> QED
          BY <5>1 DEF Course
      <4> QED
        BY <2>1, <3>1, <3>3, <4>1, <4>2 DEF Unentitled, Enrolled, Course
    <3> QED
      BY <2>1, <3>2, <3>3 DEF EntitledInv, RowsExist, UnentitledIsCurrent,
           Exists, LineOf
  <2> QED
    BY <2>2, <2>3
<1>7. ASSUME NEW c \in Courses, UpdateCourse(c) PROVE EntitledInv'
  <2>1. UNCHANGED <<payments, enrollments, pc, line>>
          /\ \A d \in Courses : Exists(d) => Exists(d)'
    BY <1>7 DEF UpdateCourse, Exists, TypeOK
  <2> QED
    BY <2>1 DEF EntitledInv, RowsExist, UnentitledIsCurrent, Unentitled,
         Enrolled, LineOf, TypeOK, Payment
<1>8. ASSUME NEW c \in Courses, DeleteCourse(c) PROVE EntitledInv'
  <2>1. UNCHANGED <<pc, line>>
          /\ \A d \in Courses \ {c} : Exists(d) => Exists(d)'
    BY <1>8 DEF DeleteCourse, Exists, TypeOK
  <2>2. \A p \in payments' : p \in payments /\ p.course \in Courses \ {c}
    BY <1>8 DEF DeleteCourse, TypeOK, Payment
  <2>3. \A p \in payments' : Unentitled(p)' => Unentitled(p)
    BY <1>8 DEF DeleteCourse, Unentitled, Enrolled
  <2> QED
    BY <2>1, <2>2, <2>3 DEF EntitledInv, RowsExist, UnentitledIsCurrent, LineOf
<1>9. ASSUME NEW u \in Users, NEW c \in Courses,
             AddItem(u, c) \/ RemoveItem(u, c)
      PROVE  EntitledInv'
  <2>1. UNCHANGED <<payments, enrollments, status, pc, line>>
    BY <1>9 DEF AddItem, RemoveItem
  <2> QED
    BY <2>1 DEF EntitledInv, RowsExist, UnentitledIsCurrent, Unentitled,
         Enrolled, Exists, LineOf
<1>10. CASE UNCHANGED vars
  BY <1>10 DEF vars, EntitledInv, RowsExist, UnentitledIsCurrent, Unentitled,
       Enrolled, Exists, LineOf
<1> QED
  BY <1>1, <1>2, <1>3, <1>4, <1>5, <1>6, <1>7, <1>8, <1>9, <1>10
  DEF Next, Step

(* Wherever a cart checkout stops, at most one of the courses it recorded   *)
(* as paid is one its user is not enrolled in.                              *)
THEOREM OneUnentitled == Spec => []AtMostOneUnentitled
<1>1. Init => TypeOK /\ ChargedInv /\ EntitledInv
  BY TypeInit, ChargedInit, EntitledInit
<1>2. TypeOK /\ ChargedInv /\ EntitledInv /\ [Next]_vars
        => TypeOK' /\ ChargedInv' /\ EntitledInv'
  BY TypeStep, ChargedStep, EntitledStep
<1>3. TypeOK /\ ChargedInv /\ EntitledInv => AtMostOneUnentitled
  <2> SUFFICES ASSUME TypeOK, ChargedInv, EntitledInv, NEW p \in payments,
                      NEW q \in payments, p.by = q.by, Unentitled(p),
                      Unentitled(q)
               PROVE  p = q
    BY DEF AtMostOneUnentitled
  <2>1. LineOf(p) = LineOf(q)
    BY DEF EntitledInv, UnentitledIsCurrent
  <2>2. p.course = q.course /\ p.amount = q.amount
    BY <2>1 DEF LineOf
  <2>3. p.user = q.user /\ p.status = q.status
    BY DEF ChargedInv, RowsOfLines, Unentitled
  <2> QED
    BY <2>2, <2>3 DEF TypeOK, Payment
<1> QED
  BY <1>1, <1>2, <1>3, PTL DEF Spec
-----------------------------------------------------------------------------
(* What the abstract specification sees of a step.                          *)
seen == <<Billed, PaidPairs, Access, everFree>>

(* What changes none of what Entitlement sees is a stutter of it.            *)
LEMMA Stutters ==
  ASSUME UNCHANGED <<charges, payments, enrollments, everFree>>
  PROVE  UNCHANGED seen
  BY DEF seen, Billed, PaidPairs, Access

(* Every step of the checkout is a step of Entitlement, or a stutter.        *)
LEMMA EntitlementStep ==
  TypeOK /\ PaidInv /\ ChargedInv /\ [Next]_vars
    => [Entitled!Next]_(Entitled!vars)
<1> SUFFICES ASSUME TypeOK, PaidInv, ChargedInv, [Next]_vars
             PROVE  Entitled!Next \/ UNCHANGED seen
  BY DEF Entitled!vars, seen
<1> USE DEF tables, locals
<1>1. ASSUME NEW r \in Requests,
             \/ Arrive(r) \/ CheckoutProfile(r) \/ CheckoutNewProfile(r)
             \/ CheckoutCourse(r) \/ CheckoutExisting(r) \/ ValidateProfile(r)
             \/ ValidateItems(r) \/ ValidateExisting(r)
             \/ EnrollProfile(r) \/ EnrollNewProfile(r) \/ EnrollCourse(r)
             \/ EnrollPayment(r) \/ EnrollExisting(r) \/ EnrollEmit(r)
             \/ EnrollPublish(r) \/ DropItem(r) \/ ClearCart(r) \/ Abort(r)
      PROVE  UNCHANGED seen
  BY <1>1, Stutters DEF Arrive, CheckoutProfile, CheckoutNewProfile,
       CheckoutCourse, CheckoutExisting, ValidateProfile, ValidateItems,
       ValidateExisting, EnrollProfile, EnrollNewProfile, EnrollCourse,
       EnrollPayment, EnrollExisting, EnrollEmit, EnrollPublish, DropItem,
       ClearCart, Abort, FindProfile, SaveProfile
<1>2. ASSUME NEW r \in Requests, Sale(r)
      PROVE  Entitled!Next \/ UNCHANGED seen
  <2>1. UNCHANGED <<payments, enrollments, everFree>>
    BY <1>2 DEF Sale
  <2>2. CASE charges' = charges
    BY <2>1, <2>2, Stutters
  <2>3. CASE charges' = charges \cup
               {[tx |-> r, user |-> user[r], lines |-> items[r]]}
    <3>1. Billed' = Billed \cup {user[r]}
      <4> DEFINE charge == [tx |-> r, user |-> user[r], lines |-> items[r]]
      <4>1. charge.user = user[r] /\ charges' = charges \cup {charge}
        BY <2>3
      <4> HIDE DEF charge
      <4>2. \A x : x \in Billed' <=> x \in Billed \/ x = charge.user
        BY <4>1 DEF Billed
      <4> QED
        BY <4>1, <4>2
    <3>2. UNCHANGED <<PaidPairs, Access>>
      BY <2>1 DEF PaidPairs, Access
    <3>3. Entitled!Bill(user[r]) /\ user[r] \in Users
      BY <2>1, <3>1, <3>2 DEF Entitled!Bill, TypeOK
    <3> QED
      BY <3>3 DEF Entitled!Next
  <2> QED
    BY <1>2, <2>2, <2>3 DEF Sale
<1>3. ASSUME NEW r \in Requests, RecordFailure(r) PROVE UNCHANGED seen
  <2> PICK l \in todo[r] : SavePayment(r, l, "FAILED")
    BY <1>3 DEF RecordFailure
  <2>1. {q \in payments' : q.status = "COMPLETED"}
          = {q \in payments : q.status = "COMPLETED"}
    BY DEF SavePayment
  <2> QED
    BY <1>3, <2>1 DEF RecordFailure, seen, Billed, PaidPairs, Access
<1>4. ASSUME NEW r \in Requests, RecordPayment(r)
      PROVE  Entitled!Next \/ UNCHANGED seen
  <2> PICK l \in todo[r] : SavePayment(r, l, "COMPLETED")
    BY <1>4 DEF RecordPayment
  <2>1. UNCHANGED <<charges, enrollments, everFree>> /\ pc[r] = "record"
    BY <1>4 DEF RecordPayment, Go
  <2>2. CASE ~Exists(l.course)
    BY <2>1, <2>2, Stutters DEF SavePayment
  <2>3. CASE Exists(l.course)
    <3> DEFINE row == [by |-> r, user |-> user[r], course |-> l.course,
                       amount |-> l.amount, status |-> "COMPLETED"]
    <3>1. payments' = payments \cup {row}
      BY <2>3 DEF SavePayment
    <3>2. PaidPairs' = PaidPairs \cup {<<user[r], l.course>>}
      <4>1. {q \in payments' : q.status = "COMPLETED"}
              = {q \in payments : q.status = "COMPLETED"} \cup {row}
        BY <3>1
      <4>2. <<row.user, row.course>> = <<user[r], l.course>>
        OBVIOUS
      <4> HIDE DEF row
      <4>3. \A x : x \in PaidPairs' <=>
              x \in PaidPairs \/ x = <<row.user, row.course>>
        BY <4>1 DEF PaidPairs
      <4> QED
        BY <4>2, <4>3
    <3>3. user[r] \in Billed
      <4>1. SaleOf(r) \in charges /\ SaleOf(r).user = user[r]
        BY <2>1 DEF ChargedInv, SalesKnown, SaleOf
      <4> QED
        BY <4>1 DEF Billed
    <3>4. UNCHANGED <<Billed, Access>>
      BY <2>1 DEF Billed, Access
    <3>5. user[r] \in Users /\ l.course \in Courses
      BY DEF TypeOK, Line
    <3> QED
      BY <2>1, <3>2, <3>3, <3>4, <3>5 DEF Entitled!Next, Entitled!RecordPaid
  <2> QED
    BY <2>2, <2>3
<1>5. ASSUME NEW r \in Requests, EnrollInsert(r)
      PROVE  Entitled!Next \/ UNCHANGED seen
  <2>1. UNCHANGED <<charges, payments, everFree>> /\ pc[r] = "enrollInsert"
    BY <1>5 DEF EnrollInsert, Go
  <2>2. CASE ~Exists(Course(r))
    BY <1>5, <2>1, <2>2, Stutters DEF EnrollInsert
  <2>3. CASE Exists(Course(r))
    <3>1. Access' = Access \cup {<<user[r], Course(r)>>}
      <4> DEFINE row == [by |-> r, user |-> user[r], course |-> Course(r),
                         price |-> listed[r]]
      <4>1. enrollments' = enrollments \cup {row}
        BY <1>5, <2>3 DEF EnrollInsert
      <4>2. <<row.user, row.course>> = <<user[r], Course(r)>>
        OBVIOUS
      <4> HIDE DEF row
      <4>3. \A x : x \in Access' <=> x \in Access \/ x = <<row.user, row.course>>
        BY <4>1 DEF Access
      <4> QED
        BY <4>2, <4>3
    <3>2. UNCHANGED <<Billed, PaidPairs>>
      BY <2>1 DEF Billed, PaidPairs
    <3>3. <<user[r], Course(r)>> \in PaidPairs \/ Course(r) \in everFree
      <4>1. Paid(user[r], Course(r)) => <<user[r], Course(r)>> \in PaidPairs
        BY DEF Paid, PaidPairs
      <4> QED
        BY <2>1, <2>3, <4>1 DEF PaidInv, PaymentSeen
    <3>4. user[r] \in Users /\ Course(r) \in Courses
      BY DEF TypeOK, Line, Course
    <3> QED
      BY <2>1, <3>1, <3>2, <3>3, <3>4 DEF Entitled!Next, Entitled!Grant
  <2> QED
    BY <2>2, <2>3
<1>6. ASSUME NEW c \in Courses, UpdateCourse(c)
      PROVE  Entitled!Next \/ UNCHANGED seen
  <2>1. UNCHANGED <<Billed, PaidPairs, Access>>
    BY <1>6 DEF UpdateCourse, Billed, PaidPairs, Access
  <2>2. everFree' = everFree \/ everFree' = everFree \cup {c}
    BY <1>6 DEF UpdateCourse
  <2> QED
    BY <2>1, <2>2 DEF seen, Entitled!Next, Entitled!OfferFree
<1>7. ASSUME NEW c \in Courses, DeleteCourse(c) PROVE Entitled!Next
  <2>1. Billed' = Billed /\ everFree' = everFree
    BY <1>7 DEF DeleteCourse, Billed
  <2>2. PaidPairs' = {i \in PaidPairs : i[2] # c}
    BY <1>7 DEF DeleteCourse, PaidPairs
  <2>3. Access' = {i \in Access : i[2] # c}
    BY <1>7 DEF DeleteCourse, Access
  <2> QED
    BY <2>1, <2>2, <2>3 DEF Entitled!Next, Entitled!Withdraw
<1>8. ASSUME NEW u \in Users, NEW c \in Courses,
             AddItem(u, c) \/ RemoveItem(u, c)
      PROVE  UNCHANGED seen
  BY <1>8, Stutters DEF AddItem, RemoveItem
<1>9. CASE UNCHANGED vars
  BY <1>9, Stutters DEF vars
<1> QED
  BY <1>1, <1>2, <1>3, <1>4, <1>5, <1>6, <1>7, <1>8, <1>9 DEF Next, Step

(* The three routes, with everything that interleaves with them, implement  *)
(* the abstract entitlement.                                                *)
THEOREM PurchaseImplementsEntitlement == Spec => ImplementsEntitlement
<1>1. Init => Entitled!Init
  BY DEF Init, Entitled!Init, Billed, PaidPairs, Access
<1>2. Init => TypeOK /\ PaidInv /\ ChargedInv
  BY TypeInit, PaidInit, ChargedInit
<1>3. TypeOK /\ PaidInv /\ ChargedInv /\ [Next]_vars
        => TypeOK' /\ PaidInv' /\ ChargedInv'
  BY TypeStep, PaidStep, ChargedStep
<1> QED
  BY <1>1, <1>2, <1>3, EntitlementStep, PTL
  DEF Spec, ImplementsEntitlement, Entitled!Spec
-----------------------------------------------------------------------------
(* Why a late request is refused.  What its user was enrolled in when it    *)
(* arrived he stays enrolled in until the course is deleted for good, and   *)
(* between a duplicate check and what it guards nobody can add to what he   *)
(* owned at his arrival.                                                    *)
BeforeSale == {"idle", "profile", "newProfile", "course", "existing"}

OwnedStays ==
  \A r \in Requests : \A c \in owned[r] : Exists(c) => Enrolled(user[r], c)

NothingUnasked ==
  \A r \in Requests : pc[r] = "idle" =>
    (\A e \in enrollments : e.by # r) /\ (\A ch \in charges : ch.tx # r)

AsksForOne == \A r \in Requests : pc[r] \in BeforeSale => items[r] = {line[r]}

SaleIsNew ==
  \A r \in Requests : pc[r] = "sale" =>
    \A l \in items[r] : l.course \in owned[r] => ~Exists(l.course)

InsertIsNew ==
  \A r \in Requests : pc[r] = "enrollInsert" /\ Exists(Course(r)) =>
    Course(r) \notin owned[r]

LateInv ==
  /\ OwnedStays /\ NothingUnasked /\ AsksForOne /\ SaleIsNew /\ InsertIsNew
  /\ LateRequestNotCharged /\ LateRequestNotEnrolled

LEMMA LateInit == Init => LateInv
  BY DEF Init, LateInv, OwnedStays, NothingUnasked, AsksForOne, SaleIsNew,
     InsertIsNew, LateRequestNotCharged, LateRequestNotEnrolled

(* A step that leaves courses, charges and enrollments alone, and neither   *)
(* passes a duplicate check nor changes what a single checkout asks for.    *)
LEMMA LateQuiet ==
  ASSUME TypeOK, LateInv, NEW r \in Requests, NEW label,
         Goto(r, label), label \notin {"idle", "enrollInsert", "sale"},
         label \in BeforeSale =>
           pc[r] \in BeforeSale /\ items'[r] = items[r] /\ line'[r] = line[r],
         UNCHANGED <<status, charges, enrollments, user, owned>>,
         \A s \in Requests \ {r} : line'[s] = line[s] /\ items'[s] = items[s]
  PROVE  LateInv'
<1>1. pc'[r] = label /\ \A s \in Requests \ {r} : pc'[s] = pc[s]
  BY DEF Goto, TypeOK
<1>2. OwnedStays' /\ LateRequestNotCharged' /\ LateRequestNotEnrolled'
  BY DEF LateInv, OwnedStays, LateRequestNotCharged, LateRequestNotEnrolled,
         Exists, Enrolled
<1>3. NothingUnasked'
  BY <1>1 DEF LateInv, NothingUnasked
<1>4. AsksForOne'
  BY <1>1 DEF LateInv, AsksForOne
<1>5. SaleIsNew' /\ InsertIsNew'
  BY <1>1 DEF LateInv, SaleIsNew, InsertIsNew, Exists, Course
<1> QED
  BY <1>2, <1>3, <1>4, <1>5 DEF LateInv

(* No step charges or enrolls a request for what its user owned when it     *)
(* arrived, or brings it past a duplicate check that sees such a course.    *)
LEMMA LateStep == TypeOK /\ LateInv /\ [Next]_vars => LateInv'
<1> SUFFICES ASSUME TypeOK, LateInv, [Next]_vars PROVE LateInv'
  OBVIOUS
<1> USE DEF tables, locals
<1>1. ASSUME NEW r \in Requests, Arrive(r) PROVE LateInv'
  <2>1. pc[r] = "idle" /\ pc'[r] \in {"profile", "cartProfile", "enrollProfile"}
    BY <1>1 DEF Arrive, Goto, TypeOK
  <2>2. \A s \in Requests \ {r} : pc'[s] = pc[s] /\ owned'[s] = owned[s]
    BY <1>1 DEF Arrive, Goto, TypeOK
  <2>3. owned'[r] = {c \in Courses : Enrolled(user[r], c)}
    BY <1>1 DEF Arrive, TypeOK
  <2>4. UNCHANGED <<status, charges, enrollments, user, items, line>>
    BY <1>1 DEF Arrive
  <2>5. (\A e \in enrollments : e.by # r) /\ (\A ch \in charges : ch.tx # r)
    BY <2>1 DEF LateInv, NothingUnasked
  <2>6. OwnedStays'
    BY <2>2, <2>3, <2>4 DEF LateInv, OwnedStays, Exists, Enrolled
  <2>7. NothingUnasked' /\ AsksForOne'
    BY <2>1, <2>2, <2>4 DEF LateInv, NothingUnasked, AsksForOne, BeforeSale
  <2>8. SaleIsNew' /\ InsertIsNew'
    BY <2>1, <2>2, <2>4 DEF LateInv, SaleIsNew, InsertIsNew, Exists, Course
  <2>9. LateRequestNotCharged' /\ LateRequestNotEnrolled'
    <3>1. \A ch \in charges : owned'[ch.tx] = owned[ch.tx]
      BY <2>2, <2>5 DEF TypeOK, Charge
    <3>2. \A e \in enrollments : owned'[e.by] = owned[e.by]
      BY <2>2, <2>5 DEF TypeOK, Enrollment
    <3> QED
      BY <2>4, <3>1, <3>2 DEF LateInv, LateRequestNotCharged,
         LateRequestNotEnrolled, Exists
  <2> QED
    BY <2>6, <2>7, <2>8, <2>9 DEF LateInv
<1>2. ASSUME NEW r \in Requests,
             CheckoutProfile(r) \/ CheckoutNewProfile(r) \/ CheckoutCourse(r)
      PROVE  LateInv'
  <2>1. \E label \in {"newProfile", "course", "existing", "failed"} : Goto(r, label)
    BY <1>2 DEF CheckoutProfile, CheckoutNewProfile, CheckoutCourse,
         FindProfile, SaveProfile, Go
  <2>2. pc[r] \in BeforeSale
    BY <1>2 DEF CheckoutProfile, CheckoutNewProfile, CheckoutCourse,
         FindProfile, SaveProfile, Go, BeforeSale
  <2>3. UNCHANGED <<status, charges, enrollments, user, owned, line, items>>
    BY <1>2 DEF CheckoutProfile, CheckoutNewProfile, CheckoutCourse,
         FindProfile, SaveProfile
  <2> QED
    BY <2>1, <2>2, <2>3, LateQuiet
<1>3. ASSUME NEW r \in Requests,
             \/ ValidateProfile(r) \/ EnrollProfile(r) \/ EnrollNewProfile(r)
             \/ EnrollCourse(r) \/ EnrollPayment(r) \/ EnrollEmit(r)
             \/ EnrollPublish(r) \/ DropItem(r) \/ ClearCart(r) \/ Abort(r)
      PROVE  LateInv'
  <2>1. \E label \in Labels \ (BeforeSale \cup {"enrollInsert", "sale"}) :
          Goto(r, label)
    BY <1>3 DEF ValidateProfile, EnrollProfile, EnrollNewProfile, EnrollCourse,
         EnrollPayment, EnrollEmit, EnrollPublish, DropItem, ClearCart, Abort,
         FindProfile, SaveProfile, Go, Labels, EnrollLabels, Ended, BeforeSale
  <2>2. UNCHANGED <<status, charges, enrollments, user, owned, line, items>>
    BY <1>3 DEF ValidateProfile, EnrollProfile, EnrollNewProfile, EnrollCourse,
         EnrollPayment, EnrollEmit, EnrollPublish, DropItem, ClearCart, Abort,
         FindProfile, SaveProfile
  <2> QED
    BY <2>1, <2>2, LateQuiet DEF BeforeSale
<1>4. ASSUME NEW r \in Requests,
             ValidateItems(r) \/ RecordFailure(r) \/ RecordPayment(r)
      PROVE  LateInv'
  <2>1. \E label \in {"cartExisting", "recordFailure", "enrollProfile", "failed"} :
          Goto(r, label)
    BY <1>4 DEF ValidateItems, RecordFailure, RecordPayment, Go
  <2>2. /\ UNCHANGED <<status, charges, enrollments, user, owned>>
        /\ \A s \in Requests \ {r} : line'[s] = line[s] /\ items'[s] = items[s]
    BY <1>4 DEF ValidateItems, RecordFailure, RecordPayment, TypeOK
  <2> QED
    BY <2>1, <2>2, LateQuiet DEF BeforeSale
<1>5. ASSUME NEW r \in Requests,
             \/ CheckoutExisting(r) \/ ValidateExisting(r) \/ EnrollExisting(r)
      PROVE  LateInv'
  <2>1. UNCHANGED <<status, charges, enrollments, user, owned, line, items>>
    BY <1>5 DEF CheckoutExisting, ValidateExisting, EnrollExisting
  <2>2. \A s \in Requests \ {r} : pc'[s] = pc[s]
    BY <1>5 DEF CheckoutExisting, ValidateExisting, EnrollExisting, Go, Goto, TypeOK
  <2>3. pc'[r] \in {"sale", "enrollInsert", "failed"}
    BY <1>5 DEF CheckoutExisting, ValidateExisting, EnrollExisting, Go, Goto, TypeOK
  <2>4. \A c \in owned[r] : ~Enrolled(user[r], c) => ~Exists(c)
    BY DEF LateInv, OwnedStays
  <2>5. pc'[r] = "sale" => \A l \in items[r] : ~Enrolled(user[r], l.course)
    <3>1. CASE CheckoutExisting(r)
      BY <3>1 DEF CheckoutExisting, Go, Goto, TypeOK, LateInv, AsksForOne,
                  BeforeSale, Course
    <3>2. CASE ValidateExisting(r)
      BY <3>2 DEF ValidateExisting, Go, Goto, TypeOK
    <3>3. CASE EnrollExisting(r)
      BY <3>3 DEF EnrollExisting, Go, Goto, TypeOK
    <3> QED
      BY <1>5, <3>1, <3>2, <3>3
  <2>6. SaleIsNew'
    BY <2>1, <2>2, <2>4, <2>5 DEF LateInv, SaleIsNew, Exists
  <2>7. pc'[r] = "enrollInsert" => ~Enrolled(user[r], Course(r))
    BY <1>5 DEF CheckoutExisting, ValidateExisting, EnrollExisting, Go, Goto, TypeOK
  <2>8. InsertIsNew'
    BY <2>1, <2>2, <2>4, <2>7 DEF LateInv, InsertIsNew, Exists, Course
  <2>9. NothingUnasked' /\ AsksForOne'
    BY <2>1, <2>2, <2>3 DEF LateInv, NothingUnasked, AsksForOne, BeforeSale
  <2>10. OwnedStays' /\ LateRequestNotCharged' /\ LateRequestNotEnrolled'
    BY <2>1 DEF LateInv, OwnedStays, LateRequestNotCharged,
         LateRequestNotEnrolled, Exists, Enrolled
  <2> QED
    BY <2>6, <2>8, <2>9, <2>10 DEF LateInv
<1>6. ASSUME NEW r \in Requests, Sale(r) PROVE LateInv'
  <2> DEFINE charge == [tx |-> r, user |-> user[r], lines |-> items[r]]
  <2>1. UNCHANGED <<status, enrollments, user, owned, line, items>>
    BY <1>6 DEF Sale
  <2>2. \A s \in Requests \ {r} : pc'[s] = pc[s]
    BY <1>6 DEF Sale, Goto, TypeOK
  <2>3. pc[r] = "sale" /\ pc'[r] \in {"record", "recordFailure"}
    BY <1>6 DEF Sale, Goto, TypeOK
  <2>4. charges' \subseteq charges \cup {charge}
    BY <1>6 DEF Sale
  <2>5. LateRequestNotCharged'
    <3>1. \A l \in charge.lines : l.course \in owned[charge.tx] => ~Exists(l.course)
      BY <2>3 DEF LateInv, SaleIsNew
    <3> HIDE DEF charge
    <3> QED
      BY <2>1, <2>4, <3>1 DEF LateInv, LateRequestNotCharged, Exists
  <2>6. NothingUnasked'
    <3>1. charge.tx = r
      OBVIOUS
    <3> HIDE DEF charge
    <3> QED
      BY <2>1, <2>2, <2>3, <2>4, <3>1 DEF LateInv, NothingUnasked
  <2>7. AsksForOne' /\ SaleIsNew' /\ InsertIsNew'
    BY <2>1, <2>2, <2>3 DEF LateInv, AsksForOne, SaleIsNew, InsertIsNew,
         BeforeSale, Exists, Course
  <2>8. OwnedStays' /\ LateRequestNotEnrolled'
    BY <2>1 DEF LateInv, OwnedStays, LateRequestNotEnrolled, Exists, Enrolled
  <2> QED
    BY <2>5, <2>6, <2>7, <2>8 DEF LateInv
<1>7. ASSUME NEW r \in Requests, EnrollInsert(r) PROVE LateInv'
  <2> DEFINE new == [by |-> r, user |-> user[r], course |-> Course(r),
                     price |-> listed[r]]
  <2>1. UNCHANGED <<status, charges, user, owned, line, items>>
    BY <1>7 DEF EnrollInsert
  <2>2. \A s \in Requests \ {r} : pc'[s] = pc[s]
    BY <1>7 DEF EnrollInsert, Go, Goto, TypeOK
  <2>3. pc[r] = "enrollInsert" /\ pc'[r] \in {"enrollEmit", "failed"}
    BY <1>7 DEF EnrollInsert, Go, Goto, TypeOK
  <2>4. \/ enrollments' = enrollments
        \/ Exists(Course(r)) /\ enrollments' = enrollments \cup {new}
    BY <1>7 DEF EnrollInsert
  <2>5. new.by = r /\ new.course = Course(r)
    OBVIOUS
  <2>6. Exists(Course(r)) => Course(r) \notin owned[r]
    BY <2>3 DEF LateInv, InsertIsNew
  <2> HIDE DEF new
  <2>7. LateRequestNotEnrolled' /\ NothingUnasked'
    BY <2>1, <2>2, <2>3, <2>4, <2>5, <2>6 DEF LateInv, LateRequestNotEnrolled,
         NothingUnasked
  <2>8. OwnedStays' /\ LateRequestNotCharged'
    BY <2>1, <2>4 DEF LateInv, OwnedStays, LateRequestNotCharged, Exists, Enrolled
  <2>9. AsksForOne' /\ SaleIsNew' /\ InsertIsNew'
    BY <2>1, <2>2, <2>3 DEF LateInv, AsksForOne, SaleIsNew, InsertIsNew,
         BeforeSale, Exists, Course
  <2> QED
    BY <2>7, <2>8, <2>9 DEF LateInv
<1>8. ASSUME NEW c \in Courses, UpdateCourse(c) \/ DeleteCourse(c) PROVE LateInv'
  <2>1. UNCHANGED <<charges, pc, user, owned, line, items>>
    BY <1>8 DEF UpdateCourse, DeleteCourse
  <2>2. enrollments' \subseteq enrollments
    BY <1>8 DEF UpdateCourse, DeleteCourse
  <2>3. \A d \in Courses : Exists(d)' => Exists(d)
    BY <1>8 DEF UpdateCourse, DeleteCourse, Exists, TypeOK
  <2>4. \A d \in Courses : Exists(d)' =>
          \A e \in enrollments : e.course = d => e \in enrollments'
    BY <1>8 DEF UpdateCourse, DeleteCourse, Exists, TypeOK
  <2>5. \A r \in Requests : owned[r] \subseteq Courses /\ Course(r) \in Courses
          /\ \A l \in items[r] : l.course \in Courses
    BY DEF TypeOK, Line, Course
  <2>6. OwnedStays'
    BY <2>1, <2>3, <2>4, <2>5 DEF LateInv, OwnedStays, Enrolled
  <2>7. SaleIsNew' /\ InsertIsNew'
    BY <2>1, <2>3, <2>5 DEF LateInv, SaleIsNew, InsertIsNew, Course
  <2>8. LateRequestNotCharged'
    <3>1. \A ch \in charges : \A l \in ch.lines : l.course \in Courses
      BY DEF TypeOK, Charge, Line
    <3> QED
      BY <2>1, <2>3, <3>1 DEF LateInv, LateRequestNotCharged
  <2>9. NothingUnasked' /\ AsksForOne' /\ LateRequestNotEnrolled'
    BY <2>1, <2>2 DEF LateInv, NothingUnasked, AsksForOne, LateRequestNotEnrolled
  <2> QED
    BY <2>6, <2>7, <2>8, <2>9 DEF LateInv
<1>9. CASE \/ UNCHANGED vars
           \/ \E u \in Users, c \in Courses : AddItem(u, c) \/ RemoveItem(u, c)
  <2>1. UNCHANGED <<status, charges, enrollments, pc, user, owned, line, items>>
    BY <1>9 DEF vars, AddItem, RemoveItem
  <2> QED
    BY <2>1 DEF LateInv, OwnedStays, NothingUnasked, AsksForOne, SaleIsNew,
         InsertIsNew, LateRequestNotCharged, LateRequestNotEnrolled, Exists,
         Enrolled, Course
<1> QED
  BY <1>1, <1>2, <1>3, <1>4, <1>5, <1>6, <1>7, <1>8, <1>9 DEF Next, Step

(* A request that arrives when its user is enrolled in a course is neither  *)
(* charged for it again, unless the course is deleted meanwhile, nor        *)
(* enrolled in it again, whatever overlaps it.                              *)
THEOREM LateRequestsAreRefused == Spec => []LateRequestRefused
<1>1. Init => TypeOK /\ LateInv
  BY TypeInit, LateInit
<1>2. TypeOK /\ LateInv /\ [Next]_vars => TypeOK' /\ LateInv'
  BY TypeStep, LateStep
<1>3. LateInv => LateRequestRefused
  BY DEF LateInv, LateRequestRefused
<1> QED
  BY <1>1, <1>2, <1>3, PTL DEF Spec
=============================================================================
