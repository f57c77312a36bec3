------------------------------ MODULE Purchase ------------------------------
(***************************************************************************)
(* How a user comes to own a course: POST /payments/checkout, POST         *)
(* /cart/checkout and POST /enrollments, with the tables they share        *)
(* (courses, cart_items, student_profiles, payments, enrollments) and the  *)
(* payment gateway.  A request is a process: it runs from one await to the *)
(* next, and between two of its steps every other request, the instructor  *)
(* who owns the course, and the user's own cart may move.                  *)
(*                                                                         *)
(* The amount of a sale is represented by the lines it is the sum of: one  *)
(* line for a single checkout (the amount the client sent), one line per   *)
(* cart item (the price read when the cart was validated).                 *)
(***************************************************************************)
EXTENDS Integers

CONSTANTS
  Users, Courses, Requests,
  Prices,       \* the prices an instructor may give a course
  Amounts,      \* the amounts a client may send to POST /payments/checkout
  MaxChanges,   \* bound: edits of courses and carts by their owners
  MaxFaults     \* bound: awaits that reject (database, Redis, a crash)

ASSUME PricesAssumption  == Prices \subseteq Int   \* no DTO bounds them below
ASSUME AmountsAssumption == Amounts \subseteq Nat \ {0}
ASSUME BoundsAssumption  == MaxChanges \in Nat /\ MaxFaults \in Nat

VARIABLES
  status,       \* [Courses -> CourseStatus]: courses.status, or no row at all
  price,        \* [Courses -> Prices]: courses.price
  everFree,     \* history: the courses that have had no price above 0
  cart,         \* rows of cart_items: <<user, course>>, unique
  profiles,     \* the users with a row in student_profiles
  payments,     \* rows of payments; "by" is the request that inserted it
  charges,      \* the sales the gateway has accepted
  enrollments,  \* rows of enrollments; "price" is what enroll() had read
  created,      \* enrollment.created events emitted, as <<request, course>>
  pc,           \* [Requests -> Labels]: the await a request is at
  kind,         \* [Requests -> Kinds]: its route
  user,         \* [Requests -> Users]: req.user.id, or dto.userId
  items,        \* [Requests -> SUBSET Line]: what it is buying
  todo,         \* [Requests -> SUBSET Line]: items its loop has not reached
  line,         \* [Requests -> Line]: the item it is at
  owned,        \* history: [Requests -> SUBSET Courses]: what its user was
                \*   enrolled in when it arrived
  fresh,        \* [Requests -> BOOLEAN]: enroll() itself created the profile
  listed,       \* [Requests -> Int]: course.price as enroll() read it
  changes, faults

tables == <<status, price, everFree, cart, profiles, payments, charges,
            enrollments, created>>
locals == <<kind, user, owned, items, todo, line, fresh, listed>>
vars   == <<tables, pc, locals, changes, faults>>

CourseStatus == {"published", "hidden", "deleted"}
Kinds        == {"checkout", "cart", "enroll"}
Line         == [course : Courses, amount : Int]

EnrollLabels == {"enrollProfile", "enrollNewProfile", "enrollCourse",
                 "enrollPayment", "enrollExisting", "enrollInsert",
                 "enrollEmit", "enrollPublish"}
Ended        == {"done", "failed", "aborted"}
Labels       == {"idle", "profile", "newProfile", "course", "existing",
                 "cartProfile", "cartItems", "cartExisting", "sale",
                 "recordFailure", "record", "dropItem", "clearCart"}
                  \cup EnrollLabels \cup Ended

Payment    == [by : Requests, user : Users, course : Courses, amount : Int,
               status : {"COMPLETED", "FAILED"}]
Charge     == [tx : Requests, user : Users, lines : SUBSET Line]
Enrollment == [by : Requests, user : Users, course : Courses, price : Int]

TypeOK ==
  /\ status \in [Courses -> CourseStatus] /\ price \in [Courses -> Prices]
  /\ everFree \subseteq Courses
  /\ cart \subseteq Users \X Courses /\ profiles \subseteq Users
  /\ payments \subseteq Payment /\ charges \subseteq Charge
  /\ enrollments \subseteq Enrollment
  /\ created \subseteq Requests \X Courses
  /\ pc \in [Requests -> Labels] /\ kind \in [Requests -> Kinds]
  /\ user \in [Requests -> Users] /\ owned \in [Requests -> SUBSET Courses]
  /\ items \in [Requests -> SUBSET Line] /\ todo \in [Requests -> SUBSET Line]
  /\ line \in [Requests -> Line]
  /\ fresh \in [Requests -> BOOLEAN] /\ listed \in [Requests -> Int]
  /\ changes \in 0..MaxChanges /\ faults \in 0..MaxFaults
-----------------------------------------------------------------------------
Exists(c)      == status[c] # "deleted"
Published(c)   == status[c] = "published"
Enrolled(u, c) == \E e \in enrollments : e.user = u /\ e.course = c
Paid(u, c)     == \E p \in payments :
                     p.user = u /\ p.course = c /\ p.status = "COMPLETED"
CartOf(u)      == {c \in Courses : <<u, c>> \in cart}
Course(r)      == line[r].course

Goto(r, label) == pc' = [pc EXCEPT ![r] = label]
Go(r, here, ok, next) ==
  pc[r] = here /\ Goto(r, IF ok THEN next ELSE "failed")

Init ==
  /\ status \in [Courses -> CourseStatus \ {"deleted"}]
  /\ price \in [Courses -> Prices]
  /\ everFree = {c \in Courses : price[c] <= 0}
  /\ cart \in SUBSET (Users \X Courses) /\ profiles \in SUBSET Users
  /\ payments = {} /\ charges = {} /\ enrollments = {} /\ created = {}
  /\ pc = [r \in Requests |-> "idle"]
  /\ kind \in [Requests -> Kinds] /\ user \in [Requests -> Users]
  /\ line \in [Requests -> [course : Courses, amount : Amounts]]
  /\ items = [r \in Requests |-> {line[r]}]
  /\ owned = [r \in Requests |-> {}]
  /\ todo = [r \in Requests |-> {}]
  /\ fresh = [r \in Requests |-> FALSE] /\ listed = [r \in Requests |-> 0]
  /\ changes = 0 /\ faults = 0
-----------------------------------------------------------------------------
(* A request reaches its controller. *)
Arrive(r) ==
  /\ pc[r] = "idle"
  /\ \/ kind[r] = "checkout" /\ Goto(r, "profile")
     \/ kind[r] = "cart"     /\ Goto(r, "cartProfile")
     \/ kind[r] = "enroll"   /\ Goto(r, "enrollProfile")
  /\ owned' = [owned EXCEPT ![r] = {c \in Courses : Enrolled(user[r], c)}]
  /\ UNCHANGED <<tables, kind, user, items, todo, line, fresh, listed, changes,
                 faults>>

(* Finding the student profile, and creating it when there is none: save()  *)
(* of a row whose primary key another request has just inserted updates it  *)
(* when its SELECT sees that row, and is a unique violation when not.       *)
FindProfile(r, here, create, found) ==
  /\ pc[r] = here
  /\ Goto(r, IF user[r] \in profiles THEN found ELSE create)
  /\ fresh' = [fresh EXCEPT ![r] = user[r] \notin profiles]
  /\ UNCHANGED <<tables, kind, user, owned, items, todo, line, listed, changes,
                 faults>>

SaveProfile(r, here, next) ==
  /\ pc[r] = here
  /\ profiles' = profiles \cup {user[r]}
  /\ \/ Goto(r, next)
     \/ user[r] \in profiles /\ Goto(r, "failed")
  /\ UNCHANGED <<status, price, everFree, cart, payments, charges,
                 enrollments, created, locals, changes, faults>>

(* POST /payments/checkout, up to the sale. *)
CheckoutProfile(r)    == FindProfile(r, "profile", "newProfile", "course")
CheckoutNewProfile(r) == SaveProfile(r, "newProfile", "course")

CheckoutCourse(r) ==
  /\ Go(r, "course", Published(Course(r)), "existing")
  /\ UNCHANGED <<tables, locals, changes, faults>>

CheckoutExisting(r) ==
  /\ Go(r, "existing", ~Enrolled(user[r], Course(r)), "sale")
  /\ UNCHANGED <<tables, locals, changes, faults>>

(* POST /cart/checkout: validateForCheckout. *)
ValidateProfile(r) ==
  /\ Go(r, "cartProfile", user[r] \in profiles, "cartItems")
  /\ UNCHANGED <<tables, locals, changes, faults>>

ValidateItems(r) ==
  LET bought == CartOf(user[r]) IN
  /\ Go(r, "cartItems", bought # {} /\ \A c \in bought : Published(c),
        "cartExisting")
  /\ items' = [items EXCEPT ![r] =
                 {[course |-> c, amount |-> price[c]] : c \in bought}]
  /\ UNCHANGED <<tables, kind, user, owned, todo, line, fresh, listed, changes,
                 faults>>

ValidateExistingNever(r) ==
  /\ Go(r, "cartExisting", TRUE, "sale")
  /\ UNCHANGED <<tables, locals, changes, faults>>

ValidateExisting(r) ==
  /\ Go(r, "cartExisting", \A l \in items[r] : ~Enrolled(user[r], l.course),
        "sale")
  /\ UNCHANGED <<tables, locals, changes, faults>>

SaleResultIgnored(r) ==
  /\ Go(r, "sale", TRUE, "record")
  /\ charges' = charges
  /\ todo' = [todo EXCEPT ![r] = items[r]]
  /\ UNCHANGED <<status, price, everFree, cart, profiles, payments,
                 enrollments, created, kind, user, owned, items, line, fresh,
                 listed, changes, faults>>

(* gateway.transaction.sale: accepted; declined, or failed before the money *)
(* moved; or accepted with its answer lost, which the SDK throws as well.   *)
Sale(r) ==
  LET charge == [tx |-> r, user |-> user[r], lines |-> items[r]] IN
  /\ pc[r] = "sale"
  /\ \/ charges' = charges \cup {charge} /\ Goto(r, "record")
     \/ charges' = charges /\ Goto(r, "recordFailure")
     \/ charges' = charges \cup {charge} /\ Goto(r, "recordFailure")
  /\ todo' = [todo EXCEPT ![r] = items[r]]
  /\ UNCHANGED <<status, price, everFree, cart, profiles, payments,
                 enrollments, created, kind, user, owned, items, line, fresh,
                 listed, changes, faults>>

(* savePayment for one line; the foreign key refuses a course that is gone. *)
SavePayment(r, l, s) ==
  payments' = payments \cup
    IF Exists(l.course)
      THEN {[by |-> r, user |-> user[r], course |-> l.course,
             amount |-> l.amount, status |-> s]}
      ELSE {}

RecordFailureForever(r) ==
  /\ pc[r] = "recordFailure"
  /\ \E l \in todo[r] : SavePayment(r, l, "FAILED")
  /\ UNCHANGED <<status, price, everFree, cart, profiles, charges,
                 enrollments, created, pc, locals, changes, faults>>

RecordFailure(r) ==
  /\ pc[r] = "recordFailure"
  /\ \E l \in todo[r] :
       /\ SavePayment(r, l, "FAILED")
       /\ todo' = [todo EXCEPT ![r] = @ \ {l}]
       /\ Goto(r, IF Exists(l.course) /\ todo[r] # {l}
                    THEN "recordFailure" ELSE "failed")
  /\ UNCHANGED <<status, price, everFree, cart, profiles, charges,
                 enrollments, created, kind, user, owned, items, line, fresh,
                 listed, changes, faults>>

RecordPaymentsFirst(r) ==
  /\ \E l \in todo[r] :
       /\ Go(r, "record", Exists(l.course),
             IF todo[r] = {l} THEN "enrollProfile" ELSE "record")
       /\ SavePayment(r, l, "COMPLETED")
       /\ todo' = [todo EXCEPT ![r] = @ \ {l}]
       /\ line' = [line EXCEPT ![r] = l]
  /\ UNCHANGED <<status, price, everFree, cart, profiles, charges,
                 enrollments, created, kind, user, owned, items, fresh, listed,
                 changes, faults>>

RecordPayment(r) ==
  /\ \E l \in todo[r] :
       /\ Go(r, "record", Exists(l.course), "enrollProfile")
       /\ SavePayment(r, l, "COMPLETED")
       /\ todo' = [todo EXCEPT ![r] = @ \ {l}]
       /\ line' = [line EXCEPT ![r] = l]
  /\ UNCHANGED <<status, price, everFree, cart, profiles, charges,
                 enrollments, created, kind, user, owned, items, fresh, listed,
                 changes, faults>>
-----------------------------------------------------------------------------
(* EnrollmentsService.enroll, called by all three routes. *)
EnrollProfile(r) ==
  FindProfile(r, "enrollProfile", "enrollNewProfile", "enrollCourse")
EnrollNewProfile(r) == SaveProfile(r, "enrollNewProfile", "enrollCourse")

EnrollCourseInverted(r) ==
  LET c == Course(r) IN
  /\ Go(r, "enrollCourse", Published(c),
        IF price[c] > 0 THEN "enrollExisting" ELSE "enrollPayment")
  /\ listed' = [listed EXCEPT ![r] = price[c]]
  /\ UNCHANGED <<tables, kind, user, owned, items, todo, line, fresh, changes,
                 faults>>

EnrollCourse(r) ==
  LET c == Course(r) IN
  /\ Go(r, "enrollCourse", Published(c),
        IF price[c] > 0 THEN "enrollPayment" ELSE "enrollExisting")
  /\ listed' = [listed EXCEPT ![r] = price[c]]
  /\ UNCHANGED <<tables, kind, user, owned, items, todo, line, fresh, changes,
                 faults>>

EnrollPaymentAnyStatus(r) ==
  /\ Go(r, "enrollPayment",
        \E p \in payments : p.user = user[r] /\ p.course = Course(r),
        "enrollExisting")
  /\ UNCHANGED <<tables, locals, changes, faults>>

EnrollPayment(r) ==
  /\ Go(r, "enrollPayment", Paid(user[r], Course(r)), "enrollExisting")
  /\ UNCHANGED <<tables, locals, changes, faults>>

EnrollExistingAnyCourse(r) ==
  /\ Go(r, "enrollExisting", \A e \in enrollments : e.user # user[r],
        "enrollInsert")
  /\ UNCHANGED <<tables, locals, changes, faults>>

EnrollExisting(r) ==
  /\ Go(r, "enrollExisting", ~Enrolled(user[r], Course(r)), "enrollInsert")
  /\ UNCHANGED <<tables, locals, changes, faults>>

EnrollInsert(r) ==
  /\ Go(r, "enrollInsert", Exists(Course(r)), "enrollEmit")
  /\ enrollments' = enrollments \cup
       IF Exists(Course(r))
         THEN {[by |-> r, user |-> user[r], course |-> Course(r),
                price |-> listed[r]]}
         ELSE {}
  /\ UNCHANGED <<status, price, everFree, cart, profiles, payments, charges,
                 created, locals, changes, faults>>

(* A profile that enroll() has just created was saved without its user      *)
(* relation: reading studentProfile.user.email throws.                      *)
EnrollEmit(r) ==
  /\ Go(r, "enrollEmit", ~fresh[r], "enrollPublish")
  /\ created' = created \cup IF fresh[r] THEN {} ELSE {<<r, Course(r)>>}
  /\ UNCHANGED <<status, price, everFree, cart, profiles, payments, charges,
                 enrollments, locals, changes, faults>>

(* The Redis publish, and the return to whichever handler called enroll().  *)
EnrollPublish(r) ==
  /\ pc[r] = "enrollPublish"
  /\ \/ kind[r] = "enroll"   /\ Goto(r, "done")
     \/ kind[r] = "checkout" /\ Goto(r, "dropItem")
     \/ kind[r] = "cart"     /\ Goto(r, IF todo[r] # {} THEN "record"
                                                       ELSE "clearCart")
  /\ UNCHANGED <<tables, locals, changes, faults>>
-----------------------------------------------------------------------------
(* The end of a checkout, and of a cart checkout. *)
DropItem(r) ==
  /\ Go(r, "dropItem", TRUE, "done")
  /\ cart' = cart \ {<<user[r], Course(r)>>}
  /\ UNCHANGED <<status, price, everFree, profiles, payments, charges,
                 enrollments, created, locals, changes, faults>>

ClearCart(r) ==
  /\ Go(r, "clearCart", TRUE, "done")
  /\ cart' = {i \in cart : i[1] # user[r]}
  /\ UNCHANGED <<status, price, everFree, profiles, payments, charges,
                 enrollments, created, locals, changes, faults>>

(* Any await may reject, and a crash rejects all that follows. *)
Abort(r) ==
  /\ faults < MaxFaults /\ faults' = faults + 1
  /\ pc[r] \notin Ended \cup {"idle"} /\ Goto(r, "aborted")
  /\ UNCHANGED <<tables, locals, changes>>
-----------------------------------------------------------------------------
(* What the owner of a course and the owner of a cart do meanwhile.  A      *)
(* course row is deleted with the rows that reference it ON DELETE CASCADE. *)
Change == changes < MaxChanges /\ changes' = changes + 1

UpdateCourse(c) ==
  /\ Change /\ Exists(c)
  /\ \E s \in CourseStatus \ {"deleted"}, p \in Prices :
       /\ <<s, p>> # <<status[c], price[c]>>
       /\ status' = [status EXCEPT ![c] = s]
       /\ price' = [price EXCEPT ![c] = p]
       /\ everFree' = everFree \cup IF p <= 0 THEN {c} ELSE {}
  /\ UNCHANGED <<cart, profiles, payments, charges, enrollments, created, pc,
                 locals, faults>>

DeleteCourse(c) ==
  /\ Change /\ Exists(c)
  /\ status' = [status EXCEPT ![c] = "deleted"]
  /\ cart' = {i \in cart : i[2] # c}
  /\ payments' = {p \in payments : p.course # c}
  /\ enrollments' = {e \in enrollments : e.course # c}
  /\ UNCHANGED <<price, everFree, profiles, charges, created, pc, locals,
                 faults>>

(* The INSERT of addItem: its check that the course is published was made   *)
(* one await earlier and may no longer hold.                                *)
AddItem(u, c) ==
  /\ Change /\ Exists(c) /\ <<u, c>> \notin cart
  /\ cart' = cart \cup {<<u, c>>}
  /\ UNCHANGED <<status, price, everFree, profiles, payments, charges,
                 enrollments, created, pc, locals, faults>>

RemoveItem(u, c) ==
  /\ Change /\ <<u, c>> \in cart
  /\ cart' = cart \ {<<u, c>>}
  /\ UNCHANGED <<status, price, everFree, profiles, payments, charges,
                 enrollments, created, pc, locals, faults>>

Step(r) ==
  \/ CheckoutProfile(r) \/ CheckoutNewProfile(r)
  \/ CheckoutCourse(r) \/ CheckoutExisting(r)
  \/ ValidateProfile(r) \/ ValidateItems(r) \/ ValidateExisting(r)
  \/ Sale(r) \/ RecordFailure(r) \/ RecordPayment(r)
  \/ EnrollProfile(r) \/ EnrollNewProfile(r) \/ EnrollCourse(r)
  \/ EnrollPayment(r) \/ EnrollExisting(r) \/ EnrollInsert(r)
  \/ EnrollEmit(r) \/ EnrollPublish(r)
  \/ DropItem(r) \/ ClearCart(r)

Next ==
  \/ \E r \in Requests : Arrive(r) \/ Step(r) \/ Abort(r)
  \/ \E c \in Courses : UpdateCourse(c) \/ DeleteCourse(c)
  \/ \E u \in Users, c \in Courses : AddItem(u, c) \/ RemoveItem(u, c)

Spec     == Init /\ [][Next]_vars
FairSpec == Spec /\ \A r \in Requests : WF_vars(Step(r))
-----------------------------------------------------------------------------
(* Nobody is enrolled in a course that enroll() found priced without a      *)
(* completed payment for it, whatever happened to the course, its price or  *)
(* its rows between enroll()'s awaits.                                      *)
PaidAccess ==
  \A e \in enrollments : e.price > 0 => Paid(e.user, e.course)

(* Every COMPLETED row is one line of a sale the gateway accepted from that *)
(* user, at the amount of that line, and no sale backs two rows of one      *)
(* course: the rows of a sale never add up to more than was taken.          *)
PaymentsCharged ==
  \A p \in payments : p.status = "COMPLETED" =>
    /\ \E ch \in charges : /\ ch.tx = p.by /\ ch.user = p.user
                           /\ [course |-> p.course, amount |-> p.amount]
                                \in ch.lines
    /\ \A q \in payments : q.by = p.by /\ q.course = p.course => q = p

(* The loop of cartCheckout records and enrolls one item at a time, so      *)
(* wherever it stops, at most one of the courses it has recorded as paid is *)
(* one its user is not enrolled in.                                         *)
Unentitled(p) == p.status = "COMPLETED" /\ ~Enrolled(p.user, p.course)

AtMostOneUnentitled ==
  \A p, q \in payments :
    p.by = q.by /\ Unentitled(p) /\ Unentitled(q) => p = q

LateRequestNotCharged ==
  \A ch \in charges : \A l \in ch.lines :
    l.course \in owned[ch.tx] => ~Exists(l.course)

LateRequestNotEnrolled == \A e \in enrollments : e.course \notin owned[e.by]

(* The duplicate checks, made several awaits before the sale and the insert *)
(* they protect, do protect against every request that arrives after the    *)
(* enrollment is there: it is neither charged for that course again, unless *)
(* the course is deleted meanwhile, nor enrolled in it again.               *)
LateRequestRefused == LateRequestNotCharged /\ LateRequestNotEnrolled

(* The abstract specification: the tables, seen as who was billed, who is   *)
(* recorded as having paid, and who has access.                             *)
Billed    == {ch.user : ch \in charges}
PaidPairs == {<<p.user, p.course>> :
                p \in {q \in payments : q.status = "COMPLETED"}}
Access    == {<<e.user, e.course>> : e \in enrollments}

Entitled == INSTANCE Entitlement WITH
  billed <- Billed, paid <- PaidPairs, access <- Access

ImplementsEntitlement == Entitled!Spec

(* Unless something is edited or fails, whoever has paid for a course is    *)
(* enrolled in it in the end, even when his requests race each other.       *)
PaidEventuallyEntitled ==
  \A u \in Users, c \in Courses :
    Paid(u, c) ~> Enrolled(u, c) \/ changes > 0 \/ faults > 0

(* Every request that arrives is answered: the loops over cart items end,   *)
(* whatever is edited, deleted or refused meanwhile.                        *)
RequestEnds ==
  \A r \in Requests : pc[r] # "idle" ~> pc[r] \in Ended
-----------------------------------------------------------------------------
(* enrollments.controller.ts documents 409 "Student already enrolled in     *)
(* this course": no user has two enrollments in one course. No run lists    *)
(* it: as an INVARIANT of MCPurchase_safety.cfg it is refuted, because two  *)
(* calls of enroll() both look before either inserts.                       *)
OneEnrollment ==
  \A d, e \in enrollments :
    d.user = e.user /\ d.course = e.course => d = e

(* "On success: create Payment(COMPLETED) + enroll() per item": a cart sale *)
(* that was accepted, and known to be, leaves a row for each of its items.  *)
(* Refuted in the same way: whatever stops the loop leaves the rest out.    *)
SaleRecorded ==
  \A ch \in charges :
    pc[ch.tx] \in {"done", "failed"} /\ (\E p \in payments :
                                         p.by = ch.tx /\ p.status = "COMPLETED")
      => \A l \in ch.lines :
           Exists(l.course) => Paid(ch.user, l.course)
=============================================================================
