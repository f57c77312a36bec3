-------------------------- MODULE StorefrontProofs --------------------------
(***************************************************************************)
(* Proofs about Storefront, for any courses, users and requests: its types *)
(* and that every outdated copy is one somebody is still to delete; and    *)
(* about CourseWizard, which fills the storefront, for any sections,       *)
(* lessons and clicks: that what is entered stays in its place, that the   *)
(* page is left only when it is stored, and that nothing is made twice.    *)
(***************************************************************************)
EXTENDS Storefront, CourseWizard, FiniteSetTheorems, SequenceTheorems, TLAPS

(* The status a course can have, its absence included, and the phases of an *)
(* invalidation.                                                            *)
Statuses == CourseStatus \cup {"new", "deleted"}
Phases   == {"nothing", "scan", "delete"}

LEMMA TypeInit == Init => TypeOK
  BY DEF Init, TypeOK, Labels, Marks

LEMMA GotoType ==
  ASSUME TypeOK, NEW r \in Requests, NEW l \in Labels, Goto(r, l)
  PROVE  /\ key' \in Keys /\ pc' \in [Requests -> Labels]
         /\ kind' \in [Requests -> Kinds \cup {"none"}]
         /\ course' \in [Requests -> Courses] /\ user' \in [Requests -> Users]
  BY DEF TypeOK, Goto, locals, Keys, Wrapped, Page, Slug, List, Cart, Count

LEMMA FinishType ==
  ASSUME TypeOK, NEW r \in Requests, Finish(r)
  PROVE  /\ key' \in Keys /\ pc' \in [Requests -> Labels]
         /\ kind' \in [Requests -> Kinds \cup {"none"}]
         /\ course' \in [Requests -> Courses] /\ user' \in [Requests -> Users]
  BY DEF TypeOK, Finish, Labels, Keys, Wrapped, Page, Slug, List, Cart, Count

LEMMA OutdateType ==
  ASSUME TypeOK, NEW will, NEW wont, Outdate(will, wont)
  PROVE  copy' \in Marks /\ read' \in [Requests -> Marks]
  BY DEF TypeOK, Outdate, After, Marks

LEMMA OweType ==
  ASSUME TypeOK, NEW r \in Requests, NEW keys, Owe(r, keys)
  PROVE  owed' \in [Requests -> Phases]
  BY DEF TypeOK, Owe, Phases

LEMMA GiveUpType ==
  ASSUME TypeOK, NEW r \in Requests, GiveUp(r), UNCHANGED rows
  PROVE  TypeOK'
<1>1. Finish(r)
  BY DEF GiveUp
<1>2. owed' \in [Requests -> Phases]
  BY DEF GiveUp, TypeOK, Phases
<1>3. copy' \in Marks
  BY DEF GiveUp, TypeOK, Marks
<1>4. read' \in [Requests -> Marks]
  BY DEF GiveUp, TypeOK, Marks
<1> QED
  BY <1>1, <1>2, <1>3, <1>4, FinishType DEF TypeOK, Phases, rows

LEMMA PassedType ==
  ASSUME TypeOK, NEW r \in Requests, Passed(r)
  PROVE  read' \in [Requests -> Marks]
  BY DEF TypeOK, Passed, Marks

LEMMA ArriveType ==
  ASSUME TypeOK, NEW r \in Requests, Arrive(r)
  PROVE  TypeOK'
<1>1. PICK k \in Kinds, c \in Courses, u \in Users :
        /\ kind' = [kind EXCEPT ![r] = k]
        /\ course' = [course EXCEPT ![r] = c]
        /\ user' = [user EXCEPT ![r] = u]
        /\ pc' = [pc EXCEPT ![r] = First(k)]
  BY DEF Arrive
<1>2. First(k) \in Labels
  BY DEF First, Labels, Kinds, Writers, EditKinds, AdminKinds, CartKinds
<1>3. key' \in Keys /\ UNCHANGED <<status, cart, copy, read, owed>>
  BY DEF Arrive, TypeOK, rows
<1> QED
  BY <1>1, <1>2, <1>3 DEF TypeOK

(* Where a request goes when it does not answer. *)
LEMMA ReadingType ==
  ASSUME TypeOK, NEW r \in Requests, Get(r) \/ Query(r) \/ Store(r)
  PROVE  TypeOK'
<1>1. CASE Get(r)
  <2>1. Finish(r) \/ Goto(r, "query")
    BY <1>1 DEF Get
  <2> QED
    BY <1>1, <2>1, GotoType, FinishType DEF Get, TypeOK, rows, Labels
<1>2. CASE Query(r)
  <2>1. Finish(r) \/ Goto(r, "store")
    BY <1>2 DEF Query
  <2>2. read' \in [Requests -> Marks]
    BY <1>2 DEF Query, TypeOK, Marks
  <2> QED
    BY <1>2, <2>1, <2>2, GotoType, FinishType DEF Query, TypeOK, rows, Labels
<1>3. CASE Store(r)
  <2>1. copy' \in Marks /\ read' \in [Requests -> Marks]
    BY <1>3 DEF Store, TypeOK, Marks
  <2> QED
    BY <1>3, <2>1, FinishType DEF Store, TypeOK, rows
<1> QED
  BY <1>1, <1>2, <1>3

LEMMA DeletingType ==
  ASSUME TypeOK, NEW r \in Requests,
         ScanLists(r) \/ DeleteKey(r) \/ Invalidated(r)
  PROVE  TypeOK'
<1>1. CASE ScanLists(r)
  <2>1. owed' \in [Requests -> Phases]
    BY <1>1 DEF ScanLists, TypeOK, Phases
  <2>2. read' \in [Requests -> Marks]
    BY <1>1, PassedType DEF ScanLists, TypeOK
  <2> QED
    BY <1>1, <2>1, <2>2 DEF ScanLists, TypeOK, Phases, rows, locals
<1>2. CASE DeleteKey(r)
  <2>1. owed' \in [Requests -> Phases]
    BY <1>2 DEF DeleteKey, TypeOK, Phases
  <2>2. read' \in [Requests -> Marks]
    BY <1>2, PassedType DEF DeleteKey
  <2> QED
    BY <1>2, <2>1, <2>2 DEF DeleteKey, TypeOK, Phases, Marks, rows, locals
<1>3. CASE Invalidated(r)
  <2>1. Finish(r) \/ Goto(r, "get")
    BY <1>3 DEF Invalidated
  <2> QED
    BY <1>3, <2>1, GotoType, FinishType DEF Invalidated, TypeOK, rows, Labels
<1> QED
  BY <1>1, <1>2, <1>3

LEMMA EditingType ==
  ASSUME TypeOK, NEW r \in Requests,
         \/ VerifyOwnership(r) \/ UpdateCourse(r) \/ Reread(r)
         \/ WriteSection(r) \/ DeleteCourse(r) \/ CreateCourse(r)
         \/ WriteLesson(r) \/ RestoreRefused(r)
  PROVE  TypeOK'
<1> DEFINE c == course[r]
<1>1. CASE VerifyOwnership(r)
  <2>1. Finish(r) \/ Goto(r, "write")
    BY <1>1 DEF VerifyOwnership
  <2> QED
    BY <1>1, <2>1, GotoType, FinishType
    DEF VerifyOwnership, TypeOK, rows, Labels
<1>2. CASE UpdateCourse(r)
  <2>1. status' \in [Courses -> Statuses]
    BY <1>2 DEF UpdateCourse, TypeOK, Statuses
  <2>2. copy' \in Marks /\ read' \in [Requests -> Marks]
    BY <1>2, OutdateType DEF UpdateCourse, TypeOK
  <2>3. owed' \in [Requests -> Phases]
    BY <1>2, OweType DEF UpdateCourse, TypeOK, Phases
  <2> QED
    BY <1>2, <2>1, <2>2, <2>3, GotoType
    DEF UpdateCourse, TypeOK, Statuses, Phases, Labels
<1>3. CASE Reread(r)
  <2>1. CASE Exists(c)
    <3>1. owed' \in [Requests -> Phases] /\ Goto(r, "invalidate")
      BY <1>3, <2>1, OweType DEF Reread
    <3> QED
      BY <1>3, <2>1, <3>1, GotoType DEF Reread, TypeOK, rows, Phases, Labels
  <2>2. CASE ~Exists(c)
    BY <1>3, <2>2, GiveUpType DEF Reread
  <2> QED
    BY <2>1, <2>2
<1>4. CASE WriteSection(r)
  <2>1. CASE Exists(c)
    <3>1. owed' \in [Requests -> Phases] /\ Goto(r, "invalidate")
      BY <1>4, <2>1, OweType DEF WriteSection
    <3>2. copy' \in Marks /\ read' \in [Requests -> Marks]
      BY <1>4, <2>1, OutdateType DEF WriteSection
    <3> QED
      BY <1>4, <3>1, <3>2, GotoType
      DEF WriteSection, TypeOK, rows, Phases, Labels
  <2>2. CASE ~Exists(c)
    BY <1>4, <2>2, FinishType DEF WriteSection, TypeOK, rows
  <2> QED
    BY <2>1, <2>2
<1>5. CASE DeleteCourse(r)
  <2>1. owed' \in [Requests -> Phases] /\ Goto(r, "invalidate")
    BY <1>5, OweType DEF DeleteCourse
  <2>2. copy' \in Marks /\ read' \in [Requests -> Marks]
    BY <1>5, OutdateType DEF DeleteCourse, TypeOK
  <2>3. status' \in [Courses -> Statuses] /\ cart' \subseteq Users \X Courses
    BY <1>5 DEF DeleteCourse, TypeOK, rows, Statuses
  <2> QED
    BY <2>1, <2>2, <2>3, GotoType DEF TypeOK, Statuses, Phases, Labels
<1>6. CASE CreateCourse(r)
  <2>1. status' \in [Courses -> Statuses]
    BY <1>6 DEF CreateCourse, TypeOK, Statuses
  <2>2. copy' \in Marks /\ read' \in [Requests -> Marks]
    BY <1>6, OutdateType DEF CreateCourse, TypeOK
  <2>3. owed' \in [Requests -> Phases]
    BY <1>6, OweType DEF CreateCourse, TypeOK, Phases
  <2>4. Finish(r) \/ Goto(r, "invalidate")
    BY <1>6 DEF CreateCourse
  <2> QED
    BY <1>6, <2>1, <2>2, <2>3, <2>4, GotoType, FinishType
    DEF CreateCourse, TypeOK, Statuses, Phases, Labels
<1>7. CASE WriteLesson(r)
  <2>1. copy' \in Marks /\ read' \in [Requests -> Marks]
    BY <1>7, OutdateType DEF WriteLesson, TypeOK
  <2> QED
    BY <1>7, <2>1, FinishType DEF WriteLesson, TypeOK, rows
<1>8. CASE RestoreRefused(r)
  BY <1>8, FinishType DEF RestoreRefused, TypeOK, rows
<1> QED
  BY <1>1, <1>2, <1>3, <1>4, <1>5, <1>6, <1>7, <1>8

LEMMA ModeratingType ==
  ASSUME TypeOK, NEW r \in Requests, LoadPending(r) \/ SaveModerated(r)
  PROVE  TypeOK'
<1>1. CASE LoadPending(r)
  <2>1. Finish(r) \/ Goto(r, "save")
    BY <1>1 DEF LoadPending
  <2> QED
    BY <1>1, <2>1, GotoType, FinishType DEF LoadPending, TypeOK, rows, Labels
<1>2. CASE SaveModerated(r)
  <2>1. copy' \in Marks /\ read' \in [Requests -> Marks]
    BY <1>2, OutdateType DEF SaveModerated
  <2>2. status' \in [Courses -> Statuses]
    BY <1>2 DEF SaveModerated, TypeOK, Statuses, CourseStatus
  <2> QED
    BY <1>2, <2>1, <2>2, FinishType DEF SaveModerated, TypeOK, Statuses
<1> QED
  BY <1>1, <1>2

LEMMA WriteCartType ==
  ASSUME TypeOK, NEW r \in Requests, NEW items \in SUBSET (Users \X Courses),
         WriteCart(r, items)
  PROVE  TypeOK'
<1>1. owed' \in [Requests -> Phases] /\ Goto(r, "invalidate")
  BY OweType DEF WriteCart
<1>2. copy' \in Marks /\ read' \in [Requests -> Marks]
  BY OutdateType DEF WriteCart, TypeOK
<1> QED
  BY <1>1, <1>2, GotoType DEF WriteCart, TypeOK, Phases, Labels

LEMMA CartingType ==
  ASSUME TypeOK, NEW r \in Requests,
         \/ AddItem(r) \/ FindExisting(r) \/ InsertItem(r)
         \/ FindItem(r) \/ RemoveItems(r)
  PROVE  TypeOK'
<1>1. CASE AddItem(r)
  <2>1. Finish(r) \/ Goto(r, "existing")
    BY <1>1 DEF AddItem
  <2> QED
    BY <1>1, <2>1, GotoType, FinishType DEF AddItem, TypeOK, rows, Labels
<1>2. CASE FindExisting(r)
  <2>1. Finish(r) \/ Goto(r, "insert")
    BY <1>2 DEF FindExisting
  <2> QED
    BY <1>2, <2>1, GotoType, FinishType DEF FindExisting, TypeOK, rows, Labels
<1>3. CASE InsertItem(r)
  <2> DEFINE i == <<user[r], course[r]>>
  <2>1. cart \cup {i} \subseteq Users \X Courses
    BY DEF TypeOK
  <2>2. CASE WriteCart(r, cart \cup {i})
    BY <2>1, <2>2, WriteCartType
  <2>3. CASE Finish(r) /\ UNCHANGED <<rows, copy, read, owed>>
    BY <2>3, FinishType DEF TypeOK, rows
  <2> QED
    BY <1>3, <2>2, <2>3 DEF InsertItem
<1>4. CASE FindItem(r)
  <2>1. Finish(r) \/ Goto(r, "clear")
    BY <1>4 DEF FindItem
  <2> QED
    BY <1>4, <2>1, GotoType, FinishType DEF FindItem, TypeOK, rows, Labels
<1>5. CASE RemoveItems(r)
  BY <1>5, WriteCartType DEF RemoveItems, TypeOK
<1> QED
  BY <1>1, <1>2, <1>3, <1>4, <1>5

(* Every step of the handlers and of Redis keeps the types.                  *)
LEMMA TypeStep == TypeOK /\ [Next]_vars => TypeOK'
<1> SUFFICES ASSUME TypeOK, [Next]_vars PROVE TypeOK'
  OBVIOUS
<1>1. CASE UNCHANGED vars
  BY <1>1 DEF TypeOK, vars, rows, locals
<1>2. CASE Expire
  BY <1>2 DEF Expire, TypeOK, Marks, rows, locals
<1>3. ASSUME NEW r \in Requests, Arrive(r) PROVE TypeOK'
  BY <1>3, ArriveType
<1>4. ASSUME NEW r \in Requests, Step(r) PROVE TypeOK'
  BY <1>4, ReadingType, DeletingType, EditingType, ModeratingType, CartingType
  DEF Step
<1>5. ASSUME NEW r \in Requests, Abort(r) PROVE TypeOK'
  BY <1>5, GiveUpType DEF Abort
<1> QED
  BY <1>1, <1>2, <1>3, <1>4, <1>5 DEF Next

(* Every variable of the catalogue, the carts and their copies keeps its    *)
(* type, whatever requests overlap.                                         *)
THEOREM StorefrontTypes == Spec => []TypeOK
<1>1. Init => TypeOK
  BY TypeInit
<1>2. TypeOK /\ [Next]_vars => TypeOK'
  BY TypeStep
<1> QED
  BY <1>1, <1>2, PTL DEF Spec
-----------------------------------------------------------------------------
(* OutdatedIsOwed is not inductive: a handler that wrote again, or answered, *)
(* while it owes a deletion would drop it.  A request owes only between its  *)
(* write and its answer, and what it owes before it reads the course again   *)
(* is what it owes behind that.                                              *)
OwedPhase ==
  \A r \in Requests :
    Owes(r) => \/ pc[r] = "invalidate"
               \/ pc[r] = "reread" /\ key \in CourseKeys(course[r])

IInv == TypeOK /\ OutdatedIsOwed /\ OwedPhase

Outdated == copy = "outdated" \/ \E q \in Requests : read[q] = "outdated"

(* A step that outdates nothing and keeps every debt keeps OutdatedIsOwed.   *)
LEMMA StillOwed ==
  ASSUME OutdatedIsOwed, Outdated' => Outdated,
         \A r \in Requests : Owes(r) => Owes(r)'
  PROVE  OutdatedIsOwed'
  BY DEF OutdatedIsOwed, Outdated

(* A write whose handler deletes at least the keys that the write outdates. *)
LEMMA WriteOwes ==
  ASSUME TypeOK, OutdatedIsOwed, NEW r \in Requests, ~Owes(r),
         NEW will, NEW wont, NEW keys, will \subseteq keys,
         Outdate(will, wont), Owe(r, keys)
  PROVE  OutdatedIsOwed'
<1>1. CASE key \in keys
  <2>1. Owes(r)'
    BY <1>1 DEF Owes, Owe, TypeOK
  <2> QED
    BY <2>1 DEF OutdatedIsOwed
<1>2. CASE key \notin keys
  <2>1. Outdated' => Outdated
    BY <1>2 DEF Outdated, Outdate, After, TypeOK
  <2>2. \A q \in Requests : Owes(q) => Owes(q)'
    BY <1>2 DEF Owes, Owe, TypeOK
  <2> QED
    BY <2>1, <2>2, StillOwed
<1> QED
  BY <1>1, <1>2

(* Whoever stops owing alone leaves nothing outdated behind. *)
LEMMA GiveUpOwes ==
  ASSUME TypeOK, OutdatedIsOwed, NEW r \in Requests, GiveUp(r)
  PROVE  OutdatedIsOwed'
<1>1. \A q \in Requests \ {r} : Owes(q) => Owes(q)'
  BY DEF GiveUp, Owes, TypeOK
<1>2. CASE Alone(r)
  <2>1. ~Outdated'
    BY <1>2 DEF GiveUp, OutdatedIsOwed, Outdated, Alone, Owes, TypeOK
  <2> QED
    BY <2>1 DEF OutdatedIsOwed, Outdated
<1>3. CASE ~Alone(r)
  BY <1>1, <1>3 DEF OutdatedIsOwed, Alone
<1> QED
  BY <1>2, <1>3

(* A deletion that passes, or a scan that finds nothing. *)
LEMMA PassedOwes ==
  ASSUME TypeOK, OutdatedIsOwed, NEW r \in Requests, Passed(r),
         copy' = "none", owed' = [owed EXCEPT ![r] = "nothing"]
  PROVE  OutdatedIsOwed'
<1>1. \A q \in Requests \ {r} : Owes(q) => Owes(q)'
  BY DEF Owes, TypeOK
<1>2. CASE Alone(r)
  <2>1. ~Outdated'
    BY <1>2 DEF Passed, Outdated, Alone, TypeOK
  <2> QED
    BY <2>1 DEF OutdatedIsOwed, Outdated
<1>3. CASE ~Alone(r)
  BY <1>1, <1>3 DEF OutdatedIsOwed, Alone
<1> QED
  BY <1>2, <1>3

(* What a step of r leaves of the other requests' phases. *)
LEMMA PhaseStep ==
  ASSUME OwedPhase, NEW r \in Requests, key' = key, course' = course,
         \A q \in Requests \ {r} : pc'[q] = pc[q] /\ owed'[q] = owed[q],
         \/ owed'[r] = "nothing"
         \/ pc'[r] = "invalidate"
         \/ pc'[r] = "reread" /\ key \in CourseKeys(course[r])
  PROVE  OwedPhase'
  BY DEF OwedPhase, Owes, CourseKeys, Page, List

(* The steps that answer or go on and owe nothing, before and behind. *)
LEMMA IdlePhase ==
  ASSUME TypeOK, OwedPhase, NEW r \in Requests, ~Owes(r), NEW l,
         Finish(r) \/ Goto(r, l), UNCHANGED owed
  PROVE  OwedPhase'
<1>1. owed'[r] = "nothing" /\ key' = key /\ course' = course
  BY DEF Owes, Finish, Goto, locals
<1>2. \A q \in Requests \ {r} : pc'[q] = pc[q] /\ owed'[q] = owed[q]
  BY DEF Finish, Goto, TypeOK
<1> QED
  BY <1>1, <1>2, PhaseStep

(* A write that goes on to its deletions owes them where it should.          *)
LEMMA OwingPhase ==
  ASSUME TypeOK, OwedPhase, NEW r \in Requests, NEW keys, Owe(r, keys),
         Goto(r, "invalidate")
  PROVE  OwedPhase'
<1>1. pc'[r] = "invalidate" /\ key' = key /\ course' = course
  BY DEF Goto, locals, TypeOK
<1>2. \A q \in Requests \ {r} : pc'[q] = pc[q] /\ owed'[q] = owed[q]
  BY DEF Owe, Goto, TypeOK
<1> QED
  BY <1>1, <1>2, PhaseStep

(* A request that fails owes nothing any more.                               *)
LEMMA GiveUpPhase ==
  ASSUME TypeOK, OwedPhase, NEW r \in Requests, GiveUp(r)
  PROVE  OwedPhase'
<1>1. owed'[r] = "nothing" /\ key' = key /\ course' = course
  BY DEF GiveUp, Finish, TypeOK
<1>2. \A q \in Requests \ {r} : pc'[q] = pc[q] /\ owed'[q] = owed[q]
  BY DEF GiveUp, Finish, TypeOK
<1> QED
  BY <1>1, <1>2, PhaseStep

(* The steps of a reader keep the invariant.                                 *)
LEMMA ReadingInv ==
  ASSUME IInv, NEW r \in Requests, Get(r) \/ Query(r) \/ Store(r)
  PROVE  IInv'
<1> USE DEF IInv
<1>1. TypeOK'
  BY ReadingType
<1>2. OwedPhase'
  <2>1. ~Owes(r) /\ UNCHANGED owed
    BY DEF OwedPhase, Get, Query, Store
  <2>2. Finish(r) \/ Goto(r, "query") \/ Goto(r, "store")
    BY DEF Get, Query, Store
  <2> QED
    BY <2>1, <2>2, IdlePhase
<1>3. OutdatedIsOwed'
  <2>1. Outdated' => Outdated
    BY DEF Outdated, Get, Query, Store, TypeOK
  <2>2. UNCHANGED owed
    BY DEF Get, Query, Store
  <2> QED
    BY <2>1, <2>2, StillOwed DEF Owes
<1> QED
  BY <1>1, <1>2, <1>3

(* The scan and the deletions keep the invariant.                            *)
LEMMA DeletingInv ==
  ASSUME IInv, NEW r \in Requests,
         ScanLists(r) \/ DeleteKey(r) \/ Invalidated(r)
  PROVE  IInv'
<1> USE DEF IInv
<1>1. TypeOK'
  BY DeletingType
<1>2. CASE ScanLists(r)
  <2>1. OwedPhase'
    <3>1. pc'[r] = "invalidate" /\ key' = key /\ course' = course
      BY <1>2 DEF ScanLists, locals
    <3>2. \A q \in Requests \ {r} : pc'[q] = pc[q] /\ owed'[q] = owed[q]
      BY <1>2 DEF ScanLists, TypeOK
    <3> QED
      BY <3>1, <3>2, PhaseStep
  <2>2. CASE copy = "none"
    <3>1. OutdatedIsOwed'
      BY <1>2, <2>2, PassedOwes DEF ScanLists
    <3> QED
      BY <1>1, <2>1, <3>1
  <2>3. CASE copy # "none"
    <3>1. Outdated' => Outdated
      BY <1>2, <2>3 DEF Outdated, ScanLists
    <3>2. \A q \in Requests : Owes(q) => Owes(q)'
      BY <1>2, <2>3 DEF Owes, ScanLists, TypeOK
    <3> QED
      BY <1>1, <2>1, <3>1, <3>2, StillOwed
  <2> QED
    BY <2>2, <2>3
<1>3. CASE DeleteKey(r)
  <2>1. OwedPhase'
    <3>1. pc'[r] = "invalidate" /\ key' = key /\ course' = course
      BY <1>3 DEF DeleteKey, locals
    <3>2. \A q \in Requests \ {r} : pc'[q] = pc[q] /\ owed'[q] = owed[q]
      BY <1>3 DEF DeleteKey, locals, TypeOK
    <3> QED
      BY <3>1, <3>2, PhaseStep
  <2>2. OutdatedIsOwed'
    BY <1>3, PassedOwes DEF DeleteKey
  <2> QED
    BY <1>1, <2>1, <2>2
<1>4. CASE Invalidated(r)
  <2>1. ~Owes(r) /\ UNCHANGED <<copy, read, owed>>
    BY <1>4 DEF Owes, Invalidated
  <2>2. Finish(r) \/ Goto(r, "get")
    BY <1>4 DEF Invalidated
  <2>3. OwedPhase'
    BY <2>1, <2>2, IdlePhase
  <2>4. OutdatedIsOwed'
    BY <2>1 DEF OutdatedIsOwed, Owes
  <2> QED
    BY <1>1, <2>3, <2>4
<1> QED
  BY <1>2, <1>3, <1>4

(* A write and what its handler owes for it. *)
LEMMA WriteInv ==
  ASSUME IInv, TypeOK', NEW r \in Requests, ~Owes(r), NEW will, NEW wont,
         NEW keys, will \subseteq keys, Outdate(will, wont), Owe(r, keys),
         Goto(r, "invalidate")
  PROVE  IInv'
  BY WriteOwes, OwingPhase DEF IInv

(* A step of a request that owes nothing and outdates nothing. *)
LEMMA QuietInv ==
  ASSUME IInv, TypeOK', NEW r \in Requests, ~Owes(r), NEW l,
         Finish(r) \/ Goto(r, l), UNCHANGED owed, Outdated' => Outdated
  PROVE  IInv'
<1>1. OwedPhase'
  BY IdlePhase DEF IInv
<1>2. OutdatedIsOwed'
  BY StillOwed DEF IInv, Owes
<1> QED
  BY <1>1, <1>2 DEF IInv

(* What changes neither the copy nor the loads outdates nothing.             *)
LEMMA OutdatedSame == UNCHANGED <<copy, read>> => (Outdated' => Outdated)
  BY DEF Outdated

(* A write that no invalidation goes with leaves stale copies, and none     *)
(* outdated that was not before.                                            *)
LEMMA OutdatedWont ==
  ASSUME TypeOK, NEW wont, Outdate({}, wont)
  PROVE  Outdated' => Outdated
  BY DEF Outdated, Outdate, After, TypeOK

(* A request that fails keeps the invariant.                                 *)
LEMMA GiveUpInv ==
  ASSUME IInv, NEW r \in Requests, GiveUp(r), UNCHANGED rows
  PROVE  IInv'
  BY GiveUpType, GiveUpOwes, GiveUpPhase DEF IInv

(* The steps of an instructor's edit keep the invariant.                     *)
LEMMA EditingInv ==
  ASSUME IInv, NEW r \in Requests,
         \/ VerifyOwnership(r) \/ UpdateCourse(r) \/ Reread(r)
         \/ WriteSection(r) \/ DeleteCourse(r) \/ CreateCourse(r)
         \/ WriteLesson(r) \/ RestoreRefused(r)
  PROVE  IInv'
<1> DEFINE c == course[r]
<1>0. TypeOK /\ TypeOK' /\ OutdatedIsOwed /\ OwedPhase
  BY EditingType DEF IInv
<1>1. CASE VerifyOwnership(r)
  <2>1. ~Owes(r) /\ UNCHANGED <<copy, read, owed>>
    BY <1>0, <1>1 DEF VerifyOwnership, OwedPhase
  <2>2. Finish(r) \/ Goto(r, "write")
    BY <1>1 DEF VerifyOwnership
  <2> QED
    BY <1>0, <2>1, <2>2, QuietInv, OutdatedSame
<1>2. CASE UpdateCourse(r)
  <2>1. ~Owes(r) /\ Goto(r, "reread")
    BY <1>0, <1>2 DEF UpdateCourse, OwedPhase
  <2>2. CASE ~Exists(c)
    BY <1>0, <1>2, <2>1, <2>2, QuietInv, OutdatedSame DEF UpdateCourse
  <2>3. CASE Exists(c)
    <3>1. /\ Outdate({Page(c), List}, {Slug(c)} \cup Carts(c))
          /\ Owe(r, CourseKeys(c))
      BY <1>2, <2>3 DEF UpdateCourse
    <3>2. OutdatedIsOwed'
      BY <1>0, <2>1, <3>1, WriteOwes DEF CourseKeys
    <3>3. OwedPhase'
      <4>1. pc'[r] = "reread" /\ key' = key /\ course' = course
        BY <1>0, <2>1 DEF Goto, locals, TypeOK
      <4>2. \A q \in Requests \ {r} : pc'[q] = pc[q] /\ owed'[q] = owed[q]
        BY <1>0, <2>1, <3>1 DEF Goto, Owe, TypeOK
      <4>3. owed'[r] = "nothing" \/ key \in CourseKeys(course[r])
        BY <1>0, <3>1 DEF Owe, TypeOK
      <4> QED
        BY <1>0, <4>1, <4>2, <4>3, PhaseStep
    <3> QED
      BY <1>0, <3>2, <3>3 DEF IInv
  <2> QED
    BY <2>2, <2>3
<1>3. CASE Reread(r)
  <2>1. CASE ~Exists(c)
    BY <1>3, <2>1, GiveUpInv DEF Reread
  <2>2. CASE Exists(c)
    <3>1. /\ Goto(r, "invalidate") /\ Owe(r, CourseKeys(c))
          /\ UNCHANGED <<copy, read>>
      BY <1>3, <2>2 DEF Reread
    <3>2. \A q \in Requests : Owes(q) => Owes(q)'
      BY <1>0, <1>3, <3>1 DEF Reread, OwedPhase, Owes, Owe, TypeOK
    <3>3. OutdatedIsOwed'
      BY <1>0, <3>1, <3>2, StillOwed, OutdatedSame
    <3> QED
      BY <1>0, <3>1, <3>3, OwingPhase DEF IInv
  <2> QED
    BY <2>1, <2>2
<1>4. CASE WriteSection(r)
  <2>1. ~Owes(r)
    BY <1>0, <1>4 DEF WriteSection, OwedPhase
  <2>2. CASE ~Exists(c)
    BY <1>0, <1>4, <2>1, <2>2, QuietInv, OutdatedSame DEF WriteSection
  <2>3. CASE Exists(c)
    <3>1. /\ Goto(r, "invalidate") /\ Owe(r, CourseKeys(c))
          /\ Outdate({Page(c)}, {Slug(c)})
      BY <1>4, <2>3 DEF WriteSection
    <3>2. {Page(c)} \subseteq CourseKeys(c)
      BY DEF CourseKeys
    <3> QED
      BY <1>0, <2>1, <3>1, <3>2, WriteInv
  <2> QED
    BY <2>2, <2>3
<1>5. CASE DeleteCourse(r)
  <2>1. ~Owes(r) /\ Goto(r, "invalidate") /\ Owe(r, CourseKeys(c))
    BY <1>0, <1>5 DEF DeleteCourse, OwedPhase
  <2>2. CASE Exists(c)
    <3>1. Outdate({Page(c), List}, {Slug(c)} \cup Carts(c) \cup Counts(c))
      BY <1>5, <2>2 DEF DeleteCourse
    <3> QED
      BY <1>0, <2>1, <3>1, WriteInv DEF CourseKeys
  <2>3. CASE ~Exists(c)
    <3>1. UNCHANGED <<copy, read>>
      BY <1>5, <2>3 DEF DeleteCourse
    <3>2. \A q \in Requests : Owes(q) => Owes(q)'
      BY <1>0, <2>1 DEF Owes, Owe, TypeOK
    <3>3. OutdatedIsOwed'
      BY <1>0, <3>1, <3>2, StillOwed, OutdatedSame
    <3> QED
      BY <1>0, <2>1, <3>3, OwingPhase DEF IInv
  <2> QED
    BY <2>2, <2>3
<1>6. CASE CreateCourse(r)
  <2>1. ~Owes(r)
    BY <1>0, <1>6 DEF CreateCourse, OwedPhase
  <2>2. CASE status[c] = "new"
    <3>1. /\ Outdate({List}, {}) /\ Owe(r, {List}) /\ Goto(r, "invalidate")
      BY <1>6, <2>2 DEF CreateCourse
    <3> QED
      BY <1>0, <2>1, <3>1, WriteInv
  <2>3. CASE status[c] # "new"
    BY <1>0, <1>6, <2>1, <2>3, QuietInv, OutdatedSame DEF CreateCourse
  <2> QED
    BY <2>2, <2>3
<1>7. CASE WriteLesson(r)
  <2>1. ~Owes(r) /\ Finish(r) /\ UNCHANGED owed
    BY <1>0, <1>7 DEF WriteLesson, OwedPhase
  <2>2. Outdated' => Outdated
    BY <1>0, <1>7, OutdatedWont, OutdatedSame DEF WriteLesson
  <2> QED
    BY <1>0, <2>1, <2>2, QuietInv
<1>8. CASE RestoreRefused(r)
  <2>1. ~Owes(r) /\ Finish(r) /\ UNCHANGED <<copy, read, owed>>
    BY <1>0, <1>8 DEF RestoreRefused, OwedPhase
  <2> QED
    BY <1>0, <2>1, QuietInv, OutdatedSame
<1> QED
  BY <1>1, <1>2, <1>3, <1>4, <1>5, <1>6, <1>7, <1>8

(* The steps of an approval or a rejection keep the invariant.               *)
LEMMA ModeratingInv ==
  ASSUME IInv, NEW r \in Requests, LoadPending(r) \/ SaveModerated(r)
  PROVE  IInv'
<1>0. TypeOK /\ TypeOK' /\ OwedPhase
  BY ModeratingType DEF IInv
<1>1. ~Owes(r) /\ UNCHANGED owed
  BY <1>0 DEF LoadPending, SaveModerated, OwedPhase
<1>2. Finish(r) \/ Goto(r, "save")
  BY DEF LoadPending, SaveModerated
<1>3. Outdated' => Outdated
  BY <1>0, OutdatedWont, OutdatedSame DEF LoadPending, SaveModerated
<1> QED
  BY <1>0, <1>1, <1>2, <1>3, QuietInv

(* A write of the cart keeps the invariant.                                  *)
LEMMA WriteCartInv ==
  ASSUME IInv, TypeOK', NEW r \in Requests, NEW items, ~Owes(r),
         WriteCart(r, items)
  PROVE  IInv'
<1>1. Goto(r, "invalidate") /\ Owe(r, CartKeys(user[r]))
  BY DEF WriteCart
<1>2. CASE items # cart
  BY <1>1, <1>2, WriteInv DEF WriteCart
<1>3. CASE items = cart
  <2>1. UNCHANGED <<copy, read>>
    BY <1>3 DEF WriteCart
  <2>2. \A q \in Requests : Owes(q) => Owes(q)'
    BY <1>1 DEF IInv, Owes, Owe, TypeOK
  <2>3. OutdatedIsOwed'
    BY <2>1, <2>2, StillOwed, OutdatedSame DEF IInv
  <2> QED
    BY <1>1, <2>3, OwingPhase DEF IInv
<1> QED
  BY <1>2, <1>3

(* The steps of a cart request keep the invariant.                           *)
LEMMA CartingInv ==
  ASSUME IInv, NEW r \in Requests,
         \/ AddItem(r) \/ FindExisting(r) \/ InsertItem(r)
         \/ FindItem(r) \/ RemoveItems(r)
  PROVE  IInv'
<1>0. TypeOK' /\ ~Owes(r)
  BY CartingType DEF IInv, OwedPhase, AddItem, FindExisting, InsertItem,
                     FindItem, RemoveItems
<1>1. CASE AddItem(r) \/ FindExisting(r) \/ FindItem(r)
  <2>1. Finish(r) \/ Goto(r, "existing") \/ Goto(r, "insert")
                   \/ Goto(r, "clear")
    BY <1>1 DEF AddItem, FindExisting, FindItem
  <2>2. UNCHANGED <<copy, read, owed>>
    BY <1>1 DEF AddItem, FindExisting, FindItem
  <2> QED
    BY <1>0, <2>1, <2>2, QuietInv, OutdatedSame
<1>2. CASE InsertItem(r)
  <2>1. CASE WriteCart(r, cart \cup {<<user[r], course[r]>>})
    BY <1>0, <2>1, WriteCartInv
  <2>2. CASE Finish(r) /\ UNCHANGED <<rows, copy, read, owed>>
    BY <1>0, <2>2, QuietInv, OutdatedSame
  <2> QED
    BY <1>2, <2>1, <2>2 DEF InsertItem
<1>3. CASE RemoveItems(r)
  BY <1>0, <1>3, WriteCartInv DEF RemoveItems
<1> QED
  BY <1>1, <1>2, <1>3

(* The arrival of a request keeps the invariant.                             *)
LEMMA ArriveInv ==
  ASSUME IInv, NEW r \in Requests, Arrive(r)
  PROVE  IInv'
<1>1. UNCHANGED <<key, copy, read, owed>> /\ ~Owes(r)
  BY DEF IInv, OwedPhase, Arrive
<1>2. \A q \in Requests \ {r} : pc'[q] = pc[q] /\ course'[q] = course[q]
  BY DEF IInv, TypeOK, Arrive
<1>3. OwedPhase'
  BY <1>1, <1>2 DEF IInv, OwedPhase, Owes, CourseKeys, Page, List
<1>4. OutdatedIsOwed'
  BY <1>1 DEF IInv, OutdatedIsOwed, Owes
<1> QED
  BY <1>3, <1>4, ArriveType DEF IInv

LEMMA InvInit == Init => IInv
  BY TypeInit DEF Init, IInv, OutdatedIsOwed, OwedPhase, Owes

(* Every step keeps the invariant.                                           *)
LEMMA InvStep == IInv /\ [Next]_vars => IInv'
<1> SUFFICES ASSUME IInv, [Next]_vars PROVE IInv'
  OBVIOUS
<1>0. TypeOK'
  BY TypeStep DEF IInv
<1>1. CASE UNCHANGED vars
  BY <1>0, <1>1 DEF IInv, OutdatedIsOwed, OwedPhase, Owes, CourseKeys, Page,
                    List, vars, locals
<1>2. CASE Expire
  <2>1. OutdatedIsOwed'
    BY <1>2 DEF Expire, IInv, OutdatedIsOwed, Owes
  <2>2. OwedPhase'
    BY <1>2 DEF Expire, IInv, OwedPhase, Owes, CourseKeys, Page, List, locals
  <2> QED
    BY <1>0, <2>1, <2>2 DEF IInv
<1>3. ASSUME NEW r \in Requests, Arrive(r) PROVE IInv'
  BY <1>3, ArriveInv
<1>4. ASSUME NEW r \in Requests, Step(r) PROVE IInv'
  BY <1>4, ReadingInv, DeletingInv, EditingInv, ModeratingInv, CartingInv
  DEF Step
<1>5. ASSUME NEW r \in Requests, Abort(r) PROVE IInv'
  BY <1>5, GiveUpInv DEF Abort
<1> QED
  BY <1>1, <1>2, <1>3, <1>4, <1>5 DEF Next

(* For any courses, users and requests: what an edit of a course, of its    *)
(* sections or of a cart outdates in Redis, some handler is still to delete, *)
(* however loads, expiries and failures fall between.                       *)
THEOREM OutdatedCopiesAreOwed == Spec => []OutdatedIsOwed
<1>1. Init => IInv
  BY InvInit
<1>2. IInv /\ [Next]_vars => IInv'
  BY InvStep
<1>3. IInv => OutdatedIsOwed
  BY DEF IInv
<1> QED
  BY <1>1, <1>2, <1>3, PTL DEF Spec
-----------------------------------------------------------------------------
(***************************************************************************)
(* The course wizard.  Its page has a list of lessons for each section and *)
(* keeps what belongs to a lesson under the lesson's position in all of    *)
(* them.  First come the lemmas on lists and positions, then what each     *)
(* step does to the draft, the tables and the calls, then one part of the  *)
(* inductive invariant WizardInv after the other.                          *)
(***************************************************************************)

(* The places of lists of lessons, how many of them are before a list, and  *)
(* that a list of ids (of lessonIds) fits the lessons it is matched with.   *)
Lists   == {l \in [Places -> Seq(Lessons)] : \A i \in Places : Len(l[i]) <= MaxLessons}
Held(l) == {s \in Places \X Spots : s[2] <= Len(l[s[1]])}
Rank(l, i) == Cardinality({s \in Held(l) : s[1] < i})
At(l, s)   == Rank(l, s[1]) + s[2]
Matched(l, list, table) ==
  /\ Len(list) = Cardinality(Held(l))
  /\ \A s \in Held(l) : list[At(l, s)] # None =>
       \E m \in table : m.id = list[At(l, s)] /\ m.title = l[s[1]][s[2]]

LEMMA WizardBounds ==
  /\ MaxSections \in Nat /\ PerSection \in Nat /\ MaxLessons \in Nat /\ MaxClicks \in Nat
  /\ MaxFaults \in Nat /\ MaxUploads \in Nat /\ MaxEdits \in Nat
  /\ MaxSections <= MaxLessons /\ PerSection >= 1
  BY BoundsAssumption

LEMMA NoneIsNone == None \notin Ids /\ None \notin Lessons
  BY NoneAssumption

(* A list has its places in the draft, all of them different.               *)
LEMMA HeldFinite ==
  ASSUME NEW l
  PROVE  /\ IsFiniteSet(Held(l)) /\ Cardinality(Held(l)) \in Nat
         /\ \A i : /\ IsFiniteSet({s \in Held(l) : s[1] < i}) /\ Rank(l, i) \in Nat
                   /\ Rank(l, i) <= Cardinality(Held(l))
<1>1. IsFiniteSet(Places) /\ IsFiniteSet(Spots)
  BY WizardBounds, FS_Interval DEF Places, Spots
<1>2. IsFiniteSet(Places \X Spots)
  BY <1>1, FS_Product
<1>3. Held(l) \subseteq Places \X Spots
  BY DEF Held
<1>4. IsFiniteSet(Held(l))
  BY <1>2, <1>3, FS_Subset
<1>5. ASSUME NEW i
      PROVE  /\ IsFiniteSet({s \in Held(l) : s[1] < i}) /\ Rank(l, i) \in Nat
             /\ Rank(l, i) <= Cardinality(Held(l))
  <2>1. {s \in Held(l) : s[1] < i} \in SUBSET Held(l)
    OBVIOUS
  <2> QED
    BY <1>4, <2>1, FS_Subset, FS_CardinalityType DEF Rank
<1> QED
  BY <1>4, <1>5, FS_CardinalityType

(* As many places as the list is long are in it.                            *)
LEMMA ListPlaces ==
  ASSUME NEW l \in Lists, NEW i \in Places
  PROVE  /\ {i} \X (1..Len(l[i])) \subseteq Held(l)
         /\ IsFiniteSet({i} \X (1..Len(l[i])))
         /\ Cardinality({i} \X (1..Len(l[i]))) = Len(l[i])
         /\ Len(l[i]) \in Nat
<1>1. l[i] \in Seq(Lessons) /\ Len(l[i]) \in Nat /\ Len(l[i]) <= MaxLessons
  BY DEF Lists
<1>2. IsFiniteSet(1..Len(l[i])) /\ Cardinality(1..Len(l[i])) = Len(l[i])
  <2> DEFINE n == Len(l[i])
  <2>1. n \in Nat
    BY <1>1
  <2> HIDE DEF n
  <2>2. IsFiniteSet(1..n) /\ Cardinality(1..n) = IF 1 > n THEN 0 ELSE n - 1 + 1
    BY <2>1, FS_Interval
  <2>3. Cardinality(1..n) = n
    BY <2>1, <2>2
  <2> QED
    BY <2>2, <2>3 DEF n
<1>3. IsFiniteSet({i}) /\ Cardinality({i}) = 1
  BY FS_Singleton
<1>4. IsFiniteSet({i} \X (1..Len(l[i]))) /\ Cardinality({i} \X (1..Len(l[i]))) = 1 * Len(l[i])
  BY <1>2, <1>3, FS_Product
<1>5. {i} \X (1..Len(l[i])) \subseteq Held(l)
  BY <1>1, WizardBounds DEF Held, Spots
<1> QED
  BY <1>1, <1>4, <1>5

LEMMA RankStep ==
  ASSUME NEW l \in Lists, NEW i \in Places
  PROVE  /\ \A k \in Int : i < k => Rank(l, i) + Len(l[i]) <= Rank(l, k)
         /\ Rank(l, i) + Len(l[i]) <= Cardinality(Held(l))
<1> DEFINE B == {s \in Held(l) : s[1] < i}
           C == {i} \X (1..Len(l[i]))
<1>1. /\ IsFiniteSet(B) /\ IsFiniteSet(C) /\ Cardinality(C) = Len(l[i]) /\ Cardinality(B) = Rank(l, i)
      /\ C \subseteq Held(l) /\ B \subseteq Held(l) /\ Rank(l, i) \in Nat /\ Len(l[i]) \in Nat
  BY HeldFinite, ListPlaces DEF Rank
<1>2. B \cap C = {}
  BY DEF Places
<1>3. Cardinality(B \cup C) = Rank(l, i) + Len(l[i])
  <2>1. Cardinality(B \cup C) = Cardinality(B) + Cardinality(C) - Cardinality(B \cap C)
    BY <1>1, FS_Union
  <2>2. Cardinality(B \cap C) = 0
    BY <1>2, FS_EmptySet
  <2> QED
    BY <1>1, <2>1, <2>2
<1>4. ASSUME NEW k \in Int, i < k
      PROVE  Rank(l, i) + Len(l[i]) <= Rank(l, k)
  <2>1. B \cup C \in SUBSET {s \in Held(l) : s[1] < k}
    <3>1. \A s \in B : s[1] \in Int /\ s[1] < i
      BY DEF Held, Places
    <3>2. \A s \in C : s[1] = i
      OBVIOUS
    <3>3. i \in Int
      BY DEF Places
    <3>4. \A s \in B \cup C : s[1] < k /\ s \in Held(l)
      BY <1>1, <1>4, <3>1, <3>2, <3>3
    <3> QED
      BY <3>4
  <2>2. IsFiniteSet({s \in Held(l) : s[1] < k})
    BY HeldFinite
  <2> HIDE DEF B, C
  <2>3. Cardinality(B \cup C) <= Cardinality({s \in Held(l) : s[1] < k})
    BY <2>1, <2>2, FS_Subset
  <2> QED
    BY <1>3, <2>3 DEF Rank
<1>5. Rank(l, i) + Len(l[i]) <= Cardinality(Held(l))
  <2>1. B \cup C \in SUBSET Held(l) /\ IsFiniteSet(Held(l))
    BY <1>1, HeldFinite
  <2> HIDE DEF B, C
  <2> QED
    BY <1>3, <2>1, FS_Subset
<1> QED
  BY <1>4, <1>5

LEMMA HeldType ==
  ASSUME NEW l \in Lists, NEW s \in Held(l)
  PROVE  /\ s[1] \in Places /\ s[2] \in Spots /\ s = <<s[1], s[2]>>
         /\ s[2] \in 1..Len(l[s[1]]) /\ l[s[1]] \in Seq(Lessons) /\ l[s[1]][s[2]] \in Lessons
<1>1. /\ s[1] \in Places /\ s[2] \in Spots /\ s = <<s[1], s[2]>> /\ s[2] <= Len(l[s[1]])
  BY DEF Held
<1>2. l[s[1]] \in Seq(Lessons)
  BY <1>1 DEF Lists
<1>3. s[2] \in 1..Len(l[s[1]])
  BY <1>1, <1>2 DEF Spots
<1> QED
  BY <1>1, <1>2, <1>3

LEMMA IndexRange ==
  ASSUME NEW l \in Lists, NEW s \in Held(l)
  PROVE  At(l, s) \in 1..Cardinality(Held(l))
<1>1. s[1] \in Places /\ s[2] \in Int /\ 1 <= s[2] /\ s[2] <= Len(l[s[1]]) /\ Len(l[s[1]]) \in Nat
  BY HeldType, ListPlaces
<1>2. Rank(l, s[1]) + Len(l[s[1]]) <= Cardinality(Held(l)) /\ Rank(l, s[1]) \in Nat
      /\ Cardinality(Held(l)) \in Nat
  BY <1>1, RankStep, HeldFinite
<1> QED
  BY <1>1, <1>2 DEF At

(* globalLessonIndex() tells the lessons apart.                             *)
LEMMA IndexOnce ==
  ASSUME NEW l \in Lists, NEW s \in Held(l), NEW t \in Held(l), At(l, s) = At(l, t)
  PROVE  s = t
<1>1. /\ s[1] \in Int /\ s[2] \in Int /\ 1 <= s[2] /\ s[2] <= Len(l[s[1]]) /\ Rank(l, s[1]) \in Nat
      /\ t[1] \in Int /\ t[2] \in Int /\ 1 <= t[2] /\ t[2] <= Len(l[t[1]]) /\ Rank(l, t[1]) \in Nat
      /\ s = <<s[1], s[2]>> /\ t = <<t[1], t[2]>> /\ s[1] \in Places /\ t[1] \in Places
      /\ Len(l[s[1]]) \in Nat /\ Len(l[t[1]]) \in Nat
  <2>1. ASSUME NEW u \in Held(l)
        PROVE  /\ u[1] \in Int /\ u[2] \in Int /\ 1 <= u[2] /\ u[2] <= Len(l[u[1]])
               /\ u = <<u[1], u[2]>> /\ u[1] \in Places /\ Len(l[u[1]]) \in Nat
    <3>1. u[1] \in Places /\ u[2] \in 1..Len(l[u[1]]) /\ u = <<u[1], u[2]>>
      BY HeldType
    <3> QED
      BY <3>1, ListPlaces DEF Places
  <2>2. Rank(l, s[1]) \in Nat /\ Rank(l, t[1]) \in Nat
    BY HeldFinite
  <2> QED
    BY <2>1, <2>2
<1>2. /\ s[1] < t[1] => Rank(l, s[1]) + Len(l[s[1]]) <= Rank(l, t[1])
      /\ t[1] < s[1] => Rank(l, t[1]) + Len(l[t[1]]) <= Rank(l, s[1])
  BY <1>1, RankStep
<1>3. Rank(l, s[1]) + s[2] = Rank(l, t[1]) + t[2]
  BY DEF At
<1>4. ~(s[1] < t[1]) /\ ~(t[1] < s[1])
  BY <1>1, <1>2, <1>3
<1>5. s[1] = t[1]
  BY <1>1, <1>4
<1>6. s[2] = t[2]
  BY <1>1, <1>3, <1>5
<1> QED
  BY <1>1, <1>5, <1>6
-----------------------------------------------------------------------------
(* What a lesson that is added, or a section that is removed, does to the   *)
(* places of the others.                                                    *)
LEMMA OneMore ==
  ASSUME NEW l, NEW m, NEW n, n \notin Held(l), Held(m) = Held(l) \cup {n}, n[1] \in Int
  PROVE  /\ Cardinality(Held(m)) = Cardinality(Held(l)) + 1
         /\ \A i \in Int : Rank(m, i) = IF i <= n[1] THEN Rank(l, i) ELSE Rank(l, i) + 1
<1>1. Cardinality(Held(m)) = Cardinality(Held(l)) + 1
  BY HeldFinite, FS_AddElement
<1>2. ASSUME NEW i \in Int
      PROVE  Rank(m, i) = IF i <= n[1] THEN Rank(l, i) ELSE Rank(l, i) + 1
  <2> DEFINE S == {s \in Held(l) : s[1] < i}
             T == {s \in Held(m) : s[1] < i}
  <2>1. IsFiniteSet(S) /\ n \notin S
    BY HeldFinite
  <2>2. CASE i <= n[1]
    <3>1. ~(n[1] < i)
      BY <1>2, <2>2
    <3>2. T = S
      BY <3>1
    <3> QED
      BY <2>2, <3>2 DEF Rank
  <2>3. CASE ~(i <= n[1])
    <3>1. n[1] < i
      BY <1>2, <2>3
    <3>2. T = S \cup {n}
      BY <3>1
    <3> HIDE DEF S, T
    <3>3. Cardinality(T) = Cardinality(S) + 1
      BY <2>1, <3>2, FS_AddElement
    <3> QED
      BY <2>3, <3>3 DEF Rank, S, T
  <2> QED
    BY <2>2, <2>3
<1> QED
  BY <1>1, <1>2

Longer(l, m, si, x) ==
  /\ Len(l[si]) < MaxLessons /\ m \in [Places -> Seq(Lessons)]
  /\ m[si] = Append(l[si], x) /\ \A i \in Places \ {si} : m[i] = l[i]

Shorter(l, m, si, li) ==
  /\ m \in [Places -> Seq(Lessons)]
  /\ m[si] = RemoveAt(l[si], li) /\ \A i \in Places \ {si} : m[i] = l[i]

LEMMA HeldAppend ==
  ASSUME NEW l \in Lists, NEW si \in Places, NEW x \in Lessons,
         NEW m, Longer(l, m, si, x)
  PROVE  /\ m \in Lists /\ <<si, Len(l[si]) + 1>> \notin Held(l)
         /\ Held(m) = Held(l) \cup {<<si, Len(l[si]) + 1>>}
         /\ m[si][Len(l[si]) + 1] = x
         /\ \A s \in Held(l) : m[s[1]][s[2]] = l[s[1]][s[2]]
<1> DEFINE k == Len(l[si])
<1>1. l \in [Places -> Seq(Lessons)] /\ l[si] \in Seq(Lessons) /\ k \in Nat
  BY DEF Lists
<1>2. /\ Append(l[si], x) \in Seq(Lessons) /\ Len(Append(l[si], x)) = k + 1
      /\ Append(l[si], x)[k + 1] = x /\ \A j \in 1..k : Append(l[si], x)[j] = l[si][j]
  BY <1>1
<1>3. /\ m[si] = Append(l[si], x) /\ \A i \in Places \ {si} : m[i] = l[i]
      /\ m \in [Places -> Seq(Lessons)] /\ k < MaxLessons
  BY DEF Longer
<1>4. m \in Lists
  <2>1. ASSUME NEW i \in Places
        PROVE  Len(m[i]) <= MaxLessons
    <3>1. CASE i = si
      BY <1>1, <1>2, <1>3, <3>1, WizardBounds
    <3>2. CASE i # si
      BY <1>3, <3>2 DEF Lists
    <3> QED
      BY <3>1, <3>2
  <2> QED
    BY <1>3, <2>1 DEF Lists
<1> HIDE DEF k
<1>5. k + 1 \in Spots /\ k \in Nat
  BY <1>1, <1>3, WizardBounds DEF Spots, k
<1>6. Len(m[si]) = k + 1 /\ Len(l[si]) = k
  BY <1>2, <1>3 DEF k
<1>7. Held(m) = Held(l) \cup {<<si, k + 1>>}
  <2>1. ASSUME NEW s \in Places \X Spots
        PROVE  s[2] <= Len(m[s[1]]) <=> s[2] <= Len(l[s[1]]) \/ s = <<si, k + 1>>
    <3>1. s[1] \in Places /\ s[2] \in Int /\ s = <<s[1], s[2]>>
      BY DEF Spots
    <3>2. CASE s[1] = si
      <4>1. s[2] <= k + 1 <=> s[2] <= k \/ s[2] = k + 1
        BY <1>5, <3>1
      <4> QED
        BY <1>6, <3>1, <3>2, <4>1
    <3>3. CASE s[1] # si
      BY <1>3, <3>1, <3>3
    <3> QED
      BY <3>2, <3>3
  <2>2. <<si, k + 1>> \in Places \X Spots
    BY <1>5
  <2> QED
    BY <2>1, <2>2 DEF Held
<1>8. <<si, k + 1>> \notin Held(l)
  BY <1>5, <1>6 DEF Held
<1>9. ASSUME NEW s \in Held(l)
      PROVE  m[s[1]][s[2]] = l[s[1]][s[2]]
  <2>1. s[1] \in Places /\ s[2] \in 1..Len(l[s[1]])
    BY HeldType
  <2> QED
    BY <1>2, <1>3, <2>1 DEF k
<1> QED
  BY <1>2, <1>3, <1>4, <1>7, <1>8, <1>9 DEF k

LEMMA DropAt ==
  ASSUME NEW S, NEW s \in Seq(S), NEW i \in 1..Len(s)
  PROVE  /\ RemoveAt(s, i) \in Seq(S) /\ Len(RemoveAt(s, i)) = Len(s) - 1
         /\ \A j \in 1..(Len(s) - 1) : RemoveAt(s, i)[j] = s[IF j < i THEN j ELSE j + 1]
<1> DEFINE l == SubSeq(s, 1, i - 1)
           r == SubSeq(s, i + 1, Len(s))
<1>1. /\ l \in Seq(S) /\ Len(l) = i - 1 /\ \A j \in 1..(i - 1) : l[j] = s[j]
      /\ r \in Seq(S) /\ Len(r) = Len(s) - i /\ \A j \in 1..(Len(s) - i) : r[j] = s[i + j]
  OBVIOUS
<1>2. RemoveAt(s, i) = l \o r
  BY DEF RemoveAt
<1> HIDE DEF l, r
<1>3. /\ l \o r \in Seq(S) /\ Len(l \o r) = Len(s) - 1
      /\ \A j \in 1..(Len(s) - 1) : (l \o r)[j] = IF j <= i - 1 THEN l[j] ELSE r[j - (i - 1)]
  <2>1. /\ l \o r \in Seq(S) /\ Len(l \o r) = Len(l) + Len(r)
        /\ \A j \in 1..(Len(l) + Len(r)) :
             (l \o r)[j] = IF j <= Len(l) THEN l[j] ELSE r[j - Len(l)]
    BY <1>1, ConcatProperties
  <2>2. Len(l) + Len(r) = Len(s) - 1
    BY <1>1
  <2> QED
    BY <1>1, <2>1, <2>2
<1>4. \A j \in 1..(Len(s) - 1) : (l \o r)[j] = s[IF j < i THEN j ELSE j + 1]
  <2> TAKE j \in 1..(Len(s) - 1)
  <2>1. CASE j < i
    BY <1>1, <1>3, <2>1
  <2>2. CASE j >= i
    <3>1. j - (i - 1) \in 1..(Len(s) - i) /\ i + (j - (i - 1)) = j + 1 /\ ~(j <= i - 1)
      BY <2>2
    <3>2. (l \o r)[j] = r[j - (i - 1)]
      BY <1>3, <3>1
    <3> QED
      BY <1>1, <2>2, <3>1, <3>2
  <2>3. j < i \/ j >= i
    OBVIOUS
  <2> QED
    BY <2>1, <2>2, <2>3
<1> QED
  BY <1>2, <1>3, <1>4

(* Dropping an entry from a list without twins leaves no twins. *)
LEMMA NoTwins ==
  ASSUME NEW s, Len(s) \in Nat, \A a, b \in 1..Len(s) : s[a] = s[b] => a = b,
         NEW i \in 1..Len(s), NEW t, Len(t) = Len(s) - 1,
         \A a \in 1..(Len(s) - 1) : t[a] = s[IF a < i THEN a ELSE a + 1]
  PROVE  \A j, k \in 1..Len(t) : t[j] = t[k] => j = k
<1> SUFFICES ASSUME NEW j \in 1..Len(t), NEW k \in 1..Len(t), t[j] = t[k]
             PROVE  j = k
  OBVIOUS
<1>1. PICK a : a = IF j < i THEN j ELSE j + 1
  OBVIOUS
<1>2. PICK b : b = IF k < i THEN k ELSE k + 1
  OBVIOUS
<1>3. j \in 1..(Len(s) - 1) /\ k \in 1..(Len(s) - 1)
  OBVIOUS
<1>4. t[j] = s[a] /\ t[k] = s[b]
  BY <1>1, <1>2, <1>3
<1>5. a \in 1..Len(s) /\ b \in 1..Len(s)
  BY <1>1, <1>2, <1>3
<1>6. a = b
  BY <1>4, <1>5
<1> QED
  BY <1>1, <1>2, <1>3, <1>6

LEMMA PutAt ==
  ASSUME NEW S, NEW s \in Seq(S), NEW i \in 1..Len(s), NEW e \in S
  PROVE  /\ InsertAt(s, i, e) \in Seq(S) /\ Len(InsertAt(s, i, e)) = Len(s) + 1
         /\ \A j \in 1..(Len(s) + 1) :
              InsertAt(s, i, e)[j] = IF j < i THEN s[j] ELSE IF j = i THEN e ELSE s[j - 1]
<1> DEFINE l == SubSeq(s, 1, i - 1)
           r == SubSeq(s, i, Len(s))
           h == l \o <<e>>
<1>1. /\ l \in Seq(S) /\ Len(l) = i - 1 /\ \A j \in 1..(i - 1) : l[j] = s[j]
      /\ r \in Seq(S) /\ Len(r) = Len(s) - i + 1 /\ \A j \in 1..(Len(s) - i + 1) : r[j] = s[i + j - 1]
      /\ <<e>> \in Seq(S) /\ Len(<<e>>) = 1 /\ <<e>>[1] = e
  OBVIOUS
<1>2. InsertAt(s, i, e) = h \o r
  BY DEF InsertAt
<1> HIDE DEF l, r
<1>3. /\ h \in Seq(S) /\ Len(h) = i /\ h[i] = e /\ \A j \in 1..(i - 1) : h[j] = s[j]
  <2>1. /\ h \in Seq(S) /\ Len(h) = Len(l) + 1
        /\ \A j \in 1..(Len(l) + 1) : h[j] = IF j <= Len(l) THEN l[j] ELSE <<e>>[j - Len(l)]
    <3>1. l \in Seq(S) /\ <<e>> \in Seq(S) /\ Len(<<e>>) = 1
      BY <1>1
    <3> QED
      BY <3>1, ConcatProperties
  <2>2. i \in 1..(Len(l) + 1) /\ ~(i <= Len(l)) /\ i - Len(l) = 1
    BY <1>1
  <2>3. h[i] = e
    BY <1>1, <2>1, <2>2
  <2>4. \A j \in 1..(i - 1) : h[j] = s[j]
    BY <1>1, <2>1
  <2> QED
    BY <1>1, <2>1, <2>3, <2>4
<1> HIDE DEF h
<1>4. /\ h \o r \in Seq(S) /\ Len(h \o r) = Len(s) + 1
      /\ \A j \in 1..(Len(s) + 1) : (h \o r)[j] = IF j <= i THEN h[j] ELSE r[j - i]
  <2>1. /\ h \o r \in Seq(S) /\ Len(h \o r) = Len(h) + Len(r)
        /\ \A j \in 1..(Len(h) + Len(r)) :
             (h \o r)[j] = IF j <= Len(h) THEN h[j] ELSE r[j - Len(h)]
    <3>1. h \in Seq(S) /\ r \in Seq(S)
      BY <1>1, <1>3
    <3> QED
      BY <3>1, ConcatProperties
  <2>2. Len(h) + Len(r) = Len(s) + 1
    BY <1>1, <1>3
  <2> QED
    BY <1>3, <2>1, <2>2
<1>5. ASSUME NEW j \in 1..(Len(s) + 1)
      PROVE  (h \o r)[j] = IF j < i THEN s[j] ELSE IF j = i THEN e ELSE s[j - 1]
  <2>1. CASE j < i
    BY <1>3, <1>4, <2>1
  <2>2. CASE j = i
    BY <1>3, <1>4, <2>2
  <2>3. CASE j > i
    <3>1. j - i \in 1..(Len(s) - i + 1) /\ i + (j - i) - 1 = j - 1 /\ ~(j <= i)
      BY <2>3
    <3>2. (h \o r)[j] = r[j - i]
      BY <1>4, <3>1
    <3> QED
      BY <1>1, <2>3, <3>1, <3>2
  <2>4. j < i \/ j = i \/ j > i
    OBVIOUS
  <2> QED
    BY <2>1, <2>2, <2>3, <2>4
<1> QED
  BY <1>2, <1>4, <1>5

LEMMA HeldRemove ==
  ASSUME NEW l \in Lists, NEW si \in Places, NEW li \in 1..Len(l[si]),
         NEW m, Shorter(l, m, si, li)
  PROVE  /\ m \in Lists /\ <<si, Len(l[si])>> \notin Held(m)
         /\ Held(l) = Held(m) \cup {<<si, Len(l[si])>>}
         /\ \A s \in Held(m) : m[s[1]][s[2]] =
              l[s[1]][IF s[1] = si /\ s[2] >= li THEN s[2] + 1 ELSE s[2]]
<1> DEFINE k == Len(l[si])
<1>1. l \in [Places -> Seq(Lessons)] /\ l[si] \in Seq(Lessons) /\ k \in Nat /\ k <= MaxLessons /\ k >= 1
  BY DEF Lists
<1>2. /\ RemoveAt(l[si], li) \in Seq(Lessons) /\ Len(RemoveAt(l[si], li)) = k - 1
      /\ \A j \in 1..(k - 1) : RemoveAt(l[si], li)[j] = l[si][IF j < li THEN j ELSE j + 1]
  BY <1>1, DropAt
<1>3. /\ m[si] = RemoveAt(l[si], li) /\ \A i \in Places \ {si} : m[i] = l[i]
      /\ m \in [Places -> Seq(Lessons)]
  BY DEF Shorter
<1>4. m \in Lists
  <2>1. ASSUME NEW i \in Places
        PROVE  Len(m[i]) <= MaxLessons
    <3>1. CASE i = si
      BY <1>1, <1>2, <1>3, <3>1, WizardBounds
    <3>2. CASE i # si
      BY <1>3, <3>2 DEF Lists
    <3> QED
      BY <3>1, <3>2
  <2> QED
    BY <1>3, <2>1 DEF Lists
<1> HIDE DEF k
<1>5. k \in Spots /\ k \in Nat
  BY <1>1, WizardBounds DEF Spots
<1>6. Len(m[si]) = k - 1 /\ Len(l[si]) = k
  BY <1>2, <1>3 DEF k
<1>7. Held(l) = Held(m) \cup {<<si, k>>}
  <2>1. ASSUME NEW s \in Places \X Spots
        PROVE  s[2] <= Len(l[s[1]]) <=> s[2] <= Len(m[s[1]]) \/ s = <<si, k>>
    <3>1. s[1] \in Places /\ s[2] \in Int /\ s = <<s[1], s[2]>>
      BY DEF Spots
    <3>2. CASE s[1] = si
      <4>1. s[2] <= k <=> s[2] <= k - 1 \/ s[2] = k
        BY <1>5, <3>1
      <4> QED
        BY <1>6, <3>1, <3>2, <4>1
    <3>3. CASE s[1] # si
      BY <1>3, <3>1, <3>3
    <3> QED
      BY <3>2, <3>3
  <2>2. <<si, k>> \in Places \X Spots
    BY <1>5
  <2> QED
    BY <2>1, <2>2 DEF Held
<1>8. <<si, k>> \notin Held(m)
  BY <1>5, <1>6 DEF Held
<1>9. ASSUME NEW s \in Held(m)
      PROVE  m[s[1]][s[2]] = l[s[1]][IF s[1] = si /\ s[2] >= li THEN s[2] + 1 ELSE s[2]]
  <2>1. s[1] \in Places /\ s[2] \in 1..Len(m[s[1]])
    BY <1>4, HeldType
  <2>2. CASE s[1] = si
    <3>1. s[2] \in 1..(k - 1) /\ li \in Int /\ s[2] \in Int
      BY <1>6, <2>1, <2>2
    <3>2. m[si][s[2]] = l[si][IF s[2] < li THEN s[2] ELSE s[2] + 1]
      BY <1>2, <1>3, <3>1
    <3>3. s[2] < li <=> ~(s[2] >= li)
      BY <3>1
    <3> QED
      BY <2>2, <3>2, <3>3
  <2>3. CASE s[1] # si
    BY <1>3, <2>1, <2>3
  <2> QED
    BY <2>2, <2>3
<1> QED
  BY <1>4, <1>7, <1>8, <1>9 DEF k

(* Where a section is removed, those behind it move up by one.              *)
LEMMA HeldClosed ==
  ASSUME NEW l \in Lists, NEW n \in 1..MaxSections, NEW index \in 1..n,
         \A i \in Places : i > n => l[i] = <<>>,
         NEW m, m = Closed(l, n - 1, index)
  PROVE  /\ m \in Lists
         /\ \A i \in Places : m[i] = IF i > n - 1 THEN <<>> ELSE IF i >= index THEN l[i + 1] ELSE l[i]
         /\ Cardinality(Held(m)) <= Cardinality(Held(l))
         /\ l[index] = <<>> =>
              /\ Cardinality(Held(m)) = Cardinality(Held(l))
              /\ \A s \in Held(m) : LET t == IF s[1] >= index THEN <<s[1] + 1, s[2]>> ELSE s
                                    IN  /\ t \in Held(l) /\ At(m, s) = At(l, t)
                                        /\ m[s[1]][s[2]] = l[t[1]][t[2]]
<1> DEFINE up(s) == IF s[1] >= index THEN <<s[1] + 1, s[2]>> ELSE s
<1>1. n \in Nat /\ index \in Nat /\ n <= MaxSections /\ index <= n /\ index >= 1 /\ MaxSections \in Nat
  BY WizardBounds
<1>2. \A i \in Places : m[i] = IF i > n - 1 THEN <<>> ELSE IF i >= index THEN l[i + 1] ELSE l[i]
  BY DEF Closed
<1>3. m \in Lists
  <2>1. ASSUME NEW i \in Places
        PROVE  m[i] \in Seq(Lessons) /\ Len(m[i]) <= MaxLessons
    <3>1. i \in Int /\ (~(i > n - 1) => i + 1 \in Places)
      BY <1>1 DEF Places
    <3>2. <<>> \in Seq(Lessons) /\ Len(<<>>) <= MaxLessons
      BY WizardBounds
    <3> QED
      BY <1>2, <3>1, <3>2 DEF Lists
  <2>2. m = [i \in Places |-> IF i > n - 1 THEN <<>> ELSE IF i >= index THEN l[i + 1] ELSE l[i]]
    BY DEF Closed
  <2> QED
    BY <2>1, <2>2 DEF Lists
<1>4. ASSUME NEW s \in Held(m)
      PROVE  /\ up(s) \in Held(l) /\ m[s[1]] = l[up(s)[1]] /\ up(s)[2] = s[2]
             /\ s[1] \in Int /\ s = <<s[1], s[2]>>
  <2>1. s[1] \in Places /\ s[2] \in Spots /\ s[2] <= Len(m[s[1]]) /\ s = <<s[1], s[2]>> /\ s[1] \in Int
        /\ s[2] \in Int /\ s[2] >= 1
    BY DEF Held, Places, Spots
  <2>2. ~(s[1] > n - 1)
    <3>1. s[1] > n - 1 => Len(m[s[1]]) = 0
      BY <1>2, <2>1
    <3> QED
      BY <2>1, <3>1
  <2>3. CASE s[1] >= index
    <3>1. s[1] + 1 \in Places /\ m[s[1]] = l[s[1] + 1] /\ up(s) = <<s[1] + 1, s[2]>>
      BY <1>1, <1>2, <2>1, <2>2, <2>3 DEF Places
    <3> QED
      BY <2>1, <3>1 DEF Held
  <2>4. CASE ~(s[1] >= index)
    <3>1. m[s[1]] = l[s[1]] /\ up(s) = s
      BY <1>2, <2>1, <2>2, <2>4
    <3> QED
      BY <2>1, <3>1 DEF Held
  <2> QED
    BY <2>3, <2>4
<1>5. ASSUME NEW t \in Held(l), t[1] # index
      PROVE  \E s \in Held(m) : up(s) = t
  <2>1. t[1] \in Places /\ t[2] \in Spots /\ t[2] <= Len(l[t[1]]) /\ t = <<t[1], t[2]>> /\ t[1] \in Int
        /\ t[2] \in Int /\ t[2] >= 1
    BY DEF Held, Places, Spots
  <2>2. ~(t[1] > n)
    <3>1. t[1] > n => Len(l[t[1]]) = 0
      BY <2>1
    <3> QED
      BY <2>1, <3>1
  <2>3. CASE t[1] > index
    <3>1. /\ t[1] - 1 \in Places /\ t[1] - 1 >= index /\ ~(t[1] - 1 > n - 1) /\ (t[1] - 1) + 1 = t[1]
      BY <1>1, <2>1, <2>2, <2>3 DEF Places
    <3>2. m[t[1] - 1] = l[t[1]]
      BY <1>2, <3>1
    <3>3. <<t[1] - 1, t[2]>> \in Held(m)
      BY <2>1, <3>1, <3>2 DEF Held
    <3>4. up(<<t[1] - 1, t[2]>>) = t
      BY <2>1, <3>1
    <3> QED
      BY <3>3, <3>4
  <2>4. CASE t[1] < index
    <3>1. ~(t[1] > n - 1) /\ ~(t[1] >= index)
      BY <1>1, <2>1, <2>4
    <3>2. m[t[1]] = l[t[1]]
      BY <1>2, <2>1, <3>1
    <3>3. t \in Held(m) /\ up(t) = t
      BY <2>1, <3>1, <3>2 DEF Held
    <3> QED
      BY <3>3
  <2> QED
    BY <1>1, <1>5, <2>1, <2>3, <2>4
<1>6. ASSUME NEW s \in Held(m), NEW t \in Held(m), up(s) = up(t)
      PROVE  s = t
  <2>1. s[1] \in Int /\ t[1] \in Int /\ s = <<s[1], s[2]>> /\ t = <<t[1], t[2]>> /\ index \in Int
    <3>1. index \in Int
      BY <1>1
    <3> HIDE DEF up
    <3> QED
      BY <1>4, <3>1
  <2>2. s[2] = t[2]
    BY <1>4, <1>6
  <2>3. up(s)[1] = up(t)[1]
    BY <1>6
  <2>4. up(s)[1] = (IF s[1] >= index THEN s[1] + 1 ELSE s[1])
        /\ up(t)[1] = (IF t[1] >= index THEN t[1] + 1 ELSE t[1])
    OBVIOUS
  <2>5. s[1] = t[1]
    BY <2>1, <2>3, <2>4
  <2> QED
    BY <2>1, <2>2, <2>5
<1>7. ASSUME NEW i \in Int, NEW k \in Int, k = IF i >= index THEN i + 1 ELSE i
      PROVE  LET S == {s \in Held(m) : s[1] < i}
                 T == {t \in Held(l) : t[1] < k}
                 f == [s \in S |-> up(s)]
             IN  /\ f \in Injection(S, T)
                 /\ l[index] = <<>> => f \in Surjection(S, T)
  <2> DEFINE S == {s \in Held(m) : s[1] < i}
             T == {t \in Held(l) : t[1] < k}
             f == [s \in S |-> up(s)]
  <2>1. ASSUME NEW s \in Held(m)
        PROVE  up(s)[1] < k <=> s[1] < i
    <3>1. s[1] \in Int /\ index \in Int
      <4>1. index \in Int
        BY <1>1
      <4> HIDE DEF up
      <4> QED
        BY <1>4, <4>1
    <3>2. up(s)[1] = IF s[1] >= index THEN s[1] + 1 ELSE s[1]
      OBVIOUS
    <3> HIDE DEF up
    <3> QED
      BY <1>7, <3>1, <3>2
  <2>2. \A s \in S : up(s) \in T
    BY <1>4, <2>1
  <2>3. f \in Injection(S, T)
    <3>1. f \in [S -> T]
      BY <2>2
    <3>2. \A s, t \in S : f[s] = f[t] => s = t
      <4> HIDE DEF up
      <4> QED
        BY <1>6
    <3> HIDE DEF f, S, T
    <3> QED
      BY <3>1, <3>2 DEF Injection, IsInjective
  <2>4. ASSUME l[index] = <<>>
        PROVE  f \in Surjection(S, T)
    <3>1. ASSUME NEW t \in T
          PROVE  \E s \in S : f[s] = t
      <4>1. t[1] # index
        <5>1. t[2] \in Int /\ t[2] >= 1 /\ t[2] <= Len(l[t[1]])
          BY DEF Held, Spots
        <5> QED
          BY <2>4, <5>1
      <4>2. PICK s \in Held(m) : up(s) = t
        BY <1>5, <4>1
      <4>3. s \in S
        BY <2>1, <4>2
      <4> HIDE DEF up
      <4> QED
        BY <4>2, <4>3
    <3>2. f \in [S -> T]
      BY <2>2
    <3> HIDE DEF f, S, T
    <3> QED
      BY <3>1, <3>2 DEF Surjection
  <2> QED
    BY <2>3, <2>4
<1>8. ASSUME NEW i \in Int, NEW k \in Int, k = IF i >= index THEN i + 1 ELSE i
      PROVE  /\ Rank(m, i) <= Rank(l, k)
             /\ l[index] = <<>> => Rank(m, i) = Rank(l, k)
  <2> DEFINE S == {s \in Held(m) : s[1] < i}
             T == {t \in Held(l) : t[1] < k}
             f == [s \in S |-> up(s)]
  <2>1. f \in Injection(S, T) /\ (l[index] = <<>> => f \in Surjection(S, T))
    BY <1>7, <1>8
  <2>2. IsFiniteSet(T) /\ Rank(m, i) = Cardinality(S) /\ Rank(l, k) = Cardinality(T)
    BY HeldFinite DEF Rank
  <2> HIDE DEF S, T, f
  <2>3. Cardinality(S) <= Cardinality(T) /\ (Cardinality(S) = Cardinality(T) <=> f \in Surjection(S, T))
    BY <2>1, <2>2, FS_Injection
  <2> QED
    BY <2>1, <2>2, <2>3
<1>9. /\ Cardinality(Held(m)) <= Cardinality(Held(l))
      /\ l[index] = <<>> => Cardinality(Held(m)) = Cardinality(Held(l))
  <2>1. /\ {s \in Held(m) : s[1] < MaxSections + 1} = Held(m)
        /\ {s \in Held(l) : s[1] < MaxSections + 1 + 1} = Held(l)
    BY <1>1 DEF Held, Places
  <2>2. /\ Rank(m, MaxSections + 1) = Cardinality(Held(m))
        /\ Rank(l, MaxSections + 1 + 1) = Cardinality(Held(l))
    BY <2>1 DEF Rank
  <2>3. /\ Rank(m, MaxSections + 1) <= Rank(l, MaxSections + 1 + 1)
        /\ l[index] = <<>> => Rank(m, MaxSections + 1) = Rank(l, MaxSections + 1 + 1)
    BY <1>1, <1>8
  <2> QED
    BY <2>2, <2>3
<1>10. ASSUME l[index] = <<>>, NEW s \in Held(m)
       PROVE  up(s) \in Held(l) /\ At(m, s) = At(l, up(s)) /\ m[s[1]][s[2]] = l[up(s)[1]][up(s)[2]]
  <2>1. up(s) \in Held(l) /\ m[s[1]] = l[up(s)[1]] /\ up(s)[2] = s[2] /\ s[1] \in Int
    BY <1>4
  <2>2. up(s)[1] = IF s[1] >= index THEN s[1] + 1 ELSE s[1]
    OBVIOUS
  <2> HIDE DEF up
  <2>3. up(s)[1] \in Int
    BY <2>1, <2>2
  <2>4. Rank(m, s[1]) = Rank(l, up(s)[1])
    BY <1>8, <1>10, <2>1, <2>2, <2>3
  <2> QED
    BY <2>1, <2>4 DEF At
<1> QED
  BY <1>2, <1>3, <1>9, <1>10
-----------------------------------------------------------------------------
(* Splicing lessonIds where a lesson is put or taken out keeps it fitting.  *)
MaybeIds == Ids \cup {None}

LEMMA SlotsAre ==
  ASSUME NEW l \in Lists, NEW n \in Nat, \A i \in Places : i > n => l[i] = <<>>
  PROVE  {s \in Places \X Spots : s[1] <= n /\ s[2] <= Len(l[s[1]])} = Held(l)
<1> SUFFICES ASSUME NEW s \in Places \X Spots, s[2] <= Len(l[s[1]])
             PROVE  s[1] <= n
  BY DEF Held
<1>1. s[1] \in Int /\ s[1] \in Places /\ s[2] \in Int /\ s[2] >= 1
  BY DEF Places, Spots
<1>2. s[1] > n => Len(l[s[1]]) = 0
  BY <1>1
<1> QED
  BY <1>1, <1>2

(* A lesson of an earlier list is before all of a list, one of a later list *)
(* behind all of it.                                                        *)
LEMMA BeforeOrBehind ==
  ASSUME NEW l \in Lists, NEW s \in Held(l), NEW i \in Places
  PROVE  /\ s[1] < i => At(l, s) <= Rank(l, i)
         /\ s[1] > i => At(l, s) > Rank(l, i) + Len(l[i])
         /\ s[1] = i => At(l, s) = Rank(l, i) + s[2]
         /\ At(l, s) \in Int
<1>1. /\ s[1] \in Int /\ s[1] \in Places /\ s[2] \in Int /\ s[2] >= 1 /\ s[2] <= Len(l[s[1]]) /\ i \in Int
  BY HeldType DEF Places, Spots
<1>2. Rank(l, s[1]) \in Nat /\ Rank(l, i) \in Nat
  BY HeldFinite
<1>3. Len(l[s[1]]) \in Nat /\ Len(l[i]) \in Nat
  BY <1>1, ListPlaces
<1>4. At(l, s) = Rank(l, s[1]) + s[2]
  BY DEF At
<1>5. s[1] < i => Rank(l, s[1]) + Len(l[s[1]]) <= Rank(l, i)
  BY <1>1, RankStep
<1>6. s[1] > i => Rank(l, i) + Len(l[i]) <= Rank(l, s[1])
  BY <1>1, RankStep
<1>7. CASE s[1] < i
  BY <1>1, <1>2, <1>3, <1>4, <1>5, <1>7
<1>8. CASE s[1] > i
  BY <1>1, <1>2, <1>3, <1>4, <1>6, <1>8
<1>9. CASE s[1] = i
  BY <1>1, <1>2, <1>3, <1>4, <1>9
<1> QED
  BY <1>1, <1>7, <1>8, <1>9

LEMMA MatchedMore ==
  ASSUME NEW l \in Lists, NEW m \in Lists, NEW si \in Places, NEW n,
         n[1] = si, n[2] = Len(l[si]) + 1, n \notin Held(l), Held(m) = Held(l) \cup {n},
         \A s \in Held(l) : m[s[1]][s[2]] = l[s[1]][s[2]],
         NEW list, NEW table, Matched(l, list, table), Len(list) \in Nat,
         NEW at, at = Rank(l, si) + (Len(l[si]) + 1), NEW spliced, Len(spliced) = Len(list) + 1,
         \A j \in 1..(Len(list) + 1) :
           spliced[j] = IF j < at THEN list[j] ELSE IF j = at THEN None ELSE list[j - 1]
  PROVE  Matched(m, spliced, table)
<1>1. si \in Int /\ Len(l[si]) \in Nat
  BY ListPlaces DEF Places
<1>2. n[1] \in Int
  BY <1>1
<1>3. /\ Cardinality(Held(m)) = Cardinality(Held(l)) + 1
      /\ \A i \in Int : Rank(m, i) = IF i <= si THEN Rank(l, i) ELSE Rank(l, i) + 1
  BY <1>2, OneMore
<1>4. Len(list) = Cardinality(Held(l))
  BY DEF Matched
<1>5. at \in 1..(Len(list) + 1)
  <2>1. Rank(l, si) \in Nat
    BY HeldFinite
  <2>2. Rank(l, si) + Len(l[si]) <= Len(list)
    BY <1>4, RankStep
  <2>3. at = Rank(l, si) + (Len(l[si]) + 1)
    OBVIOUS
  <2>4. Len(list) \in Nat
    OBVIOUS
  <2> QED
    BY <1>1, <2>1, <2>2, <2>3, <2>4
<1>7. ASSUME NEW s \in Held(l)
      PROVE  spliced[At(m, s)] = list[At(l, s)]
  <2>1. s[1] \in Int /\ s[1] \in Places /\ s[2] \in Int /\ s[2] >= 1 /\ s[2] <= Len(l[s[1]])
    BY HeldType DEF Places, Spots
  <2>2. At(l, s) \in 1..Len(list)
    BY <1>4, IndexRange
  <2>3. Rank(l, s[1]) \in Nat /\ Rank(l, si) \in Nat
    BY HeldFinite
  <2>4. Len(l[s[1]]) \in Nat
    BY <2>1, ListPlaces
  <2>5. At(l, s) = Rank(l, s[1]) + s[2] /\ At(m, s) = Rank(m, s[1]) + s[2]
    BY DEF At
  <2>6. Rank(m, s[1]) = IF s[1] <= si THEN Rank(l, s[1]) ELSE Rank(l, s[1]) + 1
    BY <1>3, <2>1
  <2>7. s[1] < si => Rank(l, s[1]) + Len(l[s[1]]) <= Rank(l, si)
    BY <1>1, <2>1, RankStep
  <2>8. si < s[1] => Rank(l, si) + Len(l[si]) <= Rank(l, s[1])
    BY <1>1, <2>1, RankStep
  <2>9. CASE s[1] <= si
    <3>1. At(m, s) = At(l, s)
      BY <2>5, <2>6, <2>9
    <3>2. At(l, s) < at
      <4>1. CASE s[1] = si
        <5>1. Rank(l, s[1]) = Rank(l, si) /\ s[2] <= Len(l[si])
          BY <2>1, <4>1
        <5> QED
          BY <1>1, <2>1, <2>3, <2>5, <5>1
      <4>2. CASE s[1] < si
        <5>1. At(l, s) <= Rank(l, si) /\ At(l, s) \in Int
          BY <4>2, BeforeOrBehind
        <5> QED
          BY <1>1, <2>3, <5>1
      <4> QED
        BY <1>1, <2>1, <2>9, <4>1, <4>2
    <3> QED
      BY <2>2, <3>1, <3>2
  <2>10. CASE ~(s[1] <= si)
    <3>1. At(m, s) = At(l, s) + 1
      <4> DEFINE a == Rank(m, s[1])
                 b == Rank(l, s[1])
                 c == s[2]
      <4>1. a = b + 1 /\ b \in Int /\ c \in Int /\ At(l, s) = b + c /\ At(m, s) = a + c
        BY <2>1, <2>3, <2>5, <2>6, <2>10
      <4> HIDE DEF a, b, c
      <4> QED
        BY <4>1
    <3>2. At(l, s) >= at
      <4>1. s[1] > si
        BY <1>1, <2>1, <2>10
      <4>2. At(l, s) > Rank(l, si) + Len(l[si]) /\ At(l, s) \in Int
        BY <4>1, BeforeOrBehind
      <4> QED
        BY <1>1, <2>3, <4>2
    <3>3. /\ At(l, s) + 1 \in 1..(Len(list) + 1) /\ ~(At(l, s) + 1 < at) /\ At(l, s) + 1 # at
          /\ (At(l, s) + 1) - 1 = At(l, s)
      BY <1>5, <2>2, <3>2
    <3> QED
      BY <3>1, <3>3
  <2> QED
    BY <2>9, <2>10
<1>8. spliced[At(m, n)] = None
  <2>1. Rank(m, n[1]) = Rank(l, si)
    BY <1>1, <1>3
  <2>2. At(m, n) = at
    BY <2>1 DEF At
  <2>3. at \in 1..(Len(list) + 1) /\ ~(at < at)
    BY <1>5
  <2> QED
    BY <2>2, <2>3
<1>9. ASSUME NEW s \in Held(m), spliced[At(m, s)] # None
      PROVE  \E r \in table : r.id = spliced[At(m, s)] /\ r.title = m[s[1]][s[2]]
  <2>1. s \in Held(l)
    BY <1>8, <1>9
  <2>2. spliced[At(m, s)] = list[At(l, s)] /\ m[s[1]][s[2]] = l[s[1]][s[2]]
    BY <1>7, <2>1
  <2>3. \E r \in table : r.id = list[At(l, s)] /\ r.title = l[s[1]][s[2]]
    BY <1>9, <2>1, <2>2 DEF Matched
  <2> QED
    BY <2>2, <2>3
<1>10. Len(spliced) = Cardinality(Held(m))
  BY <1>3, <1>4
<1> QED
  BY <1>9, <1>10 DEF Matched

LEMMA MatchedLess ==
  ASSUME NEW l \in Lists, NEW m \in Lists, NEW si \in Places, NEW li \in 1..Len(l[si]), NEW n,
         n[1] = si, n[2] = Len(l[si]), n \notin Held(m), Held(l) = Held(m) \cup {n},
         \A s \in Held(m) : m[s[1]][s[2]] =
           l[s[1]][IF s[1] = si /\ s[2] >= li THEN s[2] + 1 ELSE s[2]],
         NEW list, NEW table, Matched(l, list, table), Len(list) \in Nat,
         NEW at, at = Rank(l, si) + li, NEW spliced, Len(spliced) = Len(list) - 1,
         \A j \in 1..(Len(list) - 1) : spliced[j] = list[IF j < at THEN j ELSE j + 1]
  PROVE  Matched(m, spliced, table)
<1> DEFINE Was(s) == <<s[1], IF s[1] = si /\ s[2] >= li THEN s[2] + 1 ELSE s[2]>>
<1>1. si \in Int /\ Len(l[si]) \in Nat /\ li \in Int /\ 1 <= li /\ li <= Len(l[si])
  BY ListPlaces DEF Places
<1>2. n[1] \in Int
  BY <1>1
<1>3. /\ Cardinality(Held(l)) = Cardinality(Held(m)) + 1
      /\ \A i \in Int : Rank(l, i) = IF i <= si THEN Rank(m, i) ELSE Rank(m, i) + 1
  BY <1>2, OneMore
<1>4. Len(list) = Cardinality(Held(l)) /\ Cardinality(Held(m)) \in Nat
  BY HeldFinite DEF Matched
<1>5. at \in 1..Len(list)
  <2>1. Rank(l, si) \in Nat
    BY HeldFinite
  <2>2. Rank(l, si) + Len(l[si]) <= Len(list)
    BY <1>4, RankStep
  <2> QED
    BY <1>1, <2>1, <2>2
<1>7. ASSUME NEW s \in Held(m)
      PROVE  Was(s) \in Held(l) /\ spliced[At(m, s)] = list[At(l, Was(s))]
  <2>1. /\ s[1] \in Int /\ s[1] \in Places /\ s[2] \in Int /\ s[2] >= 1 /\ s \in Held(l)
        /\ s = <<s[1], s[2]>> /\ s[2] <= Len(l[s[1]])
    <3>1. s \in Held(l)
      OBVIOUS
    <3> QED
      BY <3>1, HeldType DEF Places, Spots
  <2>2. At(m, s) \in 1..(Len(list) - 1)
    <3>1. At(m, s) \in 1..Cardinality(Held(m))
      BY IndexRange
    <3>2. Cardinality(Held(m)) = Len(list) - 1
      BY <1>3, <1>4
    <3> QED
      BY <3>1, <3>2
  <2>3. Rank(m, s[1]) \in Nat /\ Rank(l, s[1]) \in Nat /\ Rank(l, si) \in Nat
    BY HeldFinite
  <2>4. Len(l[s[1]]) \in Nat
    BY <2>1, ListPlaces
  <2>5. At(m, s) = Rank(m, s[1]) + s[2] /\ At(l, s) = Rank(l, s[1]) + s[2]
    BY DEF At
  <2>6. Rank(l, s[1]) = IF s[1] <= si THEN Rank(m, s[1]) ELSE Rank(m, s[1]) + 1
    BY <1>3, <2>1
  <2>7. s[1] < si => Rank(l, s[1]) + Len(l[s[1]]) <= Rank(l, si)
    BY <1>1, <2>1, RankStep
  <2>8. si < s[1] => Rank(l, si) + Len(l[si]) <= Rank(l, s[1])
    BY <1>1, <2>1, RankStep
  <2>9. CASE s[1] = si /\ s[2] >= li
    <3>1. Was(s) = <<s[1], s[2] + 1>>
      BY <2>9
    <3>2. s # n
      OBVIOUS
    <3>3. n \in Held(l)
      OBVIOUS
    <3>4. n = <<n[1], n[2]>>
      BY <3>3, HeldType
    <3>5. s[2] # Len(l[si])
      BY <2>1, <2>9, <3>2, <3>4
    <3>6. s[2] + 1 \in 1..Len(l[s[1]])
      BY <1>1, <2>1, <2>4, <2>9, <3>5
    <3>7. <<s[1], s[2] + 1>> \in Held(l)
      BY <2>1, <3>6, ListPlaces
    <3>8. At(l, <<s[1], s[2] + 1>>) = Rank(l, s[1]) + (s[2] + 1)
      BY DEF At
    <3>9. Rank(l, s[1]) = Rank(m, s[1]) /\ Rank(l, s[1]) = Rank(l, si)
      BY <1>1, <2>1, <2>6, <2>9
    <3>10. At(m, s) >= at /\ At(l, <<s[1], s[2] + 1>>) = At(m, s) + 1
      BY <1>1, <2>1, <2>3, <2>5, <2>9, <3>8, <3>9
    <3>11. spliced[At(m, s)] = list[At(m, s) + 1]
      <4>1. ~(At(m, s) < at)
        BY <1>5, <2>2, <3>10
      <4> QED
        BY <2>2, <4>1
    <3> QED
      BY <3>1, <3>7, <3>10, <3>11
  <2>10. CASE ~(s[1] = si /\ s[2] >= li)
    <3>1. Was(s) = s
      BY <2>1, <2>10
    <3> HIDE DEF Was
    <3>2. CASE s[1] <= si
      <4>1. At(m, s) = At(l, s)
        BY <2>5, <2>6, <3>2
      <4>2. At(m, s) < at
        <5>1. CASE s[1] = si
          <6>1. Rank(l, s[1]) = Rank(l, si) /\ s[2] < li
            BY <1>1, <2>1, <2>10, <5>1
          <6> QED
            BY <1>1, <2>1, <2>3, <2>5, <4>1, <6>1
        <5>2. CASE s[1] < si
          BY <1>1, <2>1, <2>3, <2>4, <2>5, <2>7, <4>1, <5>2
        <5> QED
          BY <1>1, <2>1, <3>2, <5>1, <5>2
      <4> QED
        BY <2>1, <2>2, <3>1, <4>1, <4>2
    <3>3. CASE ~(s[1] <= si)
      <4>1. At(l, s) = At(m, s) + 1
        BY <2>1, <2>3, <2>5, <2>6, <3>3
      <4>2. At(l, s) > at
        <5>1. Rank(l, si) + Len(l[si]) <= Rank(l, s[1])
          BY <1>1, <2>1, <2>8, <3>3
        <5>2. at = Rank(l, si) + li /\ li \in 1..Len(l[si])
          OBVIOUS
        <5>3. at <= Rank(l, s[1])
          BY <1>1, <2>3, <5>1, <5>2
        <5> QED
          BY <1>1, <2>1, <2>3, <2>5, <5>2, <5>3
      <4>3. ~(At(m, s) < at)
        BY <1>5, <2>2, <4>1, <4>2
      <4> QED
        BY <2>1, <2>2, <3>1, <4>1, <4>3
    <3> QED
      BY <3>2, <3>3
  <2> QED
    BY <2>9, <2>10
<1>8. ASSUME NEW s \in Held(m), spliced[At(m, s)] # None
      PROVE  \E r \in table : r.id = spliced[At(m, s)] /\ r.title = m[s[1]][s[2]]
  <2>1. Was(s) \in Held(l) /\ spliced[At(m, s)] = list[At(l, Was(s))]
    BY <1>7
  <2>2. m[s[1]][s[2]] = l[Was(s)[1]][Was(s)[2]]
    OBVIOUS
  <2> HIDE DEF Was
  <2> QED
    BY <1>8, <2>1, <2>2 DEF Matched
<1>9. Len(spliced) = Cardinality(Held(m))
  BY <1>3, <1>4
<1> QED
  BY <1>8, <1>9 DEF Matched

LEMMA PutOrAppend ==
  ASSUME NEW S, NEW list \in Seq(S), NEW e \in S, NEW at \in 1..(Len(list) + 1),
         NEW res, at > Len(list) => res = Append(list, e),
         ~(at > Len(list)) => res = InsertAt(list, at, e)
  PROVE  /\ Len(res) = Len(list) + 1 /\ res \in Seq(S)
         /\ \A j \in 1..(Len(list) + 1) :
              res[j] = IF j < at THEN list[j] ELSE IF j = at THEN e ELSE list[j - 1]
<1>1. CASE at > Len(list)
  <2>1. at = Len(list) + 1 /\ res = Append(list, e)
    BY <1>1
  <2> QED
    BY <2>1
<1>2. CASE ~(at > Len(list))
  <2>1. at \in 1..Len(list) /\ res = InsertAt(list, at, e)
    BY <1>2
  <2>2. /\ InsertAt(list, at, e) \in Seq(S) /\ Len(InsertAt(list, at, e)) = Len(list) + 1
        /\ \A j \in 1..(Len(list) + 1) :
             InsertAt(list, at, e)[j] = IF j < at THEN list[j] ELSE IF j = at THEN e ELSE list[j - 1]
    BY <2>1, PutAt
  <2> QED
    BY <2>1, <2>2
<1> QED
  BY <1>1, <1>2

LEMMA MatchedAppend ==
  ASSUME NEW l \in Lists, NEW si \in Places, NEW x \in Lessons,
         NEW m, Longer(l, m, si, x),
         NEW list \in Seq(MaybeIds), NEW table, Matched(l, list, table),
         NEW at, at = Rank(l, si) + (Len(l[si]) + 1)
  PROVE  Matched(m, IF at > Len(list) THEN Append(list, None) ELSE InsertAt(list, at, None), table)
<1> DEFINE n   == <<si, Len(l[si]) + 1>>
           spliced == IF at > Len(list) THEN Append(list, None) ELSE InsertAt(list, at, None)
<1>1. /\ m \in Lists /\ n \notin Held(l) /\ Held(m) = Held(l) \cup {n}
      /\ \A s \in Held(l) : m[s[1]][s[2]] = l[s[1]][s[2]]
  <2> HIDE DEF n, spliced
  <2>1. n = <<si, Len(l[si]) + 1>>
    BY DEF n
  <2> QED
    BY <2>1, HeldAppend
<1>2. n[1] = si /\ n[2] = Len(l[si]) + 1
  OBVIOUS
<1>3. Len(list) \in Nat /\ None \in MaybeIds /\ Len(list) = Cardinality(Held(l))
  BY DEF MaybeIds, Matched
<1>4. at \in 1..(Len(list) + 1)
  <2>1. Rank(l, si) \in Nat /\ Len(l[si]) \in Nat
    BY HeldFinite, ListPlaces
  <2>2. Rank(l, si) + Len(l[si]) <= Len(list)
    BY <1>3, RankStep
  <2> QED
    BY <1>3, <2>1, <2>2
<1>5. /\ Len(spliced) = Len(list) + 1
      /\ \A j \in 1..(Len(list) + 1) :
           spliced[j] = IF j < at THEN list[j] ELSE IF j = at THEN None ELSE list[j - 1]
  <2> HIDE DEF spliced
  <2>1. /\ at > Len(list) => spliced = Append(list, None)
        /\ ~(at > Len(list)) => spliced = InsertAt(list, at, None)
    BY DEF spliced
  <2> QED
    BY <1>3, <1>4, <2>1, PutOrAppend
<1> HIDE DEF n, spliced
<1>6. Matched(m, spliced, table)
  BY <1>1, <1>2, <1>3, <1>5, MatchedMore
<1> QED
  BY <1>6 DEF spliced

LEMMA MatchedRemove ==
  ASSUME NEW l \in Lists, NEW si \in Places, NEW li \in 1..Len(l[si]),
         NEW m, Shorter(l, m, si, li),
         NEW list \in Seq(MaybeIds), NEW table, Matched(l, list, table),
         NEW at, at = Rank(l, si) + li
  PROVE  Matched(m, IF at > Len(list) THEN list ELSE RemoveAt(list, at), table)
<1> DEFINE n   == <<si, Len(l[si])>>
           spliced == RemoveAt(list, at)
<1>1. /\ m \in Lists /\ n \notin Held(m) /\ Held(l) = Held(m) \cup {n}
      /\ \A s \in Held(m) : m[s[1]][s[2]] =
           l[s[1]][IF s[1] = si /\ s[2] >= li THEN s[2] + 1 ELSE s[2]]
  <2> HIDE DEF n, spliced
  <2>1. n = <<si, Len(l[si])>>
    BY DEF n
  <2> QED
    BY <2>1, HeldRemove
<1>2. n[1] = si /\ n[2] = Len(l[si])
  OBVIOUS
<1>3. Len(list) \in Nat /\ Len(list) = Cardinality(Held(l))
  BY DEF Matched
<1>4. at \in 1..Len(list)
  <2>1. Rank(l, si) \in Nat /\ Len(l[si]) \in Nat
    BY HeldFinite, ListPlaces
  <2>2. Rank(l, si) + Len(l[si]) <= Len(list)
    BY <1>3, RankStep
  <2> QED
    BY <1>3, <2>1, <2>2
<1>5. /\ Len(spliced) = Len(list) - 1
      /\ \A j \in 1..(Len(list) - 1) : spliced[j] = list[IF j < at THEN j ELSE j + 1]
  BY <1>4, DropAt
<1> HIDE DEF n, spliced
<1>6. Matched(m, spliced, table)
  <2>1. Len(spliced) = Len(list) - 1 /\ at = Rank(l, si) + li
    BY <1>5
  <2>2. n \notin Held(m) /\ Held(l) = Held(m) \cup {n} /\ m \in Lists
    BY <1>1
  <2> QED
    BY <1>1, <1>2, <1>3, <1>5, <2>1, <2>2, MatchedLess
<1>7. ~(at > Len(list))
  BY <1>3, <1>4
<1> QED
  BY <1>6, <1>7 DEF spliced

LEMMA MatchedClosed ==
  ASSUME NEW l \in Lists, NEW n \in 1..MaxSections, NEW index \in 1..n,
         \A i \in Places : i > n => l[i] = <<>>, l[index] = <<>>,
         NEW m, m = Closed(l, n - 1, index),
         NEW list, NEW table, Matched(l, list, table)
  PROVE  Matched(m, list, table)
<1>1. /\ Cardinality(Held(m)) = Cardinality(Held(l))
      /\ \A s \in Held(m) : LET t == IF s[1] >= index THEN <<s[1] + 1, s[2]>> ELSE s
                            IN  /\ t \in Held(l) /\ At(m, s) = At(l, t)
                                /\ m[s[1]][s[2]] = l[t[1]][t[2]]
  BY HeldClosed, SMTT(30)
<1>2. ASSUME NEW s \in Held(m), list[At(m, s)] # None
      PROVE  \E r \in table : r.id = list[At(m, s)] /\ r.title = m[s[1]][s[2]]
  <2>1. PICK t \in Held(l) : At(m, s) = At(l, t) /\ m[s[1]][s[2]] = l[t[1]][t[2]]
    BY <1>1
  <2> QED
    BY <1>2, <2>1 DEF Matched
<1> QED
  BY <1>1, <1>2 DEF Matched

LEMMA MatchedRows ==
  ASSUME NEW l, NEW list, NEW table, NEW more, table \subseteq more, Matched(l, list, table)
  PROVE  Matched(l, list, more)
  BY DEF Matched

(* A course that is opened for an edit has one lesson in each section.      *)
LEMMA LoadedLists ==
  ASSUME NEW l, l = [i \in Places |-> << <<i, 1>> >>]
  PROVE  /\ l \in Lists /\ Held(l) = Places \X {1} /\ Cardinality(Held(l)) = MaxSections
         /\ \A i \in Places : Rank(l, i) = i - 1
<1>1. \A i \in Places : l[i] \in Seq(Lessons) /\ Len(l[i]) = 1 /\ MaxLessons >= 1
  <2> TAKE i \in Places
  <2>1. i \in 1..MaxSections /\ MaxLessons >= 1 /\ <<i, 1>> \in Lessons
    BY WizardBounds DEF Places, Lessons, Sections
  <2> QED
    BY <2>1
<1>2. l \in Lists
  BY <1>1 DEF Lists
<1>3. Held(l) = Places \X {1}
  <2>1. ASSUME NEW s \in Places \X Spots
        PROVE  s[2] <= Len(l[s[1]]) <=> s[2] = 1
    BY <1>1 DEF Spots
  <2>2. Places \X {1} \subseteq Places \X Spots
    BY <1>1, WizardBounds DEF Spots
  <2>3. \A s \in Places \X {1} : s[2] = 1
    OBVIOUS
  <2>4. \A s \in Places \X Spots : s[2] = 1 => s \in Places \X {1}
    OBVIOUS
  <2> QED
    BY <2>1, <2>2, <2>3, <2>4 DEF Held
<1>4. ASSUME NEW n \in Nat
      PROVE  Cardinality((1..n) \X {1}) = n
  <2>1. IsFiniteSet(1..n) /\ Cardinality(1..n) = IF 1 > n THEN 0 ELSE n - 1 + 1
    BY FS_Interval
  <2>2. Cardinality(1..n) = n
    BY <2>1
  <2>3. IsFiniteSet({1}) /\ Cardinality({1}) = 1
    BY FS_Singleton
  <2>4. Cardinality((1..n) \X {1}) = Cardinality(1..n) * Cardinality({1})
    BY <2>1, <2>3, FS_Product
  <2> QED
    BY <2>2, <2>3, <2>4
<1>5. Cardinality(Held(l)) = MaxSections
  BY <1>3, <1>4, WizardBounds DEF Places
<1>6. ASSUME NEW i \in Places
      PROVE  Rank(l, i) = i - 1
  <2>1. i - 1 \in Nat /\ i \in Int /\ i - 1 <= MaxSections /\ MaxSections \in Nat
    BY WizardBounds DEF Places
  <2>2. {s \in Places \X {1} : s[1] < i} = (1..(i - 1)) \X {1}
    <3>1. \A j \in Places : j < i <=> j \in 1..(i - 1)
      BY <2>1 DEF Places
    <3>2. 1..(i - 1) \subseteq Places
      BY <2>1 DEF Places
    <3> QED
      BY <3>1, <3>2
  <2> QED
    BY <1>3, <1>4, <2>1, <2>2 DEF Rank
<1> QED
  BY <1>2, <1>3, <1>5, <1>6
-----------------------------------------------------------------------------
(* The lists of the draft: nothing is in them twice, and what they name is  *)
(* within the bounds.                                                       *)
ListsInv ==
  /\ Len(sections) <= MaxSections
  /\ \A i, j \in 1..Len(sections) : sections[i] = sections[j] => i = j
  /\ lessons \in Lists
  /\ \A i \in Places : i > Len(sections) => lessons[i] = <<>>
  /\ \A i \in Places : \A j, k \in 1..Len(lessons[i]) : lessons[i][j] = lessons[i][k] => j = k
  /\ \A i \in 1..Len(sections) : \A j \in 1..Len(lessons[i]) : lessons[i][j][1] = sections[i]
  /\ Cardinality(Held(lessons)) <= MaxLessons

(* A call is waited for by what its wave asked for, and has not been        *)
(* answered; a row has the name of no call that could still make it.        *)
WaitsWell(w, c) == c.kind = w.kind /\ c.id[2] \in DOMAIN w.results /\ w.results[c.id[2]] = None

CallsInv ==
  /\ \A c, d \in calls : c.id = d.id => c = d
  /\ \A c \in calls : Waits(next, c) => WaitsWell(next, c)
  /\ \A c \in calls : Waits(pub, c) => WaitsWell(pub, c)
  /\ isEdit \/ step = 4 => next = NoWave
  /\ Submitting /\ next.kind = "course" => Len(next.results) = 1

RowsInv ==
  /\ \A l, m \in lessonRows : l.id = m.id => l = m
  /\ \A l \in lessonRows : l.id[1] <= clicks
  /\ \A c \in calls, l \in lessonRows : c.kind = "lessons" => c.id # l.id

Draft ==
  /\ isEdit \in BOOLEAN /\ title \in Titles /\ sections \in Seq(Sections)
  /\ lessons \in [Places -> Seq(Lessons)] /\ contents \in [Spots -> Content]
  /\ uploads \subseteq [video : Lessons, id : Ids, at : Spots, alive : BOOLEAN]
  /\ sent \in 0..MaxUploads /\ edits \in 0..MaxEdits /\ moved \in BOOLEAN

Flow ==
  /\ step \in 1..4 /\ left \in BOOLEAN /\ back \in BOOLEAN
  /\ courseId \in MaybeIds /\ sectionIds \in Seq(MaybeIds) /\ lessonIds \in Seq(MaybeIds)
  /\ clicks \in Nat /\ faults \in 0..MaxFaults
  /\ next = NoWave \/ (WaveOK(next, {"course", "sections", "lessons"}) /\ next.results \in Seq(MaybeIds))
  /\ pub = NoWave \/ WaveOK(pub, {"status", "contents"})
  /\ \A c \in calls : CallOK(c)
  /\ asked \subseteq [lesson : MaybeIds, content : Content]

Rows ==
  /\ courses \subseteq [id : Ids, title : Titles, status : Status]
  /\ sectionRows \subseteq [id : Ids, title : Sections]
  /\ lessonRows \subseteq [id : Ids, title : Lessons, section : MaybeIds]
  /\ stored \subseteq [lesson : Ids, content : Content]

Typed == Draft /\ Flow /\ Rows

LEMMA TypedIs == Typed <=> CWTypeOK
  BY DEF Typed, Draft, Flow, Rows, CWTypeOK, MaybeIds

(* What the draft shows, in terms of its lists.                             *)
LEMMA Shows ==
  ASSUME Draft, ListsInv
  PROVE  /\ Slots = Held(lessons)
         /\ \A i, j : GlobalLessonIndex(i, j) = Rank(lessons, i) + j
         /\ \A s : Index(s) = At(lessons, s)
         /\ \A s \in Slots : /\ s[1] \in Places /\ s[2] \in 1..Len(lessons[s[1]])
                             /\ s[1] \in 1..Len(sections)
                             /\ Index(s) \in Spots /\ Index(s) \in 1..Cardinality(Slots)
                             /\ Lesson(s) \in Lessons /\ Lesson(s)[1] = sections[s[1]]
                             /\ Lesson(s) = lessons[s[1]][s[2]]
         /\ \A s, t \in Slots : /\ Index(s) = Index(t) => s = t
                                /\ Lesson(s) = Lesson(t) => s = t
         /\ Cardinality(Slots) \in Nat
<1>1. lessons \in Lists /\ Len(sections) \in Nat /\ Cardinality(Held(lessons)) <= MaxLessons
  BY DEF Draft, ListsInv
<1>2. Slots = Held(lessons)
  <2>1. \A i \in Places : i > Len(sections) => lessons[i] = <<>>
    BY DEF ListsInv
  <2> QED
    BY <1>1, <2>1, SlotsAre DEF Slots
<1>3. \A i, j : GlobalLessonIndex(i, j) = Rank(lessons, i) + j
  BY <1>2 DEF GlobalLessonIndex, Rank
<1>4. \A s : Index(s) = At(lessons, s)
  BY <1>3 DEF Index, At
<1>5. ASSUME NEW s \in Slots
      PROVE  /\ s[1] \in Places /\ s[2] \in 1..Len(lessons[s[1]])
             /\ s[1] \in 1..Len(sections) /\ s = <<s[1], s[2]>>
             /\ Index(s) \in Spots /\ Index(s) \in 1..Cardinality(Slots)
             /\ Lesson(s) \in Lessons /\ Lesson(s)[1] = sections[s[1]]
             /\ Lesson(s) = lessons[s[1]][s[2]]
  <2>1. /\ s[1] \in Places /\ s[2] \in 1..Len(lessons[s[1]]) /\ lessons[s[1]][s[2]] \in Lessons
        /\ s = <<s[1], s[2]>>
    BY <1>1, <1>2, HeldType
  <2>2. s[1] \in 1..Len(sections)
    BY <1>1, <2>1 DEF Slots, Places
  <2>3. Lesson(s) = lessons[s[1]][s[2]]
    BY DEF Lesson
  <2>4. lessons[s[1]][s[2]][1] = sections[s[1]]
    BY <2>1, <2>2 DEF ListsInv
  <2>5. Index(s) \in 1..Cardinality(Slots)
    BY <1>1, <1>2, <1>4, IndexRange
  <2>6. Cardinality(Slots) \in Nat /\ Cardinality(Slots) <= MaxLessons
    BY <1>1, <1>2, HeldFinite
  <2>7. Index(s) \in Spots
    BY <2>5, <2>6, WizardBounds DEF Spots
  <2> QED
    BY <2>1, <2>2, <2>3, <2>4, <2>5, <2>7
<1>6. ASSUME NEW s \in Slots, NEW t \in Slots
      PROVE  /\ Index(s) = Index(t) => s = t
             /\ Lesson(s) = Lesson(t) => s = t
  <2>1. Index(s) = Index(t) => s = t
    BY <1>1, <1>2, <1>4, IndexOnce
  <2>2. ASSUME Lesson(s) = Lesson(t)
        PROVE  s = t
    <3>1. sections[s[1]] = sections[t[1]] /\ s[1] \in 1..Len(sections) /\ t[1] \in 1..Len(sections)
      BY <1>5, <2>2
    <3>2. s[1] = t[1]
      BY <3>1 DEF ListsInv
    <3>3. /\ lessons[s[1]][s[2]] = lessons[s[1]][t[2]] /\ s[1] \in Places
          /\ s[2] \in 1..Len(lessons[s[1]]) /\ t[2] \in 1..Len(lessons[s[1]])
      BY <1>5, <2>2, <3>2
    <3>4. s[2] = t[2]
      BY <3>3 DEF ListsInv
    <3> QED
      BY <1>5, <3>2, <3>4
  <2> QED
    BY <2>1, <2>2
<1>7. Cardinality(Slots) \in Nat
  BY <1>2, HeldFinite
<1> QED
  BY <1>2, <1>3, <1>4, <1>5, <1>6, <1>7

(* The calls of a step and of a save.                                       *)
LEMMA SectionIdType ==
  ASSUME Flow, NEW i \in Nat \ {0}
  PROVE  SectionId(i) \in MaybeIds
<1>1. i <= Len(sectionIds) => i \in 1..Len(sectionIds)
  OBVIOUS
<1> QED
  BY <1>1 DEF SectionId, Flow, MaybeIds

LEMMA LessonIdType ==
  ASSUME Flow, NEW i \in Nat \ {0}
  PROVE  LessonId(i) \in MaybeIds
<1>1. i <= Len(lessonIds) => i \in 1..Len(lessonIds)
  OBVIOUS
<1> QED
  BY <1>1 DEF LessonId, Flow, MaybeIds

LEMMA LessonCallsAre ==
  ASSUME Draft, Flow, ListsInv, NEW c \in LessonCalls
  PROVE  \E s \in Slots :
           /\ c.kind = "lessons" /\ c.id = <<clicks + 1, Index(s)>>
           /\ c.args.title = Lesson(s) /\ c.args.section = SectionId(s[1])
           /\ c.args \in [title : Lessons, section : MaybeIds]
           /\ c = Call("lessons", Index(s), [title |-> Lesson(s), section |-> SectionId(s[1])])
<1>1. PICK s \in Slots :
        c = Call("lessons", Index(s), [title |-> Lesson(s), section |-> SectionId(s[1])])
  BY DEF LessonCalls
<1>2. s[1] \in Nat \ {0} /\ Lesson(s) \in Lessons
  BY Shows DEF Places
<1>3. SectionId(s[1]) \in MaybeIds
  BY <1>2, SectionIdType
<1> QED
  BY <1>1, <1>2, <1>3 DEF Call

LEMMA ContentCallsAre ==
  ASSUME Draft, Flow, ListsInv, NEW c \in ContentCalls
  PROVE  \E s \in Slots :
           /\ contents[Index(s)].video # None
           /\ c.kind = "contents" /\ c.id = <<clicks + 1, Index(s)>>
           /\ c.args.lesson = LessonId(Index(s)) /\ c.args.content = contents[Index(s)]
           /\ c.args \in [lesson : MaybeIds, content : Content]
           /\ c = Call("contents", Index(s), [lesson |-> LessonId(Index(s)), content |-> contents[Index(s)]])
<1>1. PICK s \in Slots :
        /\ contents[Index(s)].video # None
        /\ c = Call("contents", Index(s), [lesson |-> LessonId(Index(s)), content |-> contents[Index(s)]])
  BY DEF ContentCalls
<1>2. Index(s) \in Spots /\ Index(s) \in Nat \ {0}
  BY Shows DEF Spots
<1>3. LessonId(Index(s)) \in MaybeIds /\ contents[Index(s)] \in Content
  BY <1>2, LessonIdType DEF Draft
<1> QED
  BY <1>1, <1>3 DEF Call
-----------------------------------------------------------------------------
(* The draft and its lists under each step.                                 *)
OnServer ==
  \/ NextStep1 \/ NextStep2 \/ NextStep3
  \/ \E s \in {"DRAFT", "PENDING"} : Publish(s)
  \/ \E c \in calls : Answer(c) \/ Lost(c)

OnUploads ==
  \/ PrevStep \/ \E s \in Slots : SelectFile(s)
  \/ \E u \in uploads : UpdateS3Key(u) \/ UploadFails(u)

LEMMA StepsAre ==
  ASSUME CWNext
  PROVE  \/ Retitle \/ AddSection \/ OnServer \/ OnUploads
         \/ \E i \in Places : RemoveSection(i) \/ AddLesson(i)
         \/ \E i \in Places, j \in Spots : RemoveLesson(i, j)
         \/ \E s \in Slots : EditQuiz(s)
  BY DEF CWNext, Edit, Click, World, OnServer, OnUploads

LEMMA ServerKeeps ==
  ASSUME OnServer
  PROVE  UNCHANGED <<isEdit, title, sections, lessons, contents, uploads, sent, edits, moved>>
<1>1. CASE NextStep1 \/ NextStep2 \/ NextStep3
  BY <1>1 DEF NextStep1, NextStep2, NextStep3, Clicks, page
<1>2. CASE \E s \in {"DRAFT", "PENDING"} : Publish(s)
  BY <1>2 DEF Publish, page
<1>3. CASE \E c \in calls : Answer(c) \/ Lost(c)
  BY <1>3 DEF Answer, Lost, Served, Refused, page
<1> QED
  BY <1>1, <1>2, <1>3 DEF OnServer

LEMMA UploadsKeep ==
  ASSUME OnUploads
  PROVE  UNCHANGED <<isEdit, title, sections, lessons, edits, moved, ids, next, pub, left, calls,
                     clicks, courses, sectionRows, lessonRows, asked>>
<1>1. CASE PrevStep
  BY <1>1 DEF PrevStep, tables
<1>2. CASE \E s \in Slots : SelectFile(s)
  BY <1>2 DEF SelectFile, Uploading
<1>3. CASE \E u \in uploads : UpdateS3Key(u) \/ UploadFails(u)
  BY <1>3 DEF UpdateS3Key, UploadFails, Uploading
<1> QED
  BY <1>1, <1>2, <1>3 DEF OnUploads

(* What an edit leaves alone.                                               *)
LEMMA EditKeeps ==
  ASSUME Edits
  PROVE  UNCHANGED <<isEdit, uploads, sent, step, next, pub, left, calls, clicks, faults,
                     courses, sectionRows, lessonRows, stored, back, asked, courseId>>
  BY DEF Edits, tables

LEMMA CountedIs ==
  ASSUME Draft, Counted
  PROVE  edits' \in 0..MaxEdits
  BY WizardBounds DEF Counted, Draft

LEMMA MovesIs ==
  ASSUME Draft, Moves
  PROVE  moved' \in BOOLEAN
  BY DEF Moves, InUse, Draft

LEMMA LongerIs ==
  ASSUME Draft, ListsInv, NEW si \in Places, AddLesson(si)
  PROVE  \E x \in Lessons :
           /\ x[1] = sections[si] /\ x \notin ToSet(lessons[si])
           /\ Longer(lessons, lessons', si, x)
<1>1. PICK k \in 1..PerSection :
        /\ <<sections[si], k>> \notin ToSet(lessons[si])
        /\ lessons' = [lessons EXCEPT ![si] = Append(@, <<sections[si], k>>)]
  BY DEF AddLesson
<1>2. <<sections[si], k>> \in Lessons /\ <<sections[si], k>>[1] = sections[si]
  BY DEF Lessons, AddLesson, Draft
<1>3. Len(lessons[si]) < MaxLessons
  <2>1. lessons \in Lists /\ Cardinality(Slots) < MaxLessons /\ Slots = Held(lessons)
    BY Shows DEF ListsInv, AddLesson
  <2>2. /\ Rank(lessons, si) + Len(lessons[si]) <= Cardinality(Held(lessons))
        /\ Rank(lessons, si) \in Nat /\ Len(lessons[si]) \in Nat /\ Cardinality(Held(lessons)) \in Nat
    BY <2>1, RankStep, HeldFinite, ListPlaces
  <2> QED
    BY <2>1, <2>2, WizardBounds
<1> DEFINE x == <<sections[si], k>>
<1> HIDE DEF x
<1>4. Longer(lessons, [lessons EXCEPT ![si] = Append(@, x)], si, x)
  <2>1. lessons \in [Places -> Seq(Lessons)] /\ x \in Lessons
    BY <1>2 DEF Draft, x
  <2> QED
    BY <1>3, <2>1 DEF Longer
<1> QED
  BY <1>1, <1>2, <1>4 DEF x

LEMMA ShorterIs ==
  ASSUME Draft, ListsInv, NEW si \in Places, NEW li \in Spots, RemoveLesson(si, li)
  PROVE  li \in 1..Len(lessons[si]) /\ Shorter(lessons, lessons', si, li)
<1>1. <<si, li>> \in Slots /\ lessons' = [lessons EXCEPT ![si] = RemoveAt(@, li)]
  BY DEF RemoveLesson
<1>2. li \in 1..Len(lessons[si])
  BY <1>1, Shows
<1>3. lessons \in [Places -> Seq(Lessons)] /\ lessons[si] \in Seq(Lessons)
  BY DEF Draft
<1>4. RemoveAt(lessons[si], li) \in Seq(Lessons)
  BY <1>2, <1>3, DropAt
<1> QED
  BY <1>1, <1>2, <1>3, <1>4 DEF Shorter

LEMMA DraftStep ==
  ASSUME Draft, Flow, Rows, ListsInv, [CWNext]_cwVars
  PROVE  Draft'
<1>1. CASE Retitle
  <2>1. UNCHANGED <<isEdit, uploads, sent>>
    BY <1>1, EditKeeps DEF Retitle
  <2>2. title' \in Titles /\ edits' \in 0..MaxEdits
    BY <1>1, CountedIs DEF Retitle
  <2> QED
    BY <1>1, <2>1, <2>2 DEF Retitle, Draft
<1>2. CASE AddSection
  <2>1. UNCHANGED <<isEdit, uploads, sent>>
    BY <1>2, EditKeeps DEF AddSection
  <2>2. sections' \in Seq(Sections) /\ edits' \in 0..MaxEdits /\ moved' \in BOOLEAN
    <3>1. sections' \in Seq(Sections)
      BY <1>2 DEF AddSection, Draft
    <3> QED
      BY <1>2, <3>1, CountedIs, MovesIs DEF AddSection
  <2> QED
    BY <1>2, <2>1, <2>2 DEF AddSection, Draft
<1>3. ASSUME NEW i \in Places, RemoveSection(i)
      PROVE  Draft'
  <2>1. UNCHANGED <<isEdit, uploads, sent>>
    BY <1>3, EditKeeps DEF RemoveSection
  <2>2. edits' \in 0..MaxEdits /\ moved' \in BOOLEAN
    BY <1>3, CountedIs DEF RemoveSection, InUse, Draft
  <2>3. sections \in Seq(Sections) /\ i \in 1..Len(sections) /\ sections' = RemoveAt(sections, i)
    BY <1>3 DEF RemoveSection, Draft
  <2>4. sections' \in Seq(Sections)
    BY <2>3, DropAt
  <2>5. lessons' \in Lists
    <3>1. lessons' = Closed(lessons, Len(sections) - 1, i)
      BY <1>3 DEF RemoveSection
    <3>2. Len(sections) \in 1..MaxSections /\ lessons \in Lists
      BY <2>3 DEF ListsInv
    <3>3. \A j \in Places : j > Len(sections) => lessons[j] = <<>>
      BY DEF ListsInv
    <3> QED
      BY <2>3, <3>1, <3>2, <3>3, HeldClosed
  <2> QED
    BY <1>3, <2>1, <2>2, <2>4, <2>5 DEF RemoveSection, Draft, Lists
<1>4. ASSUME NEW i \in Places, AddLesson(i)
      PROVE  Draft'
  <2>1. UNCHANGED <<isEdit, uploads, sent>>
    BY <1>4, EditKeeps DEF AddLesson
  <2>2. edits' \in 0..MaxEdits /\ moved' \in BOOLEAN
    BY <1>4, CountedIs, MovesIs DEF AddLesson
  <2>3. lessons' \in [Places -> Seq(Lessons)]
    BY <1>4, LongerIs DEF Longer
  <2> QED
    BY <1>4, <2>1, <2>2, <2>3 DEF AddLesson, Draft
<1>5. ASSUME NEW i \in Places, NEW j \in Spots, RemoveLesson(i, j)
      PROVE  Draft'
  <2>1. UNCHANGED <<isEdit, uploads, sent>>
    BY <1>5, EditKeeps DEF RemoveLesson
  <2>2. edits' \in 0..MaxEdits /\ moved' \in BOOLEAN
    BY <1>5, CountedIs, MovesIs DEF RemoveLesson
  <2>3. lessons' \in [Places -> Seq(Lessons)]
    BY <1>5, ShorterIs DEF Shorter
  <2> QED
    BY <1>5, <2>1, <2>2, <2>3 DEF RemoveLesson, Draft
<1>6. ASSUME NEW s \in Slots, EditQuiz(s)
      PROVE  Draft'
  <2>1. UNCHANGED <<isEdit, uploads, sent>>
    BY <1>6, EditKeeps DEF EditQuiz
  <2>2. edits' \in 0..MaxEdits
    BY <1>6, CountedIs DEF EditQuiz
  <2>3. contents' \in [Spots -> Content]
    <3>1. PICK q \in {Lesson(s), None} : contents' = [contents EXCEPT ![Index(s)].quiz = q]
      BY <1>6 DEF EditQuiz
    <3>2. q \in Lessons \cup {None} /\ contents \in [Spots -> Content]
      BY Shows DEF Draft
    <3> QED
      BY <3>1, <3>2 DEF Content
  <2> QED
    BY <1>6, <2>1, <2>2, <2>3 DEF EditQuiz, Draft
<1>7. CASE OnServer
  BY <1>7, ServerKeeps DEF Draft
<1>8. CASE OnUploads
  <2>1. UNCHANGED <<isEdit, title, sections, lessons, edits, moved>>
    BY <1>8, UploadsKeep
  <2>2. CASE PrevStep
    <3>1. uploads' = {[u EXCEPT !.alive = FALSE] : u \in uploads} /\ UNCHANGED <<contents, sent>>
      BY <2>2 DEF PrevStep
    <3>2. uploads' \subseteq [video : Lessons, id : Ids, at : Spots, alive : BOOLEAN]
      BY <3>1 DEF Draft
    <3> QED
      BY <2>1, <3>1, <3>2 DEF Draft
  <2>3. ASSUME NEW s \in Slots, SelectFile(s)
        PROVE  Draft'
    <3>1. /\ uploads' = uploads \cup {[video |-> Lesson(s), id |-> LessonId(Index(s)),
                                      at |-> Index(s), alive |-> TRUE]}
          /\ LessonId(Index(s)) # None /\ sent' \in 0..MaxUploads /\ UNCHANGED contents
      BY <2>3, WizardBounds DEF SelectFile, Draft
    <3>2. Lesson(s) \in Lessons /\ Index(s) \in Spots
      BY Shows
    <3>3. LessonId(Index(s)) \in Ids
      BY <3>1, <3>2, LessonIdType DEF Spots, MaybeIds
    <3>4. [video |-> Lesson(s), id |-> LessonId(Index(s)), at |-> Index(s), alive |-> TRUE]
            \in [video : Lessons, id : Ids, at : Spots, alive : BOOLEAN]
      BY <3>2, <3>3
    <3>5. uploads' \subseteq [video : Lessons, id : Ids, at : Spots, alive : BOOLEAN]
      BY <3>1, <3>4 DEF Draft
    <3> QED
      BY <2>1, <3>1, <3>5 DEF Draft
  <2>4. ASSUME NEW u \in uploads, UpdateS3Key(u)
        PROVE  Draft'
    <3>1. /\ uploads' = uploads \ {u} /\ UNCHANGED sent
          /\ contents' = contents \/ contents' = [contents EXCEPT ![u.at].video = u.video]
      BY <2>4 DEF UpdateS3Key
    <3>2. contents \in [Spots -> Content] /\ u.video \in Lessons
      BY DEF Draft
    <3>3. contents' \in [Spots -> Content]
      BY <3>1, <3>2 DEF Content
    <3> QED
      BY <2>1, <3>1, <3>3 DEF Draft
  <2>5. ASSUME NEW u \in uploads, UploadFails(u)
        PROVE  Draft'
    BY <2>1, <2>5 DEF UploadFails, Draft
  <2> QED
    BY <1>8, <2>2, <2>3, <2>4, <2>5 DEF OnUploads
<1>9. CASE UNCHANGED cwVars
  BY <1>9 DEF cwVars, page, Draft
<1> QED
  BY <1>1, <1>2, <1>3, <1>4, <1>5, <1>6, <1>7, <1>8, <1>9, StepsAre
LEMMA ToSetIs ==
  ASSUME NEW S, NEW s \in Seq(S), NEW e
  PROVE  e \notin ToSet(s) <=> \A j \in 1..Len(s) : s[j] # e
  BY DEF ToSet

LEMMA ShorterLen ==
  ASSUME NEW l \in Lists, NEW m, NEW si \in Places, NEW li \in 1..Len(l[si]), Shorter(l, m, si, li)
  PROVE  /\ Len(l[si]) \in Nat /\ Len(m[si]) = Len(l[si]) - 1
         /\ \A j \in 1..(Len(l[si]) - 1) : m[si][j] = l[si][IF j < li THEN j ELSE j + 1]
<1>1. l[si] \in Seq(Lessons)
  BY DEF Lists
<1>2. /\ Len(RemoveAt(l[si], li)) = Len(l[si]) - 1 /\ Len(l[si]) \in Nat
      /\ \A j \in 1..(Len(l[si]) - 1) : RemoveAt(l[si], li)[j] = l[si][IF j < li THEN j ELSE j + 1]
  BY <1>1, DropAt
<1> QED
  BY <1>2 DEF Shorter

LEMMA ListsStep ==
  ASSUME Draft, Flow, Rows, ListsInv, [CWNext]_cwVars
  PROVE  ListsInv'
<1> USE DEF ListsInv
<1>0. /\ Len(sections) \in Nat /\ sections \in Seq(Sections)
      /\ lessons \in [Places -> Seq(Lessons)]
  BY DEF Draft
<1>1. CASE AddSection
  <2>1. PICK s \in Sections \ ToSet(sections) : sections' = Append(sections, s)
    BY <1>1 DEF AddSection
  <2>2. Len(sections) < MaxSections /\ UNCHANGED lessons
    BY <1>1 DEF AddSection
  <2>3. /\ Len(sections') = Len(sections) + 1 /\ sections'[Len(sections) + 1] = s
        /\ \A i \in 1..Len(sections) : sections'[i] = sections[i] /\ sections[i] # s
    BY <1>0, <2>1, ToSetIs
  <2>4. Len(sections') <= MaxSections
    BY <1>0, <2>2, <2>3, WizardBounds
  <2>5. \A i, j \in 1..Len(sections') : sections'[i] = sections'[j] => i = j
    <3>1. \A i \in 1..Len(sections') : i \in 1..Len(sections) \/ i = Len(sections) + 1
      BY <1>0, <2>3
    <3> QED
      BY <2>3, <3>1
  <2>6. \A i \in Places : i > Len(sections') => lessons'[i] = <<>>
    BY <1>0, <2>2, <2>3 DEF Places
  <2>7. \A i \in 1..Len(sections') : \A j \in 1..Len(lessons'[i]) : lessons'[i][j][1] = sections'[i]
    <3>1. ASSUME NEW i \in 1..Len(sections'), NEW j \in 1..Len(lessons[i])
          PROVE  i \in 1..Len(sections)
      <4>1. i \in Places
        BY <2>4, <2>3, <1>0, WizardBounds DEF Places
      <4>2. i > Len(sections) => lessons[i] = <<>>
        BY <4>1
      <4> QED
        BY <1>0, <2>3, <3>1, <4>2
    <3> QED
      BY <2>2, <2>3, <3>1
  <2> QED
    BY <2>2, <2>4, <2>5, <2>6, <2>7
<1>2. ASSUME NEW i \in Places, RemoveSection(i)
      PROVE  ListsInv'
  <2>1. /\ i \in 1..Len(sections) /\ sections' = RemoveAt(sections, i)
        /\ lessons' = Closed(lessons, Len(sections) - 1, i)
    BY <1>2 DEF RemoveSection
  <2>2. /\ Len(sections') = Len(sections) - 1
        /\ \A j \in 1..(Len(sections) - 1) : sections'[j] = sections[IF j < i THEN j ELSE j + 1]
    BY <1>0, <2>1, DropAt
  <2>3. /\ lessons' \in Lists
        /\ \A k \in Places : lessons'[k] = IF k > Len(sections) - 1 THEN <<>>
                                           ELSE IF k >= i THEN lessons[k + 1] ELSE lessons[k]
        /\ Cardinality(Held(lessons')) <= Cardinality(Held(lessons))
    <3>1. Len(sections) \in 1..MaxSections /\ lessons \in Lists
      BY <1>0, <2>1
    <3>2. \A j \in Places : j > Len(sections) => lessons[j] = <<>>
      OBVIOUS
    <3> QED
      BY <2>1, <3>1, <3>2, HeldClosed
  <2>4. Len(sections') <= MaxSections
    BY <1>0, <2>2, WizardBounds
  <2>5. \A j, k \in 1..Len(sections') : sections'[j] = sections'[k] => j = k
    <3>1. Len(sections) \in Nat /\ \A a, b \in 1..Len(sections) : sections[a] = sections[b] => a = b
      BY <1>0
    <3> QED
      BY <2>1, <2>2, <3>1, NoTwins
  <2>6. \A j \in Places : j > Len(sections') => lessons'[j] = <<>>
    BY <2>2, <2>3
  <2>7. \A k \in Places : \/ lessons'[k] = <<>>
                          \/ k + 1 \in Places /\ lessons'[k] = lessons[k + 1]
                          \/ lessons'[k] = lessons[k]
    <3>1. \A k \in Places : ~(k > Len(sections) - 1) => k + 1 \in Places
      BY <1>0, WizardBounds DEF Places
    <3> QED
      BY <2>3, <3>1
  <2>8. \A k \in Places : \A a, b \in 1..Len(lessons'[k]) : lessons'[k][a] = lessons'[k][b] => a = b
    BY <2>7
  <2>9. \A k \in 1..Len(sections') : \A j \in 1..Len(lessons'[k]) : lessons'[k][j][1] = sections'[k]
    <3>1. ASSUME NEW k \in 1..Len(sections'), NEW j \in 1..Len(lessons'[k])
          PROVE  lessons'[k][j][1] = sections'[k]
      <4> DEFINE w == IF k < i THEN k ELSE k + 1
      <4>1. w \in 1..Len(sections) /\ sections'[k] = sections[w]
        BY <1>0, <2>2
      <4>2. k \in Places /\ ~(k > Len(sections) - 1)
        BY <1>0, <2>2, <2>4, WizardBounds DEF Places
      <4>3. lessons'[k] = lessons[w]
        BY <1>0, <2>1, <2>3, <4>2 DEF Places
      <4> HIDE DEF w
      <4> QED
        BY <4>1, <4>3
    <3> QED
      BY <3>1
  <2>10. Cardinality(Held(lessons')) <= MaxLessons
    BY <2>3, HeldFinite, WizardBounds
  <2> QED
    BY <2>3, <2>4, <2>5, <2>6, <2>8, <2>9, <2>10
<1>3. ASSUME NEW i \in Places, AddLesson(i)
      PROVE  ListsInv'
  <2>1. PICK x \in Lessons : /\ x[1] = sections[i] /\ x \notin ToSet(lessons[i])
                             /\ Longer(lessons, lessons', i, x)
    BY <1>3, LongerIs
  <2>2. /\ i \in 1..Len(sections) /\ UNCHANGED sections
        /\ Cardinality(Held(lessons)) < MaxLessons
    BY <1>3, Shows DEF AddLesson
  <2>3. /\ lessons' \in Lists /\ <<i, Len(lessons[i]) + 1>> \notin Held(lessons)
        /\ Held(lessons') = Held(lessons) \cup {<<i, Len(lessons[i]) + 1>>}
    BY <2>1, HeldAppend
  <2>4. Cardinality(Held(lessons')) <= MaxLessons
    <3>1. Cardinality(Held(lessons')) = Cardinality(Held(lessons)) + 1
      <4> DEFINE n == <<i, Len(lessons[i]) + 1>>
      <4>1. n \notin Held(lessons) /\ Held(lessons') = Held(lessons) \cup {n} /\ n[1] \in Int
        BY <2>3 DEF Places
      <4> HIDE DEF n
      <4> QED
        BY <4>1, OneMore
    <3> QED
      BY <2>2, <3>1, HeldFinite, WizardBounds
  <2>5. lessons'[i] = Append(lessons[i], x) /\ \A k \in Places \ {i} : lessons'[k] = lessons[k]
    BY <2>1 DEF Longer
  <2>6. /\ Len(lessons[i]) \in Nat /\ Len(lessons'[i]) = Len(lessons[i]) + 1
        /\ lessons'[i][Len(lessons[i]) + 1] = x
        /\ \A j \in 1..Len(lessons[i]) : lessons'[i][j] = lessons[i][j] /\ lessons[i][j] # x
    <3>1. lessons[i] \in Seq(Lessons)
      BY <1>0
    <3> QED
      BY <2>1, <2>5, <3>1, ToSetIs
  <2>7. \A j \in 1..Len(lessons'[i]) : j \in 1..Len(lessons[i]) \/ j = Len(lessons[i]) + 1
    BY <2>6
  <2>8. \A k \in Places : k > Len(sections') => lessons'[k] = <<>>
    BY <1>0, <2>2, <2>5
  <2>9. \A k \in Places : \A a, b \in 1..Len(lessons'[k]) : lessons'[k][a] = lessons'[k][b] => a = b
    <3>1. \A a, b \in 1..Len(lessons'[i]) : lessons'[i][a] = lessons'[i][b] => a = b
      BY <2>6, <2>7
    <3> QED
      BY <2>5, <3>1
  <2>10. \A k \in 1..Len(sections') : \A j \in 1..Len(lessons'[k]) : lessons'[k][j][1] = sections'[k]
    <3>1. ASSUME NEW j \in 1..Len(lessons'[i])
          PROVE  lessons'[i][j][1] = sections[i]
      <4>1. CASE j \in 1..Len(lessons[i])
        <5>1. lessons'[i][j] = lessons[i][j]
          BY <2>6, <4>1
        <5> QED
          BY <2>2, <4>1, <5>1
      <4>2. CASE j = Len(lessons[i]) + 1
        BY <2>1, <2>6, <4>2
      <4> QED
        BY <2>7, <4>1, <4>2
    <3>2. \A k \in 1..Len(sections) : k \in Places
      BY <1>0, WizardBounds DEF Places
    <3> SUFFICES ASSUME NEW k \in 1..Len(sections), k # i
                 PROVE  \A j \in 1..Len(lessons'[k]) : lessons'[k][j][1] = sections[k]
      BY <2>2, <3>1
    <3>3. lessons'[k] = lessons[k]
      BY <2>5, <3>2
    <3> QED
      BY <3>3
  <2> QED
    BY <2>2, <2>3, <2>4, <2>8, <2>9, <2>10
<1>4. ASSUME NEW i \in Places, NEW li \in Spots, RemoveLesson(i, li)
      PROVE  ListsInv'
  <2>1. li \in 1..Len(lessons[i]) /\ Shorter(lessons, lessons', i, li)
    BY <1>4, ShorterIs
  <2>2. i \in 1..Len(sections) /\ UNCHANGED sections
    BY <1>4, Shows DEF RemoveLesson
  <2>3. /\ lessons' \in Lists /\ <<i, Len(lessons[i])>> \notin Held(lessons')
        /\ Held(lessons) = Held(lessons') \cup {<<i, Len(lessons[i])>>}
    BY <2>1, HeldRemove
  <2>4. Cardinality(Held(lessons')) <= MaxLessons
    <3>1. Cardinality(Held(lessons)) = Cardinality(Held(lessons')) + 1
      BY <2>3, HeldFinite, FS_AddElement
    <3> QED
      BY <3>1, HeldFinite, WizardBounds
  <2>5. lessons'[i] = RemoveAt(lessons[i], li) /\ \A k \in Places \ {i} : lessons'[k] = lessons[k]
    BY <2>1 DEF Shorter
  <2>6. /\ Len(lessons[i]) \in Nat /\ Len(lessons'[i]) = Len(lessons[i]) - 1
        /\ \A j \in 1..(Len(lessons[i]) - 1) : lessons'[i][j] = lessons[i][IF j < li THEN j ELSE j + 1]
    BY <2>1, ShorterLen
  <2>7. \A k \in Places : k > Len(sections') => lessons'[k] = <<>>
    BY <1>0, <2>2, <2>5
  <2>8. \A k \in Places : \A a, b \in 1..Len(lessons'[k]) : lessons'[k][a] = lessons'[k][b] => a = b
    <3>1. \A a, b \in 1..Len(lessons'[i]) : lessons'[i][a] = lessons'[i][b] => a = b
      <4>1. /\ li \in 1..Len(lessons[i])
            /\ \A c, d \in 1..Len(lessons[i]) : lessons[i][c] = lessons[i][d] => c = d
        BY <2>1
      <4>2. PICK old, new : old = lessons[i] /\ new = lessons'[i]
        OBVIOUS
      <4>3. /\ Len(old) \in Nat /\ li \in 1..Len(old) /\ Len(new) = Len(old) - 1
            /\ \A c, d \in 1..Len(old) : old[c] = old[d] => c = d
            /\ \A c \in 1..(Len(old) - 1) : new[c] = old[IF c < li THEN c ELSE c + 1]
        BY <2>6, <4>1, <4>2
      <4>4. \A a, b \in 1..Len(new) : new[a] = new[b] => a = b
        BY <4>3, NoTwins, SMTT(30)
      <4> QED
        BY <4>2, <4>4
    <3> QED
      BY <2>5, <3>1
  <2>9. \A k \in 1..Len(sections') : \A j \in 1..Len(lessons'[k]) : lessons'[k][j][1] = sections'[k]
    <3>1. \A j \in 1..Len(lessons'[i]) : lessons'[i][j][1] = sections[i]
      <4> TAKE j \in 1..Len(lessons'[i])
      <4>2. PICK a : a = IF j < li THEN j ELSE j + 1
        OBVIOUS
      <4>3. j \in 1..(Len(lessons[i]) - 1) /\ a \in 1..Len(lessons[i])
        BY <2>1, <2>6, <4>2
      <4>4. lessons'[i][j] = lessons[i][a]
        BY <2>6, <4>2, <4>3
      <4>5. lessons[i][a][1] = sections[i]
        BY <2>2, <4>3
      <4> QED
        BY <4>4, <4>5
    <3>2. \A k \in 1..Len(sections) : k \in Places
      BY <1>0, WizardBounds DEF Places
    <3> SUFFICES ASSUME NEW k \in 1..Len(sections), k # i
                 PROVE  \A j \in 1..Len(lessons'[k]) : lessons'[k][j][1] = sections[k]
      BY <2>2, <3>1
    <3>3. lessons'[k] = lessons[k]
      BY <2>5, <3>2
    <3> QED
      BY <3>3
  <2> QED
    BY <2>2, <2>3, <2>4, <2>7, <2>8, <2>9
<1>5. UNCHANGED <<sections, lessons>> => ListsInv'
  OBVIOUS
<1>6. CASE Retitle \/ \E s \in Slots : EditQuiz(s)
  BY <1>5, <1>6 DEF Retitle, EditQuiz
<1>7. CASE OnServer
  BY <1>5, <1>7, ServerKeeps
<1>8. CASE OnUploads
  BY <1>5, <1>8, UploadsKeep
<1>9. CASE UNCHANGED cwVars
  BY <1>5, <1>9 DEF cwVars, page
<1> QED
  BY <1>1, <1>2, <1>3, <1>4, <1>6, <1>7, <1>8, <1>9, StepsAre
-----------------------------------------------------------------------------
(* The calls, the waves and the ids under each step.                        *)
Wave1 == next = NoWave \/ (WaveOK(next, {"course", "sections", "lessons"}) /\ next.results \in Seq(MaybeIds))
Wave2 == pub = NoWave \/ WaveOK(pub, {"status", "contents"})
Wires == clicks \in Nat /\ Wave1 /\ Wave2 /\ (\A c \in calls : CallOK(c))
           /\ left \in BOOLEAN /\ asked \subseteq [lesson : MaybeIds, content : Content]
Names == /\ step \in 1..4 /\ back \in BOOLEAN /\ faults \in 0..MaxFaults
         /\ courseId \in MaybeIds /\ sectionIds \in Seq(MaybeIds) /\ lessonIds \in Seq(MaybeIds)

LEMMA FlowIs == Flow <=> Wires /\ Names
  BY DEF Flow, Wires, Names, Wave1, Wave2

LEMMA CallsGrow ==
  ASSUME NEW n \in Nat, clicks \in Nat, clicks' = n, clicks <= n
  PROVE  /\ \A c : CallOK(c) => CallOK(c)'
         /\ Wave1 /\ UNCHANGED next => Wave1'
         /\ Wave2 /\ UNCHANGED pub => Wave2'
<1>1. ASSUME NEW c, CallOK(c) PROVE CallOK(c)'
  BY <1>1 DEF CallOK
<1>2. ASSUME Wave1, UNCHANGED next PROVE Wave1'
  BY <1>2 DEF Wave1, WaveOK, NoWave
<1>3. ASSUME Wave2, UNCHANGED pub PROVE Wave2'
  BY <1>3 DEF Wave2, WaveOK, NoWave
<1> QED
  BY <1>1, <1>2, <1>3

LEMMA NewCallOK ==
  ASSUME clicks \in Nat, clicks' = clicks + 1, NEW c, NEW at \in Nat \ {0}, c.id = <<clicks + 1, at>>,
         \/ c.kind = "course" /\ c.args \in Titles
         \/ c.kind = "sections" /\ c.args \in Sections
         \/ c.kind = "lessons" /\ c.args \in [title : Lessons, section : MaybeIds]
         \/ c.kind = "status" /\ c.args \in [course : Ids, status : Status, title : Titles]
         \/ c.kind = "contents" /\ c.args \in [lesson : MaybeIds, content : Content]
  PROVE  CallOK(c)'
<1>1. c.id \in (1..clicks') \X (Nat \ {0})
  OBVIOUS
<1> QED
  BY <1>1 DEF CallOK, MaybeIds

LEMMA NewWave ==
  ASSUME clicks \in Nat, clicks' = clicks + 1, NEW what, NEW places, NEW kinds, what \in kinds,
         NEW w, w = Wave(what, places)
  PROVE  WaveOK(w, kinds)'
<1>1. w = [wave |-> clicks + 1, kind |-> what, results |-> [p \in places |-> None]]
  BY DEF Wave
<1>2. w.wave = clicks + 1 /\ w.kind = what /\ w.results = [p \in places |-> None]
  BY <1>1
<1>3. w.wave \in 1..clicks'
  BY <1>2
<1>4. w.results \in [DOMAIN w.results -> MaybeIds]
  BY <1>2 DEF MaybeIds
<1> QED
  BY <1>1, <1>2, <1>3, <1>4 DEF WaveOK, MaybeIds

LEMMA SendContentsWires ==
  ASSUME Draft, Flow, ListsInv, NEW answered, SendContents(answered), UNCHANGED next
  PROVE  Wires'
<1>1. CASE isEdit \/ ContentCalls = {}
  <2>1. left' = TRUE /\ pub' = NoWave /\ calls' \subseteq calls /\ asked' = {} /\ UNCHANGED clicks
    BY <1>1 DEF SendContents
  <2>2. Wires
    BY FlowIs
  <2>3. Wave1' /\ \A c \in calls : CallOK(c)'
    BY <2>1, <2>2, CallsGrow DEF Wires
  <2> QED
    BY <2>1, <2>2, <2>3 DEF Wires, Wave2
<1>2. CASE ~(isEdit \/ ContentCalls = {})
  <2>1. /\ pub' = Wave("contents", {c.id[2] : c \in ContentCalls})
        /\ asked' = {c.args : c \in ContentCalls} /\ UNCHANGED left
        /\ calls' = (calls \ answered) \cup ContentCalls /\ clicks' = clicks + 1
    BY <1>2 DEF SendContents, Send
  <2>2. clicks \in Nat
    BY DEF Flow
  <2>3. ASSUME NEW c \in ContentCalls
        PROVE  CallOK(c)' /\ c.args \in [lesson : MaybeIds, content : Content]
    <3>1. PICK s \in Slots : /\ c.kind = "contents" /\ c.id = <<clicks + 1, Index(s)>>
                             /\ c.args \in [lesson : MaybeIds, content : Content]
      BY ContentCallsAre
    <3>2. Index(s) \in Nat \ {0}
      BY Shows DEF Spots
    <3> QED
      BY <2>1, <2>2, <3>1, <3>2, NewCallOK
  <2>4. \A c \in calls' : CallOK(c)'
    <3>1. \A c \in calls : CallOK(c)'
      BY <2>1, <2>2, CallsGrow DEF Flow
    <3> QED
      BY <2>1, <2>3, <3>1
  <2>5. Wave2'
    BY <2>1, <2>2, NewWave DEF Wave2
  <2>6. Wave1'
    <3>1. Wave1
      BY FlowIs DEF Wires
    <3>2. clicks' \in Nat /\ clicks <= clicks'
      BY <2>1, <2>2
    <3>3. UNCHANGED next
      OBVIOUS
    <3> QED
      BY <2>2, <3>1, <3>2, <3>3, CallsGrow
  <2> QED
    BY <2>1, <2>2, <2>3, <2>4, <2>5, <2>6 DEF Wires, Flow
<1> QED
  BY <1>1, <1>2

LEMMA EditNames ==
  ASSUME Draft, Flow, ListsInv, Edits,
         \/ UNCHANGED <<sectionIds, lessonIds>>
         \/ \E i \in Places : AddLesson(i)
         \/ \E i \in Places, j \in Spots : RemoveLesson(i, j)
  PROVE  Flow'
<1>1. UNCHANGED <<step, next, pub, left, calls, clicks, faults, back, asked, courseId>>
  BY EditKeeps
<1>2. ASSUME UNCHANGED sectionIds, lessonIds' \in Seq(MaybeIds)
      PROVE  Flow'
  <2>1. \A c \in calls' : CallOK(c)'
    BY <1>1, CallsGrow DEF Flow
  <2>2. Wave1' /\ Wave2'
    BY <1>1, CallsGrow DEF Flow, Wave1, Wave2
  <2> QED
    BY <1>1, <1>2, <2>1, <2>2 DEF Flow, Wave1, Wave2
<1>3. lessonIds \in Seq(MaybeIds) /\ None \in MaybeIds
  BY DEF Flow, MaybeIds
<1>4. CASE UNCHANGED <<sectionIds, lessonIds>>
  BY <1>2, <1>3, <1>4
<1>5. ASSUME NEW i \in Places, AddLesson(i)
      PROVE  Flow'
  <2> DEFINE at == GlobalLessonIndex(i, Len(lessons[i]) + 1)
  <2>1. at \in Int /\ at >= 1
    <3>1. at = Rank(lessons, i) + (Len(lessons[i]) + 1)
      BY Shows
    <3> QED
      <4>1. Rank(lessons, i) \in Nat
        BY HeldFinite
      <4>2. Len(lessons[i]) \in Nat
        BY DEF Draft
      <4> QED
        BY <3>1, <4>1, <4>2
  <2>2. lessonIds' = IF at > Len(lessonIds) THEN Append(lessonIds, None)
                         ELSE InsertAt(lessonIds, at, None)
    BY <1>5 DEF AddLesson, Spliced
  <2> HIDE DEF at
  <2>3. CASE at > Len(lessonIds)
    BY <1>2, <1>3, <1>5, <2>2, <2>3 DEF AddLesson
  <2>4. CASE ~(at > Len(lessonIds))
    <3>1. at \in 1..Len(lessonIds)
      BY <1>3, <2>1, <2>4
    <3>2. InsertAt(lessonIds, at, None) \in Seq(MaybeIds)
      BY <1>3, <3>1, PutAt
    <3> QED
      BY <1>2, <1>5, <2>2, <2>4, <3>2 DEF AddLesson
  <2> QED
    BY <2>3, <2>4
<1>6. ASSUME NEW i \in Places, NEW j \in Spots, RemoveLesson(i, j)
      PROVE  Flow'
  <2> DEFINE at == GlobalLessonIndex(i, j)
  <2>1. at \in Int /\ at >= 1
    <3>1. at = Rank(lessons, i) + j /\ Rank(lessons, i) \in Nat
      BY Shows, HeldFinite
    <3> QED
      BY <3>1 DEF Spots
  <2>2. lessonIds' = IF at > Len(lessonIds) THEN lessonIds ELSE RemoveAt(lessonIds, at)
    BY <1>6 DEF RemoveLesson
  <2> HIDE DEF at
  <2>3. CASE at > Len(lessonIds)
    BY <1>2, <1>3, <1>6, <2>2, <2>3 DEF RemoveLesson
  <2>4. CASE ~(at > Len(lessonIds))
    <3>1. at \in 1..Len(lessonIds)
      BY <1>3, <2>1, <2>4
    <3>2. RemoveAt(lessonIds, at) \in Seq(MaybeIds)
      BY <1>3, <3>1, DropAt
    <3> QED
      BY <1>2, <1>6, <2>2, <2>4, <3>2 DEF RemoveLesson
  <2> QED
    BY <2>3, <2>4
<1> QED
  BY <1>4, <1>5, <1>6

LEMMA NextStepFlow ==
  ASSUME Draft, Flow, ListsInv, NextStep1 \/ NextStep2 \/ NextStep3
  PROVE  Flow'
<1>1. UNCHANGED <<courseId, sectionIds, pub, left, faults, back, asked>>
  BY DEF NextStep1, NextStep2, NextStep3, Clicks
<1>2. clicks \in Nat /\ Wave2 /\ None \in MaybeIds
  BY DEF Flow, Wave2, MaybeIds
<1>3. CASE UNCHANGED <<next, calls, clicks>> /\ step' \in 1..4 /\ lessonIds' \in Seq(MaybeIds)
  <2>1. Wires /\ Names
    BY FlowIs
  <2>2. Wave1' /\ Wave2' /\ \A c \in calls : CallOK(c)'
    BY <1>1, <1>3, <2>1, CallsGrow DEF Wires
  <2>3. Wires' /\ Names'
    BY <1>1, <1>3, <2>1, <2>2 DEF Wires, Names
  <2> QED
    BY <2>3 DEF Flow, Wires, Wave1, Wave2, Names
<1>4. ASSUME NEW new, NEW n \in Nat, NEW what \in {"course", "sections", "lessons"},
             next' = Wave(what, 1..n), Send(new, {}), UNCHANGED <<step, lessonIds>>,
             \A c \in new : CallOK(c)'
      PROVE  Flow'
  <2>1. clicks' = clicks + 1 /\ calls' = calls \cup new
    BY <1>4 DEF Send
  <2>2. \A c \in calls' : CallOK(c)'
    BY <1>2, <1>4, <2>1, CallsGrow DEF Flow
  <2>3. Wave2'
    BY <1>1, <1>2, <2>1, CallsGrow
  <2>4. WaveOK(next, {"course", "sections", "lessons"})'
    BY <1>2, <1>4, <2>1, NewWave
  <2>5. next'.results \in Seq(MaybeIds)
    <3>1. next'.results = [p \in 1..n |-> None]
      BY <1>4 DEF Wave
    <3> QED
      BY <1>2, <3>1
  <2>6. Wires'
    BY <1>1, <1>2, <2>1, <2>2, <2>3, <2>4, <2>5 DEF Wires, Wave1, Flow
  <2>7. Names'
    BY <1>1, <1>4, FlowIs DEF Names
  <2> QED
    BY <2>6, <2>7 DEF Flow, Wires, Wave1, Wave2, Names
<1>5. CASE NextStep1
  <2>1. CASE isEdit /\ step' = 2 /\ UNCHANGED <<next, calls, clicks>>
    BY <1>3, <1>5, <2>1 DEF NextStep1, Flow
  <2>2. CASE next' = Wave("course", 1..1) /\ Send({Call("course", 1, title)}, {}) /\ UNCHANGED step
    <3>1. ASSUME NEW c \in {Call("course", 1, title)}
          PROVE  CallOK(c)'
      <4>1. c.kind = "course" /\ c.id = <<clicks + 1, 1>> /\ c.args \in Titles /\ 1 \in Nat \ {0}
        BY DEF Call, Draft
      <4>2. clicks' = clicks + 1
        BY <2>2 DEF Send
      <4> QED
        BY <1>2, <4>1, <4>2, NewCallOK
    <3> DEFINE new == {Call("course", 1, title)}
               one == 1
    <3>2. /\ UNCHANGED <<step, lessonIds>> /\ one \in Nat /\ next' = Wave("course", 1..one)
          /\ Send(new, {}) /\ \A c \in new : CallOK(c)'
      BY <1>5, <2>2, <3>1 DEF NextStep1
    <3> HIDE DEF new, one
    <3> QED
      BY <1>4, <3>2
  <2> QED
    BY <1>5, <2>1, <2>2 DEF NextStep1
<1>6. CASE NextStep2
  <2>1. CASE isEdit /\ step' = 3 /\ UNCHANGED <<next, calls, clicks>>
    BY <1>3, <1>6, <2>1 DEF NextStep2, Flow
  <2>2. CASE /\ UNCHANGED step /\ next' = Wave("sections", 1..Len(sections))
             /\ Send({Call("sections", i, sections[i]) : i \in 1..Len(sections)}, {})
    <3>1. ASSUME NEW c \in {Call("sections", i, sections[i]) : i \in 1..Len(sections)}
          PROVE  CallOK(c)'
      <4>1. PICK i \in 1..Len(sections) : c = Call("sections", i, sections[i])
        OBVIOUS
      <4>2. c.kind = "sections" /\ c.id = <<clicks + 1, i>> /\ c.args \in Sections /\ i \in Nat \ {0}
        BY <4>1 DEF Call, Draft
      <4>3. clicks' = clicks + 1
        BY <2>2 DEF Send
      <4> QED
        BY <1>2, <4>2, <4>3, NewCallOK
    <3>2. UNCHANGED lessonIds /\ Len(sections) \in Nat
      BY <1>6 DEF NextStep2, Draft
    <3> QED
      BY <1>4, <2>2, <3>1, <3>2
  <2> QED
    BY <1>6, <2>1, <2>2 DEF NextStep2
<1>7. CASE NextStep3
  <2>1. CASE step' = 4 /\ lessonIds' \in {lessonIds, <<>>} /\ UNCHANGED <<next, calls, clicks>>
    <3>1. lessonIds' \in Seq(MaybeIds)
      <4>1. lessonIds \in Seq(MaybeIds) /\ <<>> \in Seq(MaybeIds)
        BY DEF Flow
      <4> QED
        BY <2>1, <4>1
    <3> QED
      BY <1>3, <2>1, <3>1
  <2>2. CASE /\ UNCHANGED <<step, lessonIds>> /\ next' = Wave("lessons", 1..Cardinality(Slots))
             /\ Send(LessonCalls, {})
    <3>1. ASSUME NEW c \in LessonCalls
          PROVE  CallOK(c)'
      <4>1. PICK s \in Slots : /\ c.kind = "lessons" /\ c.id = <<clicks + 1, Index(s)>>
                               /\ c.args \in [title : Lessons, section : MaybeIds]
        BY LessonCallsAre
      <4>2. Index(s) \in Nat \ {0}
        BY Shows DEF Spots
      <4> QED
        BY <1>2, <2>2, <4>1, <4>2, NewCallOK DEF Send
    <3>2. Cardinality(Slots) \in Nat
      BY Shows
    <3> QED
      BY <1>4, <2>2, <3>1, <3>2
  <2> QED
    BY <1>7, <2>1, <2>2 DEF NextStep3
<1> QED
  BY <1>5, <1>6, <1>7
(* A wave with the answer of one of its calls.                              *)
LEMMA WithIs ==
  ASSUME NEW w, NEW kinds, WaveOK(w, kinds), NEW c, CallOK(c), WaitsWell(w, c)
  PROVE  /\ With(w, c).wave = w.wave /\ With(w, c).kind = w.kind
         /\ DOMAIN With(w, c).results = DOMAIN w.results
         /\ \A p \in DOMAIN w.results :
              With(w, c).results[p] = IF p = c.id[2] THEN c.id ELSE w.results[p]
         /\ WaveOK(With(w, c), kinds) /\ c.id \in Ids /\ c.id # None
         /\ w.results \in Seq(MaybeIds) =>
              With(w, c).results \in Seq(MaybeIds) /\ Len(With(w, c).results) = Len(w.results)
         /\ Complete(With(w, c)) => \A p \in DOMAIN w.results : With(w, c).results[p] # None
<1> DEFINE v == With(w, c)
<1>1. /\ w.wave \in 1..clicks /\ w.kind \in kinds
      /\ w = [wave |-> w.wave, kind |-> w.kind, results |-> w.results]
      /\ w.results \in [DOMAIN w.results -> MaybeIds]
  BY DEF WaveOK, MaybeIds
<1>2. v = [wave |-> w.wave, kind |-> w.kind, results |-> [w.results EXCEPT ![c.id[2]] = c.id]]
  <2>1. \A a, b, r, x : [[wave |-> a, kind |-> b, results |-> r] EXCEPT !.results = x]
                           = [wave |-> a, kind |-> b, results |-> x]
    OBVIOUS
  <2>2. v = [w EXCEPT !.results = [w.results EXCEPT ![c.id[2]] = c.id]]
    BY DEF With, Settle
  <2> HIDE DEF v
  <2> QED
    BY <1>1, <2>1, <2>2
<1>3. v.wave = w.wave /\ v.kind = w.kind /\ v.results = [w.results EXCEPT ![c.id[2]] = c.id]
  BY <1>2
<1>4. c.id \in Ids /\ c.id # None /\ c.id \in MaybeIds /\ c.id[2] \in DOMAIN w.results
  BY NoneIsNone DEF CallOK, Ids, MaybeIds, WaitsWell
<1> HIDE DEF v
<1>5. /\ DOMAIN v.results = DOMAIN w.results /\ v.results \in [DOMAIN v.results -> MaybeIds]
      /\ \A p \in DOMAIN w.results : v.results[p] = IF p = c.id[2] THEN c.id ELSE w.results[p]
  BY <1>1, <1>3, <1>4
<1>6. WaveOK(v, kinds)
  BY <1>1, <1>2, <1>3, <1>5 DEF WaveOK, MaybeIds
<1>7. ASSUME w.results \in Seq(MaybeIds)
      PROVE  v.results \in Seq(MaybeIds) /\ Len(v.results) = Len(w.results)
  BY <1>3, <1>4, <1>7
<1>8. ASSUME Complete(v), NEW p \in DOMAIN w.results
      PROVE  v.results[p] # None
  BY <1>5, <1>8 DEF Complete, ToSet
<1> QED
  BY <1>3, <1>4, <1>5, <1>6, <1>7, <1>8 DEF v

LEMMA Awaited ==
  ASSUME Flow, CallsInv, NEW c \in calls
  PROVE  /\ CallOK(c)
         /\ Waits(next, c) => /\ Submitting /\ WaitsWell(next, c) /\ next.results \in Seq(MaybeIds)
                              /\ WaveOK(next, {"course", "sections", "lessons"})
         /\ Waits(pub, c) => Saving /\ WaitsWell(pub, c) /\ WaveOK(pub, {"status", "contents"})
         /\ ~(Waits(next, c) /\ Waits(pub, c))
<1>1. CallOK(c) /\ c.id[1] >= 1 /\ c.id[1] \in Nat
  BY DEF Flow, CallOK
<1>2. ASSUME Waits(next, c)
      PROVE  /\ Submitting /\ WaitsWell(next, c) /\ next.results \in Seq(MaybeIds)
             /\ WaveOK(next, {"course", "sections", "lessons"})
  <2>1. next # NoWave
    BY <1>1, <1>2 DEF Waits, NoWave
  <2> QED
    BY <1>2, <2>1 DEF Flow, CallsInv, Submitting
<1>3. ASSUME Waits(pub, c)
      PROVE  Saving /\ WaitsWell(pub, c) /\ WaveOK(pub, {"status", "contents"})
  <2>1. pub # NoWave
    BY <1>1, <1>3 DEF Waits, NoWave
  <2> QED
    BY <1>3, <2>1 DEF Flow, CallsInv, Saving
<1>4. ~(Waits(next, c) /\ Waits(pub, c))
  BY <1>2, <1>3 DEF WaitsWell, WaveOK
<1> QED
  BY <1>1, <1>2, <1>3, <1>4

(* What an answer does to the calls and to what waits for it.               *)
Heard(c) ==      \* a step's call, with calls left to wait for or not
  /\ Waits(next, c) /\ calls' = calls \ {c}
  /\ UNCHANGED <<pub, left, clicks, asked>>
  /\ \/ ~Complete(With(next, c)) /\ next' = With(next, c) /\ UNCHANGED <<step, ids>>
     \/ Complete(With(next, c)) /\ Created(With(next, c))

Saved(c) ==
  /\ Waits(pub, c) /\ UNCHANGED <<next, step, ids>>
  /\ \/ pub.kind = "status" /\ SendContents({c})
     \/ /\ pub.kind = "contents" /\ calls' = calls \ {c} /\ UNCHANGED <<clicks, asked>>
        /\ \/ Complete(With(pub, c)) /\ left' = TRUE /\ pub' = NoWave
           \/ pub' = With(pub, c) /\ UNCHANGED left

Dropped(c) ==
  /\ calls' = calls \ {c} /\ UNCHANGED <<left, step, ids, clicks, asked>>
  /\ next' \in {next, NoWave} /\ pub' \in {pub, NoWave}
  /\ Waits(next, c) => next' = NoWave
  /\ Waits(pub, c) => pub' = NoWave

LEMMA AnswersAre ==
  ASSUME NEW c, Answer(c) \/ Lost(c)
  PROVE  /\ Heard(c) \/ Saved(c) \/ Dropped(c)
         /\ back' = back \/ back' = TRUE
         /\ faults' = faults \/ (faults < MaxFaults /\ faults' = faults + 1)
         /\ Effect(c) \/ (UNCHANGED <<courses, sectionRows, lessonRows, stored>> /\ Dropped(c))
<1>1. ASSUME Failed(c)
      PROVE  Dropped(c) /\ back' = TRUE
  BY <1>1 DEF Failed, Dropped
<1>2. CASE Served(c)
  <2>1. Collected(c) => Heard(c) /\ back' = back
    BY DEF Collected, Heard
  <2>2. Published(c) => Saved(c) /\ back' = back
    BY DEF Published, Saved
  <2>3. Unheard(c) => Dropped(c) /\ back' = back
    BY DEF Unheard, Dropped
  <2> QED
    BY <1>2, <2>1, <2>2, <2>3 DEF Served
<1>3. CASE Refused(c)
  BY <1>1, <1>3 DEF Refused, tables
<1>4. CASE Lost(c)
  BY <1>1, <1>4 DEF Lost, tables
<1> QED
  BY <1>2, <1>3, <1>4 DEF Answer
LEMMA CompletedTypes ==
  ASSUME Flow, CallsInv, NEW c \in calls, Waits(next, c), Complete(With(next, c)), Created(With(next, c))
  PROVE  /\ step' \in 1..4 /\ courseId' \in MaybeIds /\ sectionIds' \in Seq(MaybeIds)
         /\ lessonIds' \in Seq(MaybeIds) /\ next' = NoWave
         /\ next.kind \in {"course", "sections", "lessons"}
         /\ next.kind = "course"   => /\ step' = 2 /\ courseId' \in Ids /\ courseId' # None
                                      /\ UNCHANGED <<sectionIds, lessonIds>>
         /\ next.kind = "sections" => /\ step' = 3 /\ sectionIds' = With(next, c).results
                                      /\ UNCHANGED <<courseId, lessonIds>>
         /\ next.kind = "lessons"  => /\ step' = 4 /\ lessonIds' = With(next, c).results
                                      /\ UNCHANGED <<courseId, sectionIds>>
<1> DEFINE w == With(next, c)
<1>1. /\ CallOK(c) /\ WaitsWell(next, c) /\ next.results \in Seq(MaybeIds) /\ Submitting
      /\ WaveOK(next, {"course", "sections", "lessons"})
  BY Awaited
<1>2. /\ w.kind = next.kind /\ w.results \in Seq(MaybeIds) /\ Len(w.results) = Len(next.results)
      /\ \A p \in DOMAIN next.results : w.results[p] # None
  BY <1>1, WithIs
<1>3. next.kind \in {"course", "sections", "lessons"}
  BY <1>1 DEF WaveOK
<1>4. /\ next' = NoWave
      /\ \/ w.kind = "course" /\ step' = 2 /\ courseId' = w.results[1] /\ UNCHANGED <<sectionIds, lessonIds>>
         \/ w.kind = "sections" /\ step' = 3 /\ sectionIds' = w.results /\ UNCHANGED <<courseId, lessonIds>>
         \/ w.kind = "lessons" /\ step' = 4 /\ lessonIds' = w.results /\ UNCHANGED <<courseId, sectionIds>>
  BY DEF Created
<1> HIDE DEF w
<1>5. courseId \in MaybeIds /\ sectionIds \in Seq(MaybeIds) /\ lessonIds \in Seq(MaybeIds)
  BY DEF Flow
<1>6. CASE next.kind = "course"
  <2>1. Len(next.results) = 1
    BY <1>1, <1>6 DEF CallsInv
  <2>2. 1 \in DOMAIN next.results
    BY <1>1, <2>1
  <2>3. w.results[1] \in MaybeIds /\ w.results[1] # None
    BY <1>2, <2>1, <2>2
  <2>4. w.results[1] \in Ids
    BY <2>3 DEF MaybeIds
  <2> QED
    BY <1>2, <1>4, <1>5, <1>6, <2>3, <2>4
<1>7. CASE next.kind = "sections"
  BY <1>2, <1>4, <1>5, <1>7 DEF w
<1>8. CASE next.kind = "lessons"
  BY <1>2, <1>4, <1>5, <1>8 DEF w
<1> QED
  BY <1>3, <1>6, <1>7, <1>8

LEMMA FlowOf ==
  ASSUME Wires', Names'
  PROVE  Flow'
  BY DEF Flow, Wires, Wave1, Wave2, Names

LEMMA AnswerFlow ==
  ASSUME Draft, Flow, ListsInv, CallsInv, NEW c \in calls, Answer(c) \/ Lost(c)
  PROVE  Flow'
<1>1. Wires /\ Names
  BY FlowIs
<1>2. back' \in BOOLEAN /\ faults' \in 0..MaxFaults
  <2>1. back \in BOOLEAN /\ faults \in 0..MaxFaults
    BY <1>1 DEF Names
  <2>2. back' = back \/ back' = TRUE
    BY AnswersAre
  <2>3. faults' = faults \/ (faults < MaxFaults /\ faults' = faults + 1)
    BY AnswersAre
  <2>4. back' \in BOOLEAN
    BY <2>1, <2>2
  <2> QED
    BY <2>1, <2>3, <2>4, WizardBounds
<1>3. clicks \in Nat
  BY <1>1 DEF Wires
<1>4. CASE Heard(c)
  <2>1. calls' = calls \ {c} /\ UNCHANGED <<pub, left, clicks, asked>>
    BY <1>4 DEF Heard
  <2>2. Wave2' /\ \A d \in calls' : CallOK(d)'
    BY <1>1, <1>3, <2>1, CallsGrow DEF Wires
  <2>3. CASE ~Complete(With(next, c)) /\ next' = With(next, c) /\ UNCHANGED <<step, ids>>
    <3>1. /\ WaveOK(With(next, c), {"course", "sections", "lessons"})
          /\ With(next, c).results \in Seq(MaybeIds)
      BY <1>4, Awaited, WithIs DEF Heard
    <3>2. Wave1'
      BY <2>1, <2>3, <3>1 DEF Wave1, WaveOK
    <3>3. Names'
      BY <1>1, <1>2, <2>3 DEF Names, ids
    <3>4. Wires'
      BY <1>1, <2>1, <2>2, <3>2 DEF Wires
    <3> QED
      BY <3>3, <3>4, FlowOf
  <2>4. CASE Complete(With(next, c)) /\ Created(With(next, c))
    <3>1. /\ step' \in 1..4 /\ courseId' \in MaybeIds /\ sectionIds' \in Seq(MaybeIds)
          /\ lessonIds' \in Seq(MaybeIds) /\ next' = NoWave
      BY <1>4, <2>4, CompletedTypes DEF Heard
    <3>2. Names'
      BY <1>2, <3>1 DEF Names
    <3>3. Wires'
      BY <1>1, <2>1, <2>2, <3>1 DEF Wires, Wave1
    <3> QED
      BY <3>2, <3>3, FlowOf
  <2> QED
    BY <1>4, <2>3, <2>4 DEF Heard
<1>5. CASE Saved(c)
  <2>1. UNCHANGED <<next, step, courseId, sectionIds, lessonIds>>
    BY <1>5 DEF Saved, ids
  <2>2. Names'
    BY <1>1, <1>2, <2>1 DEF Names
  <2>3. CASE SendContents({c})
    BY <2>1, <2>2, <2>3, SendContentsWires, FlowOf
  <2>4. CASE /\ calls' = calls \ {c} /\ UNCHANGED <<clicks, asked>>
             /\ \/ left' = TRUE /\ pub' = NoWave
                \/ pub' = With(pub, c) /\ UNCHANGED left
    <3>1. Wave1' /\ \A d \in calls' : CallOK(d)'
      BY <1>1, <1>3, <2>1, <2>4, CallsGrow DEF Wires
    <3>2. WaveOK(With(pub, c), {"status", "contents"})
      BY <1>5, Awaited, WithIs DEF Saved
    <3>3. Wave2'
      BY <2>4, <3>2 DEF Wave2, WaveOK
    <3>4. Wires'
      BY <1>1, <2>4, <3>1, <3>3 DEF Wires
    <3> QED
      BY <2>2, <3>4, FlowOf
  <2> QED
    BY <1>5, <2>3, <2>4 DEF Saved
<1>6. CASE Dropped(c)
  <2>1. /\ calls' = calls \ {c} /\ UNCHANGED <<left, step, ids, clicks, asked>>
        /\ next' \in {next, NoWave} /\ pub' \in {pub, NoWave}
    BY <1>6 DEF Dropped
  <2>2. \A d \in calls' : CallOK(d)'
    BY <1>1, <1>3, <2>1, CallsGrow DEF Wires
  <2>3. Wave1'
    <3>1. next' = next => Wave1'
      BY <1>1, <1>3, <2>1, CallsGrow DEF Wires
    <3>2. next' = NoWave => Wave1'
      BY DEF Wave1
    <3> QED
      BY <2>1, <3>1, <3>2
  <2>4. Wave2'
    <3>1. pub' = pub => Wave2'
      BY <1>1, <1>3, <2>1, CallsGrow DEF Wires
    <3>2. pub' = NoWave => Wave2'
      BY DEF Wave2
    <3> QED
      BY <2>1, <3>1, <3>2
  <2>5. Wires' /\ Names'
    BY <1>1, <1>2, <2>1, <2>2, <2>3, <2>4 DEF Wires, Names, ids
  <2> QED
    BY <2>5, FlowOf
<1> QED
  BY <1>4, <1>5, <1>6, AnswersAre

LEMMA PublishFlow ==
  ASSUME Draft, Flow, ListsInv, NEW s \in {"DRAFT", "PENDING"}, Publish(s)
  PROVE  Flow'
<1>1. Wires /\ Names /\ clicks \in Nat
  BY FlowIs DEF Flow
<1>2. UNCHANGED <<ids, step, next, faults, back>> /\ courseId # None
  BY DEF Publish
<1>3. Names'
  BY <1>1, <1>2 DEF Names, ids
<1>4. CASE SendContents({})
  BY <1>2, <1>3, <1>4, SendContentsWires, FlowOf
<1>5. CASE /\ pub' = Wave("status", 1..1) /\ UNCHANGED <<left, asked>>
           /\ Send({Call("status", 1, [course |-> courseId, status |-> s, title |-> title])}, {})
  <2>1. /\ clicks' = clicks + 1
        /\ calls' = calls \cup {Call("status", 1, [course |-> courseId, status |-> s, title |-> title])}
    BY <1>5 DEF Send
  <2>2. ASSUME NEW c \in {Call("status", 1, [course |-> courseId, status |-> s, title |-> title])}
        PROVE  CallOK(c)'
    <3>1. courseId \in Ids /\ title \in Titles /\ s \in Status /\ 1 \in Nat \ {0}
      BY <1>2 DEF Flow, Draft, Status, MaybeIds
    <3>2. /\ c.kind = "status" /\ c.id = <<clicks + 1, 1>>
          /\ c.args \in [course : Ids, status : Status, title : Titles]
      BY <3>1 DEF Call
    <3> QED
      BY <1>1, <2>1, <3>1, <3>2, NewCallOK
  <2>3. \A c \in calls : CallOK(c)'
    BY <1>1, <2>1, CallsGrow DEF Wires
  <2>4. Wave2'
    BY <1>1, <1>5, <2>1, NewWave DEF Wave2
  <2>5. Wave1'
    <3>1. clicks' \in Nat /\ clicks <= clicks' /\ UNCHANGED next /\ Wave1
      BY <1>1, <1>2, <2>1 DEF Wires
    <3> QED
      BY <1>1, <3>1, CallsGrow
  <2>6. Wires'
    BY <1>1, <1>5, <2>1, <2>2, <2>3, <2>4, <2>5 DEF Wires
  <2> QED
    BY <1>3, <2>6, FlowOf
<1> QED
  BY <1>4, <1>5 DEF Publish

LEMMA FlowStep ==
  ASSUME Draft, Flow, Rows, ListsInv, CallsInv, [CWNext]_cwVars
  PROVE  Flow'
<1>1. Wires /\ Names /\ clicks \in Nat
  BY FlowIs DEF Flow
<1>2. ASSUME UNCHANGED <<next, pub, left, calls, clicks, asked, courseId, sectionIds, lessonIds>>,
             step' \in 1..4, back' \in BOOLEAN, faults' \in 0..MaxFaults
      PROVE  Flow'
  <2>1. Wave1' /\ Wave2' /\ \A c \in calls : CallOK(c)'
    BY <1>1, <1>2, CallsGrow DEF Wires
  <2>2. Wires' /\ Names'
    BY <1>1, <1>2, <2>1 DEF Wires, Names
  <2> QED
    BY <2>2, FlowOf
<1>3. CASE Retitle \/ AddSection
  BY <1>3, EditNames DEF Retitle, AddSection
<1>4. ASSUME NEW i \in Places, RemoveSection(i)
      PROVE  Flow'
  BY <1>4, EditNames DEF RemoveSection
<1>5. ASSUME NEW i \in Places, AddLesson(i)
      PROVE  Flow'
  <2>1. Edits
    BY <1>5 DEF AddLesson
  <2> QED
    BY <1>5, <2>1, EditNames
<1>6. ASSUME NEW i \in Places, NEW j \in Spots, RemoveLesson(i, j)
      PROVE  Flow'
  <2>1. Edits
    BY <1>6 DEF RemoveLesson
  <2> QED
    BY <1>6, <2>1, EditNames
<1>7. ASSUME NEW s \in Slots, EditQuiz(s)
      PROVE  Flow'
  BY <1>7, EditNames DEF EditQuiz
<1>8. CASE OnServer
  BY <1>8, NextStepFlow, PublishFlow, AnswerFlow DEF OnServer
<1>9. CASE OnUploads
  <2>1. UNCHANGED <<next, pub, left, calls, clicks, asked, courseId, sectionIds, lessonIds>>
    BY <1>9, UploadsKeep DEF ids
  <2>2. CASE PrevStep
    BY <1>1, <1>2, <2>1, <2>2 DEF PrevStep, Names
  <2>3. ASSUME NEW s \in Slots, SelectFile(s)
        PROVE  Flow'
    BY <1>1, <1>2, <2>1, <2>3 DEF SelectFile, Uploading, Names
  <2>4. ASSUME NEW u \in uploads, UpdateS3Key(u) \/ UploadFails(u)
        PROVE  Flow'
    <3>1. faults' \in 0..MaxFaults
      BY <1>1, <2>4, WizardBounds DEF UpdateS3Key, UploadFails, Names
    <3> QED
      BY <1>1, <1>2, <2>1, <2>4, <3>1 DEF UpdateS3Key, UploadFails, Uploading, Names
  <2> QED
    BY <1>9, <2>2, <2>3, <2>4 DEF OnUploads
<1>10. CASE UNCHANGED cwVars
  BY <1>1, <1>2, <1>10 DEF cwVars, ids, Names
<1> QED
  BY <1>3, <1>4, <1>5, <1>6, <1>7, <1>8, <1>9, <1>10, StepsAre
-----------------------------------------------------------------------------
(* The rows and documents under each step.                                  *)
LEMMA RowsMove ==
  ASSUME [CWNext]_cwVars
  PROVE  \/ UNCHANGED <<courses, sectionRows, lessonRows, stored>>
         \/ \E c \in calls : (Answer(c) \/ Lost(c)) /\ Effect(c)
         \/ \E u \in uploads : UpdateS3Key(u) /\ UNCHANGED <<courses, sectionRows, lessonRows>>
<1>1. CASE Retitle \/ AddSection \/ \E i \in Places : RemoveSection(i) \/ AddLesson(i)
  BY <1>1, EditKeeps DEF Retitle, AddSection, RemoveSection, AddLesson
<1>2. CASE \/ \E i \in Places, j \in Spots : RemoveLesson(i, j)
           \/ \E s \in Slots : EditQuiz(s)
  BY <1>2, EditKeeps DEF RemoveLesson, EditQuiz
<1>3. CASE NextStep1 \/ NextStep2 \/ NextStep3
  BY <1>3 DEF NextStep1, NextStep2, NextStep3, Clicks, tables
<1>4. CASE \E s \in {"DRAFT", "PENDING"} : Publish(s)
  BY <1>4 DEF Publish, tables
<1>5. CASE \E c \in calls : Answer(c) \/ Lost(c)
  BY <1>5, AnswersAre
<1>6. CASE PrevStep \/ \E s \in Slots : SelectFile(s)
  BY <1>6 DEF PrevStep, SelectFile, Uploading, tables
<1>7. CASE \E u \in uploads : UpdateS3Key(u) \/ UploadFails(u)
  BY <1>7 DEF UpdateS3Key, UploadFails, Uploading
<1>8. CASE UNCHANGED cwVars
  BY <1>8 DEF cwVars, tables
<1> QED
  BY <1>1, <1>2, <1>3, <1>4, <1>5, <1>6, <1>7, <1>8, StepsAre DEF OnServer, OnUploads

LEMMA DocType ==
  ASSUME Rows, NEW id
  PROVE  Doc(id) \in Content
<1>1. Empty \in Content
  BY DEF Empty, Content
<1>2. stored \subseteq [lesson : Ids, content : Content]
  BY DEF Rows
<1>3. ASSUME \E d \in stored : d.lesson = id
      PROVE  (CHOOSE d \in stored : d.lesson = id) \in stored
  BY <1>3
<1> QED
  BY <1>1, <1>2, <1>3 DEF Doc

(* What the effect of a call is, table by table.                            *)
Stores(c, content) ==
  stored' = {d \in stored : d.lesson # c.args.lesson} \cup
              {[lesson |-> c.args.lesson, content |-> content]}
Kept(c) == [video |-> c.args.content.video,
            quiz |-> IF c.args.content.quiz = None THEN Doc(c.args.lesson).quiz
                     ELSE c.args.content.quiz]

LEMMA EffectIs ==
  ASSUME NEW c, CallOK(c), Effect(c)
  PROVE  \/ /\ c.kind = "course" /\ UNCHANGED <<sectionRows, lessonRows, stored>>
            /\ courses' = courses \cup {[id |-> c.id, title |-> c.args, status |-> "DRAFT"]}
            /\ c.args \in Titles
         \/ /\ c.kind = "sections" /\ UNCHANGED <<courses, lessonRows, stored>>
            /\ sectionRows' = sectionRows \cup {[id |-> c.id, title |-> c.args]}
            /\ c.args \in Sections
         \/ /\ c.kind = "lessons" /\ UNCHANGED <<courses, sectionRows, stored>>
            /\ lessonRows' = lessonRows \cup
                 {[id |-> c.id, title |-> c.args.title, section |-> c.args.section]}
            /\ c.args \in [title : Lessons, section : MaybeIds]
         \/ /\ c.kind = "status" /\ UNCHANGED <<sectionRows, lessonRows, stored>>
            /\ courses' = {IF r.id # c.args.course THEN r
                           ELSE [r EXCEPT !.status = c.args.status,
                                          !.title = IF isEdit THEN c.args.title ELSE @] : r \in courses}
            /\ c.args \in [course : Ids, status : Status, title : Titles]
         \/ /\ c.kind = "contents" /\ UNCHANGED <<courses, sectionRows, lessonRows>>
            /\ \E l \in lessonRows : l.id = c.args.lesson
            /\ Stores(c, Kept(c)) /\ c.args \in [lesson : MaybeIds, content : Content]
<1>1. Possible(c) /\ (Create(c) \/ CreateSection(c) \/ CreateLesson(c) \/ Update(c) \/ CreateContent(c))
  BY DEF Effect
<1>2. CASE Create(c)
  BY <1>2 DEF Create, CallOK
<1>3. CASE CreateSection(c)
  BY <1>3 DEF CreateSection, CallOK
<1>4. CASE CreateLesson(c)
  BY <1>4 DEF CreateLesson, CallOK, MaybeIds
<1>5. CASE Update(c)
  BY <1>5 DEF Update, CallOK
<1>6. CASE CreateContent(c)
  <2>1. c.kind = "contents"
    BY <1>6 DEF CreateContent
  <2>2. \E l \in lessonRows : l.id = c.args.lesson
    BY <1>1, <2>1 DEF Possible
  <2>3. c.args \in [lesson : MaybeIds, content : Content]
    BY <2>1 DEF CallOK, MaybeIds
  <2> QED
    BY <1>6, <2>1, <2>2, <2>3 DEF CreateContent, Upsert, Stores, Kept
<1> QED
  BY <1>1, <1>2, <1>3, <1>4, <1>5, <1>6

LEMMA KeptType ==
  ASSUME Rows, NEW c, c.args \in [lesson : MaybeIds, content : Content]
  PROVE  /\ Kept(c) \in Content /\ Kept(c).video = c.args.content.video
         /\ Kept(c).quiz = IF c.args.content.quiz = None THEN Doc(c.args.lesson).quiz
                           ELSE c.args.content.quiz
<1>1. Doc(c.args.lesson) \in Content /\ c.args.content \in Content
  BY DocType
<1> QED
  BY <1>1 DEF Kept, Content

LEMMA RowsStep ==
  ASSUME Draft, Flow, Rows, [CWNext]_cwVars
  PROVE  Rows'
<1>1. CASE UNCHANGED <<courses, sectionRows, lessonRows, stored>>
  BY <1>1 DEF Rows
<1>2. ASSUME NEW c \in calls, Effect(c)
      PROVE  Rows'
  <2>1. CallOK(c) /\ c.id \in Ids
    BY DEF Flow, CallOK, Ids
  <2>2. CASE c.kind = "course"
    <3>1. [id |-> c.id, title |-> c.args, status |-> "DRAFT"] \in [id : Ids, title : Titles, status : Status]
      BY <1>2, <2>1, <2>2, EffectIs DEF Status
    <3> QED
      BY <1>2, <2>1, <2>2, <3>1, EffectIs DEF Rows
  <2>3. CASE c.kind = "sections"
    <3>1. [id |-> c.id, title |-> c.args] \in [id : Ids, title : Sections]
      BY <1>2, <2>1, <2>3, EffectIs
    <3> QED
      BY <1>2, <2>1, <2>3, <3>1, EffectIs DEF Rows
  <2>4. CASE c.kind = "lessons"
    <3>1. [id |-> c.id, title |-> c.args.title, section |-> c.args.section]
            \in [id : Ids, title : Lessons, section : MaybeIds]
      BY <1>2, <2>1, <2>4, EffectIs
    <3> QED
      BY <1>2, <2>1, <2>4, <3>1, EffectIs DEF Rows
  <2>5. CASE c.kind = "status"
    <3>1. /\ courses' = {IF r.id # c.args.course THEN r
                         ELSE [r EXCEPT !.status = c.args.status,
                                        !.title = IF isEdit THEN c.args.title ELSE @] : r \in courses}
          /\ c.args.status \in Status /\ c.args.title \in Titles
          /\ UNCHANGED <<sectionRows, lessonRows, stored>>
      BY <1>2, <2>1, <2>5, EffectIs
    <3>2. courses \subseteq [id : Ids, title : Titles, status : Status]
      BY DEF Rows
    <3>3. courses' \subseteq [id : Ids, title : Titles, status : Status]
      BY <3>1, <3>2
    <3> QED
      BY <3>1, <3>3 DEF Rows
  <2>6. CASE c.kind = "contents"
    <3>1. /\ UNCHANGED <<courses, sectionRows, lessonRows>> /\ Stores(c, Kept(c))
          /\ c.args \in [lesson : MaybeIds, content : Content]
          /\ \E l \in lessonRows : l.id = c.args.lesson
      BY <1>2, <2>1, <2>6, EffectIs
    <3>2. c.args.lesson \in Ids
      BY <3>1 DEF Rows
    <3>3. [lesson |-> c.args.lesson, content |-> Kept(c)] \in [lesson : Ids, content : Content]
      BY <3>1, <3>2, KeptType
    <3> QED
      BY <3>1, <3>3 DEF Rows, Stores
  <2> QED
    BY <1>2, <2>1, <2>2, <2>3, <2>4, <2>5, <2>6, EffectIs
<1>3. ASSUME NEW u \in uploads, UpdateS3Key(u), UNCHANGED <<courses, sectionRows, lessonRows>>
      PROVE  Rows'
  <2>1. stored' = {d \in stored : d.lesson # u.id} \cup
                    {[lesson |-> u.id, content |-> [Doc(u.id) EXCEPT !.video = u.video]]}
    BY <1>3 DEF UpdateS3Key, Upsert
  <2>2. Doc(u.id) \in Content /\ u.id \in Ids /\ u.video \in Lessons
    BY DocType DEF Draft
  <2>3. [Doc(u.id) EXCEPT !.video = u.video] \in Content
    BY <2>2 DEF Content
  <2>4. [lesson |-> u.id, content |-> [Doc(u.id) EXCEPT !.video = u.video]]
          \in [lesson : Ids, content : Content]
    BY <2>2, <2>3
  <2> QED
    BY <1>3, <2>1, <2>4 DEF Rows
<1> QED
  BY <1>1, <1>2, <1>3, RowsMove
-----------------------------------------------------------------------------
(* The calls under way, and what waits for them, under each step.           *)
Names1(c) == /\ c.id = <<c.id[1], c.id[2]>> /\ c.id[1] \in 1..clicks /\ c.id[2] \in Nat \ {0}

LEMMA CallIds ==
  ASSUME Flow
  PROVE  \A c \in calls : Names1(c)
  BY DEF Flow, CallOK, Names1

(* The calls of a click are its own, and no two of them are the same.       *)
Fresher(new) ==
  /\ \A c \in new : c.id[1] = clicks + 1
  /\ \A c, d \in new : c.id = d.id => c = d

LEMMA LessonCallsFresh ==
  ASSUME Draft, Flow, ListsInv
  PROVE  Fresher(LessonCalls)
<1>1. ASSUME NEW c \in LessonCalls
      PROVE  c.id[1] = clicks + 1
  <2>1. PICK s \in Slots : c.id = <<clicks + 1, Index(s)>>
    BY LessonCallsAre
  <2> QED
    BY <2>1
<1>2. ASSUME NEW c \in LessonCalls, NEW d \in LessonCalls, c.id = d.id
      PROVE  c = d
  <2>1. PICK s \in Slots :
          /\ c.id = <<clicks + 1, Index(s)>>
          /\ c = Call("lessons", Index(s), [title |-> Lesson(s), section |-> SectionId(s[1])])
    BY LessonCallsAre
  <2>2. PICK t \in Slots :
          /\ d.id = <<clicks + 1, Index(t)>>
          /\ d = Call("lessons", Index(t), [title |-> Lesson(t), section |-> SectionId(t[1])])
    BY LessonCallsAre
  <2>3. Index(s) = Index(t)
    <3>1. <<clicks + 1, Index(s)>> = <<clicks + 1, Index(t)>>
      BY <1>2, <2>1, <2>2
    <3> QED
      BY <3>1
  <2>4. s = t
    BY <2>3, Shows
  <2> QED
    BY <2>1, <2>2, <2>4
<1> QED
  BY <1>1, <1>2 DEF Fresher

LEMMA ContentCallsFresh ==
  ASSUME Draft, Flow, ListsInv
  PROVE  Fresher(ContentCalls)
<1>1. ASSUME NEW c \in ContentCalls
      PROVE  c.id[1] = clicks + 1
  <2>1. PICK s \in Slots : c.id = <<clicks + 1, Index(s)>>
    BY ContentCallsAre
  <2> QED
    BY <2>1
<1>2. ASSUME NEW c \in ContentCalls, NEW d \in ContentCalls, c.id = d.id
      PROVE  c = d
  <2>1. PICK s \in Slots :
          /\ c.id = <<clicks + 1, Index(s)>>
          /\ c = Call("contents", Index(s), [lesson |-> LessonId(Index(s)), content |-> contents[Index(s)]])
    BY ContentCallsAre
  <2>2. PICK t \in Slots :
          /\ d.id = <<clicks + 1, Index(t)>>
          /\ d = Call("contents", Index(t), [lesson |-> LessonId(Index(t)), content |-> contents[Index(t)]])
    BY ContentCallsAre
  <2>3. Index(s) = Index(t)
    <3>1. <<clicks + 1, Index(s)>> = <<clicks + 1, Index(t)>>
      BY <1>2, <2>1, <2>2
    <3> QED
      BY <3>1
  <2>4. s = t
    BY <2>3, Shows
  <2> QED
    BY <2>1, <2>2, <2>4
<1> QED
  BY <1>1, <1>2 DEF Fresher

(* No step but a click makes calls, and a step answers one at most.         *)
Sends(new) ==
  /\ Fresher(new) /\ clicks' = clicks + 1
  /\ \E gone \in SUBSET calls : calls' = (calls \ gone) \cup new

SendsNext(what, places, new) ==
  /\ Sends(new) /\ UNCHANGED <<step, pub, lessonRows>> /\ next' = Wave(what, places) /\ ~isEdit /\ step # 4
  /\ \A c \in new : c.kind = what /\ c.id[2] \in places
  /\ what = "course" => places = 1..1

LEMMA NextStepCalls ==
  ASSUME Draft, Flow, ListsInv, NextStep1 \/ NextStep2 \/ NextStep3
  PROVE  \/ UNCHANGED <<next, calls, clicks, pub>> /\ next = NoWave
         \/ NextStep1 /\ SendsNext("course", 1..1, {Call("course", 1, title)})
         \/ NextStep2 /\ SendsNext("sections", 1..Len(sections),
                            {Call("sections", i, sections[i]) : i \in 1..Len(sections)})
         \/ /\ NextStep3 /\ SendsNext("lessons", 1..Cardinality(Slots), LessonCalls)
            /\ \A i \in 1..Len(sections) : lessons[i] # <<>>
<1>1. next = NoWave /\ UNCHANGED pub /\ UNCHANGED lessonRows
  BY DEF NextStep1, NextStep2, NextStep3, Clicks, Submitting, tables
<1>2. CASE NextStep1
  <2> DEFINE new == {Call("course", 1, title)}
  <2>1. CASE isEdit /\ UNCHANGED <<next, calls, clicks>>
    BY <1>1, <2>1
  <2>2. CASE ~isEdit /\ next' = Wave("course", 1..1) /\ Send(new, {}) /\ UNCHANGED step
    <3>1. Fresher(new) /\ \A c \in new : c.kind = "course" /\ c.id[2] \in 1..1
      BY DEF Fresher, Call
    <3>2. clicks' = clicks + 1 /\ calls' = (calls \ {}) \cup new /\ {} \in SUBSET calls
      BY <2>2 DEF Send
    <3>3. step # 4
      BY <1>2 DEF NextStep1
    <3> HIDE DEF new
    <3>4. Sends(new)
      BY <3>1, <3>2 DEF Sends
    <3>5. SendsNext("course", 1..1, new)
      BY <1>1, <2>2, <3>1, <3>3, <3>4 DEF SendsNext
    <3> QED
      BY <1>2, <3>5 DEF new
  <2> QED
    BY <1>2, <2>1, <2>2 DEF NextStep1
<1>3. CASE NextStep2
  <2> DEFINE new == {Call("sections", i, sections[i]) : i \in 1..Len(sections)}
  <2>1. CASE isEdit /\ UNCHANGED <<next, calls, clicks>>
    BY <1>1, <2>1
  <2>2. CASE ~isEdit /\ next' = Wave("sections", 1..Len(sections)) /\ Send(new, {}) /\ UNCHANGED step
    <3>1. Fresher(new) /\ \A c \in new : c.kind = "sections" /\ c.id[2] \in 1..Len(sections)
      BY DEF Fresher, Call
    <3>2. clicks' = clicks + 1 /\ calls' = (calls \ {}) \cup new /\ {} \in SUBSET calls
      BY <2>2 DEF Send
    <3>3. step # 4
      BY <1>3 DEF NextStep2
    <3> HIDE DEF new
    <3>4. Sends(new)
      BY <3>1, <3>2 DEF Sends
    <3>5. SendsNext("sections", 1..Len(sections), new)
      BY <1>1, <2>2, <3>1, <3>3, <3>4 DEF SendsNext
    <3> QED
      BY <1>3, <3>5 DEF new
  <2> QED
    BY <1>3, <2>1, <2>2 DEF NextStep2
<1>4. CASE NextStep3
  <2>1. CASE UNCHANGED <<next, calls, clicks>>
    BY <1>1, <2>1
  <2>2. CASE /\ ~isEdit /\ next' = Wave("lessons", 1..Cardinality(Slots))
             /\ Send(LessonCalls, {}) /\ UNCHANGED step
             /\ \A i \in 1..Len(sections) : lessons[i] # <<>>
    <3>1. ASSUME NEW c \in LessonCalls
          PROVE  c.kind = "lessons" /\ c.id[2] \in 1..Cardinality(Slots)
      <4>1. PICK s \in Slots : c.kind = "lessons" /\ c.id = <<clicks + 1, Index(s)>>
        BY LessonCallsAre
      <4> QED
        BY <4>1, Shows
    <3>2. clicks' = clicks + 1 /\ calls' = (calls \ {}) \cup LessonCalls /\ {} \in SUBSET calls
      BY <2>2 DEF Send
    <3>3. step # 4
      BY <1>4 DEF NextStep3
    <3>4. Sends(LessonCalls)
      BY <3>2, LessonCallsFresh DEF Sends
    <3>5. SendsNext("lessons", 1..Cardinality(Slots), LessonCalls)
      BY <1>1, <2>2, <3>1, <3>3, <3>4 DEF SendsNext
    <3> QED
      BY <1>4, <2>2, <3>5
  <2> QED
    BY <1>4, <2>1, <2>2 DEF NextStep3
<1> QED
  BY <1>2, <1>3, <1>4

(* Publishing, and what its first call leads to.                            *)
SendsPub(what, places, new) ==
  /\ Sends(new) /\ pub' = Wave(what, places) /\ UNCHANGED next
  /\ \A c \in new : c.kind = what /\ c.id[2] \in places

LEMMA SendContentsCalls ==
  ASSUME Draft, Flow, ListsInv, NEW gone \in SUBSET calls, SendContents(gone), UNCHANGED next
  PROVE  \/ left' = TRUE /\ pub' = NoWave /\ calls' = calls \ gone /\ asked' = {} /\ UNCHANGED clicks
         \/ /\ SendsPub("contents", {c.id[2] : c \in ContentCalls}, ContentCalls) /\ ~isEdit
            /\ asked' = {c.args : c \in ContentCalls} /\ UNCHANGED left
            /\ calls' = (calls \ gone) \cup ContentCalls
<1>1. CASE isEdit \/ ContentCalls = {}
  BY <1>1 DEF SendContents
<1>2. CASE ~(isEdit \/ ContentCalls = {})
  <2>1. /\ pub' = Wave("contents", {c.id[2] : c \in ContentCalls})
        /\ asked' = {c.args : c \in ContentCalls} /\ UNCHANGED left
        /\ calls' = (calls \ gone) \cup ContentCalls /\ clicks' = clicks + 1
    BY <1>2 DEF SendContents, Send
  <2>2. \A c \in ContentCalls : c.kind = "contents" /\ c.id[2] \in {d.id[2] : d \in ContentCalls}
    BY ContentCallsAre
  <2>3. Sends(ContentCalls)
    BY <2>1, ContentCallsFresh DEF Sends
  <2> QED
    BY <1>2, <2>1, <2>2, <2>3 DEF SendsPub
<1> QED
  BY <1>1, <1>2

StatusCall(s) == Call("status", 1, [course |-> courseId, status |-> s, title |-> title])

LEMMA PublishCalls ==
  ASSUME Draft, Flow, ListsInv, NEW s \in {"DRAFT", "PENDING"}, Publish(s)
  PROVE  /\ UNCHANGED <<step, next, courseId, sectionIds, lessonIds, back, lessonRows>>
         /\ ~left /\ ~Saving /\ step = 4
         /\ \/ SendsPub("status", 1..1, {StatusCall(s)}) /\ UNCHANGED <<left, asked>>
               /\ calls' = calls \cup {StatusCall(s)}
            \/ SendContents({})
<1>1. /\ UNCHANGED <<step, next, courseId, sectionIds, lessonIds, back, lessonRows>>
      /\ ~left /\ ~Saving /\ step = 4
  BY DEF Publish, ids, tables
<1>2. CASE pub' = Wave("status", 1..1) /\ Send({StatusCall(s)}, {}) /\ UNCHANGED <<left, asked>>
  <2> DEFINE new == {StatusCall(s)}
  <2>1. Fresher(new) /\ \A c \in new : c.kind = "status" /\ c.id[2] \in 1..1
    BY DEF Fresher, StatusCall, Call
  <2>2. clicks' = clicks + 1 /\ calls' = (calls \ {}) \cup new /\ {} \in SUBSET calls
    BY <1>2 DEF Send
  <2> HIDE DEF new
  <2>3. SendsPub("status", 1..1, new)
    BY <1>1, <1>2, <2>1, <2>2 DEF SendsPub, Sends
  <2> QED
    BY <1>1, <1>2, <2>2, <2>3 DEF new
<1> QED
  BY <1>1, <1>2 DEF Publish, StatusCall
-----------------------------------------------------------------------------
CallsOnce == \A c, d \in calls : c.id = d.id => c = d
NextOK == \A c \in calls : Waits(next, c) => WaitsWell(next, c)
PubOK  == \A c \in calls : Waits(pub, c) => WaitsWell(pub, c)
Quiet  == (isEdit \/ step = 4 => next = NoWave)
OneCourse == (Submitting /\ next.kind = "course" => Len(next.results) = 1)

LEMMA CallsInvIs == CallsInv <=> CallsOnce /\ NextOK /\ PubOK /\ Quiet /\ OneCourse
  BY DEF CallsInv, CallsOnce, NextOK, PubOK, Quiet, OneCourse

LEMMA CallsInvOf ==
  ASSUME CallsOnce', NextOK', PubOK', Quiet', OneCourse'
  PROVE  CallsInv'
  BY DEF CallsInv, CallsOnce, NextOK, PubOK, Quiet, OneCourse

LEMMA WaveIs ==
  ASSUME NEW what, NEW places
  PROVE  /\ Wave(what, places).wave = clicks + 1 /\ Wave(what, places).kind = what
         /\ Wave(what, places).results = [p \in places |-> None]
         /\ DOMAIN Wave(what, places).results = places
         /\ \A p \in places : Wave(what, places).results[p] = None
  BY DEF Wave

LEMMA NoWaveWaits ==
  ASSUME Flow, NEW c \in calls
  PROVE  ~Waits(NoWave, c)
<1>1. c.id[1] # 0
  BY CallIds DEF Names1
<1> QED
  BY <1>1 DEF Waits, NoWave

LEMMA SendsCalls ==
  ASSUME Flow, CallsInv, NEW new, Sends(new)
  PROVE  /\ CallsOnce'
         /\ UNCHANGED next => NextOK'
         /\ UNCHANGED pub => PubOK'
         /\ \A c \in calls' : c \in calls \/ c \in new
         /\ \A c \in calls : c.id[1] # clicks + 1
<1>1. clicks \in Nat /\ \A c \in calls : c.id[1] \in 1..clicks
  BY CallIds DEF Flow, Names1
<1>2. /\ \A c \in new : c.id[1] = clicks + 1
      /\ \A c, d \in new : c.id = d.id => c = d
      /\ \A c \in calls' : c \in calls \/ c \in new
  BY DEF Sends, Fresher
<1>3. \A c \in calls : c.id[1] # clicks + 1
  BY <1>1
<1>4. CallsOnce'
  BY <1>2, <1>3 DEF CallsInv, CallsOnce
<1>5. ASSUME UNCHANGED next PROVE NextOK'
  <2>1. next = NoWave \/ next.wave \in 1..clicks
    BY DEF Flow, WaveOK
  <2>2. next.wave # clicks + 1
    BY <1>1, <2>1 DEF NoWave
  <2>3. \A c \in new : ~Waits(next, c)
    BY <1>2, <2>2 DEF Waits
  <2> QED
    BY <1>2, <1>5, <2>3 DEF NextOK, CallsInv
<1>6. ASSUME UNCHANGED pub PROVE PubOK'
  <2>1. pub = NoWave \/ pub.wave \in 1..clicks
    BY DEF Flow, WaveOK
  <2>2. pub.wave # clicks + 1
    BY <1>1, <2>1 DEF NoWave
  <2>3. \A c \in new : ~Waits(pub, c)
    BY <1>2, <2>2 DEF Waits
  <2> QED
    BY <1>2, <1>6, <2>3 DEF PubOK, CallsInv
<1> QED
  BY <1>2, <1>3, <1>4, <1>5, <1>6

LEMMA SendsNextCalls ==
  ASSUME Flow, CallsInv, NEW what, NEW places, NEW new, SendsNext(what, places, new), UNCHANGED isEdit
  PROVE  CallsInv'
<1>1. /\ Sends(new) /\ UNCHANGED <<step, pub>> /\ next' = Wave(what, places) /\ ~isEdit /\ step # 4
      /\ \A c \in new : c.kind = what /\ c.id[2] \in places
      /\ what = "course" => places = 1..1
  BY DEF SendsNext
<1>2. CallsOnce' /\ PubOK' /\ \A c \in calls' : c \in calls \/ c \in new
  BY <1>1, SendsCalls
<1>3. /\ next'.wave = clicks + 1 /\ next'.kind = what /\ DOMAIN next'.results = places
      /\ next'.results = [p \in places |-> None] /\ \A p \in places : next'.results[p] = None
  BY <1>1, WaveIs
<1>4. NextOK'
  <2>1. \A c \in calls : ~Waits(next', c)
    BY <1>1, <1>3, SendsCalls DEF Waits
  <2>2. \A c \in new : WaitsWell(next', c)
    BY <1>1, <1>3 DEF WaitsWell
  <2> QED
    BY <1>2, <2>1, <2>2 DEF NextOK
<1>5. Quiet'
  BY <1>1 DEF Quiet
<1>6. OneCourse'
  <2>1. next'.kind = "course" => Len(next'.results) = 1
    BY <1>1, <1>3
  <2> QED
    BY <2>1 DEF OneCourse
<1> QED
  BY <1>2, <1>4, <1>5, <1>6, CallsInvOf

LEMMA SendsPubCalls ==
  ASSUME Flow, CallsInv, NEW what, NEW places, NEW new, SendsPub(what, places, new),
         UNCHANGED <<isEdit, step>>
  PROVE  CallsInv'
<1>1. /\ Sends(new) /\ UNCHANGED next /\ pub' = Wave(what, places)
      /\ \A c \in new : c.kind = what /\ c.id[2] \in places
  BY DEF SendsPub
<1>2. CallsOnce' /\ NextOK' /\ \A c \in calls' : c \in calls \/ c \in new
  BY <1>1, SendsCalls
<1>3. /\ pub'.wave = clicks + 1 /\ pub'.kind = what /\ DOMAIN pub'.results = places
      /\ \A p \in places : pub'.results[p] = None
  <2>1. pub' = Wave(what, places)
    BY <1>1
  <2> DEFINE w == Wave(what, places)
  <2>2. /\ w.wave = clicks + 1 /\ w.kind = what /\ DOMAIN w.results = places
        /\ \A p \in places : w.results[p] = None
    BY DEF Wave
  <2> HIDE DEF w
  <2>3. pub' = w
    BY <2>1 DEF w
  <2> QED
    BY <2>2, <2>3
<1>4. PubOK'
  <2>1. \A c \in calls : ~Waits(pub', c)
    BY <1>1, <1>3, SendsCalls DEF Waits
  <2>2. \A c \in new : WaitsWell(pub', c)
    BY <1>1, <1>3 DEF WaitsWell
  <2> QED
    BY <1>2, <2>1, <2>2 DEF PubOK
<1>5. Quiet' /\ OneCourse'
  BY <1>1 DEF Quiet, OneCourse, CallsInv, Submitting
<1> QED
  BY <1>2, <1>4, <1>5, CallsInvOf

(* One call fewer, and what waited for it has its answer or waits no more.  *)
LEMMA LessCalls ==
  ASSUME Flow, CallsInv, calls' \subseteq calls
  PROVE  /\ CallsOnce'
         /\ next' \in {next, NoWave} => NextOK' /\ OneCourse'
         /\ pub' \in {pub, NoWave} => PubOK'
<1>1. CallsOnce'
  BY DEF CallsOnce, CallsInv
<1>2. ASSUME next' \in {next, NoWave} PROVE NextOK' /\ OneCourse'
  <2>1. CASE next' = next
    BY <2>1 DEF NextOK, OneCourse, CallsInv, Submitting
  <2>2. CASE next' = NoWave
    BY <2>2, NoWaveWaits DEF NextOK, OneCourse, Submitting
  <2> QED
    BY <1>2, <2>1, <2>2
<1>3. ASSUME pub' \in {pub, NoWave} PROVE PubOK'
  <2>1. CASE pub' = pub
    BY <2>1 DEF PubOK, CallsInv
  <2>2. CASE pub' = NoWave
    BY <2>2, NoWaveWaits DEF PubOK
  <2> QED
    BY <1>3, <2>1, <2>2
<1> QED
  BY <1>1, <1>2, <1>3

LEMMA StillWaits ==
  ASSUME Flow, CallsInv, NEW w, NEW kinds, WaveOK(w, kinds), NEW c \in calls, Waits(w, c), WaitsWell(w, c),
         NEW d \in calls, d # c, Waits(With(w, c), d), WaitsWell(w, d)
  PROVE  WaitsWell(With(w, c), d)
<1>1. CallOK(c) /\ c.id # d.id /\ Names1(c) /\ Names1(d)
  BY CallIds DEF Flow, CallsInv
<1>2. /\ With(w, c).wave = w.wave /\ With(w, c).kind = w.kind
      /\ DOMAIN With(w, c).results = DOMAIN w.results
      /\ \A p \in DOMAIN w.results :
           With(w, c).results[p] = IF p = c.id[2] THEN c.id ELSE w.results[p]
  BY <1>1, WithIs
<1>3. c.id[1] = d.id[1]
  BY <1>2 DEF Waits
<1>4. c.id[2] # d.id[2]
  BY <1>1, <1>3 DEF Names1
<1> QED
  BY <1>2, <1>4 DEF WaitsWell

LEMMA AnswerCalls ==
  ASSUME Draft, Flow, ListsInv, CallsInv, NEW c \in calls, Answer(c) \/ Lost(c)
  PROVE  CallsInv'
<1>1. UNCHANGED isEdit
  <2>1. OnServer
    BY DEF OnServer
  <2> QED
    BY <2>1, ServerKeeps
<1>2. CASE Heard(c)
  <2>1. calls' = calls \ {c} /\ UNCHANGED pub
    BY <1>2 DEF Heard
  <2>2. CallsOnce' /\ PubOK'
    BY <2>1, LessCalls
  <2>3. CASE Complete(With(next, c)) /\ Created(With(next, c))
    <3>1. next' = NoWave
      BY <2>3 DEF Created
    <3>2. NextOK' /\ OneCourse' /\ Quiet'
      BY <2>1, <3>1, LessCalls DEF Quiet
    <3> QED
      BY <2>2, <3>2, CallsInvOf
  <2>4. CASE next' = With(next, c) /\ UNCHANGED <<step, ids>>
    <3>1. /\ WaveOK(next, {"course", "sections", "lessons"}) /\ WaitsWell(next, c) /\ Waits(next, c)
          /\ Submitting /\ CallOK(c) /\ next.results \in Seq(MaybeIds)
      BY <1>2, Awaited DEF Heard
    <3>2. ASSUME NEW d \in calls, d # c, Waits(next', d)
          PROVE  WaitsWell(next', d)
      <4>1. With(next, c).wave = next.wave
        BY <3>1, WithIs
      <4>2. Waits(next, d)
        BY <2>4, <3>2, <4>1 DEF Waits
      <4>3. WaitsWell(next, d)
        BY <4>2 DEF CallsInv
      <4> QED
        BY <2>4, <3>1, <3>2, <4>3, StillWaits
    <3>3. NextOK'
      BY <2>1, <3>2 DEF NextOK
    <3>4. With(next, c).kind = next.kind /\ Len(With(next, c).results) = Len(next.results)
      BY <3>1, WithIs
    <3>5. OneCourse'
      BY <2>4, <3>1, <3>4 DEF OneCourse, CallsInv
    <3>6. Quiet'
      BY <1>1, <2>4, <3>1 DEF Quiet, CallsInv, Submitting
    <3> QED
      BY <2>2, <3>3, <3>5, <3>6, CallsInvOf
  <2> QED
    BY <1>2, <2>3, <2>4 DEF Heard
<1>3. CASE Saved(c)
  <2>1. UNCHANGED <<next, step>>
    BY <1>3 DEF Saved
  <2>2. Quiet'
    BY <1>1, <2>1 DEF Quiet, CallsInv
  <2>3. CASE SendContents({c})
    <3>1. CASE pub' = NoWave /\ calls' = calls \ {c}
      BY <2>1, <2>2, <3>1, LessCalls, CallsInvOf
    <3>2. CASE SendsPub("contents", {d.id[2] : d \in ContentCalls}, ContentCalls)
      BY <1>1, <2>1, <3>2, SendsPubCalls
    <3> QED
      BY <2>1, <2>3, <3>1, <3>2, SendContentsCalls
  <2>4. CASE calls' = calls \ {c} /\ pub' = NoWave
    BY <2>1, <2>2, <2>4, LessCalls, CallsInvOf
  <2>5. CASE calls' = calls \ {c} /\ pub' = With(pub, c)
    <3>1. WaveOK(pub, {"status", "contents"}) /\ WaitsWell(pub, c) /\ Waits(pub, c) /\ CallOK(c)
      BY <1>3, Awaited DEF Saved
    <3>2. ASSUME NEW d \in calls, d # c, Waits(pub', d)
          PROVE  WaitsWell(pub', d)
      <4>1. With(pub, c).wave = pub.wave
        BY <3>1, WithIs
      <4>2. Waits(pub, d)
        BY <2>5, <3>2, <4>1 DEF Waits
      <4>3. WaitsWell(pub, d)
        BY <4>2 DEF CallsInv
      <4> QED
        BY <2>5, <3>1, <3>2, <4>3, StillWaits
    <3>3. PubOK'
      BY <2>5, <3>2 DEF PubOK
    <3>4. CallsOnce' /\ NextOK' /\ OneCourse'
      BY <2>1, <2>5, LessCalls
    <3> QED
      BY <2>2, <3>3, <3>4, CallsInvOf
  <2> QED
    BY <1>3, <2>3, <2>4, <2>5 DEF Saved
<1>4. CASE Dropped(c)
  <2>1. calls' = calls \ {c} /\ next' \in {next, NoWave} /\ pub' \in {pub, NoWave} /\ UNCHANGED step
    BY <1>4 DEF Dropped
  <2>2. Quiet'
    BY <1>1, <2>1 DEF Quiet, CallsInv
  <2> QED
    BY <2>1, <2>2, LessCalls, CallsInvOf
<1> QED
  BY <1>2, <1>3, <1>4, AnswersAre

LEMMA CallsStep ==
  ASSUME Draft, Flow, ListsInv, CallsInv, [CWNext]_cwVars
  PROVE  CallsInv'
<1>1. UNCHANGED <<isEdit, step, calls, next, pub>> => CallsInv'
  BY DEF CallsInv, Submitting, Saving
<1>2. CASE Retitle \/ AddSection \/ \E i \in Places : RemoveSection(i) \/ AddLesson(i)
  BY <1>1, <1>2, EditKeeps DEF Retitle, AddSection, RemoveSection, AddLesson
<1>3. CASE \/ \E i \in Places, j \in Spots : RemoveLesson(i, j)
           \/ \E s \in Slots : EditQuiz(s)
  BY <1>1, <1>3, EditKeeps DEF RemoveLesson, EditQuiz
<1>4. CASE NextStep1 \/ NextStep2 \/ NextStep3
  <2>1. UNCHANGED isEdit
    BY <1>4, ServerKeeps DEF OnServer
  <2>2. CASE UNCHANGED <<next, calls, clicks, pub>> /\ next = NoWave
    <3>1. CallsOnce' /\ NextOK' /\ PubOK' /\ OneCourse'
      BY <2>2, LessCalls
    <3>2. Quiet'
      BY <2>2 DEF Quiet
    <3> QED
      BY <3>1, <3>2, CallsInvOf
  <2> QED
    BY <1>4, <2>1, <2>2, NextStepCalls, SendsNextCalls
<1>5. ASSUME NEW s \in {"DRAFT", "PENDING"}, Publish(s)
      PROVE  CallsInv'
  <2>1. UNCHANGED <<isEdit, step, next>>
    BY <1>5, ServerKeeps, PublishCalls DEF OnServer
  <2>2. CASE SendsPub("status", 1..1, {StatusCall(s)})
    BY <2>1, <2>2, SendsPubCalls
  <2>3. CASE SendContents({})
    <3>1. {} \in SUBSET calls
      OBVIOUS
    <3>2. CASE pub' = NoWave /\ calls' = calls \ {}
      <4>1. Quiet'
        BY <2>1 DEF Quiet, CallsInv
      <4> QED
        BY <2>1, <3>2, <4>1, LessCalls, CallsInvOf
    <3>3. CASE SendsPub("contents", {d.id[2] : d \in ContentCalls}, ContentCalls)
      BY <2>1, <3>3, SendsPubCalls
    <3> QED
      BY <2>1, <2>3, <3>1, <3>2, <3>3, SendContentsCalls
  <2> QED
    BY <1>5, <2>2, <2>3, PublishCalls
<1>6. CASE \E c \in calls : Answer(c) \/ Lost(c)
  BY <1>6, AnswerCalls
<1>7. CASE OnUploads
  <2>1. UNCHANGED <<isEdit, calls, next, pub>>
    BY <1>7, UploadsKeep
  <2>2. CASE PrevStep
    <3>1. step' # 4
      BY <2>2 DEF PrevStep, Flow
    <3>2. CallsOnce' /\ NextOK' /\ PubOK' /\ OneCourse'
      BY <2>1, LessCalls
    <3>3. Quiet'
      BY <2>1, <3>1 DEF Quiet, CallsInv
    <3> QED
      BY <3>2, <3>3, CallsInvOf
  <2>3. CASE UNCHANGED step
    BY <1>1, <2>1, <2>3
  <2> QED
    BY <1>7, <2>2, <2>3 DEF OnUploads, SelectFile, UpdateS3Key, UploadFails, Uploading
<1>8. CASE UNCHANGED cwVars
  BY <1>1, <1>8 DEF cwVars, page
<1> QED
  BY <1>2, <1>3, <1>4, <1>5, <1>6, <1>7, <1>8, StepsAre DEF OnServer

(* The clicks go up, and a row is the work of a call that is answered.      *)
LEMMA CallsMove ==
  ASSUME Draft, Flow, ListsInv, CallsInv, [CWNext]_cwVars
  PROVE  /\ clicks <= clicks' /\ clicks' \in Nat
         /\ \A c \in calls' : c \in calls \/ c.id[1] = clicks + 1
<1>1. clicks \in Nat
  BY DEF Flow
<1>2. ASSUME UNCHANGED clicks, calls' \subseteq calls
      PROVE  /\ clicks <= clicks' /\ clicks' \in Nat
             /\ \A c \in calls' : c \in calls \/ c.id[1] = clicks + 1
  BY <1>1, <1>2
<1>3. ASSUME NEW new, Sends(new)
      PROVE  /\ clicks <= clicks' /\ clicks' \in Nat
             /\ \A c \in calls' : c \in calls \/ c.id[1] = clicks + 1
  BY <1>1, <1>3 DEF Sends, Fresher
<1>4. CASE Retitle \/ AddSection \/ \E i \in Places : RemoveSection(i) \/ AddLesson(i)
  BY <1>2, <1>4, EditKeeps DEF Retitle, AddSection, RemoveSection, AddLesson
<1>5. CASE \/ \E i \in Places, j \in Spots : RemoveLesson(i, j)
           \/ \E s \in Slots : EditQuiz(s)
  BY <1>2, <1>5, EditKeeps DEF RemoveLesson, EditQuiz
<1>6. CASE NextStep1 \/ NextStep2 \/ NextStep3
  BY <1>2, <1>3, <1>6, NextStepCalls DEF SendsNext
<1>7. ASSUME NEW gone \in SUBSET calls, SendContents(gone), UNCHANGED next
      PROVE  /\ clicks <= clicks' /\ clicks' \in Nat
             /\ \A c \in calls' : c \in calls \/ c.id[1] = clicks + 1
  BY <1>2, <1>3, <1>7, SendContentsCalls DEF SendsPub
<1>8. ASSUME NEW s \in {"DRAFT", "PENDING"}, Publish(s)
      PROVE  /\ clicks <= clicks' /\ clicks' \in Nat
             /\ \A c \in calls' : c \in calls \/ c.id[1] = clicks + 1
  <2>1. {} \in SUBSET calls
    OBVIOUS
  <2> QED
    BY <1>3, <1>7, <1>8, <2>1, PublishCalls DEF SendsPub
<1>9. ASSUME NEW c \in calls, Answer(c) \/ Lost(c)
      PROVE  /\ clicks <= clicks' /\ clicks' \in Nat
             /\ \A d \in calls' : d \in calls \/ d.id[1] = clicks + 1
  <2>1. CASE Heard(c) \/ Dropped(c)
    BY <1>2, <2>1 DEF Heard, Dropped
  <2>2. CASE Saved(c)
    <3>1. {c} \in SUBSET calls
      OBVIOUS
    <3> QED
      BY <1>2, <1>7, <2>2, <3>1 DEF Saved
  <2> QED
    BY <1>9, <2>1, <2>2, AnswersAre
<1>10. CASE OnUploads
  BY <1>2, <1>10, UploadsKeep
<1>11. CASE UNCHANGED cwVars
  BY <1>2, <1>11 DEF cwVars
<1> QED
  BY <1>4, <1>5, <1>6, <1>8, <1>9, <1>10, <1>11, StepsAre DEF OnServer

LEMMA RowIds ==
  ASSUME Draft, Flow, Rows, ListsInv, CallsInv, RowsInv, [CWNext]_cwVars
  PROVE  RowsInv'
<1>1. /\ clicks \in Nat /\ clicks <= clicks' /\ clicks' \in Nat
      /\ \A c \in calls' : c \in calls \/ c.id[1] = clicks + 1
  BY CallsMove DEF Flow
<1>2. \A l \in lessonRows : l.id[1] \in Nat /\ l.id[1] <= clicks
  BY DEF RowsInv, Rows, Ids
<1>3. CASE UNCHANGED lessonRows
  <2>1. \A l \in lessonRows : l.id[1] <= clicks' /\ l.id[1] # clicks + 1
    BY <1>1, <1>2
  <2>2. \A c \in calls', l \in lessonRows : c.kind = "lessons" => c.id # l.id
    BY <1>1, <2>1 DEF RowsInv
  <2> QED
    BY <1>3, <2>1, <2>2 DEF RowsInv
<1>4. ASSUME NEW c \in calls, Answer(c) \/ Lost(c), Effect(c), ~UNCHANGED lessonRows
      PROVE  RowsInv'
  <2> DEFINE new == [id |-> c.id, title |-> c.args.title, section |-> c.args.section]
  <2>1. CallOK(c) /\ Names1(c)
    BY CallIds DEF Flow
  <2>2. c.kind = "lessons" /\ lessonRows' = lessonRows \cup {new}
    BY <1>4, <2>1, EffectIs
  <2>3. c \notin calls'
    <3>1. ~(Saved(c) /\ Waits(pub, c))
      <4>1. Waits(pub, c) => c.kind # "lessons"
        BY Awaited DEF WaitsWell, WaveOK
      <4> QED
        BY <2>2, <4>1
    <3>2. Heard(c) \/ Dropped(c)
      BY <1>4, <3>1, AnswersAre DEF Saved
    <3> QED
      BY <3>2 DEF Heard, Dropped
  <2>4. new.id = c.id /\ c.id[1] \in 1..clicks
    BY <2>1 DEF Names1
  <2> HIDE DEF new
  <2>5. \A l \in lessonRows : l.id # c.id
    BY <2>2 DEF RowsInv
  <2>6. \A l, m \in lessonRows' : l.id = m.id => l = m
    BY <2>2, <2>4, <2>5 DEF RowsInv
  <2>7. \A l \in lessonRows' : l.id[1] <= clicks'
    BY <1>1, <1>2, <2>2, <2>4
  <2>8. ASSUME NEW d \in calls', NEW l \in lessonRows', d.kind = "lessons"
        PROVE  d.id # l.id
    <3>1. CASE d \in calls
      <4>1. d.id # c.id
        BY <2>3, <3>1 DEF CallsInv
      <4> QED
        BY <2>2, <2>4, <2>8, <3>1, <4>1 DEF RowsInv
    <3>2. CASE d.id[1] = clicks + 1
      <4>1. l.id[1] # clicks + 1
        BY <1>1, <1>2, <2>2, <2>4
      <4> QED
        BY <3>2, <4>1
    <3> QED
      BY <1>1, <3>1, <3>2
  <2> QED
    BY <2>6, <2>7, <2>8 DEF RowsInv
<1> QED
  BY <1>3, <1>4, RowsMove
-----------------------------------------------------------------------------
(* One document per lesson, and what is stored is replaced at most, never   *)
(* taken away, when only lessons with a video have their contents sent.     *)
OneEach(S)     == \A d, e \in S : d.lesson = e.lesson => d = e
DocIn(S, id)   == IF \E d \in S : d.lesson = id
                  THEN (CHOOSE d \in S : d.lesson = id).content ELSE Empty
Put(S, id, x)  == {d \in S : d.lesson # id} \cup {[lesson |-> id, content |-> x]}
Keeps(x, y)    == (x.video # None => y.video # None) /\ (x.quiz # None => y.quiz # None)
VideosSent     == \A c \in calls : c.kind = "contents" => c.args.content.video # None

LEMMA DocOne ==
  ASSUME NEW S, OneEach(S), NEW d \in S
  PROVE  DocIn(S, d.lesson) = d.content
<1>1. (CHOOSE e \in S : e.lesson = d.lesson) = d
  BY DEF OneEach
<1> QED
  BY <1>1 DEF DocIn

LEMMA DocPut ==
  ASSUME NEW S, OneEach(S), NEW id, NEW x
  PROVE  /\ OneEach(Put(S, id, x)) /\ DocIn(Put(S, id, x), id) = x
         /\ \A j : j # id => DocIn(Put(S, id, x), j) = DocIn(S, j)
<1> DEFINE P == Put(S, id, x)
           new == [lesson |-> id, content |-> x]
<1>1. P = {d \in S : d.lesson # id} \cup {new}
  BY DEF Put
<1>2. new.lesson = id /\ new.content = x
  OBVIOUS
<1> HIDE DEF P, new
<1>3. OneEach(P)
  BY <1>1, <1>2 DEF OneEach
<1>4. DocIn(P, id) = x
  <2>1. new \in P
    BY <1>1
  <2> QED
    BY <1>2, <1>3, <2>1, DocOne
<1>5. ASSUME NEW j, j # id
      PROVE  DocIn(P, j) = DocIn(S, j)
  <2>1. CASE \E d \in S : d.lesson = j
    <3>1. PICK d \in S : d.lesson = j
      BY <2>1
    <3>2. d \in P
      BY <1>1, <1>5, <3>1
    <3> QED
      BY <1>3, <3>1, <3>2, DocOne
  <2>2. CASE ~\E d \in S : d.lesson = j
    <3>1. ~\E d \in P : d.lesson = j
      BY <1>1, <1>2, <1>5, <2>2
    <3> QED
      BY <2>2, <3>1 DEF DocIn
  <2> QED
    BY <2>1, <2>2
<1> QED
  BY <1>3, <1>4, <1>5 DEF P

LEMMA DocIs == \A id : Doc(id) = DocIn(stored, id) /\ Doc(id)' = DocIn(stored', id)
  BY DEF Doc, DocIn

(* What a step stores is put for one lesson, with its quiz or a new one.    *)
LEMMA StoredMove ==
  ASSUME Draft, Flow, Rows, [CWNext]_cwVars
  PROVE  \/ stored' = stored
         \/ \E c \in calls : /\ Answer(c) \/ Lost(c)
                             /\ Effect(c) /\ c.kind = "contents" /\ UNCHANGED lessonRows
                             /\ stored' = Put(stored, c.args.lesson, Kept(c))
         \/ \E u \in uploads : /\ UpdateS3Key(u) /\ UNCHANGED lessonRows
                               /\ stored' = Put(stored, u.id, [Doc(u.id) EXCEPT !.video = u.video])
<1>1. ASSUME NEW c \in calls, Effect(c)
      PROVE  \/ stored' = stored
             \/ c.kind = "contents" /\ UNCHANGED lessonRows /\ stored' = Put(stored, c.args.lesson, Kept(c))
  <2>1. CallOK(c)
    BY DEF Flow
  <2> QED
    BY <1>1, <2>1, EffectIs DEF Stores, Put
<1>2. ASSUME NEW u \in uploads, UpdateS3Key(u)
      PROVE  stored' = Put(stored, u.id, [Doc(u.id) EXCEPT !.video = u.video]) /\ UNCHANGED lessonRows
  BY <1>2 DEF UpdateS3Key, Upsert, Put, Uploading
<1> QED
  BY <1>1, <1>2, RowsMove

LEMMA PutKeeps ==
  ASSUME OneEach(stored), NEW id, NEW x, stored' = Put(stored, id, x),
         Keeps(Doc(id), x)
  PROVE  /\ OneEach(stored') /\ Doc(id)' = x
         /\ \A j : j # id => Doc(j)' = Doc(j)
         /\ \A j : Keeps(Doc(j), Doc(j)')
<1>1. /\ OneEach(stored') /\ DocIn(stored', id) = x
      /\ \A j : j # id => DocIn(stored', j) = DocIn(stored, j)
  BY DocPut
<1>2. Doc(id)' = x /\ \A j : j # id => Doc(j)' = Doc(j)
  BY <1>1, DocIs
<1>3. ASSUME NEW j
      PROVE  Keeps(Doc(j), Doc(j)')
  <2>1. CASE j = id
    BY <1>2, <2>1
  <2>2. CASE j # id
    BY <1>2, <2>2 DEF Keeps
  <2> QED
    BY <2>1, <2>2
<1> QED
  BY <1>1, <1>2, <1>3

LEMMA DocsKept ==
  ASSUME Draft, Flow, Rows, OneEach(stored), VideosSent, [CWNext]_cwVars
  PROVE  OneEach(stored') /\ \A j : Keeps(Doc(j), Doc(j)')
<1>1. CASE stored' = stored
  <2>1. \A j : Doc(j)' = Doc(j)
    BY <1>1, DocIs
  <2> QED
    BY <1>1, <2>1 DEF Keeps
<1>2. ASSUME NEW c \in calls, Effect(c), c.kind = "contents",
             stored' = Put(stored, c.args.lesson, Kept(c))
      PROVE  OneEach(stored') /\ \A j : Keeps(Doc(j), Doc(j)')
  <2>1. c.args \in [lesson : MaybeIds, content : Content]
    BY <1>2 DEF Flow, CallOK, MaybeIds
  <2>2. Keeps(Doc(c.args.lesson), Kept(c))
    BY <1>2, <2>1, KeptType DEF Keeps, VideosSent
  <2> QED
    BY <1>2, <2>2, PutKeeps
<1>3. ASSUME NEW u \in uploads,
             stored' = Put(stored, u.id, [Doc(u.id) EXCEPT !.video = u.video])
      PROVE  OneEach(stored') /\ \A j : Keeps(Doc(j), Doc(j)')
  <2>1. Doc(u.id) \in Content
    BY DocType
  <2>2. u.video # None
    BY NoneIsNone DEF Draft
  <2>3. Keeps(Doc(u.id), [Doc(u.id) EXCEPT !.video = u.video])
    BY <2>1, <2>2 DEF Content, Keeps
  <2> QED
    BY <1>3, <2>3, PutKeeps
<1> QED
  BY <1>1, <1>2, <1>3, StoredMove
-----------------------------------------------------------------------------
(* How the draft, the rows and the calls move, for the invariants below.    *)
HasSection(id, t) == \E s \in sectionRows : s.id = id /\ s.title = t
HasLesson(id, l)  == \E m \in lessonRows : m.id = id /\ m.title = l
Of(content, l)    == content.video \in {None, l} /\ content.quiz \in {None, l}
Phase(what)       == Submitting /\ next.kind = what
Making            == {"course", "sections", "lessons"}

LEMMA MovedStays ==
  ASSUME Draft, moved, [CWNext]_cwVars
  PROVE  moved'
<1>1. CASE Retitle \/ AddSection \/ \E i \in Places : RemoveSection(i) \/ AddLesson(i)
  BY <1>1 DEF Retitle, AddSection, RemoveSection, AddLesson, Moves
<1>2. CASE \/ \E i \in Places, j \in Spots : RemoveLesson(i, j)
           \/ \E s \in Slots : EditQuiz(s)
  BY <1>2 DEF RemoveLesson, EditQuiz, Moves
<1>3. CASE OnServer \/ OnUploads
  BY <1>3, ServerKeeps, UploadsKeep
<1>4. CASE UNCHANGED cwVars
  BY <1>4 DEF cwVars
<1> QED
  BY <1>1, <1>2, <1>3, <1>4, StepsAre

LEMMA EditsAre ==
  ASSUME [CWNext]_cwVars
  PROVE  \/ UNCHANGED <<sections, lessons>>
         \/ /\ Edits /\ UNCHANGED <<contents, sectionIds>>
            /\ moved \/ InUse => moved'
            /\ step = 2 \/ (step = 3 /\ UNCHANGED sections)
<1>1. CASE AddSection \/ \E i \in Places : RemoveSection(i)
  BY <1>1 DEF AddSection, RemoveSection, Moves
<1>2. CASE \/ \E i \in Places : AddLesson(i)
           \/ \E i \in Places, j \in Spots : RemoveLesson(i, j)
  BY <1>2 DEF AddLesson, RemoveLesson, Moves
<1>3. CASE Retitle \/ \E s \in Slots : EditQuiz(s)
  BY <1>3 DEF Retitle, EditQuiz
<1>4. CASE OnServer \/ OnUploads
  BY <1>4, ServerKeeps, UploadsKeep
<1>5. CASE UNCHANGED cwVars
  BY <1>5 DEF cwVars, page
<1> QED
  BY <1>1, <1>2, <1>3, <1>4, <1>5, StepsAre

LEMMA RowsGrow ==
  ASSUME Flow, [CWNext]_cwVars
  PROVE  /\ sectionRows \subseteq sectionRows' /\ lessonRows \subseteq lessonRows'
         /\ \A id, t : HasSection(id, t) => HasSection(id, t)'
         /\ \A id, l : HasLesson(id, l) => HasLesson(id, l)'
<1>1. ASSUME NEW c \in calls, Effect(c)
      PROVE  sectionRows \subseteq sectionRows' /\ lessonRows \subseteq lessonRows'
  <2>1. CallOK(c)
    BY DEF Flow
  <2> QED
    BY <1>1, <2>1, EffectIs
<1>2. sectionRows \subseteq sectionRows' /\ lessonRows \subseteq lessonRows'
  BY <1>1, RowsMove
<1> QED
  BY <1>2 DEF HasSection, HasLesson

(* A click on Next: its calls are those that are waited for.                *)
LEMMA SentNext ==
  ASSUME Flow, CallsInv, NEW what \in Making, NEW places, NEW new, SendsNext(what, places, new)
  PROVE  /\ next'.kind = what /\ next' # NoWave /\ next'.results = [p \in places |-> None]
         /\ \A c \in calls' : Waits(next', c) => c \in new
         /\ \A c \in calls' : c \in calls \/ c \in new
         /\ \A c \in new : c.kind = what /\ c.id[2] \in places
         /\ UNCHANGED <<step, pub, lessonRows>> /\ ~isEdit
<1>1. /\ Sends(new) /\ UNCHANGED <<step, pub, lessonRows>> /\ next' = Wave(what, places) /\ ~isEdit
      /\ \A c \in new : c.kind = what /\ c.id[2] \in places
  BY DEF SendsNext
<1>2. /\ next'.wave = clicks + 1 /\ next'.kind = what
      /\ next'.results = [p \in places |-> None]
  BY <1>1 DEF Wave
<1>3. next' # NoWave
  <2>1. clicks + 1 # 0
    BY DEF Flow
  <2> QED
    BY <1>2, <2>1 DEF NoWave
<1>4. /\ \A c \in calls' : c \in calls \/ c \in new
      /\ \A c \in calls : c.id[1] # clicks + 1
  BY <1>1, SendsCalls
<1>5. \A c \in calls' : Waits(next', c) => c \in new
  BY <1>2, <1>4 DEF Waits
<1> QED
  BY <1>1, <1>2, <1>3, <1>4, <1>5

(* A save makes no call that a step makes.                                  *)
LEMMA SavesAre ==
  ASSUME Draft, Flow, ListsInv, CallsInv,
         \/ \E s \in {"DRAFT", "PENDING"} : Publish(s)
         \/ \E c \in calls : Saved(c)
  PROVE  /\ UNCHANGED <<next, step, sectionIds, lessonIds, courseId>>
         /\ \A c \in calls' : c.kind \in Making => c \in calls
<1>1. ASSUME NEW gone \in SUBSET calls, SendContents(gone), UNCHANGED next
      PROVE  \A c \in calls' : c.kind \in Making => c \in calls
  <2>1. CASE calls' = calls \ gone
    BY <2>1
  <2>2. CASE calls' = (calls \ gone) \cup ContentCalls
    <3>1. \A c \in ContentCalls : c.kind = "contents"
      BY ContentCallsAre
    <3> QED
      BY <2>2, <3>1 DEF Making
  <2> QED
    BY <1>1, <2>1, <2>2, SendContentsCalls
<1>2. ASSUME NEW s \in {"DRAFT", "PENDING"}, Publish(s)
      PROVE  /\ UNCHANGED <<next, step, sectionIds, lessonIds, courseId>>
             /\ \A c \in calls' : c.kind \in Making => c \in calls
  <2>1. UNCHANGED <<next, step, sectionIds, lessonIds, courseId>>
    BY <1>2, PublishCalls
  <2>2. CASE calls' = calls \cup {StatusCall(s)}
    <3>1. StatusCall(s).kind = "status"
      BY DEF StatusCall, Call
    <3> QED
      BY <2>1, <2>2, <3>1 DEF Making
  <2>3. CASE SendContents({})
    <3>1. {} \in SUBSET calls
      OBVIOUS
    <3> QED
      BY <1>1, <2>1, <2>3, <3>1
  <2> QED
    BY <1>2, <2>2, <2>3, PublishCalls
<1>3. ASSUME NEW c \in calls, Saved(c)
      PROVE  /\ UNCHANGED <<next, step, sectionIds, lessonIds, courseId>>
             /\ \A d \in calls' : d.kind \in Making => d \in calls
  <2>1. UNCHANGED <<next, step, sectionIds, lessonIds, courseId>>
    BY <1>3 DEF Saved, ids
  <2>2. CASE SendContents({c})
    <3>1. {c} \in SUBSET calls
      OBVIOUS
    <3> QED
      BY <1>1, <2>1, <2>2, <3>1
  <2>3. CASE calls' = calls \ {c}
    BY <2>1, <2>3
  <2> QED
    BY <1>3, <2>1, <2>2, <2>3 DEF Saved
<1> QED
  BY <1>2, <1>3

(* An answer that a step waits for.                                         *)
LEMMA HeardIs ==
  ASSUME Draft, Flow, ListsInv, CallsInv, NEW c \in calls, Effect(c), Heard(c)
  PROVE  /\ Effect(c) /\ CallOK(c) /\ Submitting /\ WaitsWell(next, c) /\ ~isEdit /\ step # 4
         /\ next.results \in Seq(MaybeIds) /\ next.kind \in Making /\ c.kind = next.kind
         /\ calls' = calls \ {c} /\ UNCHANGED <<pub, left, clicks, asked>>
         /\ With(next, c).results \in Seq(MaybeIds)
         /\ Len(With(next, c).results) = Len(next.results)
         /\ c.id[2] \in 1..Len(next.results)
         /\ \A p \in 1..Len(next.results) :
              With(next, c).results[p] = IF p = c.id[2] THEN c.id ELSE next.results[p]
         /\ \/ /\ next' = With(next, c) /\ next' # NoWave /\ next'.kind = next.kind
               /\ next.kind # "course"
               /\ UNCHANGED <<step, courseId, sectionIds, lessonIds>>
               /\ \A d : Waits(next', d) <=> Waits(next, d)
            \/ /\ next' = NoWave
               /\ \A p \in 1..Len(next.results) : With(next, c).results[p] # None
               /\ next.kind = "course" => step' = 2 /\ UNCHANGED <<sectionIds, lessonIds>>
               /\ next.kind = "sections" => /\ step' = 3 /\ sectionIds' = With(next, c).results
                                            /\ UNCHANGED lessonIds
               /\ next.kind = "lessons" => /\ step' = 4 /\ lessonIds' = With(next, c).results
                                           /\ UNCHANGED sectionIds
<1>1. /\ CallOK(c) /\ Submitting /\ WaitsWell(next, c) /\ next.results \in Seq(MaybeIds) /\ Waits(next, c)
      /\ WaveOK(next, {"course", "sections", "lessons"})
  BY Awaited DEF Heard
<1>3. ~isEdit /\ step # 4
  BY <1>1 DEF CallsInv, Submitting
<1>4. next.kind \in Making /\ c.kind = next.kind /\ next.wave >= 1 /\ next.wave \in Int
  BY <1>1 DEF WaveOK, Making, WaitsWell
<1>5. calls' = calls \ {c} /\ UNCHANGED <<pub, left, clicks, asked>>
  BY DEF Heard
<1>6. DOMAIN next.results = 1..Len(next.results) /\ c.id[2] \in DOMAIN next.results
  BY <1>1 DEF WaitsWell
<1>7. /\ With(next, c).wave = next.wave /\ With(next, c).kind = next.kind
      /\ \A p \in DOMAIN next.results :
           With(next, c).results[p] = IF p = c.id[2] THEN c.id ELSE next.results[p]
      /\ With(next, c).results \in Seq(MaybeIds) /\ Len(With(next, c).results) = Len(next.results)
      /\ Complete(With(next, c)) => \A p \in DOMAIN next.results : With(next, c).results[p] # None
      /\ c.id # None
  BY <1>1, WithIs
<1>8. CASE ~Complete(With(next, c)) /\ next' = With(next, c) /\ UNCHANGED <<step, ids>>
  <2>1. next' # NoWave
    BY <1>4, <1>7, <1>8 DEF NoWave
  <2>2. \A d : Waits(next', d) <=> Waits(next, d)
    BY <1>7, <1>8 DEF Waits
  <2>3. next.kind # "course"
    <3>1. PICK p \in 1..Len(With(next, c).results) : With(next, c).results[p] = None
      BY <1>7, <1>8, ToSetIs DEF Complete
    <3>2. next.kind = "course" => p = c.id[2]
      BY <1>1, <1>6, <1>7, <3>1 DEF CallsInv
    <3> QED
      BY <1>6, <1>7, <3>1, <3>2
  <2> QED
    BY <1>1, <1>3, <1>4, <1>5, <1>6, <1>7, <1>8, <2>1, <2>2, <2>3 DEF ids
<1>9. CASE Complete(With(next, c)) /\ Created(With(next, c))
  <2>1. /\ next' = NoWave
        /\ next.kind = "course" => step' = 2 /\ UNCHANGED <<sectionIds, lessonIds>>
        /\ next.kind = "sections" => /\ step' = 3 /\ sectionIds' = With(next, c).results
                                     /\ UNCHANGED lessonIds
        /\ next.kind = "lessons" => /\ step' = 4 /\ lessonIds' = With(next, c).results
                                    /\ UNCHANGED sectionIds
    BY <1>1, <1>9, CompletedTypes
  <2> QED
    BY <1>1, <1>3, <1>4, <1>5, <1>6, <1>7, <1>9, <2>1
<1> QED
  BY <1>8, <1>9 DEF Heard

LEMMA DroppedIs ==
  ASSUME Flow, NEW c \in calls, Dropped(c)
  PROVE  /\ calls' = calls \ {c} /\ UNCHANGED <<left, step, courseId, sectionIds, lessonIds, clicks, asked>>
         /\ next' = next \/ (next' = NoWave /\ \A d \in calls' : ~Waits(next', d))
         /\ pub' = pub \/ (pub' = NoWave /\ \A d \in calls' : ~Waits(pub', d))
  BY NoWaveWaits DEF Dropped, ids
-----------------------------------------------------------------------------
(* The steps, by what they do to the calls of the four steps.               *)
Editing ==
  \/ AddSection \/ \E i \in Places : RemoveSection(i) \/ AddLesson(i)
  \/ \E i \in Places, j \in Spots : RemoveLesson(i, j)

Quietly ==
  /\ UNCHANGED <<next, sectionIds>>
  /\ \/ UNCHANGED lessonIds /\ (step' <= step \/ isEdit)
     \/ ~isEdit /\ step = 3 /\ step' = 4 /\ sections = <<>> /\ lessonIds' = <<>> /\ next = NoWave
  /\ step = 4 => step' = 4 \/ PrevStep
  /\ Saving' => Saving \/ step = 4
  /\ \A c \in calls' : c.kind \in Making => c \in calls

Sent ==
  \/ NextStep1 /\ SendsNext("course", 1..1, {Call("course", 1, title)})
  \/ NextStep2 /\ SendsNext("sections", 1..Len(sections),
                     {Call("sections", i, sections[i]) : i \in 1..Len(sections)})
  \/ NextStep3 /\ SendsNext("lessons", 1..Cardinality(Slots), LessonCalls)

GivenUp ==
  /\ next' = NoWave /\ UNCHANGED <<step, sectionIds, lessonIds>> /\ calls' \subseteq calls
  /\ Saving' => Saving

LEMMA FlowMoves ==
  ASSUME Draft, Flow, ListsInv, CallsInv, [CWNext]_cwVars
  PROVE  \/ Editing
         \/ /\ UNCHANGED <<isEdit, sections, lessons>>
            /\ \/ Quietly \/ Sent \/ GivenUp
               \/ \E c \in calls : Effect(c) /\ Heard(c)
<1>0. step \in 1..4 /\ step <= step
  BY DEF Flow
<1>1. CASE Retitle \/ \E s \in Slots : EditQuiz(s)
  <2>1. UNCHANGED <<isEdit, sections, lessons, next, sectionIds, lessonIds, step, pub, calls>>
    BY <1>1 DEF Retitle, EditQuiz, Edits
  <2> QED
    BY <1>0, <2>1 DEF Quietly, Saving
<1>2. CASE UNCHANGED cwVars
  <2>1. UNCHANGED <<isEdit, sections, lessons, next, sectionIds, lessonIds, step, pub, calls>>
    BY <1>2 DEF cwVars, page, ids
  <2> QED
    BY <1>0, <2>1 DEF Quietly, Saving
<1>3. CASE OnUploads
  <2>1. UNCHANGED <<isEdit, sections, lessons, next, sectionIds, lessonIds, pub, calls>>
    BY <1>3, UploadsKeep DEF ids
  <2>2. step' <= step /\ (step = 4 => step' = 4 \/ PrevStep)
    <3>1. CASE PrevStep
      <4>1. step' = step - 1
        BY <3>1 DEF PrevStep
      <4> QED
        BY <1>0, <3>1, <4>1
    <3>2. CASE UNCHANGED step
      BY <1>0, <3>2
    <3> QED
      BY <1>3, <3>1, <3>2 DEF OnUploads, SelectFile, UpdateS3Key, UploadFails, Uploading
  <2> QED
    BY <2>1, <2>2 DEF Quietly, Saving
<1>4. CASE NextStep1 \/ NextStep2 \/ NextStep3
  <2>1. UNCHANGED <<isEdit, sections, lessons, sectionIds>>
    BY <1>4 DEF NextStep1, NextStep2, NextStep3, Clicks, page
  <2>2. CASE UNCHANGED <<next, calls, clicks, pub>> /\ next = NoWave
    <3>1. \/ UNCHANGED lessonIds /\ isEdit
          \/ ~isEdit /\ step = 3 /\ step' = 4 /\ sections = <<>> /\ lessonIds' = <<>>
          \/ clicks' = clicks + 1
      BY <1>4 DEF NextStep1, NextStep2, NextStep3, Send
    <3>2. clicks' # clicks + 1
      BY <2>2 DEF Flow
    <3>3. step # 4
      BY <1>4 DEF NextStep1, NextStep2, NextStep3
    <3> QED
      BY <2>1, <2>2, <3>1, <3>2, <3>3 DEF Quietly, Saving
  <2> QED
    BY <1>4, <2>1, <2>2, NextStepCalls DEF Sent
<1>5. CASE \E s \in {"DRAFT", "PENDING"} : Publish(s)
  <2>1. UNCHANGED <<isEdit, sections, lessons>> /\ step = 4
    BY <1>5 DEF Publish, page
  <2> QED
    BY <1>0, <1>5, <2>1, SavesAre DEF Quietly
<1>6. ASSUME NEW c \in calls, Answer(c) \/ Lost(c)
      PROVE  \/ Quietly \/ GivenUp \/ (Effect(c) /\ Heard(c))
  <2>1. CASE Saved(c)
    <3>1. Saving
      BY <2>1, Awaited DEF Saved
    <3> QED
      BY <1>0, <2>1, <3>1, SavesAre DEF Quietly
  <2>2. CASE Dropped(c)
    <3>1. Saving' => Saving
      BY <2>2, DroppedIs DEF Saving
    <3> QED
      BY <1>0, <2>2, <3>1, DroppedIs DEF Quietly, GivenUp
  <2> QED
    BY <1>6, <2>1, <2>2, AnswersAre
<1>7. CASE \E c \in calls : Answer(c) \/ Lost(c)
  <2>1. UNCHANGED <<isEdit, sections, lessons>>
    BY <1>7, ServerKeeps DEF OnServer
  <2> QED
    BY <1>6, <1>7, <2>1
<1> QED
  BY <1>1, <1>2, <1>3, <1>4, <1>5, <1>7, StepsAre DEF Editing, OnServer

(* An edit of the lists: either nothing depends on positions, or it counts  *)
(* as a move.                                                               *)
LEMMA EditingIs ==
  ASSUME Draft, Flow, ListsInv, Editing
  PROVE  /\ UNCHANGED <<isEdit, next, pub, step, calls, sectionIds, contents, uploads, sectionRows,
                        lessonRows, stored>>
         /\ moved \/ InUse => moved'
         /\ step = 2 \/ (step = 3 /\ UNCHANGED sections)
         /\ step # 4
<1>1. CASE AddSection \/ \E i \in Places : RemoveSection(i)
  <2>1. /\ Edits /\ step = 2 /\ UNCHANGED <<contents, sectionIds>>
        /\ moved \/ InUse => moved'
    BY <1>1 DEF AddSection, RemoveSection, Moves
  <2> QED
    BY <2>1, EditKeeps
<1>2. CASE \/ \E i \in Places : AddLesson(i)
           \/ \E i \in Places, j \in Spots : RemoveLesson(i, j)
  <2>1. /\ Edits /\ step = 3 /\ UNCHANGED <<contents, sectionIds, sections>>
        /\ moved \/ InUse => moved'
    BY <1>2 DEF AddLesson, RemoveLesson, Moves
  <2> QED
    BY <2>1, EditKeeps
<1> QED
  BY <1>1, <1>2 DEF Editing
-----------------------------------------------------------------------------
(* The ids of the sections are kept in the order of the sections, by the    *)
(* wave that makes them and behind it.                                      *)
SectionsHave(list) ==
  /\ Len(list) = Len(sections)
  /\ \A i \in 1..Len(sections) : list[i] # None => HasSection(list[i], sections[i])
SectionsMade ==
  step >= 3 \/ Phase("lessons") =>
    SectionsHave(sectionIds) /\ \A i \in 1..Len(sections) : sectionIds[i] # None
SectionsComing == Phase("sections") => SectionsHave(next.results)
SectionsAsked ==
  \A c \in calls : c.kind = "sections" /\ Waits(next, c) =>
    c.id[2] \in 1..Len(sections) /\ c.args = sections[c.id[2]]
SectionsInv == moved \/ isEdit \/ (SectionsMade /\ SectionsComing /\ SectionsAsked)

LEMMA StepType ==
  ASSUME Draft, Flow, Rows, ListsInv, CallsInv, [CWNext]_cwVars
  PROVE  step \in 1..4 /\ step' \in 1..4
  BY FlowStep DEF Flow

LEMMA SectionsHaveMore ==
  ASSUME Flow, [CWNext]_cwVars, UNCHANGED sections, NEW list, SectionsHave(list)
  PROVE  /\ Len(list) = Len(sections')
         /\ \A i \in 1..Len(sections') : list[i] # None => HasSection(list[i], sections[i])'
  BY RowsGrow DEF SectionsHave

LEMMA SectionsEdited ==
  ASSUME Draft, Flow, Rows, ListsInv, CallsInv, SectionsInv, [CWNext]_cwVars, Editing, ~moved', ~isEdit'
  PROVE  SectionsInv'
<1>1. /\ UNCHANGED <<isEdit, next, step, calls, sectionIds, sectionRows>> /\ ~moved /\ ~InUse
      /\ step = 2 \/ (step = 3 /\ UNCHANGED sections)
  BY EditingIs
<1>2. next = NoWave /\ ~Submitting /\ ~isEdit
  BY <1>1 DEF InUse, Submitting
<1>3. SectionsMade'
  <2>1. ~Phase("lessons")'
    BY <1>1, <1>2 DEF Phase, Submitting
  <2>2. CASE step = 2
    BY <1>1, <2>1, <2>2 DEF SectionsMade
  <2>3. CASE step = 3 /\ UNCHANGED sections
    <3>1. SectionsHave(sectionIds) /\ \A i \in 1..Len(sections) : sectionIds[i] # None
      BY <1>1, <1>2, <2>3 DEF SectionsInv, SectionsMade
    <3> QED
      BY <1>1, <2>3, <3>1 DEF SectionsMade, SectionsHave, HasSection
  <2> QED
    BY <1>1, <2>2, <2>3
<1>4. SectionsComing'
  BY <1>1, <1>2 DEF SectionsComing, Phase, Submitting
<1>5. SectionsAsked'
  BY <1>1, <1>2, NoWaveWaits DEF SectionsAsked
<1> QED
  BY <1>3, <1>4, <1>5 DEF SectionsInv

LEMMA SectionsQuiet ==
  ASSUME Draft, Flow, Rows, ListsInv, CallsInv, SectionsInv, [CWNext]_cwVars, UNCHANGED <<isEdit, sections>>,
         Quietly \/ GivenUp, ~moved, ~isEdit
  PROVE  SectionsInv'
<1>1. SectionsMade /\ SectionsComing /\ SectionsAsked
  BY DEF SectionsInv
<1>2. /\ UNCHANGED <<sectionIds, sections>> /\ step \in 1..4 /\ step' \in 1..4
      /\ step' >= 3 => step >= 3
      /\ next' = next \/ next' = NoWave
  <2>1. step \in 1..4 /\ step <= 4
    BY DEF Flow
  <2>2. step' = step \/ step' <= step \/ (step = 3 /\ step' = 4)
    BY DEF Quietly, GivenUp
  <2>3. step' \in 1..4
    BY StepType
  <2> QED
    BY <2>1, <2>2, <2>3 DEF Quietly, GivenUp
<1>3. SectionsMade'
  <2>1. Phase("lessons")' => Phase("lessons")
    BY <1>2 DEF Phase, Submitting
  <2>2. ASSUME (step >= 3 \/ Phase("lessons"))'
        PROVE  (SectionsHave(sectionIds) /\ \A i \in 1..Len(sections) : sectionIds[i] # None)'
    <3>1. SectionsHave(sectionIds) /\ \A i \in 1..Len(sections) : sectionIds[i] # None
      BY <1>1, <1>2, <2>1, <2>2 DEF SectionsMade
    <3> QED
      BY <1>2, <3>1, SectionsHaveMore DEF SectionsHave
  <2> QED
    BY <2>2 DEF SectionsMade
<1>4. SectionsComing'
  <2>1. ASSUME Phase("sections")'
        PROVE  SectionsHave(next.results)'
    <3>1. next' = next /\ Phase("sections")
      BY <1>2, <2>1 DEF Phase, Submitting
    <3>2. SectionsHave(next.results)
      BY <1>1, <3>1 DEF SectionsComing
    <3> QED
      BY <1>2, <3>1, <3>2, SectionsHaveMore DEF SectionsHave
  <2> QED
    BY <2>1 DEF SectionsComing
<1>5. SectionsAsked'
  <2>1. ASSUME NEW c \in calls', c.kind = "sections", Waits(next', c)
        PROVE  c.id[2] \in 1..Len(sections) /\ c.args = sections[c.id[2]]
    <3>1. c \in calls
      BY <2>1 DEF Quietly, GivenUp, Making
    <3>2. next' = next
      BY <1>2, <2>1, <3>1, NoWaveWaits
    <3> QED
      BY <1>1, <2>1, <3>1, <3>2 DEF SectionsAsked
  <2> QED
    BY <1>2, <2>1 DEF SectionsAsked
<1> QED
  BY <1>3, <1>4, <1>5 DEF SectionsInv

LEMMA SectionsSent ==
  ASSUME Draft, Flow, Rows, ListsInv, CallsInv, SectionsInv, [CWNext]_cwVars, UNCHANGED <<isEdit, sections>>,
         Sent, ~moved, ~isEdit
  PROVE  SectionsInv'
<1>1. SectionsMade
  BY DEF SectionsInv
<1>2. UNCHANGED sectionIds
  BY DEF Sent, NextStep1, NextStep2, NextStep3, Clicks
<1>3. ASSUME NEW what \in Making, NEW places, NEW new, SendsNext(what, places, new),
             what = "lessons" => step = 3,
             what = "sections" => /\ places = 1..Len(sections)
                                  /\ \A c \in new : /\ c.id[2] \in 1..Len(sections)
                                                    /\ c.args = sections[c.id[2]]
      PROVE  SectionsInv'
  <2>1. /\ next'.kind = what /\ next' # NoWave /\ next'.results = [p \in places |-> None]
        /\ \A c \in calls' : Waits(next', c) => c \in new
        /\ \A c \in new : c.kind = what
        /\ UNCHANGED step
    BY <1>3, SentNext
  <2>2. SectionsMade'
    <3>1. ASSUME (step >= 3 \/ Phase("lessons"))'
          PROVE  (SectionsHave(sectionIds) /\ \A i \in 1..Len(sections) : sectionIds[i] # None)'
      <4>1. step >= 3
        BY <1>3, <2>1, <3>1 DEF Phase
      <4>2. SectionsHave(sectionIds) /\ \A i \in 1..Len(sections) : sectionIds[i] # None
        BY <1>1, <4>1 DEF SectionsMade
      <4> QED
        BY <1>2, <4>2, SectionsHaveMore DEF SectionsHave
    <3> QED
      BY <3>1 DEF SectionsMade
  <2>3. SectionsComing'
    <3>1. ASSUME what = "sections"
          PROVE  SectionsHave(next.results)'
      <4>1. next'.results = [p \in 1..Len(sections) |-> None] /\ Len(sections) \in Nat
        BY <1>3, <2>1, <3>1 DEF Draft
      <4> QED
        BY <4>1 DEF SectionsHave
    <3> QED
      BY <2>1, <3>1 DEF SectionsComing, Phase
  <2>4. SectionsAsked'
    BY <1>3, <2>1 DEF SectionsAsked
  <2> QED
    BY <2>2, <2>3, <2>4 DEF SectionsInv
<1>4. CASE NextStep1 /\ SendsNext("course", 1..1, {Call("course", 1, title)})
  BY <1>3, <1>4 DEF Making
<1>5. CASE NextStep2 /\ SendsNext("sections", 1..Len(sections),
             {Call("sections", i, sections[i]) : i \in 1..Len(sections)})
  <2>1. \A c \in {Call("sections", i, sections[i]) : i \in 1..Len(sections)} :
          c.id[2] \in 1..Len(sections) /\ c.args = sections[c.id[2]]
    BY DEF Call
  <2> QED
    BY <1>3, <1>5, <2>1 DEF Making
<1>6. CASE NextStep3 /\ SendsNext("lessons", 1..Cardinality(Slots), LessonCalls)
  <2>1. step = 3
    BY <1>6 DEF NextStep3
  <2> QED
    BY <1>3, <1>6, <2>1 DEF Making
<1> QED
  BY <1>4, <1>5, <1>6 DEF Sent

LEMMA SectionsHeard ==
  ASSUME Draft, Flow, Rows, ListsInv, CallsInv, SectionsInv, [CWNext]_cwVars, UNCHANGED <<isEdit, sections>>,
         NEW c \in calls, Effect(c), Heard(c), ~moved, ~isEdit
  PROVE  SectionsInv'
<1>0. PICK new : new = With(next, c).results
  OBVIOUS
<1>1. SectionsMade /\ SectionsComing /\ SectionsAsked
  BY DEF SectionsInv
<1>2. /\ Effect(c) /\ CallOK(c) /\ Submitting /\ WaitsWell(next, c) /\ c.kind = next.kind
      /\ calls' = calls \ {c} /\ Len(new) = Len(next.results)
      /\ \A p \in 1..Len(next.results) : new[p] = IF p = c.id[2] THEN c.id ELSE next.results[p]
      /\ \/ /\ next' = With(next, c) /\ next'.results = new /\ next'.kind = next.kind
            /\ UNCHANGED <<step, sectionIds>>
            /\ \A d : Waits(next', d) <=> Waits(next, d)
         \/ /\ next' = NoWave
            /\ \A p \in 1..Len(next.results) : new[p] # None
            /\ next.kind = "course" => step' = 2 /\ UNCHANGED sectionIds
            /\ next.kind = "sections" => step' = 3 /\ sectionIds' = new
            /\ next.kind = "lessons" => step' = 4 /\ UNCHANGED sectionIds
      /\ next.kind \in Making /\ CallsInv'
  BY <1>0, HeardIs, CallsStep
<1>3. Waits(next, c)
  BY DEF Heard
<1>4. ASSUME next.kind = "sections"
      PROVE  /\ Len(new) = Len(sections) /\ Len(next.results) = Len(sections)
             /\ \A i \in 1..Len(sections) : new[i] # None => HasSection(new[i], sections[i])'
  <2>1. Phase("sections")
    BY <1>2, <1>4 DEF Phase
  <2>2. SectionsHave(next.results)
    BY <1>1, <2>1 DEF SectionsComing
  <2>3. \E s \in sectionRows' : s.id = c.id /\ s.title = c.args
    <3>1. sectionRows' = sectionRows \cup {[id |-> c.id, title |-> c.args]}
      BY <1>2, <1>4, EffectIs
    <3> DEFINE r == [id |-> c.id, title |-> c.args]
    <3>2. r.id = c.id /\ r.title = c.args
      OBVIOUS
    <3>3. r \in sectionRows'
      BY <3>1
    <3> QED
      BY <3>2, <3>3
  <2>4. c.args = sections[c.id[2]]
    BY <1>1, <1>2, <1>3, <1>4 DEF SectionsAsked
  <2>5. Len(next.results) = Len(sections)
    BY <2>2 DEF SectionsHave
  <2>6. ASSUME NEW i \in 1..Len(sections), new[i] # None
        PROVE  HasSection(new[i], sections[i])'
    <3>1. CASE i = c.id[2]
      <4>1. new[i] = c.id /\ sections[i] = c.args
        BY <1>2, <2>4, <2>5, <3>1
      <4> QED
        BY <2>3, <4>1 DEF HasSection
    <3>2. CASE i # c.id[2]
      <4>1. new[i] = next.results[i]
        BY <1>2, <2>5, <3>2
      <4>2. HasSection(new[i], sections[i])
        BY <2>2, <2>6, <4>1 DEF SectionsHave
      <4> QED
        BY <4>2, RowsGrow DEF HasSection
    <3> QED
      BY <3>1, <3>2
  <2> QED
    BY <1>2, <2>5, <2>6
<1>5. SectionsMade'
  <2>1. CASE next.kind = "sections" /\ sectionIds' = new /\ \A p \in 1..Len(next.results) : new[p] # None
    BY <1>4, <2>1 DEF SectionsMade, SectionsHave
  <2>2. CASE UNCHANGED sectionIds /\ (step' < 3 \/ UNCHANGED step \/ next.kind = "lessons")
    <3>1. ASSUME (step >= 3 \/ Phase("lessons"))'
          PROVE  (SectionsHave(sectionIds) /\ \A i \in 1..Len(sections) : sectionIds[i] # None)'
      <4>1. step >= 3 \/ Phase("lessons")
        <5>1. step \in Int /\ step' \in Int
          BY StepType
        <5> QED
          BY <1>2, <2>2, <3>1, <5>1 DEF Phase, Submitting
      <4>2. SectionsHave(sectionIds) /\ \A i \in 1..Len(sections) : sectionIds[i] # None
        BY <1>1, <4>1 DEF SectionsMade
      <4> QED
        BY <2>2, <4>2, SectionsHaveMore DEF SectionsHave
    <3> QED
      BY <3>1 DEF SectionsMade
  <2>3. 2 < 3
    OBVIOUS
  <2> QED
    BY <1>2, <2>1, <2>2, <2>3 DEF Making
<1>6. SectionsComing'
  <2>1. CASE next' = NoWave
    BY <2>1 DEF SectionsComing, Phase, Submitting
  <2>2. CASE next'.results = new /\ next'.kind = next.kind
    BY <1>4, <2>2 DEF SectionsComing, SectionsHave, Phase
  <2> QED
    BY <1>2, <2>1, <2>2
<1>7. SectionsAsked'
  <2>1. ASSUME NEW d \in calls', d.kind = "sections", Waits(next', d)
        PROVE  d.id[2] \in 1..Len(sections) /\ d.args = sections[d.id[2]]
    <3>1. d \in calls
      BY <1>2
    <3>2. Waits(next, d)
      BY <1>2, <2>1, <3>1, NoWaveWaits
    <3> QED
      BY <1>1, <2>1, <3>1, <3>2 DEF SectionsAsked
  <2> QED
    BY <2>1 DEF SectionsAsked
<1> QED
  BY <1>5, <1>6, <1>7 DEF SectionsInv

LEMMA SectionsStep ==
  ASSUME Draft, Flow, Rows, ListsInv, CallsInv, SectionsInv, [CWNext]_cwVars
  PROVE  SectionsInv'
<1> SUFFICES ASSUME ~moved', ~isEdit'
             PROVE  SectionsInv'
  BY DEF SectionsInv
<1>1. ~moved
  BY MovedStays
<1>2. CASE Editing
  BY <1>2, SectionsEdited
<1>3. CASE UNCHANGED <<isEdit, sections, lessons>> /\ (Quietly \/ GivenUp)
  BY <1>1, <1>3, SectionsQuiet
<1>4. CASE UNCHANGED <<isEdit, sections, lessons>> /\ Sent
  BY <1>1, <1>4, SectionsSent
<1>5. ASSUME UNCHANGED <<isEdit, sections, lessons>>,
             NEW c \in calls, Effect(c), Heard(c)
      PROVE  SectionsInv'
  BY <1>1, <1>5, SectionsHeard
<1> QED
  BY <1>2, <1>3, <1>4, <1>5, FlowMoves
-----------------------------------------------------------------------------
(* A lesson is asked for in the row of its section, and made there.         *)
LessonCallsInv ==
  moved \/ \A c \in calls : c.kind = "lessons" => HasSection(c.args.section, c.args.title[1])

LEMMA LessonCallsStep ==
  ASSUME Draft, Flow, Rows, ListsInv, CallsInv, SectionsInv, LessonCallsInv, [CWNext]_cwVars
  PROVE  LessonCallsInv'
<1> SUFFICES ASSUME ~moved'
             PROVE  LessonCallsInv'
  BY DEF LessonCallsInv
<1>1. ~moved
  BY MovedStays
<1>2. ASSUME NEW c \in calls, c.kind = "lessons"
      PROVE  HasSection(c.args.section, c.args.title[1])'
  <2>1. HasSection(c.args.section, c.args.title[1])
    BY <1>1, <1>2 DEF LessonCallsInv
  <2> QED
    BY <2>1, RowsGrow DEF HasSection
<1>3. CASE \A c \in calls' : c.kind \in Making => c \in calls
  BY <1>2, <1>3 DEF LessonCallsInv, Making
<1>4. ASSUME NextStep3, SendsNext("lessons", 1..Cardinality(Slots), LessonCalls),
             NEW c \in LessonCalls
      PROVE  HasSection(c.args.section, c.args.title[1])'
  <2>1. step >= 3 /\ ~isEdit
    BY <1>4 DEF NextStep3, SendsNext
  <2>2. /\ Len(sectionIds) = Len(sections)
        /\ \A i \in 1..Len(sections) : sectionIds[i] # None /\ HasSection(sectionIds[i], sections[i])
    BY <1>1, <2>1 DEF SectionsInv, SectionsMade, SectionsHave
  <2>3. PICK s \in Slots : c.args.title = Lesson(s) /\ c.args.section = SectionId(s[1])
    BY <1>4, LessonCallsAre
  <2>4. s[1] \in 1..Len(sections) /\ Lesson(s)[1] = sections[s[1]]
    BY Shows
  <2>5. s[1] <= Len(sectionIds)
    BY <2>2, <2>4 DEF Draft
  <2>6. SectionId(s[1]) = sectionIds[s[1]]
    BY <2>5 DEF SectionId
  <2>7. HasSection(c.args.section, c.args.title[1])
    BY <2>2, <2>3, <2>4, <2>6
  <2> QED
    BY <2>7, RowsGrow DEF HasSection
<1>5. CASE Sent
  <2>1. ASSUME NEW what \in Making, NEW places, NEW new, SendsNext(what, places, new), what # "lessons"
        PROVE  \A c \in calls' : c.kind = "lessons" => c \in calls
    BY <2>1, SentNext
  <2>2. CASE NextStep3 /\ SendsNext("lessons", 1..Cardinality(Slots), LessonCalls)
    <3>1. \A c \in calls' : c \in calls \/ c \in LessonCalls
      BY <2>2, SentNext DEF Making
    <3> QED
      BY <1>2, <1>4, <2>2, <3>1 DEF LessonCallsInv
  <2> QED
    BY <1>2, <1>5, <2>1, <2>2 DEF Sent, Making, LessonCallsInv
<1>6. CASE calls' \subseteq calls
  BY <1>3, <1>6
<1>7. CASE Editing
  BY <1>6, <1>7, EditingIs
<1>8. CASE Quietly \/ GivenUp
  BY <1>3, <1>6, <1>8 DEF Quietly, GivenUp
<1>9. ASSUME NEW c \in calls, Effect(c), Heard(c)
      PROVE  LessonCallsInv'
  BY <1>6, <1>9, HeardIs
<1> QED
  BY <1>5, <1>7, <1>8, <1>9, FlowMoves

LEMMA InSectionStep ==
  ASSUME Draft, Flow, Rows, ListsInv, CallsInv, LessonCallsInv, LessonInItsSection, [CWNext]_cwVars
  PROVE  LessonInItsSection'
<1> SUFFICES ASSUME ~moved', NEW l \in lessonRows'
             PROVE  HasSection(l.section, l.title[1])'
  BY DEF LessonInItsSection, HasSection
<1>1. ~moved
  BY MovedStays
<1>2. CASE l \in lessonRows
  <2>1. HasSection(l.section, l.title[1])
    BY <1>1, <1>2 DEF LessonInItsSection, HasSection
  <2> QED
    BY <2>1, RowsGrow DEF HasSection
<1>3. ASSUME l \notin lessonRows, NEW c \in calls, Effect(c)
      PROVE  HasSection(l.section, l.title[1])'
  <2>1. CallOK(c)
    BY DEF Flow
  <2>2. c.kind = "lessons" /\ l = [id |-> c.id, title |-> c.args.title, section |-> c.args.section]
    BY <1>3, <2>1, EffectIs
  <2>3. HasSection(l.section, l.title[1])
    BY <1>1, <2>2 DEF LessonCallsInv
  <2> QED
    BY <2>3, RowsGrow DEF HasSection
<1> QED
  BY <1>2, <1>3, RowsMove
-----------------------------------------------------------------------------
(* The ids of the lessons fit the lessons of the draft, position for        *)
(* position, whenever something uses them.                                  *)
LessonsMade == isEdit \/ step = 4 \/ Saving => Matched(lessons, lessonIds, lessonRows)
LessonsComing == Phase("lessons") => Matched(lessons, next.results, lessonRows)
LessonsAsked ==
  \A c \in calls : c.kind = "lessons" /\ Waits(next, c) =>
    \E s \in Held(lessons) : c.id[2] = At(lessons, s) /\ c.args.title = lessons[s[1]][s[2]]
MatchInv == moved \/ (LessonsMade /\ LessonsComing /\ LessonsAsked)

LEMMA MatchKept ==
  ASSUME Flow, [CWNext]_cwVars, UNCHANGED lessons, NEW list, Matched(lessons, list, lessonRows)
  PROVE  Matched(lessons', list, lessonRows')
  BY RowsGrow, MatchedRows

LEMMA MatchEdited ==
  ASSUME Draft, Flow, Rows, ListsInv, CallsInv, MatchInv, [CWNext]_cwVars, Editing, ~moved'
  PROVE  MatchInv'
<1>1. /\ UNCHANGED <<isEdit, next, pub, step, calls, lessonRows>> /\ ~moved /\ ~InUse /\ step # 4
      /\ step = 2 \/ (step = 3 /\ UNCHANGED sections)
  BY EditingIs
<1>2. next = NoWave
  BY <1>1 DEF InUse, Submitting, CallsInv, Draft
<1>3. LessonsComing' /\ LessonsAsked'
  BY <1>1, <1>2, NoWaveWaits DEF LessonsComing, LessonsAsked, Phase, Submitting
<1>4. LessonsMade'
  <2>1. CASE ~isEdit
    <3>1. ~Saving
      BY <1>1, <2>1 DEF InUse
    <3> QED
      BY <1>1, <2>1, <3>1 DEF LessonsMade, Saving
  <2>2. CASE isEdit
    <3>1. Matched(lessons, lessonIds, lessonRows) /\ lessons \in Lists /\ lessonIds \in Seq(MaybeIds)
      BY <1>1, <2>2 DEF MatchInv, LessonsMade, ListsInv, Flow
    <3>2. CASE AddSection
      BY <1>1, <3>1, <3>2 DEF LessonsMade, AddSection
    <3>3. ASSUME NEW i \in Places, RemoveSection(i)
          PROVE  LessonsMade'
      <4>1. /\ i \in 1..Len(sections) /\ Len(sections) \in 1..MaxSections
            /\ lessons' = Closed(lessons, Len(sections) - 1, i) /\ UNCHANGED lessonIds
        BY <3>3, WizardBounds DEF RemoveSection, ListsInv, Draft
      <4>2. lessons[i] = <<>>
        BY <2>2, <3>3 DEF RemoveSection
      <4>3. \A j \in Places : j > Len(sections) => lessons[j] = <<>>
        BY DEF ListsInv
      <4>4. Matched(lessons', lessonIds, lessonRows)
        BY <3>1, <4>1, <4>2, <4>3, MatchedClosed
      <4> QED
        BY <1>1, <4>1, <4>4 DEF LessonsMade
    <3>4. ASSUME NEW i \in Places, AddLesson(i)
          PROVE  LessonsMade'
      <4>1. PICK x \in Lessons : Longer(lessons, lessons', i, x)
        BY <3>4, LongerIs
      <4>2. PICK at : at = GlobalLessonIndex(i, Len(lessons[i]) + 1)
        OBVIOUS
      <4>3. at = Rank(lessons, i) + (Len(lessons[i]) + 1)
        BY <4>2, Shows
      <4>4. lessonIds' = IF at > Len(lessonIds) THEN Append(lessonIds, None)
                         ELSE InsertAt(lessonIds, at, None)
        BY <3>4, <4>2 DEF AddLesson, Spliced
      <4>5. Matched(lessons', IF at > Len(lessonIds) THEN Append(lessonIds, None)
                              ELSE InsertAt(lessonIds, at, None), lessonRows)
        BY <3>1, <4>1, <4>3, MatchedAppend
      <4> QED
        BY <1>1, <4>4, <4>5 DEF LessonsMade
    <3>5. ASSUME NEW i \in Places, NEW j \in Spots, RemoveLesson(i, j)
          PROVE  LessonsMade'
      <4>1. j \in 1..Len(lessons[i]) /\ Shorter(lessons, lessons', i, j)
        BY <3>5, ShorterIs
      <4>2. PICK at : at = GlobalLessonIndex(i, j)
        OBVIOUS
      <4>3. at = Rank(lessons, i) + j
        BY <4>2, Shows
      <4>4. lessonIds' = IF at > Len(lessonIds) THEN lessonIds ELSE RemoveAt(lessonIds, at)
        BY <3>5, <4>2 DEF RemoveLesson
      <4>5. Matched(lessons', IF at > Len(lessonIds) THEN lessonIds ELSE RemoveAt(lessonIds, at), lessonRows)
        BY <3>1, <4>1, <4>3, MatchedRemove
      <4> QED
        BY <1>1, <4>4, <4>5 DEF LessonsMade
    <3> QED
      BY <3>2, <3>3, <3>4, <3>5 DEF Editing
  <2> QED
    BY <2>1, <2>2 DEF Draft
<1> QED
  BY <1>3, <1>4 DEF MatchInv

LEMMA MatchNothing ==
  ASSUME Draft, ListsInv, sections = <<>>, NEW table
  PROVE  Matched(lessons, <<>>, table)
<1>1. Len(sections) = 0
  OBVIOUS
<1>2. ASSUME NEW s \in Held(lessons)
      PROVE  FALSE
  <2>1. s[1] \in Places /\ s[2] \in 1..Len(lessons[s[1]]) /\ s[1] > 0
    BY HeldType DEF ListsInv, Places
  <2>2. lessons[s[1]] = <<>>
    BY <1>1, <2>1 DEF ListsInv
  <2> QED
    BY <2>1, <2>2
<1>3. Held(lessons) = {}
  BY <1>2
<1>4. Cardinality(Held(lessons)) = 0
  BY <1>3, FS_EmptySet
<1> QED
  BY <1>3, <1>4 DEF Matched

LEMMA MatchQuiet ==
  ASSUME Draft, Flow, Rows, ListsInv, CallsInv, MatchInv, [CWNext]_cwVars,
         UNCHANGED <<isEdit, sections, lessons>>, Quietly \/ GivenUp, ~moved
  PROVE  MatchInv'
<1>1. LessonsMade /\ LessonsComing /\ LessonsAsked
  BY DEF MatchInv
<1>2. LessonsMade'
  <2>1. CASE sections = <<>> /\ lessonIds' = <<>>
    <3>1. Matched(lessons, <<>>, lessonRows)
      BY <2>1, MatchNothing
    <3>2. Matched(lessons', lessonIds', lessonRows')
      BY <2>1, <3>1, MatchKept
    <3> QED
      BY <3>2 DEF LessonsMade
  <2>2. ASSUME UNCHANGED lessonIds, step' = step \/ step' <= step \/ isEdit, Saving' => Saving \/ step = 4,
               (isEdit \/ step = 4 \/ Saving)'
        PROVE  Matched(lessons', lessonIds', lessonRows')
    <3>1. step \in 1..4 /\ step' \in 1..4
      BY StepType
    <3>2. isEdit \/ step = 4 \/ Saving
      BY <2>2, <3>1
    <3>3. Matched(lessons, lessonIds, lessonRows)
      BY <1>1, <3>2 DEF LessonsMade
    <3> QED
      BY <2>2, <3>3, MatchKept
  <2>3. CASE GivenUp
    BY <2>2, <2>3 DEF GivenUp, LessonsMade
  <2>4. CASE Quietly
    BY <2>1, <2>2, <2>4 DEF Quietly, LessonsMade
  <2> QED
    BY <2>3, <2>4
<1>3. next' = next \/ next' = NoWave
  BY DEF Quietly, GivenUp
<1>4. LessonsComing'
  <2>1. ASSUME Phase("lessons")'
        PROVE  Matched(lessons', next'.results, lessonRows')
    <3>1. next' = next /\ Phase("lessons")
      BY <1>3, <2>1 DEF Phase, Submitting
    <3>2. Matched(lessons, next.results, lessonRows)
      BY <1>1, <3>1 DEF LessonsComing
    <3> QED
      BY <3>1, <3>2, MatchKept
  <2> QED
    BY <2>1 DEF LessonsComing
<1>5. LessonsAsked'
  <2>1. ASSUME NEW c \in calls', c.kind = "lessons", Waits(next', c)
        PROVE  \E s \in Held(lessons) : c.id[2] = At(lessons, s) /\ c.args.title = lessons[s[1]][s[2]]
    <3>1. c \in calls
      BY <2>1 DEF Quietly, GivenUp, Making
    <3>2. next' = next
      BY <1>3, <2>1, <3>1, NoWaveWaits
    <3> QED
      BY <1>1, <2>1, <3>1, <3>2 DEF LessonsAsked
  <2>2. Held(lessons') = Held(lessons) /\ \A s : At(lessons', s) = At(lessons, s)
    OBVIOUS
  <2>3. ASSUME NEW c \in calls', c.kind = "lessons", Waits(next', c)
        PROVE  \E s \in Held(lessons') : c.id[2] = At(lessons', s) /\ c.args.title = lessons'[s[1]][s[2]]
    BY <2>1, <2>2, <2>3
  <2> QED
    BY <2>3 DEF LessonsAsked
<1> QED
  BY <1>2, <1>4, <1>5 DEF MatchInv

LEMMA AskedOf ==
  ASSUME UNCHANGED lessons,
         \A c \in calls' : c.kind = "lessons" /\ Waits(next', c) =>
           \E s \in Held(lessons) : c.id[2] = At(lessons, s) /\ c.args.title = lessons[s[1]][s[2]]
  PROVE  LessonsAsked'
<1>1. Held(lessons') = Held(lessons) /\ \A s : At(lessons', s) = At(lessons, s)
  OBVIOUS
<1>2. ASSUME NEW c \in calls', c.kind = "lessons", Waits(next', c)
      PROVE  \E s \in Held(lessons') : c.id[2] = At(lessons', s) /\ c.args.title = lessons'[s[1]][s[2]]
  <2>1. PICK s \in Held(lessons) : c.id[2] = At(lessons, s) /\ c.args.title = lessons[s[1]][s[2]]
    BY <1>2
  <2> QED
    BY <1>1, <2>1
<1> QED
  BY <1>2 DEF LessonsAsked

LEMMA MatchSent ==
  ASSUME Draft, Flow, Rows, ListsInv, CallsInv, MatchInv, [CWNext]_cwVars,
         UNCHANGED <<isEdit, sections, lessons>>, Sent, ~moved
  PROVE  MatchInv'
<1>1. LessonsMade /\ LessonsComing /\ LessonsAsked
  BY DEF MatchInv
<1>2. UNCHANGED lessonIds
  BY DEF Sent, NextStep1, NextStep2, NextStep3, Clicks, SendsNext
<1>3. ASSUME NEW what \in Making, NEW places, NEW new, SendsNext(what, places, new),
             what = "lessons" => places = 1..Cardinality(Held(lessons)) /\ new = LessonCalls
      PROVE  MatchInv'
  <2>1. /\ next'.kind = what /\ next'.results = [p \in places |-> None]
        /\ \A c \in calls' : Waits(next', c) => c \in new
        /\ \A c \in new : c.kind = what
        /\ UNCHANGED <<step, pub>>
    BY <1>3, SentNext
  <2>2. LessonsMade'
    <3>1. ASSUME isEdit \/ step = 4 \/ Saving
          PROVE  Matched(lessons', lessonIds', lessonRows')
      BY <1>1, <1>2, <3>1, MatchKept DEF LessonsMade
    <3> QED
      BY <2>1, <3>1 DEF LessonsMade, Saving
  <2>3. LessonsComing'
    <3>1. ASSUME what = "lessons"
          PROVE  Matched(lessons', next'.results, lessonRows')
      <4>1. Cardinality(Held(lessons)) \in Nat
        BY HeldFinite
      <4>2. /\ Len(next'.results) = Cardinality(Held(lessons))
            /\ \A p \in 1..Cardinality(Held(lessons)) : next'.results[p] = None
        BY <1>3, <2>1, <3>1, <4>1
      <4>3. \A s \in Held(lessons) : At(lessons, s) \in 1..Cardinality(Held(lessons))
        BY IndexRange DEF ListsInv
      <4>4. Matched(lessons, next'.results, lessonRows')
        BY <4>2, <4>3 DEF Matched
      <4> QED
        BY <4>4
    <3> QED
      BY <2>1, <3>1 DEF LessonsComing, Phase
  <2>4. LessonsAsked'
    <3>1. ASSUME NEW c \in calls', c.kind = "lessons", Waits(next', c)
          PROVE  \E s \in Held(lessons) : c.id[2] = At(lessons, s) /\ c.args.title = lessons[s[1]][s[2]]
      <4>1. c \in LessonCalls
        BY <1>3, <2>1, <3>1
      <4>2. PICK s \in Slots : c.id = <<clicks + 1, Index(s)>> /\ c.args.title = Lesson(s)
        BY <4>1, LessonCallsAre
      <4> QED
        BY <4>2, Shows
    <3> QED
      BY <3>1, AskedOf
  <2> QED
    BY <2>2, <2>3, <2>4 DEF MatchInv
<1>4. CASE NextStep1 /\ SendsNext("course", 1..1, {Call("course", 1, title)})
  BY <1>3, <1>4 DEF Making
<1>5. CASE NextStep2 /\ SendsNext("sections", 1..Len(sections),
             {Call("sections", i, sections[i]) : i \in 1..Len(sections)})
  BY <1>3, <1>5 DEF Making
<1>6. CASE NextStep3 /\ SendsNext("lessons", 1..Cardinality(Slots), LessonCalls)
  <2>1. Slots = Held(lessons)
    BY Shows
  <2> QED
    BY <1>3, <1>6, <2>1 DEF Making
<1> QED
  BY <1>4, <1>5, <1>6 DEF Sent

LEMMA MatchHeard ==
  ASSUME Draft, Flow, Rows, ListsInv, CallsInv, MatchInv, [CWNext]_cwVars,
         UNCHANGED <<isEdit, sections, lessons>>, ~moved,
         NEW c \in calls, Effect(c), Heard(c)
  PROVE  MatchInv'
<1>0. PICK new : new = With(next, c).results
  OBVIOUS
<1>1. LessonsMade /\ LessonsComing /\ LessonsAsked
  BY DEF MatchInv
<1>2. /\ Effect(c) /\ CallOK(c) /\ Submitting /\ c.kind = next.kind /\ ~isEdit /\ step # 4
      /\ calls' = calls \ {c} /\ Len(new) = Len(next.results) /\ UNCHANGED pub
      /\ \A p \in 1..Len(next.results) : new[p] = IF p = c.id[2] THEN c.id ELSE next.results[p]
      /\ \/ /\ next' = With(next, c) /\ next'.results = new /\ next'.kind = next.kind
            /\ UNCHANGED <<step, lessonIds>>
            /\ \A d : Waits(next', d) <=> Waits(next, d)
         \/ /\ next' = NoWave
            /\ next.kind = "course" => step' = 2 /\ UNCHANGED lessonIds
            /\ next.kind = "sections" => step' = 3 /\ UNCHANGED lessonIds
            /\ next.kind = "lessons" => step' = 4 /\ lessonIds' = new
      /\ next.kind \in Making
  BY <1>0, HeardIs
<1>3. Waits(next, c)
  BY DEF Heard
<1>4. ASSUME next.kind = "lessons"
      PROVE  Matched(lessons', new, lessonRows')
  <2>1. Matched(lessons, next.results, lessonRows)
    BY <1>1, <1>2, <1>4 DEF LessonsComing, Phase
  <2>2. PICK t \in Held(lessons) : c.id[2] = At(lessons, t) /\ c.args.title = lessons[t[1]][t[2]]
    BY <1>1, <1>2, <1>3, <1>4 DEF LessonsAsked
  <2>3. lessonRows' = lessonRows \cup {[id |-> c.id, title |-> c.args.title, section |-> c.args.section]}
    BY <1>2, <1>4, EffectIs
  <2>4. Len(next.results) = Cardinality(Held(lessons)) /\ lessons \in Lists
    BY <2>1 DEF Matched, ListsInv
  <2>5. ASSUME NEW s \in Held(lessons), new[At(lessons, s)] # None
        PROVE  \E m \in lessonRows' : m.id = new[At(lessons, s)] /\ m.title = lessons[s[1]][s[2]]
    <3>1. At(lessons, s) \in 1..Len(next.results)
      BY <2>4, IndexRange
    <3>2. CASE At(lessons, s) = c.id[2]
      <4>1. s = t /\ new[At(lessons, s)] = c.id
        BY <1>2, <2>2, <2>4, <3>1, <3>2, IndexOnce
      <4> DEFINE r == [id |-> c.id, title |-> c.args.title, section |-> c.args.section]
      <4>2. r \in lessonRows' /\ r.id = c.id /\ r.title = c.args.title
        BY <2>3
      <4> QED
        BY <2>2, <4>1, <4>2
    <3>3. CASE At(lessons, s) # c.id[2]
      <4>1. new[At(lessons, s)] = next.results[At(lessons, s)]
        BY <1>2, <3>1, <3>3
      <4>2. \E m \in lessonRows : m.id = new[At(lessons, s)] /\ m.title = lessons[s[1]][s[2]]
        BY <2>1, <2>5, <4>1 DEF Matched
      <4> QED
        BY <2>3, <4>2
    <3> QED
      BY <3>2, <3>3
  <2>6. Matched(lessons, new, lessonRows')
    BY <1>2, <2>4, <2>5 DEF Matched
  <2> QED
    BY <2>6
<1>5. LessonsMade'
  <2>1. CASE next.kind = "lessons" /\ lessonIds' = new
    BY <1>4, <2>1 DEF LessonsMade
  <2>2. CASE UNCHANGED lessonIds /\ step' # 4
    <3>1. ASSUME Saving
          PROVE  Matched(lessons', lessonIds', lessonRows')
      BY <1>1, <2>2, <3>1, MatchKept DEF LessonsMade
    <3> QED
      BY <1>2, <2>2, <3>1 DEF LessonsMade, Saving
  <2> QED
    BY <1>2, <2>1, <2>2 DEF Making
<1>6. LessonsComing'
  <2>1. CASE next' = NoWave
    BY <2>1 DEF LessonsComing, Phase, Submitting
  <2>2. CASE next'.results = new /\ next'.kind = next.kind
    BY <1>4, <2>2 DEF LessonsComing, Phase
  <2> QED
    BY <1>2, <2>1, <2>2
<1>7. LessonsAsked'
  <2>1. ASSUME NEW d \in calls', d.kind = "lessons", Waits(next', d)
        PROVE  \E s \in Held(lessons) : d.id[2] = At(lessons, s) /\ d.args.title = lessons[s[1]][s[2]]
    <3>1. d \in calls
      BY <1>2
    <3>2. Waits(next, d)
      BY <1>2, <2>1, <3>1, NoWaveWaits
    <3> QED
      BY <1>1, <2>1, <3>1, <3>2 DEF LessonsAsked
  <2> QED
    BY <2>1, AskedOf
<1> QED
  BY <1>5, <1>6, <1>7 DEF MatchInv

LEMMA MatchStep ==
  ASSUME Draft, Flow, Rows, ListsInv, CallsInv, MatchInv, [CWNext]_cwVars
  PROVE  MatchInv'
<1> SUFFICES ASSUME ~moved'
             PROVE  MatchInv'
  BY DEF MatchInv
<1>1. ~moved
  BY MovedStays
<1>2. CASE Editing
  BY <1>2, MatchEdited
<1>3. CASE UNCHANGED <<isEdit, sections, lessons>> /\ (Quietly \/ GivenUp)
  BY <1>1, <1>3, MatchQuiet
<1>4. CASE UNCHANGED <<isEdit, sections, lessons>> /\ Sent
  BY <1>1, <1>4, MatchSent
<1>5. ASSUME UNCHANGED <<isEdit, sections, lessons>>,
             NEW c \in calls, Effect(c), Heard(c)
      PROVE  MatchInv'
  BY <1>1, <1>5, MatchHeard
<1> QED
  BY <1>2, <1>3, <1>4, <1>5, FlowMoves
-----------------------------------------------------------------------------
(* What step 4 shows stays where it is while the step is shown: no list is  *)
(* edited there, and leaving it forgets the uploads.                        *)
Showing(at, lesson) == \E s \in Held(lessons) : at = At(lessons, s) /\ lesson = lessons[s[1]][s[2]]

AliveInv == \A u \in uploads : u.alive => step = 4 /\ Showing(u.at, u.video)

LEMMA FourStays ==
  ASSUME Draft, Flow, Rows, ListsInv, CallsInv, [CWNext]_cwVars, step = 4
  PROVE  /\ PrevStep \/ step' = 4
         /\ UNCHANGED <<sections, lessons>>
<1>1. ~Editing
  BY EditingIs
<1>2. ASSUME Quietly
      PROVE  PrevStep \/ step' = 4
  BY <1>2 DEF Quietly
<1>3. ASSUME Sent \/ GivenUp
      PROVE  step' = 4
  BY <1>3 DEF Sent, SendsNext, GivenUp
<1>4. ASSUME NEW c \in calls, Effect(c), Heard(c)
      PROVE  FALSE
  BY <1>4, HeardIs
<1> QED
  BY <1>1, <1>2, <1>3, <1>4, FlowMoves

LEMMA UploadsMove ==
  ASSUME [CWNext]_cwVars
  PROVE  PrevStep \/ uploads' \subseteq uploads \/ \E s \in Slots : SelectFile(s)
<1>1. CASE Retitle \/ AddSection \/ \E i \in Places : RemoveSection(i) \/ AddLesson(i)
  BY <1>1 DEF Retitle, AddSection, RemoveSection, AddLesson, Edits
<1>2. CASE \/ \E i \in Places, j \in Spots : RemoveLesson(i, j)
           \/ \E s \in Slots : EditQuiz(s)
  BY <1>2 DEF RemoveLesson, EditQuiz, Edits
<1>3. CASE OnServer
  BY <1>3, ServerKeeps
<1>4. CASE UNCHANGED cwVars
  BY <1>4 DEF cwVars, page
<1>5. CASE OnUploads
  BY <1>5 DEF OnUploads, UpdateS3Key, UploadFails
<1> QED
  BY <1>1, <1>2, <1>3, <1>4, <1>5, StepsAre

LEMMA AliveStep ==
  ASSUME Draft, Flow, Rows, ListsInv, CallsInv, AliveInv, [CWNext]_cwVars
  PROVE  AliveInv'
<1>1. CASE PrevStep
  <2>1. uploads' = {[u EXCEPT !.alive = FALSE] : u \in uploads}
    BY <1>1 DEF PrevStep
  <2>2. \A u \in uploads : [u EXCEPT !.alive = FALSE].alive = FALSE
    BY DEF Draft
  <2> QED
    BY <2>1, <2>2 DEF AliveInv
<1>2. ASSUME ~PrevStep, NEW at, NEW lesson, step = 4, Showing(at, lesson)
      PROVE  step' = 4 /\ Showing(at, lesson)'
  <2>1. step' = 4 /\ lessons' = lessons
    BY <1>2, FourStays
  <2>2. Held(lessons') = Held(lessons) /\ \A s : At(lessons', s) = At(lessons, s)
    BY <2>1
  <2>3. PICK s \in Held(lessons) : at = At(lessons, s) /\ lesson = lessons[s[1]][s[2]]
    BY <1>2 DEF Showing
  <2>4. s \in Held(lessons') /\ at = At(lessons', s) /\ lesson = lessons'[s[1]][s[2]]
    BY <2>1, <2>2, <2>3
  <2> QED
    BY <2>1, <2>4 DEF Showing
<1>3. ASSUME ~PrevStep, NEW u \in uploads, u.alive
      PROVE  (step = 4)' /\ Showing(u.at, u.video)'
  BY <1>2, <1>3 DEF AliveInv
<1>4. CASE ~PrevStep /\ uploads' \subseteq uploads
  BY <1>3, <1>4 DEF AliveInv
<1>5. ASSUME ~PrevStep, NEW s \in Slots, SelectFile(s)
      PROVE  AliveInv'
  <2>1. /\ step = 4
        /\ uploads' = uploads \cup
             {[video |-> Lesson(s), id |-> LessonId(Index(s)), at |-> Index(s), alive |-> TRUE]}
    BY <1>5 DEF SelectFile
  <2>2. Showing(Index(s), Lesson(s))
    BY Shows DEF Showing
  <2>3. PICK at, lesson : at = Index(s) /\ lesson = Lesson(s)
    OBVIOUS
  <2>4. (step = 4)' /\ Showing(at, lesson)'
    BY <1>2, <1>5, <2>1, <2>2, <2>3
  <2>5. ASSUME NEW u \in uploads', u.alive
        PROVE  (step = 4)' /\ Showing(u.at, u.video)'
    <3>1. u \in uploads \/ (u.at = at /\ u.video = lesson)
      BY <2>1, <2>3
    <3> QED
      BY <1>3, <1>5, <2>4, <2>5, <3>1
  <2> QED
    BY <2>5 DEF AliveInv
<1> QED
  BY <1>1, <1>4, <1>5, UploadsMove

(* A video or a quiz is at the position of its lesson.                      *)
ContentsInv ==
  \/ moved \/ isEdit
  \/ \A p \in Spots : contents[p] # Empty =>
       \E s \in Held(lessons) : p = At(lessons, s) /\ Of(contents[p], lessons[s[1]][s[2]])

LEMMA ContentsMove ==
  ASSUME Draft, [CWNext]_cwVars
  PROVE  \/ UNCHANGED contents
         \/ \E s \in Slots : EditQuiz(s)
         \/ \E u \in uploads : /\ UpdateS3Key(u) /\ u.alive
                               /\ contents' = [contents EXCEPT ![u.at].video = u.video]
<1>1. CASE Retitle \/ AddSection \/ \E i \in Places : RemoveSection(i) \/ AddLesson(i)
  BY <1>1 DEF Retitle, AddSection, RemoveSection, AddLesson
<1>2. CASE \E i \in Places, j \in Spots : RemoveLesson(i, j)
  BY <1>2 DEF RemoveLesson
<1>3. CASE OnServer
  BY <1>3, ServerKeeps
<1>4. CASE UNCHANGED cwVars
  BY <1>4 DEF cwVars, page
<1>5. CASE OnUploads
  BY <1>5 DEF OnUploads, PrevStep, SelectFile, UpdateS3Key, UploadFails
<1> QED
  BY <1>1, <1>2, <1>3, <1>4, <1>5, StepsAre

LEMMA ContentsStep ==
  ASSUME Draft, Flow, Rows, ListsInv, CallsInv, AliveInv, ContentsInv, [CWNext]_cwVars
  PROVE  ContentsInv'
<1> SUFFICES ASSUME ~moved', ~isEdit'
             PROVE  ContentsInv'
  BY DEF ContentsInv
<1>1. ~moved
  BY MovedStays
<1>2. ~isEdit
  <2>1. UNCHANGED isEdit
    BY FlowMoves, EditingIs
  <2> QED
    BY <2>1
<1>3. CASE Editing
  <2>1. /\ ~InUse /\ UNCHANGED contents
    BY <1>3, EditingIs
  <2>2. \A p \in Spots : contents[p] = Empty
    BY <1>2, <2>1 DEF InUse
  <2> QED
    BY <2>1, <2>2 DEF ContentsInv
<1>4. CASE UNCHANGED lessons
  <2>1. Held(lessons') = Held(lessons) /\ \A s : At(lessons', s) = At(lessons, s)
    BY <1>4
  <2>2. \A p \in Spots : contents[p] # Empty =>
          \E s \in Held(lessons) : p = At(lessons, s) /\ Of(contents[p], lessons[s[1]][s[2]])
    BY <1>1, <1>2 DEF ContentsInv
  <2>3. ASSUME NEW t \in Held(lessons), NEW x, contents' = [contents EXCEPT ![At(lessons, t)] = x],
               Of(contents[At(lessons, t)], lessons[t[1]][t[2]]) => Of(x, lessons[t[1]][t[2]]),
               At(lessons, t) \in Spots
        PROVE  ContentsInv'
    <3>1. ASSUME NEW p \in Spots, contents'[p] # Empty
          PROVE  \E s \in Held(lessons) : p = At(lessons, s) /\ Of(contents'[p], lessons[s[1]][s[2]])
      <4>1. CASE p # At(lessons, t)
        <5>1. contents'[p] = contents[p]
          BY <2>3, <4>1 DEF Draft
        <5> QED
          BY <2>2, <3>1, <5>1
      <4>2. CASE p = At(lessons, t)
        <5>1. contents'[p] = x
          BY <2>3, <4>2 DEF Draft
        <5>2. Of(contents[p], lessons[t[1]][t[2]])
          <6>1. CASE contents[p] = Empty
            BY <6>1 DEF Empty, Of
          <6>2. CASE contents[p] # Empty
            <7>1. PICK s \in Held(lessons) : p = At(lessons, s) /\ Of(contents[p], lessons[s[1]][s[2]])
              BY <2>2, <6>2
            <7>2. s = t
              BY <4>2, <7>1, IndexOnce DEF ListsInv
            <7> QED
              BY <7>1, <7>2
          <6> QED
            BY <6>1, <6>2
        <5> QED
          BY <2>3, <4>2, <5>1, <5>2
      <4> QED
        BY <4>1, <4>2
    <3>2. ASSUME NEW p \in Spots, contents'[p] # Empty
          PROVE  \E s \in Held(lessons') : p = At(lessons', s) /\ Of(contents'[p], lessons'[s[1]][s[2]])
      <4>1. PICK s \in Held(lessons) : p = At(lessons, s) /\ Of(contents'[p], lessons[s[1]][s[2]])
        BY <3>1, <3>2
      <4> QED
        BY <1>4, <2>1, <4>1
    <3> QED
      BY <3>2 DEF ContentsInv, Of
  <2>4. CASE UNCHANGED contents
    <3>1. ASSUME NEW p \in Spots, contents'[p] # Empty
          PROVE  \E s \in Held(lessons') : p = At(lessons', s) /\ Of(contents'[p], lessons'[s[1]][s[2]])
      <4>1. PICK s \in Held(lessons) : p = At(lessons, s) /\ Of(contents[p], lessons[s[1]][s[2]])
        BY <2>2, <2>4, <3>1
      <4> QED
        BY <1>4, <2>1, <2>4, <4>1
    <3> QED
      BY <3>1 DEF ContentsInv, Of
  <2>5. ASSUME NEW s \in Slots, EditQuiz(s)
        PROVE  ContentsInv'
    <3>1. PICK q \in {Lesson(s), None} : contents' = [contents EXCEPT ![Index(s)].quiz = q]
      BY <2>5 DEF EditQuiz
    <3>2. /\ s \in Held(lessons) /\ Index(s) = At(lessons, s) /\ Index(s) \in Spots
          /\ Lesson(s) = lessons[s[1]][s[2]]
      BY Shows
    <3>3. PICK x : x = [contents[Index(s)] EXCEPT !.quiz = q]
      OBVIOUS
    <3>4. contents' = [contents EXCEPT ![Index(s)] = x]
      BY <3>1, <3>2, <3>3 DEF Draft
    <3>5. x.quiz = q /\ x.video = contents[Index(s)].video
      BY <3>2, <3>3 DEF Draft, Content
    <3> QED
      BY <2>3, <3>2, <3>4, <3>5 DEF Of
  <2>6. ASSUME NEW u \in uploads, u.alive, contents' = [contents EXCEPT ![u.at].video = u.video]
        PROVE  ContentsInv'
    <3>1. PICK s \in Held(lessons) : u.at = At(lessons, s) /\ u.video = lessons[s[1]][s[2]]
      BY <2>6 DEF AliveInv, Showing
    <3>2. u.at \in Spots
      BY DEF Draft
    <3>3. PICK x : x = [contents[u.at] EXCEPT !.video = u.video]
      OBVIOUS
    <3>4. contents' = [contents EXCEPT ![u.at] = x]
      BY <2>6, <3>2, <3>3 DEF Draft
    <3>5. x.video = u.video /\ x.quiz = contents[u.at].quiz
      BY <3>2, <3>3 DEF Draft, Content
    <3> QED
      BY <2>3, <3>1, <3>2, <3>4, <3>5 DEF Of
  <2> QED
    BY <2>4, <2>5, <2>6, ContentsMove
<1> QED
  BY <1>3, <1>4, FlowMoves
-----------------------------------------------------------------------------
(* What is on its way to a lesson's document, and what the document has, is *)
(* what was entered for that lesson.                                        *)
Fits(id, content) == \E l \in lessonRows : l.id = id /\ Of(content, l.title)

UploadsFit == \A u \in uploads : HasLesson(u.id, u.video)
CallsFit   == \A c \in calls : c.kind = "contents" /\ c.args.lesson # None =>
                               Fits(c.args.lesson, c.args.content)
StoredFits == \A d \in stored : Fits(d.lesson, d.content)
StoreInv   == moved \/ (UploadsFit /\ CallsFit /\ StoredFits)

LEMMA FitsStill ==
  ASSUME Flow, [CWNext]_cwVars, NEW id, NEW content, Fits(id, content)
  PROVE  Fits(id, content)'
  BY RowsGrow DEF Fits

(* The id that a position has is of a row of the lesson that is shown there. *)
LEMMA LessonIdFits ==
  ASSUME Draft, Flow, ListsInv, LessonsMade, isEdit \/ step = 4 \/ Saving,
         NEW s \in Slots, LessonId(Index(s)) # None
  PROVE  HasLesson(LessonId(Index(s)), Lesson(s))
<1>1. Matched(lessons, lessonIds, lessonRows)
  BY DEF LessonsMade
<1>2. /\ s \in Held(lessons) /\ Index(s) = At(lessons, s) /\ Lesson(s) = lessons[s[1]][s[2]]
      /\ Index(s) \in 1..Cardinality(Held(lessons)) /\ Cardinality(Held(lessons)) \in Nat
  BY Shows
<1>3. Index(s) <= Len(lessonIds)
  BY <1>1, <1>2 DEF Matched
<1>4. LessonId(Index(s)) = lessonIds[Index(s)]
  BY <1>3 DEF LessonId
<1> QED
  BY <1>1, <1>2, <1>4 DEF Matched, HasLesson

LEMMA ContentCallsFit ==
  ASSUME Draft, Flow, ListsInv, LessonsMade, step = 4 \/ Saving, ContentsInv, ~moved, ~isEdit,
         NEW c \in ContentCalls, c.args.lesson # None
  PROVE  Fits(c.args.lesson, c.args.content)
<1>1. PICK s \in Slots : /\ contents[Index(s)].video # None
                         /\ c.args.lesson = LessonId(Index(s)) /\ c.args.content = contents[Index(s)]
  BY ContentCallsAre
<1>2. HasLesson(LessonId(Index(s)), Lesson(s))
  BY <1>1, LessonIdFits
<1>3. /\ s \in Held(lessons) /\ Index(s) = At(lessons, s) /\ Lesson(s) = lessons[s[1]][s[2]]
      /\ Index(s) \in Spots
  BY Shows
<1>4. contents[Index(s)] # Empty
  BY <1>1 DEF Empty
<1>5. PICK t \in Held(lessons) : /\ Index(s) = At(lessons, t)
                                 /\ Of(contents[Index(s)], lessons[t[1]][t[2]])
  BY <1>3, <1>4 DEF ContentsInv
<1>6. s = t
  BY <1>3, <1>5, IndexOnce DEF ListsInv
<1> QED
  BY <1>1, <1>2, <1>3, <1>5, <1>6 DEF Fits, HasLesson

(* The calls that store contents were sent by an earlier save, or are now.  *)
ContentsSent ==
  \/ \A c \in calls' : c.kind = "contents" => c \in calls
  \/ /\ ~isEdit /\ (step = 4 \/ Saving)
     /\ \A c \in calls' : c.kind = "contents" => c \in calls \/ c \in ContentCalls

LEMMA ContentCallsMove ==
  ASSUME Draft, Flow, Rows, ListsInv, CallsInv, [CWNext]_cwVars
  PROVE  ContentsSent
<1>1. ASSUME NEW gone \in SUBSET calls, SendContents(gone), UNCHANGED next, step = 4 \/ Saving
      PROVE  ContentsSent
  BY <1>1, SendContentsCalls DEF ContentsSent
<1>2. CASE UNCHANGED calls
  BY <1>2 DEF ContentsSent
<1>3. ASSUME NEW s \in {"DRAFT", "PENDING"}, Publish(s)
      PROVE  ContentsSent
  <2>1. step = 4 /\ UNCHANGED next
    BY <1>3, PublishCalls
  <2>2. CASE calls' = calls \cup {StatusCall(s)}
    <3>1. StatusCall(s).kind # "contents"
      BY DEF StatusCall, Call
    <3> QED
      BY <2>2, <3>1 DEF ContentsSent
  <2>3. CASE SendContents({})
    <3>1. {} \in SUBSET calls
      OBVIOUS
    <3> QED
      BY <1>1, <2>1, <2>3, <3>1
  <2> QED
    BY <1>3, <2>2, <2>3, PublishCalls
<1>4. ASSUME NEW c \in calls, Answer(c) \/ Lost(c)
      PROVE  ContentsSent
  <2>1. CASE calls' = calls \ {c}
    BY <2>1 DEF ContentsSent
  <2>2. CASE Saved(c) /\ SendContents({c})
    <3>1. Saving /\ UNCHANGED next
      BY <2>2, Awaited DEF Saved
    <3>2. {c} \in SUBSET calls
      OBVIOUS
    <3> QED
      BY <1>1, <2>2, <3>1, <3>2
  <2> QED
    BY <1>4, <2>1, <2>2, AnswersAre DEF Heard, Saved, Dropped
<1>5. CASE NextStep1 \/ NextStep2 \/ NextStep3
  <2>1. ASSUME NEW what \in Making, NEW places, NEW new, SendsNext(what, places, new)
        PROVE  ContentsSent
    BY <2>1, SentNext DEF Making, ContentsSent
  <2> QED
    BY <1>2, <1>5, <2>1, NextStepCalls DEF Making
<1>6. CASE OnServer
  BY <1>3, <1>4, <1>5, <1>6 DEF OnServer
<1>7. CASE OnUploads
  BY <1>2, <1>7, UploadsKeep
<1>8. CASE UNCHANGED cwVars
  BY <1>2, <1>8 DEF cwVars
<1>9. CASE Retitle \/ AddSection \/ \E i \in Places : RemoveSection(i) \/ AddLesson(i)
  BY <1>2, <1>9 DEF Retitle, AddSection, RemoveSection, AddLesson, Edits
<1>10. CASE \/ \E i \in Places, j \in Spots : RemoveLesson(i, j)
            \/ \E s \in Slots : EditQuiz(s)
  BY <1>2, <1>10 DEF RemoveLesson, EditQuiz, Edits
<1> QED
  BY <1>6, <1>7, <1>8, <1>9, <1>10, StepsAre

(* A document fits when it is replaced, or one field of it is.              *)
LEMMA DocFits ==
  ASSUME Rows, RowsInv, OneEach(stored), StoredFits, NEW l \in lessonRows
  PROVE  Of(Doc(l.id), l.title)
<1>1. CASE \E d \in stored : d.lesson = l.id
  <2>1. PICK d \in stored : d.lesson = l.id
    BY <1>1
  <2>2. Doc(l.id) = d.content
    BY <2>1, DocOne, DocIs
  <2>3. PICK m \in lessonRows : m.id = l.id /\ Of(d.content, m.title)
    BY <2>1 DEF StoredFits, Fits
  <2>4. m = l
    BY <2>3 DEF RowsInv
  <2> QED
    BY <2>2, <2>3, <2>4
<1>2. CASE ~\E d \in stored : d.lesson = l.id
  <2>1. Doc(l.id) = Empty
    BY <1>2 DEF Doc
  <2> QED
    BY <2>1 DEF Of, Empty
<1> QED
  BY <1>1, <1>2

LEMMA StoredStep ==
  ASSUME Draft, Flow, Rows, RowsInv, OneEach(stored), UploadsFit, CallsFit, StoredFits, [CWNext]_cwVars
  PROVE  StoredFits'
<1>1. ASSUME NEW l \in lessonRows, NEW x, stored' = Put(stored, l.id, x), Of(x, l.title)
      PROVE  StoredFits'
  <2>1. ASSUME NEW d \in stored'
        PROVE  Fits(d.lesson, d.content)'
    <3>1. CASE d \in stored
      <4>1. Fits(d.lesson, d.content)
        BY <3>1 DEF StoredFits
      <4> QED
        BY <4>1, RowsGrow DEF Fits, Of
    <3>2. CASE d = [lesson |-> l.id, content |-> x]
      <4>1. d.lesson = l.id /\ d.content = x
        BY <3>2
      <4>2. l \in lessonRows'
        BY RowsGrow
      <4> QED
        BY <1>1, <4>1, <4>2 DEF Fits, Of
    <3> QED
      BY <1>1, <3>1, <3>2 DEF Put
  <2> QED
    BY <2>1 DEF StoredFits
<1>2. CASE stored' = stored
  <2>1. ASSUME NEW d \in stored'
        PROVE  Fits(d.lesson, d.content)'
    <3>1. Fits(d.lesson, d.content)
      BY <1>2 DEF StoredFits
    <3> QED
      BY <3>1, RowsGrow DEF Fits, Of
  <2> QED
    BY <2>1 DEF StoredFits
<1>3. ASSUME NEW c \in calls, Effect(c), c.kind = "contents",
             stored' = Put(stored, c.args.lesson, Kept(c))
      PROVE  StoredFits'
  <2>1. CallOK(c)
    BY DEF Flow
  <2>2. /\ \E l \in lessonRows : l.id = c.args.lesson
        /\ c.args \in [lesson : MaybeIds, content : Content]
    BY <1>3, <2>1, EffectIs
  <2>3. c.args.lesson # None
    BY <2>2, NoneIsNone DEF Rows
  <2>4. PICK l \in lessonRows : l.id = c.args.lesson /\ Of(c.args.content, l.title)
    BY <1>3, <2>3 DEF CallsFit, Fits
  <2>5. Of(Doc(c.args.lesson), l.title)
    BY <2>4, DocFits
  <2>6. Of(Kept(c), l.title)
    BY <2>2, <2>4, <2>5, KeptType DEF Of
  <2> QED
    BY <1>1, <1>3, <2>4, <2>6
<1>4. ASSUME NEW u \in uploads, stored' = Put(stored, u.id, [Doc(u.id) EXCEPT !.video = u.video])
      PROVE  StoredFits'
  <2>1. PICK l \in lessonRows : l.id = u.id /\ l.title = u.video
    BY DEF UploadsFit, HasLesson
  <2>2. Of(Doc(u.id), l.title) /\ Doc(u.id) \in Content
    BY <2>1, DocFits, DocType
  <2>3. PICK x : x = [Doc(u.id) EXCEPT !.video = u.video]
    OBVIOUS
  <2>4. x.video = u.video /\ x.quiz = Doc(u.id).quiz
    BY <2>2, <2>3 DEF Content
  <2>5. Of(x, l.title)
    BY <2>1, <2>2, <2>4 DEF Of
  <2> QED
    BY <1>1, <1>4, <2>1, <2>3, <2>5
<1> QED
  BY <1>2, <1>3, <1>4, StoredMove

LEMMA StoreStep ==
  ASSUME Draft, Flow, Rows, ListsInv, CallsInv, RowsInv, OneEach(stored), MatchInv, ContentsInv, StoreInv,
         [CWNext]_cwVars
  PROVE  StoreInv'
<1> SUFFICES ASSUME ~moved'
             PROVE  StoreInv'
  BY DEF StoreInv
<1>1. ~moved
  BY MovedStays
<1>2. UploadsFit /\ CallsFit /\ StoredFits /\ LessonsMade
  BY <1>1 DEF StoreInv, MatchInv
<1>3. UploadsFit'
  <2>1. ASSUME NEW id, NEW video, HasLesson(id, video)
        PROVE  HasLesson(id, video)'
    BY <2>1, RowsGrow DEF HasLesson
  <2>2. CASE uploads' \subseteq uploads
    BY <1>2, <2>1, <2>2 DEF UploadsFit
  <2>3. CASE PrevStep
    <3>1. uploads' = {[u EXCEPT !.alive = FALSE] : u \in uploads}
      BY <2>3 DEF PrevStep
    <3>2. \A u \in uploads : [u EXCEPT !.alive = FALSE].id = u.id /\ [u EXCEPT !.alive = FALSE].video = u.video
      BY DEF Draft
    <3> QED
      BY <1>2, <2>1, <3>1, <3>2 DEF UploadsFit
  <2>4. ASSUME NEW s \in Slots, SelectFile(s)
        PROVE  UploadsFit'
    <3>1. PICK id, video : id = LessonId(Index(s)) /\ video = Lesson(s)
      OBVIOUS
    <3>2. HasLesson(id, video)
      BY <1>2, <2>4, <3>1, LessonIdFits DEF SelectFile
    <3>3. HasLesson(id, video)'
      BY <2>1, <3>2
    <3>4. uploads' = uploads \cup
            {[video |-> video, id |-> id, at |-> Index(s), alive |-> TRUE]}
      BY <2>4, <3>1 DEF SelectFile
    <3>5. \A u \in uploads' : u \in uploads \/ (u.id = id /\ u.video = video)
      BY <3>4
    <3> QED
      BY <1>2, <2>1, <3>3, <3>5 DEF UploadsFit
  <2> QED
    BY <2>2, <2>3, <2>4, UploadsMove
<1>4. CallsFit'
  <2>1. ASSUME NEW c \in calls', c.kind = "contents", c.args.lesson # None
        PROVE  Fits(c.args.lesson, c.args.content)
    <3>1. CASE c \in calls
      BY <1>2, <2>1, <3>1 DEF CallsFit
    <3>2. CASE ~isEdit /\ (step = 4 \/ Saving) /\ c \in ContentCalls
      BY <1>1, <1>2, <2>1, <3>2, ContentCallsFit
    <3> QED
      BY <2>1, <3>1, <3>2, ContentCallsMove DEF ContentsSent
  <2>2. ASSUME NEW c \in calls', c.kind = "contents", c.args.lesson # None
        PROVE  Fits(c.args.lesson, c.args.content)'
    BY <2>1, <2>2, FitsStill
  <2> QED
    BY <2>2 DEF CallsFit
<1> QED
  BY <1>2, <1>3, <1>4, StoredStep DEF StoreInv
-----------------------------------------------------------------------------
(* What publish() has sent, and has been stored of it.                      *)
IsStored(a) == Doc(a.lesson).video # None /\ (a.content.quiz # None => Doc(a.lesson).quiz # None)

(* Everything that was sent is stored, or a call is still to store it.      *)
AskedInv ==
  /\ OneEach(stored) /\ VideosSent
  /\ left => pub = NoWave /\ \A a \in asked : IsStored(a)
  /\ Saving /\ pub.kind = "contents" =>
       \A a \in asked : IsStored(a) \/ \E c \in calls : Waits(pub, c) /\ c.kind = "contents" /\ c.args = a

LEMMA VideosStep ==
  ASSUME Draft, Flow, Rows, ListsInv, CallsInv, VideosSent, [CWNext]_cwVars
  PROVE  VideosSent'
<1>1. ASSUME NEW c \in ContentCalls
      PROVE  c.args.content.video # None
  BY <1>1, ContentCallsAre
<1> QED
  BY <1>1, ContentCallsMove DEF VideosSent, ContentsSent

LEMMA SendContentsAsked ==
  ASSUME Draft, Flow, ListsInv, NEW gone \in SUBSET calls, SendContents(gone), UNCHANGED next,
         OneEach(stored'), VideosSent', ~left
  PROVE  AskedInv'
<1>1. CASE pub' = NoWave /\ asked' = {}
  BY <1>1 DEF AskedInv, Saving
<1>2. CASE /\ SendsPub("contents", {c.id[2] : c \in ContentCalls}, ContentCalls)
           /\ asked' = {c.args : c \in ContentCalls} /\ UNCHANGED left
           /\ calls' = (calls \ gone) \cup ContentCalls
  <2>1. pub'.wave = clicks + 1
    BY <1>2 DEF SendsPub, Wave
  <2>2. \A c \in ContentCalls : Waits(pub', c) /\ c.kind = "contents" /\ c \in calls'
    BY <1>2, <2>1 DEF SendsPub, Sends, Fresher, Waits
  <2>3. \A a \in asked' : \E c \in calls' : Waits(pub', c) /\ c.kind = "contents" /\ c.args = a
    BY <1>2, <2>2
  <2> QED
    BY <1>2, <2>3 DEF AskedInv
<1> QED
  BY <1>1, <1>2, SendContentsCalls

LEMMA AskedStep ==
  ASSUME Draft, Flow, Rows, ListsInv, CallsInv, AskedInv, [CWNext]_cwVars
  PROVE  AskedInv'
<1>0. OneEach(stored') /\ \A j : Keeps(Doc(j), Doc(j)')
  BY DocsKept DEF AskedInv
<1>1. /\ OneEach(stored') /\ VideosSent'
      /\ \A a : IsStored(a) => IsStored(a)'
  <2>1. VideosSent'
    BY VideosStep DEF AskedInv
  <2> QED
    BY <1>0, <2>1 DEF Keeps, IsStored
<1>2. ASSUME UNCHANGED <<left, asked>>, pub' = pub \/ pub' = NoWave,
             \A c \in calls : Waits(pub', c) => c \in calls'
      PROVE  AskedInv'
  <2>1. CASE pub' = pub
    BY <1>1, <1>2, <2>1 DEF AskedInv, Saving
  <2>2. CASE pub' = NoWave
    BY <1>1, <1>2, <2>2 DEF AskedInv, Saving
  <2> QED
    BY <1>2, <2>1, <2>2
<1>3. CASE Retitle \/ AddSection \/ \E i \in Places : RemoveSection(i) \/ AddLesson(i)
  BY <1>2, <1>3, EditKeeps DEF Retitle, AddSection, RemoveSection, AddLesson
<1>4. CASE \/ \E i \in Places, j \in Spots : RemoveLesson(i, j)
           \/ \E s \in Slots : EditQuiz(s)
  BY <1>2, <1>4, EditKeeps DEF RemoveLesson, EditQuiz
<1>5. CASE NextStep1 \/ NextStep2 \/ NextStep3
  <2>1. UNCHANGED <<left, asked, pub>>
    BY <1>5 DEF NextStep1, NextStep2, NextStep3, Clicks
  <2>2. calls \subseteq calls'
    BY <1>5 DEF NextStep1, NextStep2, NextStep3, Send
  <2> QED
    BY <1>2, <2>1, <2>2
<1>6. ASSUME NEW s \in {"DRAFT", "PENDING"}, Publish(s)
      PROVE  AskedInv'
  <2>1. ~left /\ UNCHANGED next
    BY <1>6, PublishCalls
  <2>2. CASE SendsPub("status", 1..1, {StatusCall(s)}) /\ UNCHANGED <<left, asked>>
    <3>1. pub'.kind = "status"
      BY <2>2, WaveIs DEF SendsPub
    <3> QED
      BY <1>1, <2>1, <2>2, <3>1 DEF AskedInv
  <2>3. CASE SendContents({})
    <3>1. {} \in SUBSET calls
      OBVIOUS
    <3> QED
      BY <1>1, <2>1, <2>3, <3>1, SendContentsAsked
  <2> QED
    BY <1>6, <2>2, <2>3, PublishCalls
<1>7. ASSUME NEW c \in calls, Answer(c) \/ Lost(c)
      PROVE  AskedInv'
  <2>1. CASE Dropped(c)
    <3>1. \A d \in calls : Waits(pub', d) => d \in calls'
      BY <2>1, NoWaveWaits DEF Dropped
    <3> QED
      BY <1>2, <2>1, <3>1 DEF Dropped
  <2>2. CASE Heard(c)
    <3>1. UNCHANGED <<left, asked, pub>> /\ calls' = calls \ {c} /\ ~Waits(pub, c)
      BY <2>2, Awaited DEF Heard
    <3> QED
      BY <1>2, <3>1
  <2>3. CASE Saved(c) /\ ~Dropped(c)
    <3>1. Saving /\ WaitsWell(pub, c) /\ WaveOK(pub, {"status", "contents"}) /\ CallOK(c) /\ Waits(pub, c)
      BY <2>3, Awaited DEF Saved
    <3>2. ~left /\ UNCHANGED next /\ Effect(c)
      BY <1>7, <2>3, <3>1, AnswersAre DEF AskedInv, Saving, Saved
    <3>3. CASE SendContents({c})
      <4>1. {c} \in SUBSET calls
        OBVIOUS
      <4> QED
        BY <1>1, <3>2, <3>3, <4>1, SendContentsAsked
    <3>4. CASE /\ pub.kind = "contents" /\ calls' = calls \ {c} /\ UNCHANGED asked
               /\ \/ Complete(With(pub, c)) /\ left' = TRUE /\ pub' = NoWave
                  \/ pub' = With(pub, c) /\ UNCHANGED left
      <4>1. c.kind = "contents"
        BY <3>1, <3>4 DEF WaitsWell
      <4>2. IsStored(c.args)'
        <5>1. Stores(c, Kept(c)) /\ c.args \in [lesson : MaybeIds, content : Content]
          BY <3>1, <3>2, <4>1, EffectIs
        <5>2. stored' = Put(stored, c.args.lesson, Kept(c))
          BY <5>1 DEF Stores, Put
        <5>3. Kept(c).quiz = IF c.args.content.quiz = None THEN Doc(c.args.lesson).quiz
                             ELSE c.args.content.quiz
          BY <5>1, KeptType
        <5>4. Kept(c).video = c.args.content.video /\ c.args.content.video # None
          BY <4>1, <5>1, KeptType DEF AskedInv, VideosSent
        <5>5. Doc(c.args.lesson)' = Kept(c)
          <6>1. Keeps(Doc(c.args.lesson), Kept(c))
            BY <5>3, <5>4 DEF Keeps
          <6> QED
            BY <5>2, <6>1, PutKeeps DEF AskedInv
        <5> QED
          BY <5>3, <5>4, <5>5 DEF IsStored
      <4>3. ASSUME NEW a \in asked
            PROVE  IsStored(a)' \/ \E d \in calls' : Waits(pub, d) /\ d.kind = "contents" /\ d.args = a
        <5>1. IsStored(a) \/ \E d \in calls : Waits(pub, d) /\ d.kind = "contents" /\ d.args = a
          BY <3>1, <3>4 DEF AskedInv
        <5> QED
          BY <1>1, <3>4, <4>2, <5>1
      <4>4. CASE pub' = With(pub, c) /\ UNCHANGED left
        <5>1. pub'.wave = pub.wave
          BY <3>1, <4>4, WithIs
        <5>2. \A d : Waits(pub, d) => Waits(pub', d)
          BY <5>1 DEF Waits
        <5> QED
          BY <1>1, <3>2, <3>4, <4>3, <4>4, <5>2 DEF AskedInv
      <4>5. CASE Complete(With(pub, c)) /\ left' = TRUE /\ pub' = NoWave
        <5>1. ASSUME NEW d \in calls', Waits(pub, d)
              PROVE  FALSE
          <6>1. d \in calls /\ d # c /\ WaitsWell(pub, d) /\ Names1(c) /\ Names1(d) /\ c.id # d.id
            BY <3>4, <5>1, CallIds DEF CallsInv
          <6>2. c.id[2] # d.id[2]
            BY <3>1, <5>1, <6>1 DEF Names1, Waits
          <6>3. /\ \A p \in DOMAIN pub.results :
                     With(pub, c).results[p] = IF p = c.id[2] THEN c.id ELSE pub.results[p]
                /\ \A p \in DOMAIN pub.results : With(pub, c).results[p] # None
            BY <3>1, <4>5, WithIs
          <6> QED
            BY <6>1, <6>2, <6>3 DEF WaitsWell
        <5>2. \A a \in asked' : IsStored(a)'
          BY <3>4, <4>3, <5>1
        <5> QED
          BY <1>1, <4>5, <5>2 DEF AskedInv, Saving
      <4> QED
        BY <3>4, <4>4, <4>5
    <3> QED
      BY <2>3, <3>3, <3>4 DEF Saved
  <2> QED
    BY <1>7, <2>1, <2>2, <2>3, AnswersAre
<1>8. CASE OnUploads
  <2>1. UNCHANGED <<asked, pub, calls>>
    BY <1>8, UploadsKeep
  <2>2. UNCHANGED left
    BY <1>8 DEF OnUploads, PrevStep, SelectFile, UpdateS3Key, UploadFails, Uploading
  <2> QED
    BY <1>2, <2>1, <2>2
<1>9. CASE UNCHANGED cwVars
  BY <1>2, <1>9 DEF cwVars
<1> QED
  BY <1>3, <1>4, <1>5, <1>6, <1>7, <1>8, <1>9, StepsAre DEF OnServer
-----------------------------------------------------------------------------
(* Until the user goes back or something fails, no row is made twice: what  *)
(* a step makes is waited for, once for each title, and the step is left    *)
(* behind with the answer.                                                  *)
RowsOnce ==
  /\ \A c, d \in courses : c = d
  /\ \A s, t \in sectionRows : s.title = t.title => s = t
  /\ \A l, m \in lessonRows : l.title = m.title => l = m
AskedOnce ==
  /\ \A c \in calls : c.kind \in Making => Waits(next, c)
  /\ \A c, d \in calls : c.kind = "sections" /\ d.kind = "sections" /\ c.args = d.args => c = d
  /\ \A c, d \in calls : c.kind = "lessons" /\ d.kind = "lessons" /\ c.args.title = d.args.title => c = d
  /\ \A c \in calls, s \in sectionRows : c.kind = "sections" => c.args # s.title
  /\ \A c \in calls, l \in lessonRows : c.kind = "lessons" => c.args.title # l.title
InPhase ==
  /\ Phase("course") => step = 1
  /\ Phase("sections") => step = 2
  /\ Phase("lessons") => step = 3
  /\ step = 1 => courses = {}
  /\ step = 1 \/ (step = 2 /\ ~Submitting) => sectionRows = {}
  /\ step \in {1, 2} \/ (step = 3 /\ ~Submitting) => lessonRows = {}
OnceInv == back \/ (RowsOnce /\ AskedOnce /\ (isEdit \/ InPhase))

LEMMA BackStays ==
  ASSUME back, [CWNext]_cwVars
  PROVE  back'
<1>1. CASE Retitle \/ AddSection \/ \E i \in Places : RemoveSection(i) \/ AddLesson(i)
  BY <1>1 DEF Retitle, AddSection, RemoveSection, AddLesson, Edits
<1>2. CASE \/ \E i \in Places, j \in Spots : RemoveLesson(i, j)
           \/ \E s \in Slots : EditQuiz(s)
  BY <1>2 DEF RemoveLesson, EditQuiz, Edits
<1>3. CASE NextStep1 \/ NextStep2 \/ NextStep3
  BY <1>3 DEF NextStep1, NextStep2, NextStep3, Clicks
<1>4. CASE \/ \E s \in {"DRAFT", "PENDING"} : Publish(s)
           \/ \E c \in calls : Answer(c) \/ Lost(c)
  BY <1>4, AnswersAre DEF Publish
<1>5. CASE OnUploads
  BY <1>5 DEF OnUploads, PrevStep, SelectFile, UpdateS3Key, UploadFails, Uploading
<1>6. CASE UNCHANGED cwVars
  BY <1>6 DEF cwVars
<1> QED
  BY <1>1, <1>2, <1>3, <1>4, <1>5, <1>6, StepsAre DEF OnServer

Still ==
  /\ UNCHANGED next
  /\ step' = step \/ isEdit \/ (step = 3 /\ step' = 4 /\ next = NoWave)
  /\ \A c \in calls' : c.kind \in Making => c \in calls

(* Without a failure, an answer has had its effect and is collected, or is  *)
(* no answer to a step.                                                     *)
LEMMA Unfailed ==
  ASSUME Draft, Flow, Rows, ListsInv, CallsInv, [CWNext]_cwVars, ~back'
  PROVE  /\ UNCHANGED isEdit
         /\ \/ Still /\ UNCHANGED <<courses, sectionRows, lessonRows>>
            \/ Sent /\ UNCHANGED <<courses, sectionRows, lessonRows>>
            \/ \E c \in calls : Effect(c) /\ Heard(c)
            \/ \E c \in calls : Effect(c) /\ Still /\ ~Waits(next, c)
<1>0. UNCHANGED isEdit
  BY FlowMoves, EditingIs
<1>1. CASE Editing
  <2>1. UNCHANGED courses
    BY <1>1 DEF Editing, AddSection, RemoveSection, AddLesson, RemoveLesson, Edits, tables
  <2> QED
    BY <1>0, <1>1, <2>1, EditingIs DEF Still
<1>2. CASE Retitle \/ \E s \in Slots : EditQuiz(s)
  <2>1. UNCHANGED <<next, step, calls, courses, sectionRows, lessonRows>>
    BY <1>2 DEF Retitle, EditQuiz, Edits, tables
  <2> QED
    BY <1>0, <2>1 DEF Still
<1>3. CASE UNCHANGED cwVars
  <2>1. UNCHANGED <<next, step, calls, courses, sectionRows, lessonRows>>
    BY <1>3 DEF cwVars, tables
  <2> QED
    BY <1>0, <2>1 DEF Still
<1>4. CASE OnUploads
  <2>1. UNCHANGED <<next, calls, courses, sectionRows, lessonRows>>
    BY <1>4, UploadsKeep
  <2>2. ~PrevStep
    BY DEF PrevStep
  <2>3. UNCHANGED step
    BY <1>4, <2>2 DEF OnUploads, SelectFile, UpdateS3Key, UploadFails, Uploading
  <2> QED
    BY <1>0, <2>1, <2>3 DEF Still
<1>5. CASE NextStep1 \/ NextStep2 \/ NextStep3
  <2>1. UNCHANGED <<courses, sectionRows, lessonRows>>
    BY <1>5 DEF NextStep1, NextStep2, NextStep3, Clicks, tables
  <2>2. CASE UNCHANGED <<next, calls, clicks, pub>> /\ next = NoWave
    <3>1. \/ isEdit
          \/ step = 3 /\ step' = 4
          \/ clicks' = clicks + 1
      BY <1>5 DEF NextStep1, NextStep2, NextStep3, Send
    <3>2. clicks' # clicks + 1
      BY <2>2 DEF Flow
    <3> QED
      BY <1>0, <2>1, <2>2, <3>1, <3>2 DEF Still
  <2> QED
    BY <1>0, <1>5, <2>1, <2>2, NextStepCalls DEF Sent
<1>6. CASE \E s \in {"DRAFT", "PENDING"} : Publish(s)
  <2>1. UNCHANGED <<courses, sectionRows, lessonRows>>
    BY <1>6 DEF Publish, tables
  <2> QED
    BY <1>0, <1>6, <2>1, SavesAre DEF Still
<1>7. ASSUME NEW c \in calls, Answer(c) \/ Lost(c)
      PROVE  Effect(c) /\ (Heard(c) \/ (Still /\ ~Waits(next, c)))
  <2>1. Effect(c) /\ (Collected(c) \/ Published(c) \/ Unheard(c))
    BY <1>7 DEF Answer, Served, Refused, Lost, Failed
  <2>2. CASE Collected(c)
    BY <2>1, <2>2 DEF Collected, Heard
  <2>3. CASE Published(c)
    <3>1. Saved(c)
      BY <2>3 DEF Published, Saved
    <3>2. ~Waits(next, c)
      BY <3>1, Awaited DEF Saved
    <3> QED
      BY <2>1, <3>1, <3>2, SavesAre DEF Still
  <2>4. CASE Unheard(c)
    BY <2>1, <2>4 DEF Unheard, Still
  <2> QED
    BY <2>1, <2>2, <2>3, <2>4
<1>8. CASE \E c \in calls : Answer(c) \/ Lost(c)
  BY <1>0, <1>7, <1>8
<1> QED
  BY <1>1, <1>2, <1>3, <1>4, <1>5, <1>6, <1>8, StepsAre DEF Editing, OnServer

LEMMA OnceQuiet ==
  ASSUME Draft, Flow, Rows, ListsInv, CallsInv, OnceInv, [CWNext]_cwVars, ~back, UNCHANGED isEdit, Still,
         UNCHANGED <<sectionRows, lessonRows>>,
         \A c, d \in courses' : c = d, courses = {} => courses' = {}
  PROVE  OnceInv'
<1>1. RowsOnce /\ AskedOnce /\ (isEdit \/ InPhase)
  BY DEF OnceInv
<1>2. RowsOnce'
  BY <1>1 DEF RowsOnce
<1>3. AskedOnce'
  BY <1>1 DEF AskedOnce, Still, Making
<1>4. CASE isEdit
  BY <1>2, <1>3, <1>4 DEF OnceInv
<1>5. CASE InPhase /\ step' = step
  <2>1. InPhase'
    BY <1>5 DEF InPhase, Still, Phase, Submitting
  <2> QED
    BY <1>2, <1>3, <2>1 DEF OnceInv
<1>6. CASE InPhase /\ step' = 4 /\ next = NoWave
  <2>1. InPhase'
    BY <1>6 DEF InPhase, Still, Phase, Submitting
  <2> QED
    BY <1>2, <1>3, <2>1 DEF OnceInv
<1> QED
  BY <1>1, <1>4, <1>5, <1>6 DEF Still

LEMMA OnceSent ==
  ASSUME Draft, Flow, Rows, ListsInv, CallsInv, OnceInv, [CWNext]_cwVars, ~back, UNCHANGED isEdit, Sent,
         UNCHANGED <<courses, sectionRows, lessonRows>>
  PROVE  OnceInv'
<1>1. RowsOnce /\ AskedOnce /\ (isEdit \/ InPhase)
  BY DEF OnceInv
<1>2. next = NoWave
  BY DEF Sent, NextStep1, NextStep2, NextStep3, Clicks, Submitting
<1>3. \A c \in calls : c.kind \notin Making
  BY <1>1, <1>2, NoWaveWaits DEF AskedOnce
<1>4. RowsOnce'
  BY <1>1 DEF RowsOnce
<1>5. ASSUME NEW what \in Making, NEW places, NEW new, SendsNext(what, places, new),
             what = "course" => step = 1,
             what = "sections" => step = 2 /\ \A c, d \in new : c.args = d.args => c = d,
             what = "lessons" => step = 3 /\ \A c, d \in new : c.args.title = d.args.title => c = d
      PROVE  OnceInv'
  <2>1. /\ next'.kind = what /\ next' # NoWave
        /\ \A c \in calls' : c \in calls \/ c \in new
        /\ \A c \in new : c.kind = what /\ c.id[2] \in places
        /\ UNCHANGED <<step, pub, lessonRows>> /\ ~isEdit
    BY <1>5, SentNext
  <2>2. InPhase
    BY <1>1, <2>1
  <2>3. \A c \in calls' : c.kind \in Making => c \in new /\ c.kind = what
    BY <1>3, <2>1
  <2>4. \A c \in new : Waits(next', c)
    <3>1. next'.wave = clicks + 1
      BY <1>5 DEF SendsNext, Wave
    <3> QED
      BY <1>5, <3>1 DEF Waits, SendsNext, Sends, Fresher
  <2>5. what = "sections" => sectionRows = {}
    BY <1>2, <1>5, <2>2 DEF InPhase, Submitting
  <2>6. what = "lessons" => lessonRows = {}
    BY <1>2, <1>5, <2>2 DEF InPhase, Submitting
  <2>7. AskedOnce'
    <3>1. \A c \in calls' : c.kind \in Making => Waits(next', c)
      BY <2>3, <2>4
    <3>2. \A c \in calls' : c.kind = "sections" => c \in new /\ what = "sections"
      BY <2>3 DEF Making
    <3>3. \A c \in calls' : c.kind = "lessons" => c \in new /\ what = "lessons"
      BY <2>3 DEF Making
    <3>4. \A c, d \in calls' : c.kind = "sections" /\ d.kind = "sections" /\ c.args = d.args => c = d
      BY <1>5, <3>2
    <3>5. \A c, d \in calls' : c.kind = "lessons" /\ d.kind = "lessons" /\ c.args.title = d.args.title => c = d
      BY <1>5, <3>3
    <3>6. \A c \in calls', s \in sectionRows' : c.kind = "sections" => c.args # s.title
      BY <2>5, <3>2
    <3>7. \A c \in calls', l \in lessonRows' : c.kind = "lessons" => c.args.title # l.title
      BY <2>6, <3>3
    <3> QED
      BY <3>1, <3>4, <3>5, <3>6, <3>7 DEF AskedOnce
  <2>8. InPhase'
    BY <1>5, <2>1, <2>2, <1>2 DEF InPhase, Phase, Submitting
  <2> QED
    BY <1>4, <2>7, <2>8 DEF OnceInv
<1>6. CASE NextStep1 /\ SendsNext("course", 1..1, {Call("course", 1, title)})
  <2>1. step = 1
    BY <1>6 DEF NextStep1
  <2> QED
    BY <1>5, <1>6, <2>1 DEF Making
<1>7. CASE NextStep2 /\ SendsNext("sections", 1..Len(sections),
             {Call("sections", i, sections[i]) : i \in 1..Len(sections)})
  <2>1. step = 2
    BY <1>7 DEF NextStep2
  <2>2. ASSUME NEW i \in 1..Len(sections), NEW j \in 1..Len(sections),
               Call("sections", i, sections[i]).args = Call("sections", j, sections[j]).args
        PROVE  i = j
    <3>1. sections[i] = sections[j]
      BY <2>2 DEF Call
    <3> QED
      BY <3>1 DEF ListsInv
  <2>3. \A c, d \in {Call("sections", i, sections[i]) : i \in 1..Len(sections)} : c.args = d.args => c = d
    BY <2>2
  <2> QED
    BY <1>5, <1>7, <2>1, <2>3 DEF Making
<1>8. CASE NextStep3 /\ SendsNext("lessons", 1..Cardinality(Slots), LessonCalls)
  <2>1. step = 3
    BY <1>8 DEF NextStep3
  <2>2. ASSUME NEW c \in LessonCalls, NEW d \in LessonCalls, c.args.title = d.args.title
        PROVE  c = d
    <3>1. PICK s \in Slots : /\ c.args.title = Lesson(s)
                             /\ c = Call("lessons", Index(s), [title |-> Lesson(s), section |-> SectionId(s[1])])
      BY LessonCallsAre
    <3>2. PICK t \in Slots : /\ d.args.title = Lesson(t)
                             /\ d = Call("lessons", Index(t), [title |-> Lesson(t), section |-> SectionId(t[1])])
      BY LessonCallsAre
    <3>3. s = t
      BY <2>2, <3>1, <3>2, Shows
    <3> QED
      BY <3>1, <3>2, <3>3
  <2> QED
    BY <1>5, <1>8, <2>1, <2>2 DEF Making
<1> QED
  BY <1>6, <1>7, <1>8 DEF Sent

LEMMA OnceHeard ==
  ASSUME Draft, Flow, Rows, ListsInv, CallsInv, OnceInv, [CWNext]_cwVars, ~back, UNCHANGED isEdit,
         NEW c \in calls, Effect(c), Heard(c)
  PROVE  OnceInv'
<1>0. PICK new : new = With(next, c).results
  OBVIOUS
<1>1. RowsOnce /\ AskedOnce /\ (isEdit \/ InPhase)
  BY DEF OnceInv
<1>2. /\ CallOK(c) /\ Submitting /\ ~isEdit /\ next.kind \in Making /\ c.kind = next.kind
      /\ calls' = calls \ {c}
      /\ \A p \in 1..Len(next.results) : new[p] = IF p = c.id[2] THEN c.id ELSE next.results[p]
      /\ \/ /\ next' # NoWave /\ next'.kind = next.kind /\ next.kind # "course" /\ UNCHANGED step
            /\ \A d : Waits(next', d) <=> Waits(next, d)
         \/ /\ next' = NoWave
            /\ \A p \in 1..Len(next.results) : new[p] # None
            /\ next.kind = "course" => step' = 2
            /\ next.kind = "sections" => step' = 3
            /\ next.kind = "lessons" => step' = 4
  BY <1>0, HeardIs
<1>3. InPhase /\ Phase(next.kind)
  BY <1>1, <1>2 DEF Phase
<1>4. \/ /\ c.kind = "course" /\ UNCHANGED <<sectionRows, lessonRows>>
         /\ courses' = courses \cup {[id |-> c.id, title |-> c.args, status |-> "DRAFT"]}
      \/ /\ c.kind = "sections" /\ UNCHANGED <<courses, lessonRows>>
         /\ sectionRows' = sectionRows \cup {[id |-> c.id, title |-> c.args]}
      \/ /\ c.kind = "lessons" /\ UNCHANGED <<courses, sectionRows>>
         /\ lessonRows' = lessonRows \cup
              {[id |-> c.id, title |-> c.args.title, section |-> c.args.section]}
  BY <1>2, EffectIs DEF Making
<1>5. /\ next.kind = "course" => step = 1 /\ courses = {} /\ sectionRows = {} /\ lessonRows = {}
      /\ next.kind = "sections" => step = 2 /\ lessonRows = {}
      /\ next.kind = "lessons" => step = 3
  BY <1>3 DEF InPhase
<1>6. RowsOnce'
  <2>1. CASE c.kind = "course"
    BY <1>1, <1>2, <1>4, <1>5, <2>1 DEF RowsOnce
  <2>2. CASE c.kind = "sections"
    <3>1. /\ \A s, t \in sectionRows : s.title = t.title => s = t
          /\ \A s \in sectionRows : c.args # s.title
      BY <1>1, <2>2 DEF RowsOnce, AskedOnce
    <3>2. \A s \in sectionRows' : s \in sectionRows \/ (s = [id |-> c.id, title |-> c.args] /\ s.title = c.args)
      BY <1>4, <2>2
    <3>3. \A s, t \in sectionRows' : s.title = t.title => s = t
      BY <3>1, <3>2
    <3> QED
      BY <1>1, <1>4, <2>2, <3>3 DEF RowsOnce
  <2>3. CASE c.kind = "lessons"
    <3>1. /\ \A s, t \in lessonRows : s.title = t.title => s = t
          /\ \A s \in lessonRows : c.args.title # s.title
      BY <1>1, <2>3 DEF RowsOnce, AskedOnce
    <3>2. \A s \in lessonRows' :
            \/ s \in lessonRows
            \/ /\ s = [id |-> c.id, title |-> c.args.title, section |-> c.args.section]
               /\ s.title = c.args.title
      BY <1>4, <2>3
    <3>3. \A s, t \in lessonRows' : s.title = t.title => s = t
      BY <3>1, <3>2
    <3> QED
      BY <1>1, <1>4, <2>3, <3>3 DEF RowsOnce
  <2> QED
    BY <1>4, <2>1, <2>2, <2>3
<1>7. \A d \in calls' : d \in calls /\ d # c
  BY <1>2
<1>8. ASSUME NEW d \in calls', d.kind \in Making
      PROVE  Waits(next', d)
  <2>1. Waits(next, d)
    BY <1>1, <1>7, <1>8 DEF AskedOnce
  <2>2. CASE next' = NoWave
    <3>1. /\ d.kind = next.kind /\ d.id[2] \in DOMAIN next.results /\ next.results[d.id[2]] = None
          /\ next.results \in Seq(MaybeIds)
      BY <1>7, <2>1, Awaited DEF WaitsWell
    <3>2. d.id[2] \in 1..Len(next.results)
      BY <3>1
    <3>3. d.id[2] = c.id[2]
      BY <1>2, <2>2, <3>1, <3>2
    <3>4. d.id = c.id
      <4>1. Waits(next, c)
        BY DEF Heard
      <4>2. d.id[1] = c.id[1]
        BY <2>1, <4>1 DEF Waits
      <4> QED
        BY <1>7, <3>3, <4>2, CallIds DEF Names1
    <3>5. FALSE
      BY <1>7, <3>4 DEF CallsInv
    <3> QED
      BY <3>5
  <2> QED
    BY <1>2, <2>1, <2>2
<1>9. AskedOnce'
  <2>1. /\ \A d, e \in calls' : d.kind = "sections" /\ e.kind = "sections" /\ d.args = e.args => d = e
        /\ \A d, e \in calls' : d.kind = "lessons" /\ e.kind = "lessons" /\ d.args.title = e.args.title => d = e
    BY <1>1, <1>7 DEF AskedOnce
  <2>2. \A d \in calls', s \in sectionRows' : d.kind = "sections" => d.args # s.title
    <3>1. ASSUME NEW d \in calls', NEW s \in sectionRows', d.kind = "sections"
          PROVE  d.args # s.title
      <4>1. CASE s \in sectionRows
        BY <1>1, <1>7, <3>1, <4>1 DEF AskedOnce
      <4>2. CASE c.kind = "sections" /\ s = [id |-> c.id, title |-> c.args]
        <5>1. d.args # c.args
          BY <1>1, <1>7, <3>1, <4>2 DEF AskedOnce
        <5> QED
          BY <4>2, <5>1
      <4> QED
        BY <1>4, <3>1, <4>1, <4>2
    <3> QED
      BY <3>1
  <2>3. \A d \in calls', s \in lessonRows' : d.kind = "lessons" => d.args.title # s.title
    <3>1. ASSUME NEW d \in calls', NEW s \in lessonRows', d.kind = "lessons"
          PROVE  d.args.title # s.title
      <4>1. CASE s \in lessonRows
        BY <1>1, <1>7, <3>1, <4>1 DEF AskedOnce
      <4>2. CASE c.kind = "lessons" /\ s = [id |-> c.id, title |-> c.args.title, section |-> c.args.section]
        <5>1. d.args.title # c.args.title
          BY <1>1, <1>7, <3>1, <4>2 DEF AskedOnce
        <5> QED
          BY <4>2, <5>1
      <4> QED
        BY <1>4, <3>1, <4>1, <4>2
    <3> QED
      BY <3>1
  <2> QED
    BY <1>8, <2>1, <2>2, <2>3 DEF AskedOnce
<1>10. InPhase'
  <2>1. CASE next' # NoWave
    BY <1>2, <1>4, <1>5, <2>1 DEF InPhase, Phase, Submitting, Making
  <2>2. CASE next' = NoWave
    BY <1>2, <1>4, <1>5, <2>2 DEF InPhase, Phase, Submitting, Making
  <2> QED
    BY <2>1, <2>2
<1> QED
  BY <1>6, <1>9, <1>10 DEF OnceInv

LEMMA OnceStep ==
  ASSUME Draft, Flow, Rows, ListsInv, CallsInv, OnceInv, [CWNext]_cwVars
  PROVE  OnceInv'
<1> SUFFICES ASSUME ~back'
             PROVE  OnceInv'
  BY DEF OnceInv
<1>1. ~back
  BY BackStays
<1>2. RowsOnce /\ AskedOnce
  BY <1>1 DEF OnceInv
<1>3. CASE Still /\ UNCHANGED <<courses, sectionRows, lessonRows>> /\ UNCHANGED isEdit
  BY <1>1, <1>2, <1>3, OnceQuiet DEF RowsOnce
<1>4. CASE Sent /\ UNCHANGED <<courses, sectionRows, lessonRows>> /\ UNCHANGED isEdit
  BY <1>1, <1>4, OnceSent
<1>5. ASSUME NEW c \in calls, Effect(c), Heard(c), UNCHANGED isEdit
      PROVE  OnceInv'
  BY <1>1, <1>5, OnceHeard
<1>6. ASSUME NEW c \in calls, Effect(c), Still, ~Waits(next, c), UNCHANGED isEdit
      PROVE  OnceInv'
  <2>1. c.kind \notin Making /\ CallOK(c)
    BY <1>2, <1>6 DEF AskedOnce, Flow
  <2>2. UNCHANGED <<sectionRows, lessonRows>>
    BY <1>6, <2>1, EffectIs DEF Making
  <2>3. /\ \A r, s \in courses' : r = s
        /\ courses = {} => courses' = {}
    <3>1. CASE UNCHANGED courses
      BY <1>2, <3>1 DEF RowsOnce
    <3>2. CASE c.kind = "status"
      <4> DEFINE New(r) == IF r.id # c.args.course THEN r
                           ELSE [r EXCEPT !.status = c.args.status,
                                          !.title = IF isEdit THEN c.args.title ELSE @]
      <4>1. courses' = {New(r) : r \in courses}
        BY <1>6, <2>1, <3>2, EffectIs
      <4> HIDE DEF New
      <4> QED
        BY <1>2, <4>1 DEF RowsOnce
    <3> QED
      BY <1>6, <2>1, <3>1, <3>2, EffectIs DEF Making
  <2> QED
    BY <1>1, <1>6, <2>2, <2>3, OnceQuiet
<1> QED
  BY <1>3, <1>4, <1>5, <1>6, Unfailed
-----------------------------------------------------------------------------
(* The page as it is opened, for a new course or for one that exists.       *)
LEMMA Opened ==
  ASSUME CWInit
  PROVE  /\ step = 1 /\ title = "first" /\ contents = [p \in Spots |-> Empty]
         /\ next = NoWave /\ pub = NoWave /\ left = FALSE /\ uploads = {} /\ sent = 0 /\ edits = 0
         /\ calls = {} /\ clicks = 0 /\ faults = 0 /\ stored = {}
         /\ back = FALSE /\ moved = FALSE /\ asked = {}
         /\ ~Submitting /\ ~Saving
  BY DEF CWInit, Submitting, Saving

LEMMA OpenedFlow ==
  ASSUME CWInit, isEdit \in BOOLEAN, sections \in Seq(Sections), lessons \in [Places -> Seq(Lessons)],
         courseId \in MaybeIds, sectionIds \in Seq(MaybeIds), lessonIds \in Seq(MaybeIds)
  PROVE  Draft /\ Flow
<1>1. Draft
  <2>1. Empty \in Content
    BY DEF Empty, Content
  <2>2. 0 \in 0..MaxUploads /\ 0 \in 0..MaxEdits
    BY WizardBounds
  <2> QED
    BY <2>1, <2>2, Opened DEF Draft, Titles
<1>2. Flow
  <2>1. 0 \in 0..MaxFaults
    BY WizardBounds
  <2> QED
    BY <2>1, Opened DEF Flow
<1> QED
  BY <1>1, <1>2

LEMMA OpenedCalls ==
  ASSUME CWInit
  PROVE  /\ CallsInv /\ AskedInv /\ SectionsComing /\ SectionsAsked /\ LessonCallsInv
         /\ LessonsComing /\ LessonsAsked /\ AliveInv /\ ContentsInv /\ StoreInv /\ AskedOnce
  BY Opened DEF CallsInv, AskedInv, OneEach, VideosSent, SectionsComing, SectionsAsked, LessonCallsInv, Phase,
     LessonsComing, LessonsAsked, AliveInv, ContentsInv, StoreInv, UploadsFit, CallsFit, StoredFits,
     AskedOnce

LEMMA FreshInv ==
  ASSUME CWInit, Fresh
  PROVE  Typed /\ ListsInv /\ RowsInv /\ SectionsInv /\ LessonInItsSection /\ MatchInv /\ OnceInv
<1>1. /\ isEdit = FALSE /\ sections = <<>> /\ courseId = None
      /\ lessons = [i \in Places |-> <<>>] /\ sectionIds = <<>> /\ lessonIds = <<>>
      /\ courses = {} /\ sectionRows = {} /\ lessonRows = {}
  BY DEF Fresh
<1>2. Typed
  <2>1. lessons \in [Places -> Seq(Lessons)]
    <3>1. <<>> \in Seq(Lessons)
      OBVIOUS
    <3> QED
      BY <1>1, <3>1
  <2>2. sections \in Seq(Sections) /\ sectionIds \in Seq(MaybeIds) /\ lessonIds \in Seq(MaybeIds)
    BY <1>1
  <2>3. courseId \in MaybeIds /\ isEdit \in BOOLEAN
    BY <1>1 DEF MaybeIds
  <2>4. Rows
    BY <1>1, Opened DEF Rows
  <2> QED
    BY <2>1, <2>2, <2>3, <2>4, OpenedFlow DEF Typed
<1>3. ListsInv
  <2>1. Len(sections) = 0 /\ \A i \in Places : lessons[i] = <<>> /\ Len(lessons[i]) = 0
    BY <1>1
  <2>2. lessons \in Lists
    BY <1>2, <2>1, WizardBounds DEF Lists, Typed, Draft
  <2>3. Held(lessons) = {}
    BY <2>1 DEF Held, Spots
  <2>4. Cardinality(Held(lessons)) = 0
    BY <2>3, FS_EmptySet
  <2> QED
    BY <1>1, <2>1, <2>2, <2>4, WizardBounds DEF ListsInv
<1>4. RowsInv /\ LessonInItsSection
  BY <1>1 DEF RowsInv, LessonInItsSection
<1>5. SectionsInv
  <2>1. SectionsMade
    BY Opened DEF SectionsMade, Phase
  <2> QED
    BY <2>1, OpenedCalls DEF SectionsInv
<1>6. MatchInv
  <2>1. LessonsMade
    BY <1>1, Opened DEF LessonsMade
  <2> QED
    BY <2>1, OpenedCalls DEF MatchInv
<1>7. OnceInv
  BY <1>1, Opened, OpenedCalls DEF OnceInv, RowsOnce, InPhase, Phase
<1> QED
  BY <1>2, <1>3, <1>4, <1>5, <1>6, <1>7

LEMMA LoadedInv ==
  ASSUME CWInit, Loaded
  PROVE  Typed /\ ListsInv /\ RowsInv /\ SectionsInv /\ LessonInItsSection /\ MatchInv /\ OnceInv
<1>1. /\ isEdit = TRUE /\ courseId = <<0, 1>> /\ sections = [i \in Places |-> i]
      /\ lessons = [i \in Places |-> << <<i, 1>> >>]
      /\ sectionIds = [i \in Places |-> <<0, i>>] /\ lessonIds = [i \in Places |-> <<0, i>>]
      /\ courses = {[id |-> <<0, 1>>, title |-> "first", status |-> "APPROVED"]}
      /\ sectionRows = {[id |-> <<0, i>>, title |-> i] : i \in Places}
      /\ lessonRows = {[id |-> <<0, i>>, title |-> <<i, 1>>, section |-> <<0, i>>] : i \in Places}
  BY DEF Loaded
<1>2. /\ Places = 1..MaxSections /\ Sections = 1..MaxSections /\ MaxSections \in Nat
      /\ \A i \in Places : i \in Nat \ {0} /\ <<0, i>> \in Ids /\ <<i, 1>> \in Lessons /\ i \in Sections
  BY WizardBounds DEF Places, Sections, Ids, Lessons
<1>3. /\ lessons \in Lists /\ Held(lessons) = Places \X {1} /\ Cardinality(Held(lessons)) = MaxSections
      /\ \A i \in Places : Rank(lessons, i) = i - 1
  BY <1>1, LoadedLists
<1>4. Typed
  <2>1. lessons \in [Places -> Seq(Lessons)]
    BY <1>3 DEF Lists
  <2>2. sections \in Seq(Sections) /\ sectionIds \in Seq(MaybeIds) /\ lessonIds \in Seq(MaybeIds)
    BY <1>1, <1>2 DEF MaybeIds
  <2>3. courseId \in MaybeIds /\ isEdit \in BOOLEAN /\ <<0, 1>> \in Ids
    BY <1>1 DEF MaybeIds, Ids
  <2>4. Rows
    BY <1>1, <1>2, <2>3, Opened DEF Rows, Titles, Status, MaybeIds
  <2> QED
    BY <2>1, <2>2, <2>3, <2>4, OpenedFlow DEF Typed
<1>5. ListsInv
  <2>1. Len(sections) = MaxSections /\ \A i \in Places : sections[i] = i
    BY <1>1, <1>2
  <2>2. \A i \in Places : Len(lessons[i]) = 1 /\ lessons[i][1] = <<i, 1>>
    BY <1>1
  <2>3. \A i \in Places : i <= MaxSections
    BY <1>2
  <2>4. \A i \in 1..Len(sections) : \A j \in 1..Len(lessons[i]) : lessons[i][j][1] = sections[i]
    BY <1>2, <2>1, <2>2
  <2>5. \A i \in Places : \A j, k \in 1..Len(lessons[i]) : lessons[i][j] = lessons[i][k] => j = k
    BY <2>2
  <2> QED
    BY <1>2, <1>3, <2>1, <2>3, <2>4, <2>5, WizardBounds DEF ListsInv
<1>6. RowsInv
  <2>1. ASSUME NEW l \in lessonRows
        PROVE  \E i \in Places : l = [id |-> <<0, i>>, title |-> <<i, 1>>, section |-> <<0, i>>]
    BY <1>1
  <2>2. ASSUME NEW l \in lessonRows
        PROVE  l.id[1] = 0
    BY <2>1
  <2>3. ASSUME NEW l \in lessonRows, NEW m \in lessonRows, l.id = m.id
        PROVE  l = m
    <3>1. PICK i \in Places : l = [id |-> <<0, i>>, title |-> <<i, 1>>, section |-> <<0, i>>]
      BY <2>1
    <3>2. PICK j \in Places : m = [id |-> <<0, j>>, title |-> <<j, 1>>, section |-> <<0, j>>]
      BY <2>1
    <3>3. i = j
      BY <2>3, <3>1, <3>2
    <3> QED
      BY <3>1, <3>2, <3>3
  <2> QED
    BY <2>2, <2>3, Opened DEF RowsInv
<1>7. SectionsInv
  BY <1>1 DEF SectionsInv
<1>8. LessonInItsSection
  <2>1. ASSUME NEW l \in lessonRows
        PROVE  \E s \in sectionRows : s.id = l.section /\ s.title = l.title[1]
    <3>1. PICK i \in Places : l = [id |-> <<0, i>>, title |-> <<i, 1>>, section |-> <<0, i>>]
      BY <1>1
    <3>2. [id |-> <<0, i>>, title |-> i] \in sectionRows
      BY <1>1
    <3> QED
      BY <3>1, <3>2
  <2> QED
    BY <2>1 DEF LessonInItsSection
<1>9. MatchInv
  <2>1. Len(lessonIds) = MaxSections
    BY <1>1, <1>2
  <2>2. ASSUME NEW s \in Held(lessons)
        PROVE  \E m \in lessonRows : m.id = lessonIds[At(lessons, s)] /\ m.title = lessons[s[1]][s[2]]
    <3>1. s[1] \in Places /\ s[2] = 1
      BY <1>3
    <3>2. At(lessons, s) = s[1]
      BY <1>2, <1>3, <3>1 DEF At
    <3>3. PICK i \in Places : i = s[1]
      BY <3>1
    <3>4. lessonIds[i] = <<0, i>> /\ lessons[i][1] = <<i, 1>>
      BY <1>1
    <3>5. [id |-> <<0, i>>, title |-> <<i, 1>>, section |-> <<0, i>>] \in lessonRows
      BY <1>1
    <3> QED
      BY <3>1, <3>2, <3>3, <3>4, <3>5
  <2>3. Matched(lessons, lessonIds, lessonRows)
    BY <1>3, <2>1, <2>2 DEF Matched
  <2>4. LessonsMade
    BY <2>3 DEF LessonsMade
  <2> QED
    BY <2>4, OpenedCalls DEF MatchInv
<1>10. OnceInv
  <2>1. \A c, d \in courses : c = d
    BY <1>1
  <2>2. ASSUME NEW s \in sectionRows, NEW t \in sectionRows, s.title = t.title
        PROVE  s = t
    <3>1. PICK i \in Places : s = [id |-> <<0, i>>, title |-> i]
      BY <1>1
    <3>2. PICK j \in Places : t = [id |-> <<0, j>>, title |-> j]
      BY <1>1
    <3> QED
      BY <2>2, <3>1, <3>2
  <2>3. ASSUME NEW l \in lessonRows, NEW m \in lessonRows, l.title = m.title
        PROVE  l = m
    <3>1. PICK i \in Places : l = [id |-> <<0, i>>, title |-> <<i, 1>>, section |-> <<0, i>>]
      BY <1>1
    <3>2. PICK j \in Places : m = [id |-> <<0, j>>, title |-> <<j, 1>>, section |-> <<0, j>>]
      BY <1>1
    <3>3. i = j
      BY <2>3, <3>1, <3>2
    <3> QED
      BY <3>1, <3>2, <3>3
  <2> QED
    BY <1>1, <2>1, <2>2, <2>3, OpenedCalls DEF OnceInv, RowsOnce
<1> QED
  BY <1>4, <1>5, <1>6, <1>7, <1>8, <1>9, <1>10
-----------------------------------------------------------------------------
(* The inductive invariant of the wizard.                                   *)
WizardInv ==
  /\ Typed /\ ListsInv /\ CallsInv /\ RowsInv /\ AskedInv
  /\ SectionsInv /\ LessonCallsInv /\ LessonInItsSection
  /\ MatchInv /\ AliveInv /\ ContentsInv /\ StoreInv
  /\ OnceInv

LEMMA WizardInit == CWInit => WizardInv
  BY FreshInv, LoadedInv, OpenedCalls DEF CWInit, WizardInv

LEMMA WizardStep == WizardInv /\ [CWNext]_cwVars => WizardInv'
<1> SUFFICES ASSUME WizardInv, [CWNext]_cwVars
             PROVE  WizardInv'
  OBVIOUS
<1> USE DEF WizardInv, Typed
<1>1. Draft' /\ Flow' /\ Rows'
  BY DraftStep, FlowStep, RowsStep
<1>2. ListsInv' /\ CallsInv' /\ RowsInv' /\ AskedInv'
  BY ListsStep, CallsStep, RowIds, AskedStep
<1>3. SectionsInv' /\ LessonCallsInv' /\ LessonInItsSection'
  BY SectionsStep, LessonCallsStep, InSectionStep
<1>4. OneEach(stored)
  BY DEF AskedInv
<1>5. MatchInv' /\ AliveInv' /\ ContentsInv' /\ StoreInv'
  BY <1>4, MatchStep, AliveStep, ContentsStep, StoreStep
<1>6. OnceInv'
  BY OnceStep
<1> QED
  BY <1>1, <1>2, <1>3, <1>5, <1>6

LEMMA WizardHolds == CWSpec => []WizardInv
  BY WizardInit, WizardStep, PTL DEF CWSpec

LEMMA InvInPlace == WizardInv => EntriesInPlace
<1> SUFFICES ASSUME WizardInv
             PROVE  EntriesInPlace
  OBVIOUS
<1>1. CWTypeOK /\ LessonInItsSection
  BY TypedIs DEF WizardInv
<1>2. LessonsStayInSection
  <2>1. ASSUME NEW i \in 1..Len(sections), NEW l \in ToSet(lessons[i])
        PROVE  l[1] = sections[i]
    <3>1. i \in Places
      BY WizardBounds DEF WizardInv, ListsInv, Typed, Draft, Places
    <3>2. lessons[i] \in Seq(Lessons)
      BY <3>1 DEF WizardInv, Typed, Draft
    <3>3. PICK j \in 1..Len(lessons[i]) : lessons[i][j] = l
      BY <2>1, <3>2, ToSetIs
    <3> QED
      BY <3>3 DEF WizardInv, ListsInv
  <2> QED
    BY <2>1 DEF LessonsStayInSection
<1>3. ContentInItsLesson
  <2>1. ASSUME ~moved, NEW l \in lessonRows
        PROVE  Of(Doc(l.id), l.title)
    BY <2>1, DocFits DEF WizardInv, Typed, StoreInv, AskedInv
  <2> QED
    BY <2>1 DEF ContentInItsLesson, Of
<1> QED
  BY <1>1, <1>2, <1>3 DEF EntriesInPlace

LEMMA InvOnce == WizardInv => NothingTwice
<1> SUFFICES ASSUME RowsOnce
             PROVE  Cardinality(courses) <= 1
  BY DEF WizardInv, OnceInv, NothingTwice, RowsOnce
<1>1. CASE courses = {}
  BY <1>1, FS_EmptySet
<1>2. ASSUME NEW c \in courses
      PROVE  Cardinality(courses) = 1
  <2>1. courses = {c}
    BY <1>2 DEF RowsOnce
  <2> QED
    BY <2>1, FS_Singleton
<1> QED
  BY <1>1, <1>2

(* Whatever is added, removed, uploaded and saved, in any order of answers, *)
(* what is entered for a section or a lesson is stored in the row of that   *)
(* section and the document of that lesson, unless positions were moved     *)
(* under something that used them.                                          *)
THEOREM EntriesStayInPlace == CWSpec => []EntriesInPlace
  BY WizardHolds, InvInPlace, PTL

(* publish() navigates away only when what it has sent is stored.           *)
THEOREM WizardLeavesWhenStored == CWSpec => []LeavesWhenStored
<1>1. WizardInv => LeavesWhenStored
  BY DEF WizardInv, AskedInv, LeavesWhenStored, IsStored
<1> QED
  BY <1>1, WizardHolds, PTL

(* Clicks alone, however they are interleaved with the answers, make no     *)
(* course, section or lesson a second time.                                 *)
THEOREM NothingIsMadeTwice == CWSpec => []NothingTwice
  BY WizardHolds, InvOnce, PTL
=============================================================================
