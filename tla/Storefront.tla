----------------------------- MODULE Storefront -----------------------------
(* The catalogue and the carts, with the copies of them that Redis keeps:   *)
(* courses.service.ts, admin.service.ts, lessons.service.ts (the routes of  *)
(* the instructor), cart.service.ts and cache.service.ts.  A request moves  *)
(* from await to await; anything else may run at each.  The copies under    *)
(* different keys do not influence each other: the model follows one key,   *)
(* chosen at the start, and of the copy under it keeps whether it still     *)
(* says what the database says.                                             *)
EXTENDS Naturals

CONSTANTS
  Courses, Users, Requests,
  Visitors  \* the requests that only read: a bound of the model

ASSUME VisitorsAssumption == Visitors \subseteq Requests

VARIABLES
  key,     \* the key that is followed
  status,  \* the courses table: a status, or the course does not exist
  cart,    \* cart_items, unique by user and course
  copy,    \* what Redis holds under the key, as a mark
  pc,      \* where a request is
  kind,    \* which handler it runs
  course,  \* its course
  user,    \* its user
  read,    \* the answer a reader has from the database, as a mark
  owed     \* what a handler has still to do to delete the key

rows   == <<status, cart>>
locals == <<kind, course, user>>
vars   == <<key, status, cart, copy, pc, kind, course, user, read, owed>>

CourseStatus == {"DRAFT", "PENDING", "PUBLISHED", "REJECTED"}
Exists(c)    == status[c] \in CourseStatus

Page(c)  == <<"page", c>>
Slug(c)  == <<"slug", c>>
List     == <<"list", "all">>
Cart(u)  == <<"cart", u>>
Count(u) == <<"count", u>>

Owners(c) == {u \in Users : <<u, c>> \in cart}
Carts(c)  == {Cart(u) : u \in Owners(c)}
Counts(c) == {Count(u) : u \in Owners(c)}

Wrapped == {Page(c) : c \in Courses} \cup {Slug(c) : c \in Courses} \cup {List}
Keys    == Wrapped \cup {Cart(u) : u \in Users} \cup {Count(u) : u \in Users}

(* "outdated": the database has changed since, by a write whose handler is  *)
(* meant to delete the key.  "stale": changed since, and it is nobody's     *)
(* business: by a write that no invalidation goes with, or the invalidation *)
(* ran before the copy was stored, or its handler failed.                   *)
Marks == {"none", "current", "outdated", "stale"}

EditKinds  == {"update", "section", "delete"}
AdminKinds == {"approve", "reject"}
CartKinds  == {"add", "remove", "clear"}
Writers    == EditKinds \cup AdminKinds \cup CartKinds \cup {"create", "lesson"}
Kinds      == Writers \cup {"read", "restore"}

First(k) == IF k = "read" THEN "get"
            ELSE IF k \in EditKinds THEN "verify"
            ELSE IF k \in AdminKinds THEN "load"
            ELSE k

Labels == {"idle", "get", "query", "store", "verify", "write", "reread",
           "create", "lesson", "load", "save", "add", "existing", "insert",
           "remove", "clear", "restore", "invalidate"}

TypeOK ==
  /\ key \in Keys
  /\ status \in [Courses -> CourseStatus \cup {"new", "deleted"}]
  /\ cart \subseteq Users \X Courses
  /\ copy \in Marks
  /\ pc \in [Requests -> Labels]
  /\ kind \in [Requests -> Kinds \cup {"none"}]
  /\ course \in [Requests -> Courses]
  /\ user \in [Requests -> Users]
  /\ read \in [Requests -> Marks]
  /\ owed \in [Requests -> {"nothing", "scan", "delete"}]

Init ==
  /\ key \in Keys
  /\ status \in [Courses -> CourseStatus \cup {"new"}]
  /\ cart = {}
  /\ copy = "none"
  /\ pc = [r \in Requests |-> "idle"]
  /\ kind = [r \in Requests |-> "none"]
  /\ course \in [Requests -> Courses]
  /\ user \in [Requests -> Users]
  /\ read = [r \in Requests |-> "none"]
  /\ owed = [r \in Requests |-> "nothing"]
-----------------------------------------------------------------------------
Goto(r, l) == pc' = [pc EXCEPT ![r] = l] /\ UNCHANGED <<key, locals>>

Finish(r) ==
  /\ pc' = [pc EXCEPT ![r] = "idle"]
  /\ kind' = [kind EXCEPT ![r] = "none"]
  /\ UNCHANGED <<key, course, user>>

Arrive(r) ==
  /\ pc[r] = "idle"
  /\ \E k \in Kinds, c \in Courses, u \in Users :
       /\ r \in Visitors => k = "read"
       /\ kind' = [kind EXCEPT ![r] = k]
       /\ course' = [course EXCEPT ![r] = c]
       /\ user' = [user EXCEPT ![r] = u]
       /\ pc' = [pc EXCEPT ![r] = First(k)]
  /\ UNCHANGED <<key, rows, copy, read, owed>>

(* A write outdates the copies under the keys of will, which its handler is *)
(* meant to delete, and under those of wont, which it leaves alone.         *)
After(m, will, wont) ==
  IF m = "none" THEN "none"
  ELSE IF key \in wont THEN "stale"
  ELSE IF key \in will /\ m = "current" THEN "outdated"
  ELSE m

Outdate(will, wont) ==
  /\ copy' = After(copy, will, wont)
  /\ read' = [r \in Requests |-> After(read[r], will, wont)]

Owe(r, keys) ==
  owed' = [owed EXCEPT ![r] = IF key \notin keys THEN "nothing"
                              ELSE IF key = List THEN "scan" ELSE "delete"]
-----------------------------------------------------------------------------
(* Reading through the cache.  cacheManager.wrap() lets one load at a time  *)
(* run for a key and gives its answer to whoever asks meanwhile; getCart()  *)
(* and getCartCount() do not.                                               *)
Loading == \E q \in Requests : pc[q] \in {"query", "store"}

Get(r) ==
  /\ pc[r] = "get"
  /\ IF copy # "none" \/ (key \in Wrapped /\ Loading)
       THEN Finish(r) ELSE Goto(r, "query")
  /\ UNCHANGED <<rows, copy, read, owed>>

NotFound == \E c \in Courses : key \in {Page(c), Slug(c)} /\ ~Exists(c)

Query(r) ==
  /\ pc[r] = "query"
  /\ IF NotFound THEN Finish(r) /\ read' = read
       ELSE Goto(r, "store") /\ read' = [read EXCEPT ![r] = "current"]
  /\ UNCHANGED <<rows, copy, owed>>

Store(r) ==
  /\ pc[r] = "store" /\ Finish(r)
  /\ copy' = read[r]
  /\ read' = [read EXCEPT ![r] = "none"]
  /\ UNCHANGED <<rows, owed>>

(* Every copy has a lifetime: the loader is passed one for each key.         *)
ExpireButSlugs ==
  /\ copy # "none" /\ key \notin {Slug(c) : c \in Courses} /\ copy' = "none"
  /\ UNCHANGED <<key, rows, pc, locals, read, owed>>

Expire ==
  /\ copy # "none" /\ copy' = "none"
  /\ UNCHANGED <<key, rows, pc, locals, read, owed>>
-----------------------------------------------------------------------------
(* Invalidating.  Pages and carts are deleted by key; the keys of the lists *)
(* are looked for first (SCAN), and what was found is deleted afterwards.   *)
Owes(r) == owed[r] # "nothing"

Alone(r) == \A o \in Requests \ {r} : ~Owes(o)

(* A load under way stores what it has read behind the deletion. *)
Passed(r) ==
  read' = [q \in Requests |-> IF read[q] = "outdated" /\ Alone(r)
                                THEN "stale" ELSE read[q]]

ScanLists(r) ==
  /\ pc[r] = "invalidate" /\ owed[r] = "scan"
  /\ IF copy = "none"
       THEN owed' = [owed EXCEPT ![r] = "nothing"] /\ Passed(r)
       ELSE owed' = [owed EXCEPT ![r] = "delete"]  /\ read' = read
  /\ UNCHANGED <<key, rows, copy, pc, locals>>

DeleteKey(r) ==
  /\ pc[r] = "invalidate" /\ owed[r] = "delete"
  /\ copy' = "none"
  /\ owed' = [owed EXCEPT ![r] = "nothing"]
  /\ Passed(r)
  /\ UNCHANGED <<key, rows, pc, locals>>

(* addItem() and removeItem() answer with the cart, read through its cache. *)
Invalidated(r) ==
  /\ pc[r] = "invalidate" /\ owed[r] = "nothing"
  /\ IF kind[r] \in {"add", "remove"} /\ key = Cart(user[r])
       THEN Goto(r, "get") ELSE Finish(r)
  /\ UNCHANGED <<rows, copy, read, owed>>

(* A handler that ends early leaves what it owes undone. *)
GiveUp(r) ==
  LET left(m) == IF m = "outdated" /\ Owes(r) /\ Alone(r) THEN "stale" ELSE m IN
  /\ Finish(r)
  /\ owed' = [owed EXCEPT ![r] = "nothing"]
  /\ copy' = left(copy)
  /\ read' = [q \in Requests |-> IF q = r THEN "none" ELSE left(read[q])]
-----------------------------------------------------------------------------
(* The instructor.  invalidateCourse(id) is never given the slug.           *)
PageKeys(c)   == {Page(c)}
CourseKeys(c) == {Page(c), List}

VerifyOwnership(r) ==
  /\ pc[r] = "verify"
  /\ IF Exists(course[r]) THEN Goto(r, "write") ELSE Finish(r)
  /\ UNCHANGED <<rows, copy, read, owed>>

(* An UPDATE of the columns the request names, the status among them.  A    *)
(* row that is gone is not missed before it is read again.                  *)
UpdateCourse(r) ==
  /\ pc[r] = "write" /\ kind[r] = "update" /\ Goto(r, "reread")
  /\ LET c == course[r] IN
       IF Exists(c)
         THEN /\ \E s \in CourseStatus : status' = [status EXCEPT ![c] = s]
              /\ Outdate({Page(c), List}, {Slug(c)} \cup Carts(c))
              /\ Owe(r, CourseKeys(c))
         ELSE UNCHANGED <<status, copy, read, owed>>
  /\ UNCHANGED cart

Reread(r) ==
  /\ pc[r] = "reread"
  /\ IF Exists(course[r])
       THEN /\ Goto(r, "invalidate") /\ Owe(r, CourseKeys(course[r]))
            /\ UNCHANGED <<copy, read>>
       ELSE GiveUp(r)
  /\ UNCHANGED rows

(* A section is created, changed, removed or moved; the lists show none.    *)
WriteSection(r) ==
  /\ pc[r] = "write" /\ kind[r] = "section"
  /\ LET c == course[r] IN
       IF Exists(c)
         THEN /\ Goto(r, "invalidate") /\ Owe(r, CourseKeys(c))
              /\ Outdate({Page(c)}, {Slug(c)})
         ELSE Finish(r) /\ UNCHANGED <<copy, read, owed>>
  /\ UNCHANGED rows

(* DELETE, and the cascade to cart_items. *)
DeleteCourse(r) ==
  /\ pc[r] = "write" /\ kind[r] = "delete" /\ Goto(r, "invalidate")
  /\ LET c == course[r] IN
       /\ Owe(r, CourseKeys(c))
       /\ IF Exists(c)
            THEN /\ status' = [status EXCEPT ![c] = "deleted"]
                 /\ cart' = {i \in cart : i[2] # c}
                 /\ Outdate({Page(c), List},
                            {Slug(c)} \cup Carts(c) \cup Counts(c))
            ELSE UNCHANGED <<rows, copy, read>>

(* restore() wants a row that is marked as deleted: nothing marks one, and  *)
(* delete() leaves none.                                                    *)
RestoreRefused(r) ==
  pc[r] = "restore" /\ Finish(r) /\ UNCHANGED <<rows, copy, read, owed>>

CreateCourse(r) ==
  /\ pc[r] = "create"
  /\ LET c == course[r] IN
       IF status[c] = "new"
         THEN /\ \E s \in CourseStatus : status' = [status EXCEPT ![c] = s]
              /\ Outdate({List}, {}) /\ Owe(r, {List}) /\ Goto(r, "invalidate")
         ELSE Finish(r) /\ UNCHANGED <<status, copy, read, owed>>
  /\ UNCHANGED cart

(* lessons.service.ts knows no cache. *)
WriteLesson(r) ==
  /\ pc[r] = "lesson" /\ Finish(r)
  /\ IF Exists(course[r])
       THEN Outdate({}, {Page(course[r]), Slug(course[r])})
       ELSE UNCHANGED <<copy, read>>
  /\ UNCHANGED <<rows, owed>>
-----------------------------------------------------------------------------
(* The admin.  save() writes back the whole course that was loaded, and     *)
(* inserts it again if it was deleted meanwhile; neither knows the cache.   *)
LoadPending(r) ==
  /\ pc[r] = "load"
  /\ IF status[course[r]] = "PENDING" THEN Goto(r, "save") ELSE Finish(r)
  /\ UNCHANGED <<rows, copy, read, owed>>

SaveModerated(r) ==
  /\ pc[r] = "save" /\ Finish(r)
  /\ LET c == course[r] IN
       /\ status' = [status EXCEPT ![c] =
                       IF kind[r] = "approve" THEN "PUBLISHED" ELSE "REJECTED"]
       /\ Outdate({}, {Page(c), Slug(c), List} \cup Carts(c))
  /\ UNCHANGED <<cart, owed>>
-----------------------------------------------------------------------------
(* The cart. *)
CartKeys(u) == {Cart(u), Count(u)}

WriteCart(r, items) ==
  /\ cart' = items /\ Goto(r, "invalidate")
  /\ Owe(r, CartKeys(user[r]))
  /\ IF items = cart THEN UNCHANGED <<copy, read>>
                     ELSE Outdate(CartKeys(user[r]), {})
  /\ UNCHANGED status

AddItem(r) ==
  /\ pc[r] = "add"
  /\ IF status[course[r]] = "PUBLISHED" THEN Goto(r, "existing") ELSE Finish(r)
  /\ UNCHANGED <<rows, copy, read, owed>>

FindExisting(r) ==
  /\ pc[r] = "existing"
  /\ IF <<user[r], course[r]>> \in cart THEN Finish(r) ELSE Goto(r, "insert")
  /\ UNCHANGED <<rows, copy, read, owed>>

(* The unique pair and the foreign key refuse what the checks missed. *)
InsertItem(r) ==
  LET i == <<user[r], course[r]>> IN
  /\ pc[r] = "insert"
  /\ IF i \notin cart /\ Exists(course[r])
       THEN WriteCart(r, cart \cup {i})
       ELSE Finish(r) /\ UNCHANGED <<rows, copy, read, owed>>

FindItem(r) ==
  /\ pc[r] = "remove"
  /\ IF <<user[r], course[r]>> \in cart THEN Goto(r, "clear") ELSE Finish(r)
  /\ UNCHANGED <<rows, copy, read, owed>>

(* The DELETE of removeItem(), and of a whole cart. *)
RemoveItems(r) ==
  /\ pc[r] = "clear"
  /\ WriteCart(r, {i \in cart : \/ i[1] # user[r]
                                \/ kind[r] = "remove" /\ i[2] # course[r]})
-----------------------------------------------------------------------------
(* Any await may reject. *)
Abort(r) == pc[r] # "idle" /\ GiveUp(r) /\ UNCHANGED rows

Step(r) ==
  \/ Get(r) \/ Query(r) \/ Store(r)
  \/ ScanLists(r) \/ DeleteKey(r) \/ Invalidated(r)
  \/ VerifyOwnership(r) \/ UpdateCourse(r) \/ Reread(r) \/ WriteSection(r)
  \/ DeleteCourse(r) \/ RestoreRefused(r) \/ CreateCourse(r) \/ WriteLesson(r)
  \/ LoadPending(r) \/ SaveModerated(r)
  \/ AddItem(r) \/ FindExisting(r) \/ InsertItem(r)
  \/ FindItem(r) \/ RemoveItems(r)

Next == Expire \/ \E r \in Requests : Arrive(r) \/ Step(r) \/ Abort(r)

Spec     == Init /\ [][Next]_vars
FairSpec == Spec /\ WF_vars(Expire) /\ \A r \in Requests : WF_vars(Step(r))
-----------------------------------------------------------------------------
(* What a create, an update, a deletion, a change of a section or of a cart *)
(* outdates is deleted before its handler answers: while the copy, or what  *)
(* a reader is about to store, is outdated, a handler still owes its        *)
(* deletion.  The exceptions are marked "stale": a load that the deletion   *)
(* overtook, a handler that failed, a write that goes with no invalidation. *)
OutdatedIsOwed ==
  copy = "outdated" \/ (\E q \in Requests : read[q] = "outdated")
    => \E r \in Requests : Owes(r)

(* However a copy became stale, its lifetime ends it: once nobody writes    *)
(* any more, what Redis holds comes to be what the database says and stays  *)
(* so, while readers go on reading and storing.                             *)
Writing == \E r \in Requests : kind[r] \in Writers

CatchesUp == <>[]~Writing => <>[](copy \in {"none", "current"})
=============================================================================
