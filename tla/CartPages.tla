------------------------------ MODULE CartPages ------------------------------
(* The browser's copy of the cart (CartService), which the catalogue, the   *)
(* cart and the checkout share, with the routes that it mirrors and the     *)
(* cart that they keep in the cache.  A step is one event of the browser,   *)
(* or what the backend does for one call between two awaits; who is         *)
(* enrolled, and why a payment is refused, are in Purchase.                 *)
(* Calls are served and answered in any order, and leaving a page does not  *)
(* cancel them.  One start of the app is modelled: a reload starts anew.    *)
EXTENDS Integers, Sequences, FiniteSets, SequencesExt

CONSTANTS
  Users, Courses,
  MaxClicks,  \* bound: events of the browser
  MaxCalls,   \* bound: calls under way when there is another event
  MaxFaults,  \* bound: calls that fail or hang
  None

(* What the properties rest on.                                             *)
ASSUME ConstantsAssumption ==
  /\ MaxClicks \in Nat /\ MaxCalls \in Nat /\ MaxFaults \in Nat
  /\ IsFiniteSet(Courses) /\ Courses \cap {"courses", "cart", "checkout", "my-enrolls"} = {}
  /\ None \notin Users \cup Courses \cup Nat /\ \A S \in SUBSET Courses : S # None

VARIABLES
  user,      \* AuthService.currentUser
  items, count, loading, \* CartService; courseIds are those of the items
  page, cartItems, paying, \* the page; the order of the checkout, and the call it waits for
  calls,     \* the calls not answered yet
  answers,   \* the answers, in that order
  cart, cached, \* of each user, at the backend: the rows, and the cart under the key
  crossed,   \* history: an answer was taken before an earlier one, or is another user's
  odd,       \* history: a course was paid that the copy did not hold
  hasty,     \* history: a checkout overlapped another call
  surprised, \* history: a charge for another set than the checkout showed
  raced,     \* history: a cart changed between a read or a deletion of it and the answer
  clicks, faults

copy     == <<items, count, loading, odd>>
checkout == <<cartItems, paying>>
backend  == <<cart, cached, surprised, raced>>
vars     == <<user, copy, page, checkout, calls, answers, backend, crossed, hasty, clicks, faults>>

(* A course stands for the checkout that sells it alone, and the list for   *)
(* every page that only shows the copy.                                     *)
Pages  == {"courses", "cart", "checkout", "my-enrolls"} \cup Courses
Kinds  == {"load", "add", "buy", "remove", "checkout", "pay"}
Call   == [id : Nat, kind : Kinds, user : Users, course : Courses \cup {None},
           order : SUBSET Courses, rows : SUBSET Courses, stuck : BOOLEAN,
           at : {"sent", "checked", "charged", "changed", "cleared", "missed", "found"}]
Answer == [id : Nat, kind : Kinds, user : Users, course : Courses \cup {None},
           ok : BOOLEAN, result : SUBSET Courses]

LoggedIn == user # None

Pending == calls \cup ToSet(answers)

(* A call is told from those under way beside it.                           *)
Id == CHOOSE n \in 1..Cardinality(Pending) + 1 : \A c \in Pending : c.id # n

Send(u, kind, course, order) ==
  calls' = calls \cup {[id |-> Id, kind |-> kind, user |-> u, course |-> course, order |-> order,
                        rows |-> {}, stuck |-> FALSE, at |-> "sent"]}

Clicks ==
  /\ clicks < MaxClicks /\ Cardinality(Pending) < MaxCalls /\ clicks' = clicks + 1
  /\ UNCHANGED <<answers, backend, crossed, faults>>

(* The app starts at an address.  With a token from before it loads the     *)
(* cart, the pages of the cart and of the checkout load it once more; the   *)
(* checkout finds the copy still empty.                                     *)
Init ==
  /\ user \in Users \cup {None} /\ page \in Pages \ {"my-enrolls"}
  /\ user = None => page = "courses"
  /\ items = {} /\ count = 0 /\ loading = (user # None)
  /\ cartItems = {} /\ paying = None
  /\ cart \in [Users -> SUBSET Courses] /\ \E S \in SUBSET Users :
       cached = [u \in Users |-> IF u \in S THEN cart[u] ELSE None]
  /\ calls = {[id |-> n, kind |-> "load", user |-> u, course |-> None, order |-> {}, rows |-> {},
                stuck |-> FALSE, at |-> "sent"] :
                n \in 1..(IF page \in {"cart", "checkout"} THEN 2 ELSE 1), u \in {user} \ {None}}
  /\ answers = <<>> /\ crossed = FALSE /\ odd = FALSE /\ hasty = FALSE /\ surprised = FALSE
  /\ raced = FALSE /\ clicks = 0 /\ faults = 0
-----------------------------------------------------------------------------
(* The effect runs whenever the user is set, after each refresh of the      *)
(* token too: the copy is emptied, then loaded.                             *)
SetUser(u) ==
  /\ user' = u /\ items' = {} /\ count' = 0 /\ odd' = FALSE
  /\ IF u = None THEN UNCHANGED <<loading, calls>>
     ELSE loading' = TRUE /\ Send(u, "load", None, {})

Turn(p) == page' = p /\ cartItems' = {} /\ paying' = None

LogIn(u) == ~LoggedIn /\ Clicks /\ SetUser(u) /\ Turn("courses") /\ UNCHANGED hasty
LogOut   == LoggedIn /\ Clicks /\ SetUser(None) /\ Turn("courses") /\ UNCHANGED hasty
Refresh  == LoggedIn /\ Clicks /\ SetUser(user) /\ UNCHANGED <<page, checkout, hasty>>
-----------------------------------------------------------------------------
LoadCart == loading' = TRUE /\ Send(user, "load", None, {})

OpenCourses ==
  /\ page # "courses" /\ Clicks /\ Turn("courses") /\ UNCHANGED <<user, copy, calls, hasty>>

OpenCart ==
  /\ LoggedIn /\ page # "cart" /\ Clicks /\ Turn("cart") /\ LoadCart
  /\ UNCHANGED <<user, items, count, odd, hasty>>

Changes(kind, c) ==
  /\ LoggedIn /\ Clicks /\ Send(user, kind, c, {})
  /\ hasty' = (hasty \/ \E d \in Pending : d.kind = "checkout")
  /\ UNCHANGED <<user, copy, page, checkout>>

AddToCart(c)  == page = "courses" /\ c \notin items /\ Changes("add", c)
BuyNow(c)     == page = "courses" /\ c \notin items /\ Changes("buy", c)
RemoveItem(c) == page = "cart" /\ ~loading /\ c \in items /\ Changes("remove", c)

(* The checkout shows the copy as it was before its own load.               *)
OpenCheckoutFirst ==
  /\ LoggedIn /\ page # "checkout" /\ Clicks /\ LoadCart
  /\ page' = "checkout" /\ paying' = None
  /\ cartItems' = (IF items = {} THEN {} ELSE {CHOOSE c \in items : TRUE})
  /\ hasty' = (hasty \/ Pending # {}) /\ UNCHANGED <<user, items, count, odd>>

OpenCheckout ==
  /\ LoggedIn /\ page # "checkout" /\ Clicks /\ LoadCart
  /\ page' = "checkout" /\ cartItems' = items /\ paying' = None
  /\ hasty' = (hasty \/ Pending # {}) /\ UNCHANGED <<user, items, count, odd>>

(* The payment form appears when there is something to be sold.             *)
Sold == page \in Courses \/ (page = "checkout" /\ cartItems # {})

Pay ==
  /\ LoggedIn /\ Sold /\ paying = None /\ Clicks /\ paying' = Id
  /\ IF page = "checkout" THEN Send(user, "checkout", None, cartItems) ELSE Send(user, "pay", page, {page})
  /\ UNCHANGED <<user, copy, page, cartItems, hasty>>
-----------------------------------------------------------------------------
(* The backend serves a call in steps, each up to an await, and answers it. *)
Put(u, S)  == cart' = [cart EXCEPT ![u] = S]
Goto(c, d) == calls' = (calls \ {c}) \cup {d} /\ UNCHANGED answers

Replies(c, ok, result) ==
  /\ calls' = calls \ {c}
  /\ answers' = Append(answers, [id |-> c.id, kind |-> c.kind, user |-> c.user,
                                 course |-> c.course, ok |-> ok, result |-> result])

Race(u, S) == raced' = (raced \/ cart[u] # S)

(* A course is in a cart once (@Unique).  A payment is refused for reasons  *)
(* that Purchase has: before the charge, by the bank, or by enroll().       *)
Refused(c) ==
  \/ c.kind \in {"add", "buy"} /\ c.at \in {"sent", "checked"} /\ c.course \in cart[c.user]
  \/ c.kind = "remove" /\ c.at = "sent" /\ c.course \notin cart[c.user]
  \/ c.kind \in {"pay", "checkout"} /\ c.at \in {"sent", "checked", "charged"}

Refuse(c) == Refused(c) /\ Replies(c, FALSE, {}) /\ UNCHANGED backend

(* What it looks for before: the row, or the rows to be charged.            *)
Check(c) ==
  /\ c.at = "sent" /\ c.kind # "load" /\ UNCHANGED backend
  /\ c.kind \in {"add", "buy"} => c.course \notin cart[c.user]
  /\ c.kind = "remove" => c.course \in cart[c.user]
  /\ c.kind = "checkout" => cart[c.user] # {}
  /\ Goto(c, [c EXCEPT !.at = "checked", !.rows = IF c.kind = "checkout" THEN cart[c.user] ELSE {}])

Charge(c) ==
  /\ c.at = "checked" /\ c.kind \in {"pay", "checkout"} /\ Goto(c, [c EXCEPT !.at = "charged"])
  /\ surprised' = (surprised \/ (c.kind = "checkout" /\ c.rows # c.order))
  /\ UNCHANGED <<cart, cached, raced>>

(* The rows.  A removal deletes the row that it found, not one added since. *)
Change(c) ==
  /\ \/ /\ c.kind \in {"add", "buy"} /\ c.at = "checked" /\ c.course \notin cart[c.user]
        /\ Put(c.user, cart[c.user] \cup {c.course})
     \/ c.kind = "remove" /\ c.at = "checked" /\ (Put(c.user, cart[c.user] \ {c.course}) \/ UNCHANGED cart)
     \/ c.kind = "pay" /\ c.at = "charged" /\ Put(c.user, cart[c.user] \ {c.course})
     \/ c.kind = "checkout" /\ c.at = "charged" /\ Put(c.user, {})
  /\ Goto(c, [c EXCEPT !.at = "changed"]) /\ UNCHANGED <<cached, surprised, raced>>

(* invalidateCache(): what was paid is answered, a change reads the cart.   *)
InvalidateNothing(c) ==
  /\ c.at = "changed" /\ UNCHANGED <<cart, cached, surprised>>
  /\ IF c.kind \in {"pay", "checkout"}
     THEN /\ Replies(c, TRUE, {})
          /\ Race(c.user, IF c.kind = "pay" THEN cart[c.user] \ {c.course} ELSE {})
     ELSE Goto(c, [c EXCEPT !.at = "cleared"]) /\ UNCHANGED raced

Invalidate(c) ==
  /\ c.at = "changed" /\ cached' = [cached EXCEPT ![c.user] = None] /\ UNCHANGED <<cart, surprised>>
  /\ IF c.kind \in {"pay", "checkout"}
     THEN /\ Replies(c, TRUE, {})
          /\ Race(c.user, IF c.kind = "pay" THEN cart[c.user] \ {c.course} ELSE {})
     ELSE Goto(c, [c EXCEPT !.at = "cleared"]) /\ UNCHANGED raced

(* getCart(): under the key, or from the rows and then under the key.       *)
GetCached(c) ==
  /\ (c.kind = "load" /\ c.at = "sent") \/ c.at = "cleared"
  /\ UNCHANGED backend
  /\ IF cached[c.user] # None THEN Replies(c, TRUE, cached[c.user])
     ELSE Goto(c, [c EXCEPT !.at = "missed"])

FindItems(c) ==
  c.at = "missed" /\ Goto(c, [c EXCEPT !.at = "found", !.rows = cart[c.user]]) /\ UNCHANGED backend

SetCached(c) ==
  /\ c.at = "found" /\ cached' = [cached EXCEPT ![c.user] = c.rows]
  /\ Replies(c, TRUE, c.rows) /\ Race(c.user, c.rows) /\ UNCHANGED <<cart, surprised>>

Apart == UNCHANGED <<user, copy, page, checkout, crossed, hasty, clicks>>

Serve(c) ==
  /\ \/ Refuse(c) \/ Check(c) \/ Charge(c) \/ Change(c) \/ Invalidate(c)
     \/ GetCached(c) \/ FindItems(c) \/ SetCached(c)
  /\ Apart /\ UNCHANGED faults

(* A key that was set lives for its time.                                   *)
Lapse(u) ==
  /\ cached[u] # None /\ cached' = [cached EXCEPT ![u] = None]
  /\ Apart /\ UNCHANGED <<calls, answers, cart, surprised, raced, faults>>

(* A call that fails has done so much of its work.                          *)
Fail(c) ==
  /\ faults < MaxFaults /\ faults' = faults + 1
  /\ Replies(c, FALSE, {}) /\ Apart /\ UNCHANGED backend

(* A call that has met a 401 waits in the interceptor behind a refresh that *)
(* has failed or was unsubscribed: it goes on only if another one succeeds, *)
(* which nothing promises.                                                  *)
Hang(c) ==
  /\ c.at = "sent" /\ ~c.stuck /\ Goto(c, [c EXCEPT !.stuck = TRUE])
  /\ faults < MaxFaults /\ faults' = faults + 1 /\ Apart /\ UNCHANGED backend
-----------------------------------------------------------------------------
(* What the page does with an answer of each kind.                          *)
Hold(S)    == items' = S /\ count' = Cardinality(S) /\ odd' = FALSE
Keep       == UNCHANGED <<items, count, odd>>
Stay       == UNCHANGED <<page, checkout>>
Home       == Turn(IF user = None THEN "courses" ELSE "my-enrolls")
Release(c) == paying' = (IF paying = c.id THEN None ELSE paying) /\ UNCHANGED <<page, cartItems>>

LoadedOrNot(a) ==
  /\ a.kind = "load" /\ Stay /\ UNCHANGED calls
  /\ loading' = (loading /\ ~a.ok) /\ IF a.ok THEN Hold(a.result) ELSE Keep

Loaded(a) ==
  /\ a.kind = "load" /\ loading' = FALSE /\ Stay /\ UNCHANGED calls
  /\ IF a.ok THEN Hold(a.result) ELSE Keep

Changed(a) ==
  /\ a.kind \in {"add", "remove"} /\ Stay /\ UNCHANGED <<loading, calls>>
  /\ IF a.ok THEN Hold(a.result) ELSE Keep

(* Wherever the user has turned meanwhile, buying leads to the cart.        *)
Bought(a) ==
  /\ a.kind = "buy" /\ IF a.ok THEN Hold(a.result) ELSE Keep
  /\ IF a.ok /\ LoggedIn /\ page # "cart" THEN Turn("cart") /\ LoadCart
     ELSE Stay /\ UNCHANGED <<loading, calls>>

CheckedOut(a) ==
  /\ a.kind = "checkout" /\ UNCHANGED <<loading, calls>>
  /\ IF a.ok THEN Hold({}) /\ Home ELSE Keep /\ Release(a)

(* The course leaves the copy, and the badge counts down all the same.      *)
Paid(a) ==
  /\ a.kind = "pay" /\ UNCHANGED <<loading, calls>>
  /\ IF a.ok THEN /\ items' = items \ {a.course} /\ count' = count - 1 /\ Home
                  /\ odd' = (odd \/ a.course \notin items)
     ELSE Keep /\ Release(a)

Take(i) ==
  LET a == answers[i]
  IN  /\ Loaded(a) \/ Changed(a) \/ Bought(a) \/ CheckedOut(a) \/ Paid(a)
      /\ answers' = RemoveAt(answers, i)
      /\ crossed' = (crossed \/ i > 1 \/ a.user # user)
      /\ UNCHANGED <<user, backend, hasty, clicks, faults>>
-----------------------------------------------------------------------------
Settle == (\E c \in calls : ~c.stuck /\ Serve(c)) \/ (\E i \in DOMAIN answers : Take(i))

Next ==
  \/ \E u \in Users : LogIn(u)
  \/ LogOut \/ Refresh \/ OpenCourses \/ OpenCart \/ OpenCheckout \/ Pay
  \/ \E c \in Courses : AddToCart(c) \/ BuyNow(c) \/ RemoveItem(c)
  \/ \E c \in calls : Serve(c) \/ Fail(c) \/ Hang(c)
  \/ \E i \in DOMAIN answers : Take(i)
  \/ \E u \in Users : Lapse(u)

Spec == Init /\ [][Next]_vars
(* Calls that do not hang are answered, and answers taken.                  *)
FairSpec == Spec /\ WF_vars(Settle)
-----------------------------------------------------------------------------
TypeOK ==
  /\ user \in Users \cup {None} /\ items \subseteq Courses /\ count \in Int /\ loading \in BOOLEAN
  /\ page \in Pages /\ cartItems \subseteq Courses /\ paying \in Nat \cup {None}
  /\ calls \subseteq Call /\ answers \in Seq(Answer)
  /\ cart \in [Users -> SUBSET Courses] /\ cached \in [Users -> {None} \cup SUBSET Courses]
  /\ crossed \in BOOLEAN /\ odd \in BOOLEAN /\ hasty \in BOOLEAN
  /\ surprised \in BOOLEAN /\ raced \in BOOLEAN
  /\ clicks \in 0..MaxClicks /\ faults \in 0..MaxFaults

(* When nothing is under way, the copy is the user's cart, although the     *)
(* routes answer from a cache that is behind until a change has deleted its *)
(* key, and although two of them are mirrored by hand.  Lost answers, those *)
(* taken out of turn or for another user, and a cart that changed between a *)
(* read of it and the answer leave the copy behind.                         *)
CopyIsCart ==
  LoggedIn /\ Pending = {} /\ faults = 0 /\ ~crossed /\ ~raced => items = cart[user]

(* The badge counts the copy, except for a course paid from outside of it.  *)
BadgeCounts == ~odd => count = Cardinality(items)

(* What every page shows of the cart is the cart.                           *)
CartIsShown == TypeOK /\ CopyIsCart /\ BadgeCounts

(* Who pays a cart is charged for what the checkout shows, although it      *)
(* shows the copy and the charge is for the rows, unless a call was under   *)
(* way when it was opened, a change was sent while it paid, or the copy was *)
(* left behind before.                                                      *)
ChargedIsShown == surprised /\ faults = 0 => hasty \/ crossed \/ raced

(* Once the clicks end, the button to pay and the list are back for good,   *)
(* whatever has failed, unless the call that they wait for hangs.           *)
PagesComeBack ==
  <>[](/\ paying # None => \E c \in calls : c.stuck /\ c.id = paying
       /\ loading => \E c \in calls : c.stuck /\ c.kind = "load")
=============================================================================
