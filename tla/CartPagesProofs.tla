-------------------------- MODULE CartPagesProofs ---------------------------
(***************************************************************************)
(* Proofs about CartPages, for any number of users, courses and clicks: its *)
(* types, that the copy of the cart in the browser is the cart, that the   *)
(* badge counts it, and that a cart is charged as it was shown.            *)
(***************************************************************************)
EXTENDS CartPages, FiniteSetTheorems, SequenceTheorems, TLAPS

InTurn == faults = 0 /\ ~crossed /\ ~raced

(* The steps at which a call has changed a cart and is not answered yet.    *)
Late == {"changed", "cleared", "missed", "found"}

(* The courses that a call may have put into the cart, or taken out of it.  *)
Touches(c, x) ==
  c.kind = "checkout" \/ (c.kind \in {"add", "buy", "remove", "pay"} /\ c.course = x)

(* S is the cart T of the user, but for the courses that a call of C, at    *)
(* one of the steps in A, has touched.                                      *)
Mirrors(S, T, C, u, A) ==
  \A x \in Courses :
    \/ x \in S <=> x \in T
    \/ \E c \in C : c.user = u /\ c.at \in A /\ Touches(c, x)

(* Only a call that has not deleted the key yet leaves an older cart there. *)
CacheInv(u) == cached[u] # None => Mirrors(cached[u], cart[u], calls, u, {"changed"})

(* Answers, taken in turn, lead the user's copy to the cart: b[i] is what   *)
(* the copy holds behind the first i of them, and what is missing at the    *)
(* end is in an answer that is still to come.                               *)
Turns(a, u, S, T) ==
  IF a.ok /\ a.user = u
  THEN CASE a.kind = "pay" -> T = S \ {a.course}
         [] a.kind = "checkout" -> T = {}
         [] OTHER -> T = a.result
  ELSE T = S

Leads(u, b) ==
  /\ Mirrors(b[Len(answers)], cart[u], calls, u, Late)
  /\ \A i \in 1..Len(answers) : Turns(answers[i], u, b[i - 1], b[i])

LoadComes(u) ==
  \/ \E c \in calls : c.kind = "load" /\ c.user = u
  \/ \E i \in 1..Len(answers) : answers[i].ok /\ answers[i].kind = "load" /\ answers[i].user = u

Follows(u) ==
  \E b \in [0..Len(answers) -> SUBSET Courses] :
    Leads(u, b) /\ (u = user => items = b[0] \/ LoadComes(u))

CopyInv ==
  InTurn => /\ \A i \in 1..Len(answers) : answers[i].kind = "load" => answers[i].ok
            /\ \A u \in Users : CacheInv(u) /\ Follows(u)

(* A page that sells a course is the first one, and sends no other call.    *)
Loads(C) == \A c \in C : c.kind = "load"

LaterLoads(i) == \A j \in 1..Len(answers) : j # i => answers[j].kind = "load"

PagesInv ==
  InTurn /\ ~hasty /\ page \in Courses => \A c \in Pending : c.kind \in {"load", "pay"}

(* The checkout waits to be used, or for its call, or for the answer.       *)
Quiet == paying = None /\ cartItems = cart[user] /\ Loads(calls) /\ LaterLoads(0)

Asked ==
  \E c \in calls :
    /\ c.kind = "checkout" /\ c.id = paying
    /\ c.at \in {"sent", "checked", "charged"} => cartItems = cart[user]
    /\ Loads(calls \ {c}) /\ LaterLoads(0)

ToldPaid ==
  \E i \in 1..Len(answers) :
    /\ answers[i].kind = "checkout" /\ answers[i].id = paying
    /\ answers[i].ok \/ cartItems = cart[user]
    /\ Loads(calls) /\ LaterLoads(i)

CheckoutInv ==
  InTurn /\ ~hasty /\ page = "checkout" /\ cartItems # {} =>
    LoggedIn /\ (Quiet \/ Asked \/ ToldPaid)

(* A checkout that is sent charges for the cart it was sent with.           *)
ChargeInv ==
  InTurn /\ ~hasty =>
    \A c \in calls : c.kind = "checkout" =>
      /\ c.at = "sent" => c.order = cart[c.user]
      /\ c.at = "checked" => c.order = c.rows
      /\ \A d \in calls \ {c} : d.user = c.user => d.kind = "load"

-----------------------------------------------------------------------------
(* Taking one of the answers.                                               *)
LEMMA Removed ==
  ASSUME NEW S, NEW s \in Seq(S), NEW i \in 1..Len(s)
  PROVE  /\ RemoveAt(s, i) \in Seq(S) /\ Len(RemoveAt(s, i)) = Len(s) - 1
         /\ \A j \in 1..(Len(s) - 1) : RemoveAt(s, i)[j] = s[IF j < i THEN j ELSE j + 1]
<1> DEFINE l == SubSeq(s, 1, i - 1)
           r == SubSeq(s, i + 1, Len(s))
<1>1. /\ l \in Seq(S) /\ Len(l) = i - 1 /\ \A j \in 1..(i - 1) : l[j] = s[j]
      /\ r \in Seq(S) /\ Len(r) = Len(s) - i /\ \A j \in 1..(Len(s) - i) : r[j] = s[i + j]
  OBVIOUS
<1>2. RemoveAt(s, i) = l \o r
  BY DEF RemoveAt
<1> HIDE DEF l, r
<1>3. /\ l \o r \in Seq(S) /\ Len(l \o r) = Len(s) - 1
      /\ \A j \in 1..(Len(s) - 1) : (l \o r)[j] = IF j <= i - 1 THEN l[j] ELSE r[j - (i - 1)]
  <2>1. /\ l \o r \in Seq(S) /\ Len(l \o r) = Len(l) + Len(r)
        /\ \A j \in 1..(Len(l) + Len(r)) :
             (l \o r)[j] = IF j <= Len(l) THEN l[j] ELSE r[j - Len(l)]
    BY <1>1, ConcatProperties
  <2>2. Len(l) + Len(r) = Len(s) - 1
    BY <1>1
  <2> QED
    BY <1>1, <2>1, <2>2
<1>4. \A j \in 1..(Len(s) - 1) : (l \o r)[j] = s[IF j < i THEN j ELSE j + 1]
  <2> TAKE j \in 1..(Len(s) - 1)
  <2>1. CASE j < i
    BY <1>1, <1>3, <2>1
  <2>2. CASE j >= i
    <3>1. j - (i - 1) \in 1..(Len(s) - i) /\ i + (j - (i - 1)) = j + 1 /\ ~(j <= i - 1)
      BY <2>2
    <3>2. (l \o r)[j] = r[j - (i - 1)]
      BY <1>3, <3>1
    <3> QED
      BY <1>1, <2>2, <3>1, <3>2
  <2>3. j < i \/ j >= i
    OBVIOUS
  <2> QED
    BY <2>1, <2>2, <2>3
<1> QED
  BY <1>2, <1>3, <1>4

(* The calls under way are those not answered and the answers.              *)
LEMMA PendingIs ==
  ASSUME TypeOK
  PROVE  Pending = calls \cup {answers[i] : i \in 1..Len(answers)}
  BY DEF Pending, ToSet, TypeOK

(* What is pending is a finite set.                                         *)
LEMMA PendingType ==
  ASSUME TypeOK, IsFiniteSet(calls)
  PROVE  IsFiniteSet(Pending)
<1> DEFINE f == [i \in 1..Len(answers) |-> answers[i]]
           T == {answers[i] : i \in 1..Len(answers)}
<1>1. IsFiniteSet(1..Len(answers)) /\ Len(answers) \in Nat
  BY FS_Interval DEF TypeOK
<1>2. f \in Surjection(1..Len(answers), T)
  BY DEF Surjection
<1>3. IsFiniteSet(T)
  <2> HIDE DEF f, T
  <2> QED
    BY <1>1, <1>2, FS_Surjection
<1>4. IsFiniteSet(calls \cup T)
  BY <1>3, FS_Union
<1> QED
  BY <1>4, PendingIs

(* Among n + 1 numbers there is one that none of n calls has.               *)
LEMMA IdType ==
  ASSUME TypeOK, IsFiniteSet(calls)
  PROVE  Id \in Nat
<1> DEFINE n == Cardinality(Pending)
           free == \E k \in 1..n + 1 : \A c \in Pending : c.id # k
<1>1. IsFiniteSet(Pending) /\ n \in Nat
  BY PendingType, FS_CardinalityType
<1>2. SUFFICES ASSUME ~free PROVE FALSE
  BY <1>1 DEF Id
<1> DEFINE f == [k \in 1..n + 1 |-> CHOOSE c \in Pending : c.id = k]
<1>3. \A k \in 1..n + 1 : f[k] \in Pending /\ f[k].id = k
  BY <1>2
<1>4. f \in [1..n + 1 -> Pending]
  BY <1>3
<1>5. IsFiniteSet(1..n + 1) /\ Cardinality(1..n + 1) = n + 1
  BY <1>1, FS_Interval
<1> HIDE DEF f
<1>6. \E x, y \in 1..n + 1 : x # y /\ f[x] = f[y]
  <2> DEFINE D == 1..n + 1
  <2>1. f \in [D -> Pending] /\ IsFiniteSet(D) /\ Cardinality(Pending) < Cardinality(D)
    BY <1>1, <1>4, <1>5
  <2> HIDE DEF D
  <2>2. \E x, y \in D : x # y /\ f[x] = f[y]
    BY <1>1, <2>1, FS_PigeonHole
  <2> QED
    BY <2>2 DEF D
<1> QED
  BY <1>3, <1>6

(* A call as it is sent.                                                    *)
Sent(n, u, k, c, S) ==
  [id |-> n, kind |-> k, user |-> u, course |-> c, order |-> S, rows |-> {},
   stuck |-> FALSE, at |-> "sent"]

(* Sending adds one call, of the user.                                      *)
LEMMA SendType ==
  ASSUME TypeOK, IsFiniteSet(calls), NEW u \in Users, NEW k \in Kinds,
         NEW c \in Courses \cup {None}, NEW S \in SUBSET Courses, Send(u, k, c, S)
  PROVE  /\ calls' \subseteq Call /\ IsFiniteSet(calls') /\ Id \in Nat
         /\ calls' = calls \cup {Sent(Id, u, k, c, S)}
<1>1. calls' = calls \cup {Sent(Id, u, k, c, S)}
  BY DEF Send, Sent
<1>2. Id \in Nat
  BY IdType
<1>3. IsFiniteSet(calls')
  BY <1>1, FS_AddElement
<1>4. Sent(Id, u, k, c, S) \in Call
  BY <1>2 DEF Call, Sent
<1> QED
  BY <1>1, <1>2, <1>3, <1>4 DEF TypeOK

(* What asking for the cart sends.                                          *)
LEMMA SendLoad ==
  ASSUME TypeOK, IsFiniteSet(calls), NEW u \in Users, Send(u, "load", None, {})
  PROVE  /\ calls' \subseteq Call /\ IsFiniteSet(calls')
         /\ \E l : l.kind = "load" /\ l.user = u /\ l.at = "sent" /\ calls' = calls \cup {l}
<1> DEFINE l == Sent(Id, u, "load", None, {})
<1>1. "load" \in Kinds /\ None \in Courses \cup {None} /\ {} \in SUBSET Courses
  BY DEF Kinds
<1>2. calls' \subseteq Call /\ IsFiniteSet(calls') /\ calls' = calls \cup {l}
  BY <1>1, SendType
<1>3. l.kind = "load" /\ l.user = u /\ l.at = "sent"
  BY DEF Sent
<1> QED
  BY <1>2, <1>3

(* What every click of the user leaves alone.                               *)
LEMMA ClicksType ==
  ASSUME TypeOK, Clicks
  PROVE  /\ clicks' \in 0..MaxClicks /\ answers' = answers /\ cart' = cart /\ cached' = cached
         /\ raced' = raced /\ surprised' = surprised /\ crossed' = crossed /\ faults' = faults
  BY ConstantsAssumption DEF TypeOK, Clicks, backend
-----------------------------------------------------------------------------
Typed == TypeOK /\ IsFiniteSet(calls) /\ BadgeCounts

(* What a call names, and the steps that one of its kind goes through.      *)
Proper(c) ==
  /\ c.kind \in {"add", "buy", "remove", "pay"} => c.course \in Courses
  /\ c.kind = "load" => c.at \in {"sent", "missed", "found"}
  /\ c.kind \in {"pay", "checkout"} => c.at \in {"sent", "checked", "charged", "changed"}

Staged == \A c \in calls : Proper(c)

(* The number beside an empty cart.                                         *)
LEMMA EmptyBadge == Cardinality({}) = 0
  BY FS_EmptySet

(* A set of courses has a number.                                           *)
LEMMA ItemsFinite ==
  ASSUME NEW S \in SUBSET Courses
  PROVE  IsFiniteSet(S) /\ Cardinality(S) \in Nat
  BY FS_Subset, FS_CardinalityType, ConstantsAssumption

(* What happens to the calls when the user is set or the cart is loaded.    *)
LEMMA UserSet ==
  ASSUME Typed, NEW u \in Users \cup {None}, SetUser(u)
  PROVE  /\ user' = u /\ items' = {} /\ count' = 0 /\ odd' = FALSE /\ loading' \in BOOLEAN
         /\ calls' \subseteq Call /\ IsFiniteSet(calls')
         /\ u = None => calls' = calls
         /\ u # None => \E l : l.kind = "load" /\ l.user = u /\ l.at = "sent" /\ calls' = calls \cup {l}
<1>1. CASE u = None
  BY <1>1 DEF SetUser, Typed, TypeOK
<1>2. CASE u # None
  <2>1. u \in Users /\ Send(u, "load", None, {}) /\ TypeOK /\ IsFiniteSet(calls)
    BY <1>2 DEF SetUser, Typed
  <2>2. /\ calls' \subseteq Call /\ IsFiniteSet(calls')
        /\ \E l : l.kind = "load" /\ l.user = u /\ l.at = "sent" /\ calls' = calls \cup {l}
    BY <2>1, SendLoad
  <2> QED
    BY <1>2, <2>2 DEF SetUser
<1> QED
  BY <1>1, <1>2

(* The same when the cart of the one logged in is loaded.                   *)
LEMMA CartLoads ==
  ASSUME Typed, LoggedIn, LoadCart
  PROVE  /\ loading' = TRUE /\ calls' \subseteq Call /\ IsFiniteSet(calls')
         /\ \E l : l.kind = "load" /\ l.user = user /\ l.at = "sent" /\ calls' = calls \cup {l}
<1>1. user \in Users /\ Send(user, "load", None, {}) /\ TypeOK /\ IsFiniteSet(calls)
  BY DEF Typed, TypeOK, LoggedIn, LoadCart
<1> QED
  BY <1>1, SendLoad DEF LoadCart

(* A call that the backend has taken a step further.                        *)
Same(d, c) ==
  /\ d.id = c.id /\ d.kind = c.kind /\ d.user = c.user /\ d.course = c.course /\ d.order = c.order
  /\ d.stuck = c.stuck

(* With its fields, but for the step.                                       *)
LEMMA Further ==
  ASSUME NEW c \in Call, NEW at \in {"checked", "charged", "changed", "cleared", "missed", "found"}
  PROVE  /\ [c EXCEPT !.at = at] \in Call /\ Same([c EXCEPT !.at = at], c)
         /\ [c EXCEPT !.at = at].at = at
  BY DEF Call, Same

(* Steps that take a call further, and leave the carts alone.               *)
Goes(c, d) ==
  /\ UNCHANGED <<cart, cached, raced>>
  /\ \/ c.at = "sent" /\ d.at = "checked" /\ (c.kind = "checkout" => d.rows = cart[c.user])
     \/ c.at = "checked" /\ d.at = "charged"
     \/ c.at \in {"sent", "cleared"} /\ d.at = "missed"
     \/ c.at = "missed" /\ d.at = "found"

(* A step that changes a cart, where the call touches it.                   *)
Writes(c, d) ==
  /\ c.at \in {"checked", "charged"} /\ d.at = "changed" /\ UNCHANGED <<cached, raced>>
  /\ cart' \in [Users -> SUBSET Courses]
  /\ \A u \in Users, x \in Courses :
       (x \in cart[u] <=> x \in cart'[u]) \/ (u = c.user /\ Touches(d, x))

Clears(c, d) ==
  /\ c.at = "changed" /\ d.at = "cleared" /\ UNCHANGED <<cart, raced>>
  /\ cached' = [cached EXCEPT ![c.user] = None]

(* What the backend answers: a refusal, what was paid, the cart that is     *)
(* under the key, the rows that it read.                                    *)
Refuses(c, ok) ==
  ~ok /\ c.kind # "load" /\ c.at \in {"sent", "checked", "charged"} /\ UNCHANGED <<cached, raced>>

TellsPaid(c, ok) ==
  /\ ok /\ c.kind \in {"pay", "checkout"} /\ c.at = "changed"
  /\ cached' = [cached EXCEPT ![c.user] = None]
  /\ Race(c.user, IF c.kind = "pay" THEN cart[c.user] \ {c.course} ELSE {})

TellsCached(c, ok, result) ==
  /\ ok /\ c.kind \notin {"pay", "checkout"} /\ c.at \in {"sent", "cleared"}
  /\ cached[c.user] # None /\ result = cached[c.user] /\ UNCHANGED <<cached, raced>>

TellsRows(c, ok, result) ==
  /\ ok /\ c.kind \notin {"pay", "checkout"} /\ c.at = "found" /\ result = c.rows
  /\ cached' = [cached EXCEPT ![c.user] = result] /\ Race(c.user, result)

(* A step of the backend takes a call further, or answers it.               *)
LEMMA Steps ==
  ASSUME Typed, Staged, NEW c \in calls, Serve(c)
  PROVE  \/ \E d \in Call :
              /\ Goto(c, d) /\ Same(d, c) /\ Proper(d)
              /\ Goes(c, d) \/ Writes(c, d) \/ Clears(c, d)
         \/ \E ok \in BOOLEAN, result \in SUBSET Courses :
              /\ Replies(c, ok, result) /\ cart' = cart
              /\ Refuses(c, ok) \/ TellsPaid(c, ok) \/ TellsCached(c, ok, result)
                 \/ TellsRows(c, ok, result)
<1> DEFINE Goal ==
             \/ \E d \in Call :
                  /\ Goto(c, d) /\ Same(d, c) /\ Proper(d)
                  /\ Goes(c, d) \/ Writes(c, d) \/ Clears(c, d)
             \/ \E ok \in BOOLEAN, result \in SUBSET Courses :
                  /\ Replies(c, ok, result) /\ cart' = cart
                  /\ Refuses(c, ok) \/ TellsPaid(c, ok) \/ TellsCached(c, ok, result)
                     \/ TellsRows(c, ok, result)
<1>1. /\ c \in Call /\ c.user \in Users /\ c.kind \in Kinds /\ c.rows \in SUBSET Courses
      /\ Proper(c) /\ cart \in [Users -> SUBSET Courses] /\ cart[c.user] \in SUBSET Courses
      /\ cached \in [Users -> {None} \cup SUBSET Courses]
  BY DEF Typed, TypeOK, Call, Staged
<1>2. CASE Refuse(c)
  <2>1. Replies(c, FALSE, {}) /\ UNCHANGED <<cart, cached, raced>> /\ Refused(c)
    BY <1>2 DEF Refuse, backend
  <2>2. Refuses(c, FALSE)
    BY <2>1 DEF Refuses, Refused
  <2> QED
    BY <2>1, <2>2
<1>3. CASE Check(c)
  <2> DEFINE S == IF c.kind = "checkout" THEN cart[c.user] ELSE {}
             d == [c EXCEPT !.at = "checked", !.rows = S]
  <2>1. /\ S \in SUBSET Courses /\ Goto(c, d) /\ c.at = "sent" /\ c.kind # "load"
        /\ UNCHANGED <<cart, cached, raced>>
    BY <1>1, <1>3 DEF Check, backend
  <2> HIDE DEF S
  <2>2. d \in Call /\ Same(d, c) /\ d.at = "checked" /\ d.rows = S
    BY <1>1, <2>1 DEF Call, Same
  <2> HIDE DEF d
  <2>3. Proper(d) /\ Goes(c, d)
    BY <1>1, <2>1, <2>2 DEF Proper, Goes, Same, S
  <2> QED
    BY <2>1, <2>2, <2>3
<1>4. CASE Charge(c)
  <2> DEFINE d == [c EXCEPT !.at = "charged"]
  <2>1. /\ Goto(c, d) /\ c.at = "checked" /\ c.kind \in {"pay", "checkout"}
        /\ UNCHANGED <<cart, cached, raced>>
    BY <1>4 DEF Charge
  <2>2. d \in Call /\ Same(d, c) /\ d.at = "charged"
    BY <1>1, Further
  <2> HIDE DEF d
  <2>3. Proper(d) /\ Goes(c, d)
    BY <1>1, <2>1, <2>2 DEF Proper, Goes, Same
  <2> QED
    BY <2>1, <2>2, <2>3
<1>5. CASE Change(c)
  <2> DEFINE d == [c EXCEPT !.at = "changed"]
  <2>1. /\ Goto(c, d) /\ c.at \in {"checked", "charged"} /\ c.kind # "load"
        /\ UNCHANGED <<cached, raced>>
    BY <1>5 DEF Change
  <2>2. d \in Call /\ Same(d, c) /\ d.at = "changed"
    BY <1>1, Further
  <2>3. /\ cart' \in [Users -> SUBSET Courses]
        /\ \A u \in Users, x \in Courses :
             (x \in cart[u] <=> x \in cart'[u]) \/ (u = c.user /\ Touches(c, x))
    <3>1. ASSUME c.kind \in {"add", "buy"}, cart' = [cart EXCEPT ![c.user] = cart[c.user] \cup {c.course}]
          PROVE  <2>3!1 /\ <2>3!2
      BY <1>1, <3>1 DEF Proper, Touches
    <3>2. ASSUME c.kind \in {"remove", "pay"}, cart' = [cart EXCEPT ![c.user] = cart[c.user] \ {c.course}]
          PROVE  <2>3!1 /\ <2>3!2
      BY <1>1, <3>2 DEF Proper, Touches
    <3>3. ASSUME c.kind = "checkout", cart' = [cart EXCEPT ![c.user] = {}]
          PROVE  <2>3!1 /\ <2>3!2
      BY <1>1, <3>3 DEF Touches
    <3>4. CASE cart' = cart
      BY <1>1, <3>4
    <3> QED
      BY <1>5, <3>1, <3>2, <3>3, <3>4 DEF Change, Put
  <2> HIDE DEF d
  <2>4. Proper(d) /\ Writes(c, d)
    BY <1>1, <2>1, <2>2, <2>3 DEF Proper, Writes, Same, Touches
  <2> QED
    BY <2>1, <2>2, <2>4
<1>6. CASE Invalidate(c) /\ c.kind \in {"pay", "checkout"}
  <2>1. /\ Replies(c, TRUE, {}) /\ cart' = cart
        /\ TellsPaid(c, TRUE)
    BY <1>6 DEF Invalidate, TellsPaid
  <2> QED
    BY <2>1
<1>7. CASE Invalidate(c) /\ c.kind \notin {"pay", "checkout"}
  <2> DEFINE d == [c EXCEPT !.at = "cleared"]
  <2>1. /\ Goto(c, d) /\ c.at = "changed" /\ UNCHANGED <<cart, raced>>
        /\ cached' = [cached EXCEPT ![c.user] = None]
    BY <1>7 DEF Invalidate
  <2>2. d \in Call /\ Same(d, c) /\ d.at = "cleared"
    BY <1>1, Further
  <2> HIDE DEF d
  <2>3. Proper(d) /\ Clears(c, d)
    BY <1>1, <1>7, <2>1, <2>2 DEF Proper, Clears, Same
  <2> QED
    BY <2>1, <2>2, <2>3
<1>8. CASE GetCached(c) /\ cached[c.user] # None
  <2>1. Replies(c, TRUE, cached[c.user]) /\ cart' = cart /\ cached[c.user] \in SUBSET Courses
    BY <1>1, <1>8 DEF GetCached, backend
  <2>2. TellsCached(c, TRUE, cached[c.user])
    BY <1>1, <1>8 DEF GetCached, backend, TellsCached, Proper
  <2> QED
    BY <2>1, <2>2
<1>9. CASE GetCached(c) /\ cached[c.user] = None
  <2> DEFINE d == [c EXCEPT !.at = "missed"]
  <2>1. /\ Goto(c, d) /\ c.at \in {"sent", "cleared"} /\ c.kind \notin {"pay", "checkout"}
        /\ UNCHANGED <<cart, cached, raced>>
    BY <1>1, <1>9 DEF GetCached, backend, Proper
  <2>2. d \in Call /\ Same(d, c) /\ d.at = "missed"
    BY <1>1, Further
  <2> HIDE DEF d
  <2>3. Proper(d) /\ Goes(c, d)
    BY <1>1, <2>1, <2>2 DEF Proper, Goes, Same
  <2> QED
    BY <2>1, <2>2, <2>3
<1>10. CASE FindItems(c)
  <2> DEFINE d == [c EXCEPT !.at = "found", !.rows = cart[c.user]]
  <2>1. Goto(c, d) /\ c.at = "missed" /\ UNCHANGED <<cart, cached, raced>>
    BY <1>10 DEF FindItems, backend
  <2>2. d \in Call /\ Same(d, c) /\ d.at = "found"
    BY <1>1 DEF Call, Same
  <2> HIDE DEF d
  <2>3. Proper(d) /\ Goes(c, d)
    BY <1>1, <2>1, <2>2 DEF Proper, Goes, Same
  <2> QED
    BY <2>1, <2>2, <2>3
<1>11. CASE SetCached(c)
  <2>1. /\ Replies(c, TRUE, c.rows) /\ cart' = cart
        /\ TellsRows(c, TRUE, c.rows)
    BY <1>1, <1>11 DEF SetCached, TellsRows, Proper
  <2> QED
    BY <1>1, <2>1
<1> QED
  BY <1>2, <1>3, <1>4, <1>5, <1>6, <1>7, <1>8, <1>9, <1>10, <1>11 DEF Serve

(* A call that goes on.                                                     *)
LEMMA Gone ==
  ASSUME Typed, Staged, NEW c \in calls, NEW d \in Call, Goto(c, d), Proper(d)
  PROVE  /\ calls' \subseteq Call /\ IsFiniteSet(calls') /\ calls' = (calls \ {c}) \cup {d}
         /\ answers' = answers /\ Staged'
<1>1. calls' = (calls \ {c}) \cup {d} /\ answers' = answers
  BY DEF Goto
<1>2. IsFiniteSet(calls \ {c}) /\ IsFiniteSet(calls')
  BY <1>1, FS_RemoveElement, FS_AddElement DEF Typed
<1> QED
  BY <1>1, <1>2 DEF Typed, TypeOK, Staged

(* What the backend adds to the answers when it replies to a call.          *)
LEMMA Replied ==
  ASSUME Typed, Staged, NEW c \in calls, NEW ok \in BOOLEAN, NEW result \in SUBSET Courses,
         Replies(c, ok, result)
  PROVE  /\ calls' \subseteq Call /\ IsFiniteSet(calls') /\ calls' = calls \ {c} /\ Staged'
         /\ answers' \in Seq(Answer) /\ Len(answers') = Len(answers) + 1
         /\ \A i \in 1..Len(answers) : answers'[i] = answers[i]
         /\ \E a \in Answer :
              /\ answers'[Len(answers) + 1] = a /\ a.ok = ok /\ a.result = result
              /\ a.id = c.id /\ a.kind = c.kind /\ a.user = c.user /\ a.course = c.course
<1> DEFINE a == [id |-> c.id, kind |-> c.kind, user |-> c.user, course |-> c.course,
                 ok |-> ok, result |-> result]
<1>1. c \in Call /\ calls \subseteq Call /\ IsFiniteSet(calls) /\ answers \in Seq(Answer)
  BY DEF Typed, TypeOK
<1>2. /\ a \in Answer /\ a.ok = ok /\ a.result = result
      /\ a.id = c.id /\ a.kind = c.kind /\ a.user = c.user /\ a.course = c.course
  BY <1>1 DEF Answer, Call
<1>3. calls' = calls \ {c} /\ answers' = Append(answers, a)
  BY DEF Replies
<1>4. IsFiniteSet(calls')
  BY <1>1, <1>3, FS_RemoveElement
<1> HIDE DEF a
<1>5. /\ answers' \in Seq(Answer) /\ Len(answers') = Len(answers) + 1
      /\ \A i \in 1..Len(answers) : answers'[i] = answers[i]
      /\ answers'[Len(answers) + 1] = a
  BY <1>1, <1>2, <1>3
<1>6. Staged'
  BY <1>3 DEF Staged
<1> QED
  BY <1>1, <1>2, <1>3, <1>4, <1>5, <1>6

(* What is left of the answers when the browser takes one.                  *)
LEMMA AnswerTaken ==
  ASSUME Typed, NEW i \in 1..Len(answers), Take(i)
  PROVE  /\ answers' \in Seq(Answer) /\ Len(answers') = Len(answers) - 1
         /\ \A j \in 1..(Len(answers) - 1) : answers'[j] = answers[IF j < i THEN j ELSE j + 1]
         /\ answers[i] \in Answer
<1>1. answers \in Seq(Answer) /\ answers' = RemoveAt(answers, i)
  BY DEF Typed, TypeOK, Take
<1>2. answers[i] \in Answer
  BY <1>1
<1> QED
  BY <1>1, <1>2, Removed
-----------------------------------------------------------------------------
(* Typed and Staged hold at the start.                                      *)
LEMMA CartTypeInit ==
  ASSUME Init
  PROVE  /\ Typed /\ Staged
         /\ \A c \in calls : c.kind = "load"
         /\ user # None => \E c \in calls : c.kind = "load" /\ c.user = user
<1> DEFINE l(n) == Sent(n, user, "load", None, {})
<1>1. /\ user \in Users \cup {None} /\ items = {} /\ count = 0 /\ loading \in BOOLEAN
      /\ page \in Pages /\ cartItems = {} /\ paying = None /\ answers = <<>>
      /\ cart \in [Users -> SUBSET Courses] /\ clicks = 0 /\ faults = 0
      /\ crossed = FALSE /\ odd = FALSE /\ hasty = FALSE /\ surprised = FALSE /\ raced = FALSE
  BY DEF Init, Pages
<1>2. cached \in [Users -> {None} \cup SUBSET Courses]
  <2>1. PICK S \in SUBSET Users : cached = [u \in Users |-> IF u \in S THEN cart[u] ELSE None]
    BY DEF Init
  <2> QED
    BY <1>1, <2>1
<1>3. calls = IF user = None THEN {} ELSE
                IF page \in {"cart", "checkout"} THEN {l(1), l(2)} ELSE {l(1)}
  <2>1. calls = {Sent(n, u, "load", None, {}) :
                   n \in 1..(IF page \in {"cart", "checkout"} THEN 2 ELSE 1), u \in {user} \ {None}}
    BY DEF Init, Sent
  <2>2. 1..2 = {1, 2} /\ 1..1 = {1}
    OBVIOUS
  <2>3. CASE user = None
    BY <2>1, <2>3
  <2>4. CASE user # None /\ page \in {"cart", "checkout"}
    <3>1. calls = {Sent(n, user, "load", None, {}) : n \in 1..2}
      BY <2>1, <2>4
    <3> QED
      BY <2>2, <2>4, <3>1
  <2>5. CASE user # None /\ page \notin {"cart", "checkout"}
    <3>1. calls = {Sent(n, user, "load", None, {}) : n \in 1..1}
      BY <2>1, <2>5
    <3> QED
      BY <2>2, <2>5, <3>1
  <2> QED
    BY <2>3, <2>4, <2>5
<1>4. user # None => l(1) \in Call /\ l(2) \in Call
  BY <1>1 DEF Call, Kinds, Sent
<1>5. \A n \in 1..2 : l(n).kind = "load" /\ l(n).user = user /\ Proper(l(n))
  BY DEF Sent, Proper
<1>6. 0 \in 0..MaxClicks /\ 0 \in 0..MaxFaults /\ <<>> \in Seq(Answer)
  BY ConstantsAssumption
<1>7. l(1).kind = "load" /\ l(1).user = user /\ Proper(l(1)) /\ l(2).kind = "load" /\ Proper(l(2))
  BY <1>5
<1> HIDE DEF l
<1>8. IsFiniteSet(calls)
  <2>1. IsFiniteSet({}) /\ IsFiniteSet({l(1)})
    BY FS_EmptySet, FS_Singleton
  <2>2. IsFiniteSet({l(1)} \cup {l(2)})
    BY <2>1, FS_AddElement
  <2>3. {l(1)} \cup {l(2)} = {l(1), l(2)}
    OBVIOUS
  <2> QED
    BY <1>3, <2>1, <2>2, <2>3
<1>9. Staged /\ calls \subseteq Call /\ (\A c \in calls : c.kind = "load")
      /\ (user # None => \E c \in calls : c.kind = "load" /\ c.user = user)
  BY <1>3, <1>4, <1>7 DEF Staged
<1>10. TypeOK
  <2>1. /\ items \subseteq Courses /\ cartItems \subseteq Courses /\ count \in Int
        /\ paying \in Nat \cup {None}
    BY <1>1
  <2>2. answers \in Seq(Answer) /\ clicks \in 0..MaxClicks /\ faults \in 0..MaxFaults
    BY <1>1, <1>6
  <2> QED
    BY <1>1, <1>2, <1>9, <2>1, <2>2 DEF TypeOK
<1> QED
  BY <1>1, <1>8, <1>9, <1>10, EmptyBadge DEF Typed, BadgeCounts

(* The steps of the user.                                                   *)
LEMMA TypeClick ==
  ASSUME Typed, Staged, Clicks,
         hasty' \in BOOLEAN, user' \in Users \cup {None}, items' \subseteq Courses, count' \in Int,
         loading' \in BOOLEAN, page' \in Pages, cartItems' \subseteq Courses,
         paying' \in Nat \cup {None}, odd' \in BOOLEAN, calls' \subseteq Call, IsFiniteSet(calls'),
         \A c \in calls' \ calls : Proper(c),
         ~odd' => count' = Cardinality(items')
  PROVE  Typed' /\ Staged'
<1>1. /\ clicks' \in 0..MaxClicks /\ answers' = answers /\ cart' = cart /\ cached' = cached
      /\ raced' = raced /\ surprised' = surprised /\ crossed' = crossed /\ faults' = faults
  BY ClicksType DEF Typed
<1>2. TypeOK'
  BY <1>1 DEF Typed, TypeOK
<1>3. Staged'
  BY DEF Staged
<1> QED
  BY <1>2, <1>3 DEF Typed, BadgeCounts

(* Then of the steps that set the user,                                     *)
LEMMA TypeSet ==
  ASSUME Typed, Staged, Clicks, NEW u \in Users \cup {None}, SetUser(u),
         page' \in Pages, cartItems' \subseteq Courses, paying' \in Nat \cup {None}, hasty' = hasty
  PROVE  Typed' /\ Staged'
<1>1. /\ user' = u /\ items' = {} /\ count' = 0 /\ odd' = FALSE /\ loading' \in BOOLEAN
      /\ calls' \subseteq Call /\ IsFiniteSet(calls')
      /\ \A c \in calls' \ calls : Proper(c)
  <2>1. /\ user' = u /\ items' = {} /\ count' = 0 /\ odd' = FALSE /\ loading' \in BOOLEAN
        /\ calls' \subseteq Call /\ IsFiniteSet(calls')
        /\ u = None => calls' = calls
        /\ u # None => \E l : l.kind = "load" /\ l.user = u /\ l.at = "sent" /\ calls' = calls \cup {l}
    BY UserSet
  <2> QED
    BY <2>1 DEF Proper
<1>2. hasty' \in BOOLEAN
  BY DEF Typed, TypeOK
<1>4. items' \subseteq Courses /\ count' \in Int /\ odd' \in BOOLEAN /\ count' = Cardinality(items')
  <2>1. count' = Cardinality(items')
    BY <1>1, EmptyBadge
  <2>2. odd' \in BOOLEAN
    BY <1>1
  <2>3. items' \subseteq Courses /\ count' \in Int
    BY <1>1
  <2> QED
    BY <2>1, <2>2, <2>3
<1> QED
  BY <1>1, <1>2, <1>4, TypeClick

(* of those that load the cart,                                             *)
LEMMA TypeLoad ==
  ASSUME Typed, Staged, Clicks, LoggedIn, LoadCart, UNCHANGED <<user, items, count, odd>>,
         page' \in Pages, cartItems' \subseteq Courses, paying' \in Nat \cup {None}, hasty' \in BOOLEAN
  PROVE  Typed' /\ Staged'
<1>1. /\ loading' = TRUE /\ calls' \subseteq Call /\ IsFiniteSet(calls')
      /\ \E l : l.kind = "load" /\ l.user = user /\ l.at = "sent" /\ calls' = calls \cup {l}
  BY CartLoads
<1>2. \A c \in calls' \ calls : Proper(c)
  BY <1>1 DEF Proper
<1>3. /\ user' \in Users \cup {None} /\ items' \subseteq Courses /\ count' \in Int /\ odd' \in BOOLEAN
      /\ ~odd' => count' = Cardinality(items')
  BY DEF Typed, TypeOK, BadgeCounts
<1> QED
  BY <1>1, <1>2, <1>3, TypeClick

(* of those that send another call,                                         *)
LEMMA TypeSend ==
  ASSUME Typed, Staged, Clicks, LoggedIn, NEW k \in Kinds,
         NEW c \in Courses \cup {None},
         NEW S \in SUBSET Courses, Send(user, k, c, S), k # "checkout" => c # None,
         UNCHANGED <<user, copy, page, cartItems>>, paying' \in Nat \cup {None}, hasty' \in BOOLEAN
  PROVE  Typed' /\ Staged'
<1> DEFINE d == Sent(Id, user, k, c, S)
<1>1. user \in Users /\ TypeOK /\ IsFiniteSet(calls)
  BY DEF Typed, TypeOK, LoggedIn
<1>2. calls' \subseteq Call /\ IsFiniteSet(calls') /\ calls' = calls \cup {d}
  BY <1>1, SendType
<1>3. Proper(d)
  BY DEF Proper, Sent
<1>4. /\ user' \in Users \cup {None} /\ items' \subseteq Courses /\ count' \in Int /\ odd' \in BOOLEAN
      /\ ~odd' => count' = Cardinality(items')
      /\ loading' \in BOOLEAN /\ page' \in Pages /\ cartItems' \subseteq Courses
  BY DEF Typed, TypeOK, BadgeCounts, copy
<1>5. \A e \in calls' \ calls : Proper(e)
  BY <1>2, <1>3
<1> QED
  BY <1>2, <1>4, <1>5, TypeClick

(* of the backend,                                                          *)
LEMMA TypeServe ==
  ASSUME Typed, Staged, NEW c \in calls, Serve(c)
  PROVE  Typed' /\ Staged'
<1>1. /\ UNCHANGED <<user, copy, page, checkout, crossed, hasty, clicks, faults>>
      /\ c.user \in Users
  BY DEF Serve, Apart, Typed, TypeOK, Call
<1>2. surprised' \in BOOLEAN /\ raced' \in BOOLEAN
  BY DEF Serve, Refuse, Check, Charge, Change, Invalidate, GetCached, FindItems, SetCached, Race,
         backend, Typed, TypeOK
<1>3. /\ calls' \subseteq Call /\ IsFiniteSet(calls') /\ answers' \in Seq(Answer) /\ Staged'
      /\ cart' \in [Users -> SUBSET Courses] /\ cached' \in [Users -> {None} \cup SUBSET Courses]
  <2>1. /\ cart \in [Users -> SUBSET Courses] /\ cached \in [Users -> {None} \cup SUBSET Courses]
        /\ answers \in Seq(Answer)
    BY DEF Typed, TypeOK
  <2>2. ASSUME NEW d \in Call, Goto(c, d), Same(d, c), Proper(d),
               Goes(c, d) \/ Writes(c, d) \/ Clears(c, d)
        PROVE  <1>3
    <3>1. calls' \subseteq Call /\ IsFiniteSet(calls') /\ answers' = answers /\ Staged'
      BY <2>2, Gone
    <3>2. /\ cart' \in [Users -> SUBSET Courses]
          /\ cached' \in [Users -> {None} \cup SUBSET Courses]
      BY <1>1, <2>1, <2>2 DEF Goes, Writes, Clears
    <3> QED
      BY <2>1, <3>1, <3>2
  <2>3. ASSUME NEW ok \in BOOLEAN, NEW result \in SUBSET Courses, Replies(c, ok, result), cart' = cart,
               Refuses(c, ok) \/ TellsPaid(c, ok) \/ TellsCached(c, ok, result)
               \/ TellsRows(c, ok, result)
        PROVE  <1>3
    <3>1. /\ calls' \subseteq Call /\ IsFiniteSet(calls') /\ answers' \in Seq(Answer) /\ Staged'
      BY <2>3, Replied
    <3>2. cached' \in [Users -> {None} \cup SUBSET Courses]
      BY <1>1, <2>1, <2>3 DEF Refuses, TellsPaid, TellsCached, TellsRows
    <3> QED
      BY <2>1, <2>3, <3>1, <3>2
  <2> QED
    BY <2>2, <2>3, Steps
<1>4. TypeOK'
  BY <1>1, <1>2, <1>3 DEF Typed, TypeOK, copy, checkout
<1>5. BadgeCounts'
  BY <1>1 DEF Typed, BadgeCounts, copy
<1> QED
  BY <1>3, <1>4, <1>5 DEF Typed

(* of what goes wrong                                                       *)
LEMMA TypeFault ==
  ASSUME Typed, Staged, NEW c \in calls, Fail(c) \/ Hang(c)
  PROVE  Typed' /\ Staged'
<1>1. /\ UNCHANGED <<user, copy, page, checkout, crossed, hasty, clicks, cart, cached, surprised, raced>>
      /\ faults' \in 0..MaxFaults /\ c \in Call
  <2>1. /\ Apart /\ UNCHANGED backend /\ faults < MaxFaults /\ faults' = faults + 1
    BY DEF Fail, Hang
  <2>2. faults \in 0..MaxFaults /\ c \in Call
    BY DEF Typed, TypeOK
  <2>3. faults' \in 0..MaxFaults
    BY <2>1, <2>2, ConstantsAssumption
  <2> QED
    BY <2>1, <2>2, <2>3 DEF Apart, backend
<1>2. calls' \subseteq Call /\ IsFiniteSet(calls') /\ answers' \in Seq(Answer) /\ Staged'
  <2>1. CASE Fail(c)
    <3>1. Replies(c, FALSE, {}) /\ FALSE \in BOOLEAN /\ {} \in SUBSET Courses
      BY <2>1 DEF Fail
    <3> QED
      BY <3>1, Replied
  <2>2. CASE Hang(c)
    <3> DEFINE d == [c EXCEPT !.stuck = TRUE]
    <3>1. Goto(c, d) /\ d \in Call /\ Proper(d)
      BY <1>1, <2>2 DEF Hang, Call, Proper, Staged
    <3> HIDE DEF d
    <3> QED
      BY <3>1, Gone DEF Typed, TypeOK
  <2> QED
    BY <2>1, <2>2
<1>3. TypeOK'
  BY <1>1, <1>2 DEF Typed, TypeOK, copy, checkout
<1> QED
  BY <1>1, <1>2, <1>3 DEF Typed, BadgeCounts, copy

(* and of the taking of an answer.                                          *)
LEMMA TypeTake ==
  ASSUME Typed, Staged, NEW i \in 1..Len(answers), Take(i)
  PROVE  Typed' /\ Staged'
<1> DEFINE a == answers[i]
<1>1. /\ a \in Answer /\ answers' \in Seq(Answer)
      /\ a.result \in SUBSET Courses
      /\ a.ok \in BOOLEAN
  BY AnswerTaken DEF Answer
<1>2. /\ UNCHANGED <<user, backend, hasty, clicks, faults>> /\ crossed' \in BOOLEAN
      /\ Loaded(a) \/ Changed(a) \/ Bought(a) \/ CheckedOut(a) \/ Paid(a)
  BY DEF Take, Typed, TypeOK
<1> HIDE DEF a
<1>3. \A S \in SUBSET Courses : Hold(S) =>
        /\ items' \subseteq Courses /\ count' \in Int /\ odd' \in BOOLEAN
        /\ ~odd' => count' = Cardinality(items')
  <2> SUFFICES ASSUME NEW S \in SUBSET Courses, Hold(S)
               PROVE  /\ items' \subseteq Courses /\ count' \in Int /\ odd' \in BOOLEAN
                      /\ ~odd' => count' = Cardinality(items')
    OBVIOUS
  <2>1. items' = S /\ count' = Cardinality(S) /\ odd' = FALSE
    BY DEF Hold
  <2>2. Cardinality(S) \in Nat
    BY ItemsFinite
  <2>3. odd' \in BOOLEAN /\ count' = Cardinality(items')
    BY <2>1
  <2>4. items' \subseteq Courses /\ count' \in Int
    BY <2>1, <2>2
  <2> QED
    BY <2>3, <2>4
<1>4. Stay \/ Home \/ Turn("cart") \/ Release(a) =>
        page' \in Pages /\ cartItems' \subseteq Courses /\ paying' \in Nat \cup {None}
  <2>1. user = None \/ user # None
    OBVIOUS
  <2> QED
    BY DEF Stay, Home, Turn, Release, Typed, TypeOK, Pages, checkout
<1>5. /\ items' \subseteq Courses /\ count' \in Int /\ odd' \in BOOLEAN
      /\ ~odd' => count' = Cardinality(items')
  <2>1. CASE Keep \/ \E S \in SUBSET Courses : Hold(S)
    <3>1. CASE Keep
      BY <3>1 DEF Keep, Typed, TypeOK, BadgeCounts
    <3>2. ASSUME NEW S \in SUBSET Courses, Hold(S)
          PROVE  /\ items' \subseteq Courses /\ count' \in Int /\ odd' \in BOOLEAN
                 /\ ~odd' => count' = Cardinality(items')
      BY <1>3, <3>2
    <3> QED
      BY <2>1, <3>1, <3>2
  <2>2. CASE Loaded(a) \/ Changed(a) \/ Bought(a) \/ CheckedOut(a)
    <3>1. Keep \/ Hold(a.result) \/ Hold({})
      BY <2>2 DEF Loaded, Changed, Bought, CheckedOut
    <3>2. {} \in SUBSET Courses
      OBVIOUS
    <3> QED
      BY <1>1, <2>1, <3>1, <3>2
  <2>3. CASE Paid(a) /\ ~a.ok
    <3>1. Keep
      BY <2>3 DEF Paid
    <3> QED
      BY <2>1, <3>1
  <2>4. CASE Paid(a) /\ a.ok
    <3>1. /\ items' = items \ {a.course} /\ count' = count - 1
          /\ odd' = (odd \/ a.course \notin items)
      BY <2>4 DEF Paid
    <3>2. /\ items \subseteq Courses /\ count \in Int /\ odd \in BOOLEAN
          /\ (~odd => count = Cardinality(items))
      BY DEF Typed, TypeOK, BadgeCounts
    <3>3. IsFiniteSet(items)
      BY <3>2, ItemsFinite
    <3>4. Cardinality(items \ {a.course}) =
            IF a.course \in items THEN Cardinality(items) - 1 ELSE Cardinality(items)
      BY <3>3, FS_RemoveElement
    <3>5. odd' \in BOOLEAN /\ (~odd' => count' = Cardinality(items'))
      BY <3>1, <3>2, <3>4
    <3> QED
      BY <3>1, <3>2, <3>5
  <2> QED
    BY <1>2, <2>1, <2>2, <2>3, <2>4
<1>6. page' \in Pages /\ cartItems' \subseteq Courses /\ paying' \in Nat \cup {None}
  BY <1>2, <1>4 DEF Loaded, Changed, Bought, CheckedOut, Paid
<1>7. /\ loading' \in BOOLEAN /\ calls' \subseteq Call /\ IsFiniteSet(calls')
      /\ \A c \in calls' \ calls : Proper(c)
  <2>1. UNCHANGED calls =>
          /\ calls' \subseteq Call /\ IsFiniteSet(calls')
          /\ \A c \in calls' \ calls : Proper(c)
    BY DEF Typed, TypeOK
  <2>2. loading \in BOOLEAN
    BY DEF Typed, TypeOK
  <2>3. CASE Bought(a) /\ LoggedIn /\ LoadCart
    BY <2>3, CartLoads DEF Proper
  <2>4. CASE ~(Bought(a) /\ LoggedIn /\ LoadCart)
    BY <1>2, <2>1, <2>2, <2>4 DEF Loaded, Changed, Bought, CheckedOut, Paid
  <2> QED
    BY <2>3, <2>4
<1>8. TypeOK'
  BY <1>1, <1>2, <1>5, <1>6, <1>7 DEF Typed, TypeOK, backend
<1>9. Staged'
  BY <1>7 DEF Staged
<1> QED
  BY <1>5, <1>7, <1>8, <1>9 DEF Typed, BadgeCounts

(* Every step keeps Typed and Staged.                                        *)
LEMMA CartTypeNext ==
  ASSUME Typed, Staged, [Next]_vars
  PROVE  Typed' /\ Staged'
<1>1. ASSUME NEW u \in Users, LogIn(u) PROVE Typed' /\ Staged'
  BY <1>1, TypeSet DEF LogIn, Turn, Pages
<1>2. CASE LogOut
  BY <1>2, TypeSet DEF LogOut, Turn, Pages
<1>3. CASE Refresh
  BY <1>3, TypeSet DEF Refresh, checkout, Typed, TypeOK
<1>4. CASE OpenCourses
  <2>1. /\ Clicks /\ page' = "courses" /\ cartItems' = {} /\ paying' = None
        /\ UNCHANGED <<user, items, count, loading, odd, calls, hasty>>
    BY <1>4 DEF OpenCourses, Turn, copy
  <2> QED
    BY <2>1, TypeClick DEF Typed, TypeOK, Pages, BadgeCounts
<1>5. CASE OpenCart
  <2>1. /\ Clicks /\ LoggedIn /\ LoadCart /\ UNCHANGED <<user, items, count, odd>>
        /\ page' = "cart" /\ cartItems' = {} /\ paying' = None /\ hasty' = hasty
    BY <1>5 DEF OpenCart, Turn
  <2> QED
    BY <2>1, TypeLoad DEF Typed, TypeOK, Pages
<1>6. CASE OpenCheckout
  <2>1. /\ Clicks /\ LoggedIn /\ LoadCart /\ UNCHANGED <<user, items, count, odd>>
        /\ page' = "checkout" /\ cartItems' = items /\ paying' = None /\ hasty' \in BOOLEAN
    BY <1>6 DEF OpenCheckout, Typed, TypeOK
  <2> QED
    BY <2>1, TypeLoad DEF Typed, TypeOK, Pages
<1>7. CASE Pay
  <2>1. /\ Clicks /\ LoggedIn /\ paying' = Id
        /\ UNCHANGED <<user, copy, page, cartItems, hasty>>
    BY <1>7 DEF Pay
  <2>2. Id \in Nat /\ hasty' \in BOOLEAN
    BY <2>1, IdType DEF Typed, TypeOK
  <2>3. CASE page = "checkout"
    <3>1. /\ Send(user, "checkout", None, cartItems) /\ "checkout" \in Kinds
          /\ cartItems \in SUBSET Courses
      BY <1>7, <2>3 DEF Pay, Kinds, Typed, TypeOK
    <3> QED
      BY <2>1, <2>2, <3>1, TypeSend
  <2>4. CASE page # "checkout"
    <3>1. /\ Send(user, "pay", page, {page}) /\ "pay" \in Kinds /\ page \in Courses
          /\ page # None
      BY <1>7, <2>4, ConstantsAssumption DEF Pay, Sold, Kinds
    <3> QED
      BY <2>1, <2>2, <3>1, TypeSend
  <2> QED
    BY <2>3, <2>4
<1>8. ASSUME NEW c \in Courses, AddToCart(c) \/ BuyNow(c) \/ RemoveItem(c)
      PROVE  Typed' /\ Staged'
  <2>1. PICK k \in {"add", "buy", "remove"} : Changes(k, c)
    BY <1>8 DEF AddToCart, BuyNow, RemoveItem
  <2>2. /\ LoggedIn /\ Clicks /\ Send(user, k, c, {})
        /\ UNCHANGED <<user, copy, page, cartItems>>
        /\ hasty' \in BOOLEAN /\ paying' \in Nat \cup {None}
    BY <2>1 DEF Changes, checkout, Typed, TypeOK
  <2>3. k \in Kinds /\ {} \in SUBSET Courses /\ c # None
    BY ConstantsAssumption DEF Kinds
  <2> QED
    BY <2>2, <2>3, TypeSend
<1>9. ASSUME NEW c \in calls, Serve(c) PROVE Typed' /\ Staged'
  BY <1>9, TypeServe
<1>10. ASSUME NEW c \in calls, Fail(c) \/ Hang(c) PROVE Typed' /\ Staged'
  BY <1>10, TypeFault
<1>11. ASSUME NEW i \in DOMAIN answers, Take(i) PROVE Typed' /\ Staged'
  BY <1>11, TypeTake DEF Typed, TypeOK
<1>12. ASSUME NEW u \in Users, Lapse(u) PROVE Typed' /\ Staged'
  <2>1. UNCHANGED <<user, copy, page, checkout, crossed, hasty, clicks, calls, answers, cart, surprised,
                    raced, faults>>
    BY <1>12 DEF Lapse, Apart
  <2>2. cached' \in [Users -> {None} \cup SUBSET Courses]
    BY <1>12 DEF Lapse, Typed, TypeOK
  <2>3. TypeOK'
    BY <2>1, <2>2 DEF Typed, TypeOK, copy, checkout
  <2> QED
    BY <2>1, <2>3 DEF Typed, BadgeCounts, Staged, copy
<1>13. CASE UNCHANGED vars
  <2>1. TypeOK'
    BY <1>13 DEF Typed, TypeOK, vars, copy, checkout, backend
  <2>2. BadgeCounts' /\ Staged' /\ IsFiniteSet(calls')
    BY <1>13 DEF Typed, BadgeCounts, Staged, vars, copy
  <2> QED
    BY <2>1, <2>2 DEF Typed
<1> QED
  BY <1>1, <1>2, <1>3, <1>4, <1>5, <1>6, <1>7, <1>8, <1>9, <1>10, <1>11, <1>12, <1>13 DEF Next
-----------------------------------------------------------------------------
(* More calls excuse as much.                                               *)
LEMMA MirrorsMore ==
  ASSUME NEW S, NEW T, NEW C, NEW D, NEW u, NEW A, NEW B, C \subseteq D, A \subseteq B,
         Mirrors(S, T, C, u, A)
  PROVE  Mirrors(S, T, D, u, B)
  BY DEF Mirrors

(* CopyInv says more than CopyIsCart.                                       *)
LEMMA CopyMirrors ==
  ASSUME Typed, CopyInv
  PROVE  CopyIsCart
<1> SUFFICES ASSUME LoggedIn, Pending = {}, InTurn
             PROVE  items = cart[user]
  BY DEF CopyIsCart, InTurn
<1>1. /\ user \in Users /\ answers \in Seq(Answer) /\ Len(answers) \in Nat
      /\ cart[user] \in SUBSET Courses
  BY DEF Typed, TypeOK, LoggedIn
<1>2. calls = {} /\ \A i \in 1..Len(answers) : answers[i] \in Pending
  BY PendingIs DEF Typed
<1>3. Len(answers) = 0
  BY <1>1, <1>2
<1>4. ~LoadComes(user)
  BY <1>2 DEF LoadComes
<1>5. PICK b \in [0..0 -> SUBSET Courses] : Leads(user, b) /\ items = b[0]
  BY <1>1, <1>3, <1>4 DEF CopyInv, Follows
<1>6. Mirrors(b[0], cart[user], {}, user, Late) /\ b[0] \in SUBSET Courses
  BY <1>2, <1>3, <1>5 DEF Leads
<1>7. \A x \in Courses : x \in b[0] <=> x \in cart[user]
  BY <1>6 DEF Mirrors
<1> QED
  BY <1>1, <1>5, <1>6, <1>7

(* CopyInv holds at the start.                                              *)
LEMMA CopyInit ==
  ASSUME Init
  PROVE  CopyInv
<1>1. answers = <<>> /\ Len(answers) = 0 /\ cart \in [Users -> SUBSET Courses]
  BY DEF Init
<1>2. user # None => LoadComes(user)
  BY CartTypeInit DEF LoadComes
<1>3. ASSUME NEW u \in Users PROVE Follows(u)
  <2> DEFINE b == [j \in 0..0 |-> cart[u]]
  <2>1. b \in [0..0 -> SUBSET Courses] /\ b[0] = cart[u]
    BY <1>1
  <2>2. u = user => LoadComes(u)
    BY <1>2, ConstantsAssumption
  <2> HIDE DEF b
  <2>3. Leads(u, b)
    BY <1>1, <2>1 DEF Leads, Mirrors
  <2> QED
    BY <1>1, <2>1, <2>2, <2>3 DEF Follows
<1>4. ASSUME NEW u \in Users PROVE CacheInv(u)
  <2>1. PICK S \in SUBSET Users : cached = [v \in Users |-> IF v \in S THEN cart[v] ELSE None]
    BY DEF Init
  <2> QED
    BY <2>1 DEF CacheInv, Mirrors
<1> QED
  BY <1>1, <1>3, <1>4 DEF CopyInv

(* The user's steps, and the end of a key: the copy stays, or is loaded.    *)
LEMMA CopyClick ==
  ASSUME CopyInv, answers' = answers, cart' = cart, crossed' = crossed, faults' = faults,
         raced' = raced, calls \subseteq calls',
         \A u \in Users : cached'[u] \in {cached[u], None},
         \/ user' = user /\ items' = items
         \/ \E l \in calls' : l.kind = "load" /\ l.user = user'
         \/ user' \notin Users
  PROVE  CopyInv'
<1> SUFFICES ASSUME InTurn
             PROVE  /\ \A i \in 1..Len(answers) : answers[i].kind = "load" => answers[i].ok
                    /\ \A u \in Users : CacheInv(u)' /\ Follows(u)'
  BY DEF CopyInv, InTurn
<1>1. ASSUME NEW u \in Users PROVE Follows(u)'
  <2>1. PICK b \in [0..Len(answers) -> SUBSET Courses] :
               Leads(u, b) /\ (u = user => items = b[0] \/ LoadComes(u))
    BY DEF CopyInv, Follows
  <2>2. Leads(u, b)'
    <3>1. Mirrors(b[Len(answers)], cart[u], calls', u, Late)
      BY <2>1, MirrorsMore DEF Leads
    <3> QED
      BY <2>1, <3>1 DEF Leads
  <2>3. LoadComes(u) => LoadComes(u)'
    BY DEF LoadComes
  <2>4. u = user' => items' = b[0] \/ LoadComes(u)'
    <3>1. CASE user' = user /\ items' = items
      BY <2>1, <2>3, <3>1
    <3>2. CASE \E l \in calls' : l.kind = "load" /\ l.user = user'
      BY <3>2 DEF LoadComes
    <3> QED
      BY <3>1, <3>2
  <2> QED
    BY <2>1, <2>2, <2>4 DEF Follows
<1>2. ASSUME NEW u \in Users PROVE CacheInv(u)'
  <2>1. CacheInv(u) /\ cached'[u] \in {cached[u], None}
    BY DEF CopyInv
  <2>2. cached[u] # None => Mirrors(cached[u], cart[u], calls', u, {"changed"})
    BY <2>1, MirrorsMore DEF CacheInv
  <2> QED
    BY <2>1, <2>2 DEF CacheInv
<1> QED
  BY <1>1, <1>2 DEF CopyInv

(* A call goes on: what it has touched is excused until it is answered.     *)
LEMMA CopyGoes ==
  ASSUME Typed, Staged, CopyInv, NEW c \in calls, NEW d \in Call, Goto(c, d), Same(d, c),
         Goes(c, d) \/ Writes(c, d) \/ Clears(c, d),
         user' = user, items' = items, crossed' = crossed, faults' = faults
  PROVE  CopyInv'
<1>1. /\ raced' = raced /\ answers' = answers /\ calls' = (calls \ {c}) \cup {d} /\ c \in Call
      /\ c.user \in Users /\ cached \in [Users -> {None} \cup SUBSET Courses]
  BY DEF Goes, Writes, Clears, Goto, Typed, TypeOK, Call
<1> SUFFICES ASSUME InTurn
             PROVE  /\ \A i \in 1..Len(answers) : answers[i].kind = "load" => answers[i].ok
                    /\ \A u \in Users : CacheInv(u)' /\ Follows(u)'
  BY <1>1 DEF CopyInv, InTurn
<1>2. \A u \in Users, x \in Courses :
        (x \in cart[u] <=> x \in cart'[u]) \/ (u = c.user /\ d.at = "changed" /\ Touches(d, x))
  BY DEF Goes, Writes, Clears
<1>3. \A x : Touches(c, x) <=> Touches(d, x)
  BY DEF Touches, Same
<1>4. ASSUME NEW u \in Users, NEW S \in SUBSET Courses, NEW A, "changed" \in A,
             Mirrors(S, cart[u], calls, u, A), c.at \in A => d.at \in A
      PROVE  Mirrors(S, cart'[u], calls', u, A)
  <2> SUFFICES ASSUME NEW x \in Courses, ~(x \in S <=> x \in cart'[u])
               PROVE  \E e \in calls' : e.user = u /\ e.at \in A /\ Touches(e, x)
    BY DEF Mirrors
  <2>1. CASE u = c.user /\ d.at = "changed" /\ Touches(d, x)
    BY <1>1, <1>4, <2>1 DEF Same
  <2>2. CASE x \in cart[u] <=> x \in cart'[u]
    <3>1. PICK e \in calls : e.user = u /\ e.at \in A /\ Touches(e, x)
      BY <1>4, <2>2 DEF Mirrors
    <3>2. CASE e = c
      BY <1>1, <1>3, <1>4, <3>1, <3>2 DEF Same
    <3> QED
      BY <1>1, <3>1, <3>2
  <2> QED
    BY <1>2, <2>1, <2>2
<1>5. c.at \in Late => d.at \in Late
  BY DEF Goes, Writes, Clears, Late
<1>6. ASSUME NEW u \in Users PROVE CacheInv(u)'
  <2> SUFFICES ASSUME cached'[u] # None
               PROVE  Mirrors(cached'[u], cart'[u], calls', u, {"changed"})
    BY DEF CacheInv
  <2>1. CASE Clears(c, d)
    <3>1. c.user # u /\ cached'[u] = cached[u] /\ cart' = cart
      BY <1>1, <2>1 DEF Clears
    <3>2. Mirrors(cached[u], cart[u], calls, u, {"changed"})
      BY <3>1 DEF CopyInv, CacheInv
    <3> QED
      BY <1>1, <3>1, <3>2 DEF Mirrors
  <2>2. CASE Goes(c, d) \/ Writes(c, d)
    <3>1. cached'[u] = cached[u] /\ c.at # "changed" /\ cached[u] \in SUBSET Courses
      BY <1>1, <2>2 DEF Goes, Writes
    <3>2. Mirrors(cached[u], cart[u], calls, u, {"changed"})
      BY <3>1 DEF CopyInv, CacheInv
    <3> QED
      BY <1>4, <3>1, <3>2
  <2> QED
    BY <2>1, <2>2
<1>7. ASSUME NEW u \in Users PROVE Follows(u)'
  <2>1. PICK b \in [0..Len(answers) -> SUBSET Courses] :
               Leads(u, b) /\ (u = user => items = b[0] \/ LoadComes(u))
    BY DEF CopyInv, Follows
  <2>2. Leads(u, b)'
    <3>1. Len(answers) \in 0..Len(answers)
      BY DEF Typed, TypeOK
    <3>2. Mirrors(b[Len(answers)], cart'[u], calls', u, Late)
      BY <1>4, <1>5, <2>1, <3>1 DEF Leads, Late
    <3> QED
      BY <1>1, <2>1, <3>2 DEF Leads
  <2>3. LoadComes(u) => LoadComes(u)'
    BY <1>1 DEF LoadComes, Same
  <2> QED
    BY <1>1, <2>1, <2>2, <2>3 DEF Follows
<1> QED
  BY <1>6, <1>7 DEF CopyInv

(* A call answered: unless the cart has changed meanwhile, the answer leads *)
(* the copy to it, and so does the key.                                     *)
LEMMA CopyReplies ==
  ASSUME Typed, Staged, CopyInv, NEW c \in calls, NEW ok \in BOOLEAN, NEW result \in SUBSET Courses,
         Replies(c, ok, result), cart' = cart,
         \/ Refuses(c, ok) \/ TellsPaid(c, ok) \/ TellsCached(c, ok, result)
         \/ TellsRows(c, ok, result),
         user' = user, items' = items, crossed' = crossed, faults' = faults
  PROVE  CopyInv'
<1> DEFINE n == Len(answers)
<1>1. /\ c \in Call /\ c.user \in Users /\ c.kind \in Kinds /\ Proper(c) /\ n \in Nat
      /\ cart \in [Users -> SUBSET Courses] /\ cached \in [Users -> {None} \cup SUBSET Courses]
      /\ raced \in BOOLEAN
  BY DEF Typed, TypeOK, Call, Staged
<1>2. ~raced' => ~raced
  BY DEF Refuses, TellsPaid, TellsCached, TellsRows, Race
<1> SUFFICES ASSUME InTurn', InTurn
             PROVE  CopyInv'
  BY <1>2 DEF CopyInv, InTurn
<1>3. ~raced'
  BY DEF InTurn
<1>4. PICK a \in Answer :
        /\ calls' = calls \ {c} /\ Len(answers') = n + 1
        /\ \A i \in 1..n : answers'[i] = answers[i]
        /\ answers'[n + 1] = a /\ a.ok = ok /\ a.result = result
        /\ a.kind = c.kind /\ a.user = c.user /\ a.course = c.course
  BY Replied
<1>5. c.kind = "load" => ok
  BY DEF Refuses, TellsPaid, TellsCached, TellsRows
<1>6. ASSUME NEW u \in Users, NEW S, NEW A, Mirrors(S, cart[u], calls, u, A), u = c.user => c.at \notin A
      PROVE  Mirrors(S, cart[u], calls', u, A)
  BY <1>4, <1>6 DEF Mirrors
<1>7. ASSUME NEW u \in Users PROVE CacheInv(u)'
  <2> SUFFICES ASSUME cached'[u] # None
               PROVE  Mirrors(cached'[u], cart[u], calls', u, {"changed"})
    BY DEF CacheInv
  <2>1. CASE cached'[u] = cart[u]
    BY <2>1 DEF Mirrors
  <2>2. CASE cached'[u] = cached[u] /\ (u = c.user => c.at # "changed")
    <3>1. Mirrors(cached[u], cart[u], calls, u, {"changed"})
      BY <2>2 DEF CopyInv, CacheInv
    <3> QED
      BY <1>6, <2>2, <3>1
  <2>3. \/ cached'[u] = None \/ cached'[u] = cart[u]
        \/ cached'[u] = cached[u] /\ (u = c.user => c.at # "changed")
    BY <1>1, <1>3 DEF Refuses, TellsPaid, TellsCached, TellsRows, Race
  <2> QED
    BY <2>1, <2>2, <2>3
<1>8. ASSUME NEW u \in Users, NEW S \in SUBSET Courses, Mirrors(S, cart[u], calls, u, Late)
      PROVE  \E T \in SUBSET Courses : Turns(a, u, S, T) /\ Mirrors(T, cart[u], calls', u, Late)
  <2>1. CASE u # c.user \/ ~ok
    <3>1. u = c.user => c.at \notin Late
      BY <2>1 DEF Refuses, TellsPaid, TellsCached, TellsRows, Late
    <3> QED
      BY <1>4, <1>6, <1>8, <2>1, <3>1 DEF Turns
  <2>2. CASE u = c.user /\ ok /\ c.kind = "pay"
    <3>1. c.course \notin cart[u] /\ c.course \in Courses
      BY <1>1, <1>3, <2>2 DEF Refuses, TellsPaid, TellsCached, TellsRows, Race, Proper
    <3>2. Mirrors(S \ {c.course}, cart[u], calls', u, Late)
      <4> SUFFICES ASSUME NEW x \in Courses, ~(x \in S \ {c.course} <=> x \in cart[u])
                   PROVE  \E e \in calls' : e.user = u /\ e.at \in Late /\ Touches(e, x)
        BY DEF Mirrors
      <4>1. x # c.course /\ ~(x \in S <=> x \in cart[u])
        BY <3>1
      <4>2. ~Touches(c, x)
        BY <2>2, <4>1 DEF Touches
      <4> QED
        BY <1>4, <1>8, <4>1, <4>2 DEF Mirrors
    <3> QED
      BY <1>4, <2>2, <3>2 DEF Turns
  <2>3. CASE u = c.user /\ ok /\ c.kind = "checkout"
    <3>1. cart[u] = {}
      BY <1>1, <1>3, <2>3 DEF Refuses, TellsPaid, TellsCached, TellsRows, Race
    <3>2. Mirrors({}, cart[u], calls', u, Late)
      BY <3>1 DEF Mirrors
    <3> QED
      BY <1>4, <2>3, <3>2 DEF Turns
  <2>4. CASE u = c.user /\ ok /\ c.kind \notin {"pay", "checkout"}
    <3>1. Turns(a, u, S, result)
      BY <1>4, <2>4 DEF Turns
    <3>2. Mirrors(result, cart[u], calls', u, Late)
      <4>1. CASE result = cart[u]
        BY <4>1 DEF Mirrors
      <4>2. CASE TellsCached(c, ok, result)
        <5>1. /\ Mirrors(result, cart[u], calls, u, {"changed"}) /\ c.at # "changed"
          BY <2>4, <4>2 DEF CopyInv, CacheInv, TellsCached
        <5>2. Mirrors(result, cart[u], calls', u, {"changed"})
          BY <1>6, <5>1
        <5> QED
          BY <5>2, MirrorsMore DEF Late
      <4> QED
        BY <1>3, <2>4, <4>1, <4>2 DEF Refuses, TellsPaid, TellsRows, Race
    <3> QED
      BY <3>1, <3>2
  <2> QED
    BY <2>1, <2>2, <2>3, <2>4
<1>9. ASSUME NEW i \in 1..n + 1, answers'[i].kind = "load" PROVE answers'[i].ok
  <2>1. CASE i = n + 1
    BY <1>4, <1>5, <1>9, <2>1
  <2>2. CASE i \in 1..n
    BY <1>4, <1>9, <2>2 DEF CopyInv
  <2> QED
    BY <1>1, <2>1, <2>2
<1>10. ASSUME NEW u \in Users PROVE Follows(u)'
  <2>1. PICK b \in [0..n -> SUBSET Courses] :
               Leads(u, b) /\ (u = user => items = b[0] \/ LoadComes(u))
    BY DEF CopyInv, Follows
  <2>2. PICK T \in SUBSET Courses : Turns(a, u, b[n], T) /\ Mirrors(T, cart[u], calls', u, Late)
    <3>1. b[n] \in SUBSET Courses /\ Mirrors(b[n], cart[u], calls, u, Late)
      BY <1>1, <2>1 DEF Leads
    <3> QED
      BY <1>8, <3>1
  <2>3. PICK d \in [0..n + 1 -> SUBSET Courses] :
               d[n + 1] = T /\ \A j \in 0..n : d[j] = b[j]
    <3> DEFINE e == [j \in 0..n + 1 |-> IF j = n + 1 THEN T ELSE b[j]]
    <3>1. /\ e \in [0..n + 1 -> SUBSET Courses] /\ e[n + 1] = T
          /\ \A j \in 0..n : e[j] = b[j]
      BY <1>1, <2>2
    <3> HIDE DEF e
    <3> QED
      BY <3>1
  <2>4. \A i \in 1..n + 1 : Turns(answers'[i], u, d[i - 1], d[i])
    <3> TAKE i \in 1..n + 1
    <3>1. CASE i = n + 1
      <4>1. i - 1 = n /\ d[n] = b[n]
        BY <1>1, <2>3, <3>1
      <4> QED
        BY <1>4, <2>2, <2>3, <3>1, <4>1
    <3>2. CASE i \in 1..n
      <4>1. i - 1 \in 0..n /\ i \in 0..n
        BY <1>1, <3>2
      <4>2. Turns(answers[i], u, b[i - 1], b[i])
        BY <2>1, <3>2 DEF Leads
      <4> QED
        BY <1>4, <2>3, <3>2, <4>1, <4>2
    <3> QED
      BY <1>1, <3>1, <3>2
  <2>5. Leads(u, d)'
    <3>1. /\ Mirrors(d[Len(answers')], cart'[u], calls', u, Late)
          /\ \A i \in 1..Len(answers') : Turns(answers'[i], u, d[i - 1], d[i])
      BY <1>4, <2>2, <2>3, <2>4
    <3> QED
      BY <3>1 DEF Leads
  <2>6. LoadComes(u) => LoadComes(u)'
    <3>1. CASE \E l \in calls \ {c} : l.kind = "load" /\ l.user = u
      BY <1>4, <3>1 DEF LoadComes
    <3>2. CASE c.kind = "load" /\ c.user = u
      <4>1. answers'[n + 1].ok /\ answers'[n + 1].kind = "load" /\ answers'[n + 1].user = u
        BY <1>4, <1>5, <3>2
      <4>2. n + 1 \in 1..Len(answers')
        BY <1>1, <1>4
      <4> QED
        BY <4>1, <4>2 DEF LoadComes
    <3>3. ASSUME NEW i \in 1..n, answers[i].ok, answers[i].kind = "load", answers[i].user = u
          PROVE  LoadComes(u)'
      <4>1. i \in 1..Len(answers') /\ answers'[i] = answers[i]
        BY <1>1, <1>4
      <4> QED
        BY <3>3, <4>1 DEF LoadComes
    <3> QED
      BY <3>1, <3>2, <3>3 DEF LoadComes
  <2>7. u = user' => items' = d[0] \/ LoadComes(u)'
    BY <1>1, <2>1, <2>3, <2>6
  <2>8. d \in [0..Len(answers') -> SUBSET Courses]
    BY <1>4, <2>3
  <2> QED
    BY <2>5, <2>7, <2>8 DEF Follows
<1> QED
  BY <1>4, <1>7, <1>9, <1>10 DEF CopyInv

(* A step of the backend keeps CopyInv.                                     *)
LEMMA CopyServe ==
  ASSUME Typed, Staged, CopyInv, NEW c \in calls, Serve(c)
  PROVE  CopyInv'
<1>1. user' = user /\ items' = items /\ crossed' = crossed /\ faults' = faults
  BY DEF Serve, Apart, copy
<1> QED
  BY <1>1, Steps, CopyGoes, CopyReplies

(* An answer taken in turn moves the copy by one.                           *)
LEMMA CopyTake ==
  ASSUME Typed, CopyInv, NEW k \in 1..Len(answers), Take(k)
  PROVE  CopyInv'
<1> DEFINE n == Len(answers)
           a == answers[1]
<1> SUFFICES ASSUME InTurn'
             PROVE  /\ \A i \in 1..Len(answers') : answers'[i].kind = "load" => answers'[i].ok
                    /\ \A u \in Users : CacheInv(u)' /\ Follows(u)'
  BY DEF CopyInv
<1>1. /\ faults' = faults /\ cart' = cart /\ cached' = cached /\ raced' = raced
      /\ user' = user /\ n \in Nat
      /\ crossed' = (crossed \/ k > 1 \/ answers[k].user # user)
  BY DEF Take, backend, Typed, TypeOK
<1>2. InTurn /\ k = 1 /\ a.user = user
  <2>1. InTurn /\ ~(k > 1) /\ ~(answers[k].user # user)
    BY <1>1 DEF InTurn
  <2>2. k = 1
    BY <2>1
  <2> QED
    BY <2>1, <2>2
<1>3. /\ Len(answers') = n - 1 /\ n >= 1
      /\ \A j \in 1..n - 1 : answers'[j] = answers[j + 1]
      /\ a.user \in Users /\ a.kind \in Kinds /\ a.ok \in BOOLEAN
  <2>1. /\ Len(answers') = n - 1 /\ a \in Answer
        /\ \A j \in 1..n - 1 : answers'[j] = answers[IF j < 1 THEN j ELSE j + 1]
    BY <1>2, AnswerTaken
  <2>2. n >= 1 /\ \A j \in 1..n - 1 : ~(j < 1)
    BY <1>1, <1>2
  <2> QED
    BY <2>1, <2>2 DEF Answer
<1>4. /\ a.kind = "load" => a.ok
      /\ Loaded(a) \/ Changed(a) \/ Bought(a) \/ CheckedOut(a) \/ Paid(a)
  BY <1>2 DEF Take, CopyInv
<1>5. calls \subseteq calls'
  <2>1. LoadCart => calls \subseteq calls'
    BY DEF LoadCart, Send
  <2> QED
    BY <1>4, <2>1 DEF Loaded, Changed, Bought, CheckedOut, Paid
<1>6. ASSUME NEW i \in 1..Len(answers'), answers'[i].kind = "load" PROVE answers'[i].ok
  BY <1>1, <1>2, <1>3, <1>6 DEF CopyInv
<1>7. ASSUME NEW S, NEW T, Turns(a, user, S, T), items = S \/ LoadComes(user)
      PROVE  items' = T \/ LoadComes(user)'
  <2>1. CASE a.ok /\ a.kind \in {"load", "add", "remove", "buy"}
    <3>1. items' = a.result
      BY <1>4, <2>1 DEF Loaded, Changed, Bought, CheckedOut, Paid,
             Hold
    <3> QED
      BY <1>2, <1>7, <2>1, <3>1 DEF Turns
  <2>2. CASE a.ok /\ a.kind = "checkout"
    <3>1. items' = {}
      BY <1>4, <2>2 DEF Loaded, Changed, Bought, CheckedOut, Paid,
             Hold
    <3> QED
      BY <1>2, <1>7, <2>2, <3>1 DEF Turns
  <2>3. ASSUME LoadComes(user), ~(a.kind = "load")
        PROVE  LoadComes(user)'
    <3>1. CASE \E l \in calls : l.kind = "load" /\ l.user = user
      BY <1>1, <1>5, <3>1 DEF LoadComes
    <3>2. ASSUME NEW i \in 1..n, answers[i].ok, answers[i].kind = "load",
                 answers[i].user = user
          PROVE  LoadComes(user)'
      <4>1. i - 1 \in 1..n - 1 /\ (i - 1) + 1 = i
        BY <1>1, <2>3, <3>2
      <4>2. answers'[i - 1] = answers[i] /\ i - 1 \in 1..Len(answers')
        BY <1>3, <4>1
      <4> QED
        BY <1>1, <3>2, <4>2 DEF LoadComes
    <3> QED
      BY <2>3, <3>1, <3>2 DEF LoadComes
  <2>4. CASE a.ok /\ a.kind = "pay"
    <3>1. items' = items \ {a.course}
      BY <1>4, <2>4 DEF Loaded, Changed, Bought, CheckedOut, Paid
    <3>2. T = S \ {a.course}
      BY <1>2, <1>7, <2>4 DEF Turns
    <3> QED
      BY <1>7, <2>3, <2>4, <3>1, <3>2
  <2>5. CASE ~a.ok
    <3>1. items' = items /\ T = S /\ a.kind # "load"
      BY <1>4, <1>7, <2>5 DEF Loaded, Changed, Bought, CheckedOut,
             Paid, Keep, Turns
    <3> QED
      BY <1>7, <2>3, <3>1
  <2> QED
    BY <1>3, <2>1, <2>2, <2>4, <2>5 DEF Kinds
<1>8. ASSUME NEW u \in Users PROVE Follows(u)'
  <2>1. PICK b \in [0..n -> SUBSET Courses] :
               Leads(u, b) /\ (u = user => items = b[0] \/ LoadComes(u))
    BY <1>2 DEF CopyInv, Follows
  <2>2. PICK d \in [0..n - 1 -> SUBSET Courses] : \A j \in 0..n - 1 : d[j] = b[j + 1]
    <3> DEFINE e == [j \in 0..n - 1 |-> b[j + 1]]
    <3>1. e \in [0..n - 1 -> SUBSET Courses] /\ \A j \in 0..n - 1 : e[j] = b[j + 1]
      BY <1>1
    <3> HIDE DEF e
    <3> QED
      BY <3>1
  <2>3. /\ Mirrors(b[n], cart[u], calls', u, Late)
        /\ \A i \in 1..n : Turns(answers[i], u, b[i - 1], b[i])
    BY <1>5, <2>1, MirrorsMore DEF Leads
  <2>4. d[n - 1] = b[n] /\ d[0] = b[1] /\ Turns(a, u, b[0], b[1])
    <3>1. n - 1 \in 0..n - 1 /\ (n - 1) + 1 = n /\ 0 \in 0..n - 1 /\ 1 \in 1..n
      BY <1>1, <1>3
    <3> QED
      BY <2>2, <2>3, <3>1
  <2>5. \A i \in 1..n - 1 : Turns(answers'[i], u, d[i - 1], d[i])
    <3> TAKE i \in 1..n - 1
    <3>1. i - 1 \in 0..n - 1 /\ i \in 0..n - 1 /\ i + 1 \in 1..n /\ (i - 1) + 1 = i /\ (i + 1) - 1 = i
      BY <1>1
    <3>2. d[i - 1] = b[i] /\ d[i] = b[i + 1] /\ answers'[i] = answers[i + 1]
      BY <1>3, <2>2, <3>1
    <3> QED
      BY <2>3, <3>1, <3>2
  <2>6. Leads(u, d)'
    <3>1. /\ Mirrors(d[Len(answers')], cart'[u], calls', u, Late)
          /\ \A i \in 1..Len(answers') : Turns(answers'[i], u, d[i - 1], d[i])
      BY <1>1, <1>3, <2>3, <2>4, <2>5
    <3> QED
      BY <3>1 DEF Leads
  <2>7. u = user' => items' = d[0] \/ LoadComes(u)'
    BY <1>1, <1>7, <2>1, <2>4
  <2>8. d \in [0..Len(answers') -> SUBSET Courses]
    BY <1>3, <2>2
  <2> QED
    BY <2>6, <2>7, <2>8 DEF Follows
<1>9. ASSUME NEW u \in Users PROVE CacheInv(u)'
  <2>1. CacheInv(u)
    BY <1>2 DEF CopyInv
  <2>2. cached[u] # None => Mirrors(cached[u], cart[u], calls', u, {"changed"})
    BY <1>5, <2>1, MirrorsMore DEF CacheInv
  <2> QED
    BY <1>1, <2>2 DEF CacheInv
<1> QED
  BY <1>6, <1>8, <1>9
-----------------------------------------------------------------------------
ChargeParts == PagesInv /\ CheckoutInv /\ ChargeInv /\ ChargedIsShown

(* ChargeParts holds at the start.                                          *)
LEMMA ChargeInit ==
  ASSUME Init
  PROVE  ChargeParts
<1>1. /\ cartItems = {} /\ surprised = FALSE /\ answers = <<>>
      /\ \A c \in calls : c.kind = "load"
  BY CartTypeInit DEF Init
<1>2. \A c \in Pending : c.kind = "load"
  <2>1. ToSet(answers) = {}
    BY <1>1 DEF ToSet
  <2> QED
    BY <1>1, <2>1 DEF Pending
<1> QED
  BY <1>1, <1>2 DEF ChargeParts, PagesInv, CheckoutInv, ChargeInv, ChargedIsShown

(* A step of the user that sends a load, or nothing.                        *)
LEMMA ChargeLoads ==
  ASSUME Typed, ChargeParts, answers' = answers, cart' = cart, crossed' = crossed, faults' = faults, raced' = raced,
         surprised' = surprised, hasty => hasty',
         calls \subseteq calls', \A c \in calls' \ calls : c.kind = "load",
         page' \in Courses => page' = page,
         InTurn /\ ~hasty' /\ page' = "checkout" /\ cartItems' # {} =>
           \/ page = "checkout" /\ UNCHANGED <<user, cartItems, paying>>
           \/ Pending = {} /\ cartItems' = cart[user'] /\ paying' = None /\ user' # None
  PROVE  ChargeParts'
<1>1. InTurn' => InTurn
  BY DEF InTurn
<1>2. \A c \in Pending' : c \in Pending \/ c.kind = "load"
  BY DEF Pending
<1>3. PagesInv'
  BY <1>1, <1>2 DEF ChargeParts, PagesInv
<1>4. ChargeInv'
  BY <1>1 DEF ChargeParts, ChargeInv
<1>5. ChargedIsShown'
  BY DEF ChargeParts, ChargedIsShown
<1>6. CheckoutInv'
  <2> SUFFICES ASSUME InTurn', ~hasty', page' = "checkout", cartItems' # {}
               PROVE  (LoggedIn /\ (Quiet \/ Asked \/ ToldPaid))'
    BY DEF CheckoutInv
  <2>1. CASE page = "checkout" /\ UNCHANGED <<user, cartItems, paying>>
    <3>1. LoggedIn /\ (Quiet \/ Asked \/ ToldPaid)
      BY <1>1, <2>1 DEF ChargeParts, CheckoutInv
    <3>2. Quiet => Quiet'
      BY <2>1 DEF Quiet, Loads, LaterLoads
    <3>3. Asked => Asked'
      BY <2>1 DEF Asked, Loads, LaterLoads
    <3>4. ToldPaid => ToldPaid'
      BY <2>1 DEF ToldPaid, Loads, LaterLoads
    <3> QED
      BY <2>1, <3>1, <3>2, <3>3, <3>4 DEF LoggedIn
  <2>2. CASE Pending = {} /\ cartItems' = cart[user'] /\ paying' = None /\ user' # None
    <3>1. calls = {} /\ \A i \in 1..Len(answers) : FALSE
      BY <2>2, PendingIs DEF Typed
    <3>2. Quiet'
      BY <2>2, <3>1 DEF Quiet, Loads, LaterLoads
    <3> QED
      BY <2>2, <3>2 DEF LoggedIn
  <2> QED
    BY <1>1, <2>1, <2>2
<1> QED
  BY <1>3, <1>4, <1>5, <1>6 DEF ChargeParts

(* A step of the user that changes the cart.                                *)
LEMMA ChargeChanges ==
  ASSUME Typed, ChargeParts, NEW k \in {"add", "buy", "remove"}, NEW c \in Courses,
         Changes(k, c), page \in {"courses", "cart"}
  PROVE  ChargeParts'
<1>1. /\ answers' = answers /\ cart' = cart /\ crossed' = crossed /\ faults' = faults /\ raced' = raced
      /\ surprised' = surprised /\ page' = page /\ user \in Users
      /\ hasty' = (hasty \/ \E d \in Pending : d.kind = "checkout")
  BY DEF Changes, Clicks, backend, LoggedIn, Typed, TypeOK
<1>2. page' \notin Courses /\ page' # "checkout"
  BY <1>1, ConstantsAssumption
<1>3. PagesInv' /\ CheckoutInv'
  BY <1>2 DEF PagesInv, CheckoutInv
<1>4. ChargedIsShown'
  BY <1>1 DEF ChargeParts, ChargedIsShown
<1>5. ChargeInv'
  <2> SUFFICES ASSUME ~hasty'
               PROVE  \A d \in calls' : d.kind # "checkout"
    BY DEF ChargeInv
  <2>1. \A d \in calls : d.kind # "checkout"
    BY <1>1 DEF Pending
  <2>2. \A d \in calls' \ calls : d.kind = k
    BY DEF Changes, Send
  <2> QED
    BY <2>1, <2>2
<1> QED
  BY <1>3, <1>4, <1>5 DEF ChargeParts

(* The click on the button that pays keeps ChargeParts.                     *)
LEMMA ChargePay ==
  ASSUME Typed, ChargeParts, Pay
  PROVE  ChargeParts'
<1>1. /\ answers' = answers /\ cart' = cart /\ crossed' = crossed /\ faults' = faults /\ raced' = raced
      /\ surprised' = surprised /\ page' = page /\ user \in Users /\ hasty' = hasty
      /\ user' = user /\ cartItems' = cartItems /\ paying = None /\ paying' = Id /\ Sold
  BY DEF Pay, Clicks, backend, LoggedIn, Typed, TypeOK
<1>2. InTurn' => InTurn
  BY <1>1 DEF InTurn
<1>3. ChargedIsShown'
  BY <1>1 DEF ChargeParts, ChargedIsShown
<1>4. CASE page = "checkout"
  <2> DEFINE d == Sent(Id, user, "checkout", None, cartItems)
  <2>1. calls' = calls \cup {d} /\ cartItems # {} /\ page \notin Courses
    BY <1>1, <1>4, ConstantsAssumption DEF Pay, Send, Sold, Sent
  <2>2. /\ d.kind = "checkout" /\ d.id = paying' /\ d.order = cartItems /\ d.user = user
        /\ d.at = "sent"
    BY <1>1 DEF Sent
  <2> HIDE DEF d
  <2>3. PagesInv'
    BY <1>1, <2>1 DEF PagesInv
  <2>4. Id \in Nat /\ Id # None
    BY IdType, ConstantsAssumption DEF Typed
  <2>5. InTurn /\ ~hasty => LoggedIn /\ Quiet
    <3>1. ~Asked
      BY <1>1, ConstantsAssumption DEF Asked, Typed, TypeOK, Call
    <3>2. \A i \in 1..Len(answers) : answers[i].id \in Nat
      <4>1. \A i \in 1..Len(answers) : answers[i] \in Answer
        BY DEF Typed, TypeOK
      <4> QED
        BY <4>1 DEF Answer
    <3>3. ~ToldPaid
      BY <1>1, <3>2, ConstantsAssumption DEF ToldPaid
    <3> QED
      BY <1>4, <2>1, <3>1, <3>3 DEF ChargeParts, CheckoutInv
  <2>6. CheckoutInv'
    <3> SUFFICES ASSUME InTurn, ~hasty
                 PROVE  LoggedIn' /\ Asked'
      BY <1>1, <1>2 DEF CheckoutInv
    <3>1. Loads(calls' \ {d}) /\ LaterLoads(0)' /\ cartItems' = cart'[user'] /\ d \in calls'
      BY <1>1, <2>1, <2>5 DEF Quiet, Loads, LaterLoads
    <3>2. LoggedIn'
      BY <1>1, <2>5 DEF LoggedIn
    <3> QED
      BY <2>2, <3>1, <3>2 DEF Asked, Loads
  <2>7. ChargeInv'
    <3> SUFFICES ASSUME InTurn, ~hasty, NEW e \in calls', e.kind = "checkout"
                 PROVE  /\ e.at = "sent" => e.order = cart'[e.user]
                        /\ e.at = "checked" => e.order = e.rows
                        /\ \A f \in calls' \ {e} : f.user = e.user => f.kind = "load"
      BY <1>1, <1>2 DEF ChargeInv
    <3>1. e = d /\ \A f \in calls : f.kind = "load"
      BY <2>1, <2>5 DEF Quiet, Loads
    <3> QED
      BY <1>1, <2>1, <2>2, <2>5, <3>1 DEF Quiet
  <2> QED
    BY <1>3, <2>3, <2>6, <2>7 DEF ChargeParts
<1>5. CASE page # "checkout"
  <2>1. page \in Courses /\ \A d \in calls' \ calls : d.kind = "pay"
    BY <1>1, <1>5 DEF Pay, Send, Sold
  <2>2. CheckoutInv'
    BY <1>1, <1>5 DEF CheckoutInv
  <2>3. PagesInv'
    <3>1. \A d \in Pending' : d \in Pending \/ d.kind = "pay"
      BY <1>1, <2>1 DEF Pending
    <3> QED
      BY <1>1, <1>2, <3>1 DEF ChargeParts, PagesInv
  <2>4. ChargeInv'
    <3>1. InTurn' /\ ~hasty' => \A d \in calls' : d.kind # "checkout"
      BY <1>1, <1>2, <2>1 DEF ChargeParts, PagesInv, Pending
    <3> QED
      BY <3>1 DEF ChargeInv
  <2> QED
    BY <1>3, <2>2, <2>3, <2>4 DEF ChargeParts
<1> QED
  BY <1>4, <1>5

(* What is pending behind a step of the backend has a kind that it had.     *)
LEMMA PendingKinds ==
  ASSUME Typed, Staged, NEW c \in calls, Serve(c)
  PROVE  \A e \in Pending' : \E d \in Pending : d.kind = e.kind
<1>1. calls \subseteq Pending /\ \A i \in 1..Len(answers) : answers[i] \in Pending
  BY PendingIs DEF Typed
<1>2. ASSUME NEW d \in Call, Goto(c, d), Same(d, c)
      PROVE  \A e \in Pending' : \E f \in Pending : f.kind = e.kind
  <2>1. Pending' = ((calls \ {c}) \cup {d}) \cup ToSet(answers)
    BY <1>2 DEF Goto, Pending
  <2> QED
    BY <1>1, <1>2, <2>1 DEF Same, Pending
<1>3. ASSUME NEW ok \in BOOLEAN, NEW result \in SUBSET Courses, Replies(c, ok, result)
      PROVE  \A e \in Pending' : \E f \in Pending : f.kind = e.kind
  <2>1. PICK a \in Answer :
          /\ calls' = calls \ {c} /\ Len(answers') = Len(answers) + 1 /\ answers' \in Seq(Answer)
          /\ \A i \in 1..Len(answers) : answers'[i] = answers[i]
          /\ answers'[Len(answers) + 1] = a /\ a.kind = c.kind
    BY <1>3, Replied
  <2>2. Pending' = calls' \cup {answers'[i] : i \in 1..Len(answers')}
    BY <2>1 DEF Pending, ToSet
  <2>3. \A i \in 1..Len(answers') : i = Len(answers) + 1 \/ i \in 1..Len(answers)
    BY <2>1 DEF Typed, TypeOK
  <2>4. ASSUME NEW e \in Pending' PROVE \E f \in Pending : f.kind = e.kind
    <3>1. CASE e \in calls'
      BY <1>1, <2>1, <3>1
    <3>2. ASSUME NEW i \in 1..Len(answers'), e = answers'[i] PROVE \E f \in Pending : f.kind = e.kind
      BY <1>1, <2>1, <2>3, <3>2
    <3> QED
      BY <2>2, <3>1, <3>2
  <2> QED
    BY <2>4
<1> QED
  BY <1>2, <1>3, Steps

(* What a step of the backend does to a charge.                             *)
LEMMA ChargeIs ==
  ASSUME Typed, NEW c \in calls, Serve(c)
  PROVE  /\ surprised' =>
              surprised \/ (c.kind = "checkout" /\ c.at = "checked" /\ c.rows # c.order)
         /\ ~raced' => ~raced
         /\ c.kind = "load" => cart' = cart
<1>1. CASE UNCHANGED backend
  BY <1>1 DEF backend
<1>2. CASE Charge(c)
  <2>1. /\ c.at = "checked" /\ UNCHANGED <<cart, cached, raced>>
        /\ surprised' = (surprised \/ (c.kind = "checkout" /\ c.rows # c.order))
    BY <1>2 DEF Charge
  <2> QED
    BY <2>1
<1>3. CASE Change(c)
  BY <1>3 DEF Change
<1>4. CASE Invalidate(c)
  BY <1>4 DEF Invalidate, Race
<1>5. CASE SetCached(c)
  BY <1>5 DEF SetCached, Race
<1>6. Refuse(c) \/ Check(c) \/ GetCached(c) \/ FindItems(c) => UNCHANGED backend
  BY DEF Refuse, Check, GetCached, FindItems
<1> QED
  BY <1>1, <1>2, <1>3, <1>4, <1>5, <1>6 DEF Serve

(* A call goes on: until it charges, a checkout's order is the cart.        *)
LEMMA ChargeGoes ==
  ASSUME Typed, Staged, ChargeParts, NEW c \in calls, Serve(c), NEW d \in Call,
         Goto(c, d), Same(d, c), Goes(c, d) \/ Writes(c, d) \/ Clears(c, d),
         UNCHANGED <<user, page, cartItems, paying, crossed, hasty, faults, raced>>
  PROVE  CheckoutInv' /\ ChargeInv'
<1>1. calls' = (calls \ {c}) \cup {d} /\ answers' = answers /\ c.user \in Users /\ c \in Call
  BY DEF Goto, Typed, TypeOK, Call
<1>2. /\ d.at = "checked" => c.at = "sent" /\ (c.kind = "checkout" => d.rows = cart[c.user])
      /\ d.at = "charged" => c.at = "checked"
      /\ d.at # "sent"
      /\ d.at \in {"checked", "charged"} => cart' = cart
  BY DEF Goes, Writes, Clears
<1>3. c.kind = "load" => cart' = cart
  BY ChargeIs
<1>4. cart \in [Users -> SUBSET Courses] /\ \A u \in Users : u # c.user => cart'[u] = cart[u]
  <2>1. cart \in [Users -> SUBSET Courses]
    BY DEF Typed, TypeOK
  <2>2. CASE cart' = cart
    BY <2>1, <2>2
  <2>3. CASE Writes(c, d)
    <3>1. /\ cart' \in [Users -> SUBSET Courses]
          /\ \A u \in Users, x \in Courses : u # c.user => (x \in cart[u] <=> x \in cart'[u])
      BY <2>3 DEF Writes
    <3>2. ASSUME NEW u \in Users, u # c.user PROVE cart'[u] = cart[u]
      <4>1. cart[u] \subseteq Courses /\ cart'[u] \subseteq Courses
        BY <2>1, <3>1
      <4>2. \A x \in Courses : x \in cart[u] <=> x \in cart'[u]
        BY <3>1, <3>2
      <4> QED
        BY <4>1, <4>2
    <3> QED
      BY <2>1, <3>2
  <2> QED
    BY <2>2, <2>3 DEF Goes, Clears
<1>5. ChargeInv'
  <2> SUFFICES ASSUME InTurn, ~hasty, NEW e \in calls', e.kind = "checkout"
               PROVE  /\ e.at = "sent" => e.order = cart'[e.user]
                      /\ e.at = "checked" => e.order = e.rows
                      /\ \A f \in calls' \ {e} : f.user = e.user => f.kind = "load"
    BY DEF ChargeInv, InTurn
  <2>1. \A f \in calls : f.kind = "checkout" =>
          /\ f.at = "sent" => f.order = cart[f.user]
          /\ f.at = "checked" => f.order = f.rows
          /\ \A g \in calls \ {f} : g.user = f.user => g.kind = "load"
    BY DEF ChargeParts, ChargeInv
  <2>2. CASE e = d
    <3>1. c.kind = "checkout" /\ e.user = c.user /\ e.order = c.order
      BY <2>2 DEF Same
    <3>2. \A f \in calls \ {c} : f.user = c.user => f.kind = "load"
      BY <2>1, <3>1
    <3>3. e.at = "checked" => e.order = e.rows
      BY <1>2, <2>1, <2>2, <3>1
    <3> QED
      BY <1>1, <1>2, <2>2, <3>1, <3>2, <3>3
  <2>3. CASE e \in calls \ {c}
    <3>1. /\ e.at = "sent" => e.order = cart[e.user]
          /\ e.at = "checked" => e.order = e.rows
          /\ \A g \in calls \ {e} : g.user = e.user => g.kind = "load"
      BY <2>1, <2>3
    <3>2. c.user = e.user => c.kind = "load"
      BY <2>3, <3>1
    <3>3. cart'[e.user] = cart[e.user]
      BY <1>3, <1>4, <2>3, <3>2 DEF Typed, TypeOK, Call
    <3> QED
      BY <1>1, <3>1, <3>2, <3>3 DEF Same
  <2> QED
    BY <1>1, <2>2, <2>3
<1>6. CheckoutInv'
  <2> SUFFICES ASSUME InTurn, ~hasty, page = "checkout", cartItems # {}
               PROVE  (LoggedIn /\ (Quiet \/ Asked \/ ToldPaid))'
    BY DEF CheckoutInv, InTurn
  <2>1. LoggedIn' /\ (Quiet \/ Asked \/ ToldPaid)
    BY DEF ChargeParts, CheckoutInv, LoggedIn
  <2>2. \A C : Loads(C) /\ c \in C => d.kind = "load" /\ c.kind = "load"
    BY DEF Loads, Same
  <2>3. \A i : LaterLoads(i) => LaterLoads(i)'
    BY <1>1 DEF LaterLoads
  <2>4. CASE Quiet
    <3>1. Loads(calls') /\ cart' = cart
      BY <1>1, <1>3, <2>2, <2>4 DEF Quiet, Loads
    <3> QED
      BY <2>1, <2>3, <2>4, <3>1 DEF Quiet
  <2>5. CASE ToldPaid
    <3>1. PICK i \in 1..Len(answers) :
            /\ answers[i].kind = "checkout" /\ answers[i].id = paying
            /\ answers[i].ok \/ cartItems = cart[user]
            /\ Loads(calls) /\ LaterLoads(i)
      BY <2>5 DEF ToldPaid
    <3>2. Loads(calls') /\ cart' = cart
      BY <1>1, <1>3, <2>2, <3>1 DEF Loads
    <3>3. ToldPaid'
      BY <1>1, <2>3, <3>1, <3>2 DEF ToldPaid
    <3> QED
      BY <2>1, <3>3
  <2>6. CASE Asked
    <3>1. PICK e \in calls : /\ e.kind = "checkout" /\ e.id = paying
                             /\ e.at \in {"sent", "checked", "charged"} => cartItems = cart[user]
                             /\ Loads(calls \ {e}) /\ LaterLoads(0)
      BY <2>6 DEF Asked
    <3>2. CASE c = e
      <4>1. d.at \in {"sent", "checked", "charged"} => cartItems' = cart'[user']
        BY <1>2, <3>1, <3>2
      <4>2. d \in calls' /\ Loads(calls' \ {d}) /\ d.kind = "checkout" /\ d.id = paying'
        BY <1>1, <3>1, <3>2 DEF Loads, Same
      <4>3. Asked'
        BY <2>3, <3>1, <4>1, <4>2 DEF Asked
      <4> QED
        BY <2>1, <4>3
    <3>3. CASE c # e
      <4>1. c.kind = "load" /\ d.kind = "load" /\ cart' = cart /\ e \in calls'
        BY <1>1, <1>3, <3>1, <3>3 DEF Loads, Same
      <4>2. Loads(calls' \ {e})
        BY <1>1, <3>1, <4>1 DEF Loads
      <4>3. Asked'
        BY <2>3, <3>1, <4>1, <4>2 DEF Asked
      <4> QED
        BY <2>1, <4>3
    <3> QED
      BY <3>2, <3>3
  <2> QED
    BY <2>1, <2>4, <2>5, <2>6
<1> QED
  BY <1>5, <1>6

(* A call answered: a checkout that is refused has left the cart as it was. *)
LEMMA ChargeReplies ==
  ASSUME Typed, Staged, ChargeParts, NEW c \in calls, NEW ok \in BOOLEAN,
         NEW result \in SUBSET Courses, Replies(c, ok, result), cart' = cart,
         \/ Refuses(c, ok) \/ TellsPaid(c, ok) \/ TellsCached(c, ok, result)
         \/ TellsRows(c, ok, result),
         ~raced' => ~raced,
         UNCHANGED <<user, page, cartItems, paying, crossed, hasty, faults>>
  PROVE  CheckoutInv' /\ ChargeInv'
<1> DEFINE n == Len(answers)
<1>1. c \in Call /\ n \in Nat
  BY DEF Typed, TypeOK
<1>2. PICK a \in Answer :
        /\ calls' = calls \ {c} /\ Len(answers') = n + 1
        /\ \A i \in 1..n : answers'[i] = answers[i]
        /\ answers'[n + 1] = a /\ a.ok = ok /\ a.kind = c.kind /\ a.id = c.id
  BY Replied
<1>3. InTurn' => InTurn
  BY DEF InTurn
<1>4. c.kind = "checkout" /\ ~ok => c.at \in {"sent", "checked", "charged"}
  BY DEF Refuses, TellsPaid, TellsCached, TellsRows
<1>5. ChargeInv'
  BY <1>2, <1>3 DEF ChargeParts, ChargeInv
<1>6. CheckoutInv'
  <2> SUFFICES ASSUME InTurn, ~hasty, page = "checkout", cartItems # {}
               PROVE  (LoggedIn /\ (Quiet \/ Asked \/ ToldPaid))'
    BY <1>3 DEF CheckoutInv
  <2>1. LoggedIn' /\ (Quiet \/ Asked \/ ToldPaid)
    BY DEF ChargeParts, CheckoutInv, LoggedIn
  <2>2. ASSUME NEW i \in 0..n, LaterLoads(i), c.kind = "load" PROVE LaterLoads(i)'
    <3> SUFFICES ASSUME NEW j \in 1..n + 1, j # i PROVE answers'[j].kind = "load"
      BY <1>2 DEF LaterLoads
    <3>1. CASE j = n + 1
      BY <1>2, <2>2, <3>1
    <3>2. CASE j \in 1..n
      BY <1>2, <2>2, <3>2 DEF LaterLoads
    <3> QED
      BY <1>1, <3>1, <3>2
  <2>3. CASE Quiet
    <3>1. c.kind = "load" /\ LaterLoads(0) /\ 0 \in 0..n /\ Loads(calls')
      BY <1>1, <1>2, <2>3 DEF Quiet, Loads
    <3>2. LaterLoads(0)'
      BY <2>2, <3>1
    <3> QED
      BY <2>1, <2>3, <3>1, <3>2 DEF Quiet
  <2>4. CASE Asked
    <3>1. PICK e \in calls : /\ e.kind = "checkout" /\ e.id = paying
                             /\ e.at \in {"sent", "checked", "charged"} => cartItems = cart[user]
                             /\ Loads(calls \ {e}) /\ LaterLoads(0)
      BY <2>4 DEF Asked
    <3>2. CASE c = e
      <4>1. PICK m \in 1..Len(answers') : m = n + 1
        BY <1>1, <1>2
      <4>2. Loads(calls') /\ (answers'[m].ok \/ cartItems' = cart'[user'])
        BY <1>2, <1>4, <3>1, <3>2, <4>1
      <4>3. LaterLoads(m)'
        <5>1. \A j \in 1..n + 1 : j # m => j \in 1..n /\ j # 0
          BY <1>1, <4>1
        <5>2. \A j \in 1..n + 1 : j # m => answers'[j].kind = "load"
          BY <1>2, <3>1, <5>1 DEF LaterLoads
        <5> QED
          BY <1>2, <5>2 DEF LaterLoads
      <4>4. answers'[m].kind = "checkout" /\ answers'[m].id = paying'
        BY <1>2, <3>1, <3>2, <4>1
      <4>5. ToldPaid'
        BY <4>1, <4>2, <4>3, <4>4 DEF ToldPaid
      <4> QED
        BY <2>1, <4>5
    <3>3. CASE c # e
      <4>1. c.kind = "load" /\ 0 \in 0..n /\ e \in calls'
        BY <1>1, <1>2, <3>1, <3>3 DEF Loads
      <4>2. LaterLoads(0)'
        BY <2>2, <3>1, <4>1
      <4>3. Loads(calls' \ {e})
        BY <1>2, <3>1 DEF Loads
      <4>4. Asked'
        BY <3>1, <4>1, <4>2, <4>3 DEF Asked
      <4> QED
        BY <2>1, <4>4
    <3> QED
      BY <3>2, <3>3
  <2>5. CASE ToldPaid
    <3>1. PICK i \in 1..n : /\ answers[i].kind = "checkout" /\ answers[i].id = paying
                            /\ answers[i].ok \/ cartItems = cart[user]
                            /\ Loads(calls) /\ LaterLoads(i)
      BY <2>5 DEF ToldPaid
    <3>2. c.kind = "load" /\ i \in 0..n /\ i \in 1..Len(answers') /\ answers'[i] = answers[i]
      BY <1>1, <1>2, <3>1 DEF Loads
    <3>3. LaterLoads(i)' /\ Loads(calls')
      BY <1>2, <2>2, <3>1, <3>2 DEF Loads
    <3>4. ToldPaid'
      BY <3>1, <3>2, <3>3 DEF ToldPaid
    <3> QED
      BY <2>1, <3>4
  <2> QED
    BY <2>1, <2>3, <2>4, <2>5
<1> QED
  BY <1>5, <1>6

(* A step of the backend keeps ChargeParts.                                 *)
LEMMA ChargeServe ==
  ASSUME Typed, Staged, ChargeParts, NEW c \in calls, Serve(c)
  PROVE  ChargeParts'
<1>1. UNCHANGED <<user, page, cartItems, paying, crossed, hasty, faults>>
  BY DEF Serve, Apart, checkout
<1>2. /\ ~raced' => ~raced
      /\ surprised' =>
           surprised \/ (c.kind = "checkout" /\ c.at = "checked" /\ c.rows # c.order)
  BY ChargeIs
<1>3. PagesInv'
  BY <1>1, <1>2, PendingKinds DEF ChargeParts, PagesInv, InTurn
<1>4. ChargedIsShown'
  <2> SUFFICES ASSUME surprised', faults = 0, ~hasty, ~crossed, ~raced
               PROVE  FALSE
    BY <1>1, <1>2 DEF ChargedIsShown
  <2>1. ~surprised
    BY DEF ChargeParts, ChargedIsShown
  <2>2. c.kind = "checkout" /\ c.at = "checked" /\ c.rows # c.order
    BY <1>2, <2>1
  <2> QED
    BY <2>2 DEF ChargeParts, ChargeInv, InTurn
<1>5. CheckoutInv' /\ ChargeInv'
  <2>1. ASSUME NEW d \in Call, Goto(c, d), Same(d, c), Goes(c, d) \/ Writes(c, d) \/ Clears(c, d)
        PROVE  CheckoutInv' /\ ChargeInv'
    <3>1. UNCHANGED raced
      BY <2>1 DEF Goes, Writes, Clears
    <3> QED
      BY <1>1, <2>1, <3>1, ChargeGoes
  <2>2. ASSUME NEW ok \in BOOLEAN, NEW result \in SUBSET Courses, Replies(c, ok, result), cart' = cart,
               Refuses(c, ok) \/ TellsPaid(c, ok) \/ TellsCached(c, ok, result)
               \/ TellsRows(c, ok, result)
        PROVE  CheckoutInv' /\ ChargeInv'
    BY <1>1, <1>2, <2>2, ChargeReplies
  <2> QED
    BY <2>1, <2>2, Steps
<1> QED
  BY <1>3, <1>4, <1>5 DEF ChargeParts

(* Taking an answer in turn.                                                *)
LEMMA ChargeTake ==
  ASSUME Typed, ChargeParts, NEW k \in 1..Len(answers), Take(k)
  PROVE  ChargeParts'
<1> DEFINE n == Len(answers)
           a == answers[k]
<1>1. /\ UNCHANGED <<user, cart, surprised, raced, hasty, faults>> /\ n \in Nat /\ user \in Users \cup {None}
      /\ crossed' = (crossed \/ k > 1 \/ a.user # user)
      /\ page \in Pages
  BY DEF Take, backend, Typed, TypeOK
<1>2. InTurn' => InTurn /\ k = 1
  <2>1. InTurn' => InTurn /\ ~(k > 1)
    BY <1>1 DEF InTurn
  <2> QED
    BY <2>1
<1>3. /\ Len(answers') = n - 1 /\ answers' \in Seq(Answer)
      /\ \A j \in 1..n - 1 : answers'[j] = answers[IF j < k THEN j ELSE j + 1]
      /\ a.id \in Nat
  BY AnswerTaken DEF Answer
<1>4. Loaded(a) \/ Changed(a) \/ Bought(a) \/ CheckedOut(a) \/ Paid(a)
  BY DEF Take
<1> HIDE DEF a
<1>5. calls \subseteq calls' /\ \A c \in calls' \ calls : c.kind = "load"
  <2>1. LoadCart => calls \subseteq calls' /\ \A c \in calls' \ calls : c.kind = "load"
    BY DEF LoadCart, Send
  <2> QED
    BY <1>4, <2>1 DEF Loaded, Changed, Bought, CheckedOut, Paid
<1>6. /\ page' # page => page' \in {"courses", "cart", "my-enrolls"}
      /\ page' # page \/ cartItems' = cartItems \/ cartItems' = {}
  BY <1>4 DEF Loaded, Changed, Bought, CheckedOut, Paid, Stay,
         Home, Turn, Release, checkout
<1>7. PagesInv'
  <2> SUFFICES ASSUME InTurn', ~hasty', page' \in Courses, NEW c \in Pending'
               PROVE  c.kind \in {"load", "pay"}
    BY DEF PagesInv
  <2>1. page' = page /\ \A d \in Pending : d.kind \in {"load", "pay"}
    BY <1>1, <1>2, <1>6, ConstantsAssumption DEF ChargeParts, PagesInv
  <2>2. Pending' = calls' \cup {answers'[i] : i \in 1..Len(answers')}
    BY <1>3 DEF Pending, ToSet
  <2>3. CASE c \in calls'
    <3>1. calls \subseteq Pending
      BY DEF Pending
    <3> QED
      BY <1>5, <2>1, <2>3, <3>1
  <2>4. ASSUME NEW i \in 1..Len(answers'), c = answers'[i] PROVE c.kind \in {"load", "pay"}
    <3>1. \A j \in 1..n : answers[j] \in Pending
      BY PendingIs DEF Typed
    <3>2. i \in 1..n - 1 /\ (IF i < k THEN i ELSE i + 1) \in 1..n
      BY <1>1, <1>3, <2>4
    <3> QED
      BY <1>3, <2>1, <2>4, <3>1, <3>2
  <2> QED
    BY <2>2, <2>3, <2>4
<1>8. ChargeInv'
  BY <1>1, <1>2, <1>5 DEF ChargeParts, ChargeInv
<1>9. ChargedIsShown'
  BY <1>1 DEF ChargeParts, ChargedIsShown
<1>10. CheckoutInv'
  <2> SUFFICES ASSUME InTurn', ~hasty', page' = "checkout", cartItems' # {}
               PROVE  (LoggedIn /\ (Quiet \/ Asked \/ ToldPaid))'
    BY DEF CheckoutInv
  <2>1. InTurn /\ k = 1 /\ ~hasty /\ page = "checkout" /\ page' = page /\ cartItems' = cartItems
    BY <1>1, <1>2, <1>6
  <2>2. LoggedIn /\ (Quiet \/ Asked \/ ToldPaid)
    BY <2>1 DEF ChargeParts, CheckoutInv
  <2>3. LoggedIn' /\ cart'[user'] = cart[user] /\ n >= 1 /\ 1 \in 1..n
    BY <1>1, <2>1, <2>2 DEF LoggedIn
  <2>4. Loads(calls) => Loads(calls')
    BY <1>5 DEF Loads
  <2>5. \A j \in 1..n - 1 : answers'[j] = answers[j + 1] /\ j + 1 \in 1..n
    BY <1>1, <1>3, <2>1
  <2>6. LaterLoads(0) => LaterLoads(0)'
    <3> SUFFICES ASSUME LaterLoads(0), NEW j \in 1..n - 1
                 PROVE  answers'[j].kind = "load"
      BY <1>3 DEF LaterLoads
    <3>1. j + 1 # 0 /\ answers[j + 1].kind = "load"
      BY <1>1, <2>5 DEF LaterLoads
    <3> QED
      BY <2>5, <3>1
  <2>7. a.kind = "load" => UNCHANGED paying
    BY <1>4 DEF Loaded, Changed, Bought, CheckedOut, Paid, Stay,
           checkout
  <2>8. CASE Quiet
    <3>1. a.kind = "load"
      BY <2>1, <2>3, <2>8 DEF Quiet, LaterLoads, a
    <3>2. Quiet'
      BY <2>1, <2>3, <2>4, <2>6, <2>7, <2>8, <3>1 DEF Quiet
    <3> QED
      BY <2>3, <3>2
  <2>9. CASE Asked
    <3>1. PICK e \in calls : /\ e.kind = "checkout" /\ e.id = paying
                             /\ e.at \in {"sent", "checked", "charged"} => cartItems = cart[user]
                             /\ Loads(calls \ {e}) /\ LaterLoads(0)
      BY <2>9 DEF Asked
    <3>2. a.kind = "load"
      BY <2>1, <2>3, <3>1 DEF LaterLoads, a
    <3>3. /\ e \in calls' /\ Loads(calls' \ {e}) /\ LaterLoads(0)' /\ e.id = paying'
          /\ e.at \in {"sent", "checked", "charged"} => cartItems' = cart'[user']
      BY <1>5, <2>1, <2>3, <2>6, <2>7, <3>1, <3>2 DEF Loads
    <3>4. Asked'
      BY <3>1, <3>3 DEF Asked, Loads
    <3> QED
      BY <2>3, <3>4
  <2>10. CASE ToldPaid
    <3>1. PICK i \in 1..n : /\ answers[i].kind = "checkout" /\ answers[i].id = paying
                            /\ answers[i].ok \/ cartItems = cart[user]
                            /\ Loads(calls) /\ LaterLoads(i)
      BY <2>10 DEF ToldPaid
    <3>2. CASE i = 1
      <4>1. CheckedOut(a) /\ a.id = paying /\ (a.ok \/ cartItems = cart[user])
        BY <1>4, <2>1, <3>1, <3>2 DEF Loaded, Changed, Bought, CheckedOut,
               Paid, a
      <4>2. ~a.ok
        BY <2>1, <2>2, <4>1 DEF CheckedOut, Home, Turn, LoggedIn
      <4>3. paying' = None /\ cartItems' = cart'[user']
        BY <2>1, <2>3, <4>1, <4>2 DEF CheckedOut, Release
      <4>4. LaterLoads(0)'
        <5> SUFFICES ASSUME NEW j \in 1..n - 1 PROVE answers'[j].kind = "load"
          BY <1>3 DEF LaterLoads
        <5>1. j + 1 # i
          BY <3>2
        <5> QED
          BY <2>5, <3>1, <5>1 DEF LaterLoads
      <4>5. Quiet'
        BY <2>4, <3>1, <4>3, <4>4 DEF Quiet
      <4> QED
        BY <2>3, <4>5
    <3>3. CASE i # 1
      <4>1. a.kind = "load"
        BY <2>1, <2>3, <3>1, <3>3 DEF LaterLoads, a
      <4>2. PICK m \in 1..n - 1 : m + 1 = i
        BY <1>1, <3>3
      <4>3. LaterLoads(m)'
        <5> SUFFICES ASSUME NEW j \in 1..n - 1, j # m PROVE answers'[j].kind = "load"
          BY <1>3 DEF LaterLoads
        <5>1. j + 1 # i
          BY <4>2
        <5> QED
          BY <2>5, <3>1, <5>1 DEF LaterLoads
      <4>4. answers'[m] = answers[i] /\ m \in 1..Len(answers')
        BY <1>3, <2>5, <4>2
      <4>5. /\ answers'[m].kind = "checkout" /\ answers'[m].id = paying'
            /\ answers'[m].ok \/ cartItems' = cart'[user']
            /\ Loads(calls')
        BY <2>1, <2>3, <2>4, <2>7, <3>1, <4>1, <4>4
      <4>6. ToldPaid'
        BY <4>3, <4>4, <4>5 DEF ToldPaid
      <4> QED
        BY <2>3, <4>6
    <3> QED
      BY <3>2, <3>3
  <2> QED
    BY <2>2, <2>8, <2>9, <2>10
<1> QED
  BY <1>7, <1>8, <1>9, <1>10 DEF ChargeParts
-----------------------------------------------------------------------------
CartInv == Typed /\ Staged /\ CopyInv /\ ChargeParts

(* CartInv holds at the start.                                              *)
LEMMA CartInit ==
  ASSUME Init
  PROVE  CartInv
  BY CartTypeInit, CopyInit, ChargeInit DEF CartInv

(* The user's steps that send nothing but loads.                            *)
LEMMA CartUser ==
  ASSUME CartInv, Clicks, NEW u \in Users \cup {None}, SetUser(u), hasty' = hasty,
         \/ page' = "courses"
         \/ u = user /\ UNCHANGED <<page, checkout>>
  PROVE  CopyInv' /\ ChargeParts'
<1>1. /\ user' = u
      /\ u = None => calls' = calls
      /\ u # None => \E l : l.kind = "load" /\ l.user = u /\ l.at = "sent" /\ calls' = calls \cup {l}
  BY UserSet DEF CartInv
<1>2. /\ answers' = answers /\ cart' = cart /\ crossed' = crossed /\ faults' = faults /\ raced' = raced
      /\ surprised' = surprised /\ cached' = cached
  BY DEF Clicks, backend
<1>3. calls \subseteq calls' /\ \A c \in calls' \ calls : c.kind = "load"
  BY <1>1
<1>4. \/ \E l \in calls' : l.kind = "load" /\ l.user = user'
      \/ user' \notin Users
  BY <1>1, ConstantsAssumption DEF SetUser
<1>5. CopyInv'
  BY <1>2, <1>3, <1>4, CopyClick DEF CartInv
<1>6. ChargeParts'
  <2>1. page' \in Courses => page' = page
    BY ConstantsAssumption
  <2>2. page' = "checkout" => page = "checkout" /\ UNCHANGED <<user, cartItems, paying>>
    BY DEF SetUser, checkout
  <2> QED
    BY <1>2, <1>3, <2>1, <2>2, ChargeLoads DEF CartInv
<1> QED
  BY <1>5, <1>6

(* The steps that open a page and load its cart.                            *)
LEMMA CartOpens ==
  ASSUME CartInv, Clicks, LoggedIn, LoadCart, UNCHANGED <<user, items>>,
         hasty => hasty',
         page' \notin Courses,
         ~hasty' /\ page' = "checkout" => Pending = {} /\ cartItems' = items /\ paying' = None
  PROVE  CopyInv' /\ ChargeParts'
<1>1. \E l : l.kind = "load" /\ l.user = user /\ l.at = "sent" /\ calls' = calls \cup {l}
  BY CartLoads DEF CartInv
<1>2. /\ answers' = answers /\ cart' = cart /\ crossed' = crossed /\ faults' = faults /\ raced' = raced
      /\ surprised' = surprised /\ cached' = cached
  BY DEF Clicks, backend
<1>3. calls \subseteq calls' /\ \A c \in calls' \ calls : c.kind = "load"
  BY <1>1
<1>4. CopyInv'
  BY <1>2, <1>3, CopyClick DEF CartInv
<1>5. InTurn /\ Pending = {} => items = cart[user]
  BY CopyMirrors DEF CartInv, CopyIsCart, InTurn
<1>6. ChargeParts'
  BY <1>2, <1>3, <1>5, ChargeLoads DEF CartInv, LoggedIn
<1> QED
  BY <1>4, <1>6

(* Every step keeps CartInv.                                                *)
LEMMA CartNext ==
  ASSUME CartInv, [Next]_vars
  PROVE  CartInv'
<1> SUFFICES CopyInv' /\ ChargeParts'
  BY CartTypeNext DEF CartInv
<1>1. ASSUME NEW u \in Users, LogIn(u) PROVE CopyInv' /\ ChargeParts'
  BY <1>1, CartUser DEF LogIn, Turn
<1>2. CASE LogOut
  BY <1>2, CartUser DEF LogOut, Turn
<1>3. CASE Refresh
  BY <1>3, CartUser DEF Refresh, CartInv, Typed, TypeOK
<1>4. CASE OpenCourses
  <2>1. /\ answers' = answers /\ cart' = cart /\ crossed' = crossed /\ faults' = faults /\ raced' = raced
        /\ surprised' = surprised /\ cached' = cached /\ hasty' = hasty /\ calls' = calls /\ user' = user
        /\ items' = items
        /\ page' = "courses"
    BY <1>4 DEF OpenCourses, Clicks, Turn, backend, copy
  <2>2. page' \notin Courses /\ page' # "checkout"
    BY <2>1, ConstantsAssumption
  <2>3. CopyInv'
    BY <2>1, CopyClick DEF CartInv
  <2>4. ChargeParts'
    BY <2>1, <2>2, ChargeLoads DEF CartInv
  <2> QED
    BY <2>3, <2>4
<1>5. CASE OpenCart
  <2>1. /\ Clicks /\ LoggedIn /\ LoadCart /\ UNCHANGED <<user, items>>
        /\ hasty' = hasty /\ page' = "cart"
    BY <1>5 DEF OpenCart, Turn
  <2> QED
    BY <2>1, CartOpens, ConstantsAssumption
<1>6. CASE OpenCheckout
  <2>1. /\ Clicks /\ LoggedIn /\ LoadCart /\ UNCHANGED <<user, items>>
        /\ page' = "checkout"
        /\ hasty' = (hasty \/ Pending # {}) /\ cartItems' = items /\ paying' = None
    BY <1>6 DEF OpenCheckout
  <2>2. page' \notin Courses
    BY <2>1, ConstantsAssumption
  <2> QED
    BY <2>1, <2>2, CartOpens
<1>7. CASE Pay
  <2>1. /\ answers' = answers /\ cart' = cart /\ crossed' = crossed /\ faults' = faults /\ raced' = raced
        /\ cached' = cached /\ calls \subseteq calls' /\ user' = user /\ items' = items
    BY <1>7 DEF Pay, Clicks, Send, backend, copy
  <2> QED
    BY <1>7, <2>1, CopyClick, ChargePay DEF CartInv
<1>8. ASSUME NEW c \in Courses, AddToCart(c) \/ BuyNow(c) \/ RemoveItem(c)
      PROVE  CopyInv' /\ ChargeParts'
  <2>1. PICK k \in {"add", "buy", "remove"} : Changes(k, c) /\ page \in {"courses", "cart"}
    BY <1>8 DEF AddToCart, BuyNow, RemoveItem
  <2>2. /\ answers' = answers /\ cart' = cart /\ crossed' = crossed /\ faults' = faults /\ raced' = raced
        /\ cached' = cached /\ calls \subseteq calls' /\ user' = user /\ items' = items
    BY <2>1 DEF Changes, Clicks, Send, backend, copy
  <2> QED
    BY <2>1, <2>2, CopyClick, ChargeChanges DEF CartInv
<1>9. ASSUME NEW c \in calls, Serve(c) PROVE CopyInv' /\ ChargeParts'
  BY <1>9, CopyServe, ChargeServe DEF CartInv
<1>10. ASSUME NEW c \in calls, Fail(c) \/ Hang(c) PROVE CopyInv' /\ ChargeParts'
  <2>1. faults' = faults + 1 /\ faults \in Nat
    <3>1. faults \in 0..MaxFaults /\ MaxFaults \in Nat
      BY ConstantsAssumption DEF CartInv, Typed, TypeOK
    <3>2. faults' = faults + 1
      BY <1>10 DEF Fail, Hang
    <3> QED
      BY <3>1, <3>2
  <2>2. faults' # 0
    BY <2>1
  <2> QED
    BY <2>2 DEF CopyInv, ChargeParts, PagesInv, CheckoutInv, ChargeInv, ChargedIsShown,
           InTurn
<1>11. ASSUME NEW i \in DOMAIN answers, Take(i) PROVE CopyInv' /\ ChargeParts'
  <2>1. i \in 1..Len(answers)
    BY DEF CartInv, Typed, TypeOK
  <2> QED
    BY <1>11, <2>1, CopyTake, ChargeTake DEF CartInv
<1>12. ASSUME NEW u \in Users, Lapse(u) PROVE CopyInv' /\ ChargeParts'
  <2>1. /\ answers' = answers /\ cart' = cart /\ crossed' = crossed /\ faults' = faults /\ raced' = raced
        /\ surprised' = surprised /\ hasty' = hasty /\ calls' = calls /\ user' = user
        /\ items' = items /\ page' = page /\ UNCHANGED <<user, cartItems, paying>>
    BY <1>12 DEF Lapse, Apart, copy, checkout
  <2>2. \A v \in Users : cached'[v] \in {cached[v], None}
    BY <1>12 DEF Lapse, CartInv, Typed, TypeOK
  <2>3. CopyInv'
    BY <2>1, <2>2, CopyClick DEF CartInv
  <2>4. ChargeParts'
    BY <2>1, ChargeLoads DEF CartInv
  <2> QED
    BY <2>3, <2>4
<1>13. CASE UNCHANGED vars
  <2>1. /\ answers' = answers /\ cart' = cart /\ crossed' = crossed /\ faults' = faults /\ raced' = raced
        /\ surprised' = surprised /\ cached' = cached /\ hasty' = hasty /\ calls' = calls /\ user' = user
        /\ items' = items
        /\ page' = page /\ UNCHANGED <<user, cartItems, paying>>
    BY <1>13 DEF vars, copy, checkout, backend
  <2>2. CopyInv'
    BY <2>1, CopyClick DEF CartInv
  <2>3. ChargeParts'
    BY <2>1, ChargeLoads DEF CartInv
  <2> QED
    BY <2>2, <2>3
<1> QED
  BY <1>1, <1>2, <1>3, <1>4, <1>5, <1>6, <1>7, <1>8, <1>9, <1>10, <1>11, <1>12, <1>13 DEF Next
-----------------------------------------------------------------------------
(* What every page shows of the cart is the cart, whenever nothing is under *)
(* way, and the badge counts it.                                            *)
THEOREM CartsAreShown ==
  Spec => []CartIsShown
<1>1. Init => CartInv
  BY CartInit
<1>2. CartInv /\ [Next]_vars => CartInv'
  BY CartNext
<1>3. CartInv => CartIsShown
  BY CopyMirrors DEF CartInv, Typed, CartIsShown
<1> QED
  BY <1>1, <1>2, <1>3, PTL DEF Spec

(* Who pays a cart in peace is charged for what the checkout shows.         *)
THEOREM ChargesAreShown ==
  Spec => []ChargedIsShown
<1>1. Init => CartInv
  BY CartInit
<1>2. CartInv /\ [Next]_vars => CartInv'
  BY CartNext
<1>3. CartInv => ChargedIsShown
  BY DEF CartInv, ChargeParts
<1> QED
  BY <1>1, <1>2, <1>3, PTL DEF Spec
=============================================================================
