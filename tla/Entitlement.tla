---------------------------- MODULE Entitlement -----------------------------
(***************************************************************************)
(* What the purchase routes promise, without their requests: a user who    *)
(* has been billed may be recorded as having paid for a course, and only   *)
(* someone who has paid for a course, or found it free, gets access to it. *)
(***************************************************************************)
CONSTANTS Users, Courses

VARIABLES
  billed,    \* the users the gateway has taken money from
  paid,      \* <<user, course>>: recorded as paid
  access,    \* <<user, course>>: enrolled
  everFree   \* the courses that have been offered without a price

vars == <<billed, paid, access, everFree>>

Init ==
  /\ billed = {} /\ paid = {} /\ access = {} /\ everFree \subseteq Courses

Bill(u) ==
  /\ billed' = billed \cup {u}
  /\ UNCHANGED <<paid, access, everFree>>

RecordPaid(u, c) ==
  /\ u \in billed
  /\ paid' = paid \cup {<<u, c>>}
  /\ UNCHANGED <<billed, access, everFree>>

Grant(u, c) ==
  /\ <<u, c>> \in paid \/ c \in everFree
  /\ access' = access \cup {<<u, c>>}
  /\ UNCHANGED <<billed, paid, everFree>>

OfferFree(c) ==
  /\ everFree' = everFree \cup {c}
  /\ UNCHANGED <<billed, paid, access>>

(* A course that is withdrawn takes its payments and its access with it.    *)
Withdraw(c) ==
  /\ paid' = {i \in paid : i[2] # c}
  /\ access' = {i \in access : i[2] # c}
  /\ UNCHANGED <<billed, everFree>>

Next ==
  \/ \E u \in Users : Bill(u)
  \/ \E u \in Users, c \in Courses : RecordPaid(u, c) \/ Grant(u, c)
  \/ \E c \in Courses : OfferFree(c) \/ Withdraw(c)

Spec == Init /\ [][Next]_vars
=============================================================================
