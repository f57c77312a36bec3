----------------------------- MODULE CoursePage -----------------------------
(* The page of one course in the browser, with its enrollment and its       *)
(* reviews, the routes behind it, and the number of enrollments that the    *)
(* instructor's dashboard shows: a Redis counter fed by a channel.  A step  *)
(* is one event of a browser's tab, or a request between two awaits.  Calls *)
(* are served and answered in any order, and those of a page that has been  *)
(* left go on unheard.  What enroll() asks before it inserts is in Purchase,*)
(* how a course gets completed is in Learning.                              *)
EXTENDS Integers, FiniteSets

CONSTANTS
  Students, Tabs,
  Old,        \* the enrollments that are older than all clicks
  MaxClicks,  \* bound: events of the browser and completions
  MaxFaults,  \* bound: calls that fail, messages that get lost, the end of the counter's day
  None

(* An enrollment and a review are named by the click that made them, or are *)
(* older.  A page knows of an enrollment whether it was completed.          *)
Ids  == Old \cup 1..MaxClicks
Seen == [id : Ids, completed : BOOLEAN]

(* What the properties rest on.                                             *)
ASSUME ConstantsAssumption ==
  /\ MaxClicks \in Nat /\ MaxFaults \in Nat
  /\ IsFiniteSet(Old) /\ Old \cap Nat = {}
  /\ None \notin Students \cup Tabs \cup Nat \cup Old \cup Seen

VARIABLES
  user,     \* of each tab: fixed
  tab,      \* of each tab: what its page holds
  calls,    \* the calls under way
  student, completed, reviews, \* the rows of the course: enrollments, by their student, and reviews
  counter, expires, fresh, channel, \* Redis: the count, its lifetime (and whether it is due), the messages
  clicks, faults,
  enroller, author, \* history: the tabs whose enrollment and whose review were stored last
  late,     \* history: an answer overwrote a later one, or the page was left behind a change
  lapsed    \* history: the counter has expired, or started above enrollments

page    == <<user, tab, late>>
rows    == <<student, completed, reviews, enroller, author>>
redis   == <<counter, expires, fresh, channel, lapsed>>
cpVars  == <<page, calls, rows, redis, clicks, faults>>

Review == [id : Ids, enrollment : Ids]
Found  == Seen \cup {None}
Tab    == [enrollment : Found, enrolling : BOOLEAN, failed : BOOLEAN, shown : SUBSET Review,
           loading : BOOLEAN, newest : 1..MaxClicks \cup {None}, saving : BOOLEAN]
Kinds  == {"list", "enrollment", "enroll", "create", "update", "remove"}
Stages == {"sent", "found", "saved", "refused", "done"}
PageCall == [tab : Tabs, at : 1..MaxClicks, kind : Kinds, id : Ids \cup {None}, heard : BOOLEAN,
             stage : Stages, list : SUBSET Review, enrollment : Found]

Own(S, s)   == {r \in S : student[r.enrollment] = s}
Named(id)   == {r \in reviews : r.id = id}
Enrolled    == {i \in Ids : student[i] # None}
Count       == Cardinality(Enrolled)
Unpublished == {c.at : c \in {d \in calls : d.stage = "saved"}}

(* What findMyEnrollment() may return: getOne() takes one of several.       *)
Mine(s) == LET own == {i \in Ids : student[i] = s}
           IN  IF own = {} THEN {None} ELSE {[id |-> i, completed |-> i \in completed] : i \in own}

(* The tabs have been open for a while; a student may have enrolled twice.  *)
CPInit ==
  /\ user \in [Tabs -> Students]
  /\ student \in {f \in [Ids -> Students \cup {None}] : \A i \in Ids \ Old : f[i] = None}
  /\ completed \in SUBSET Enrolled
  /\ \E old \in SUBSET completed : reviews = {[id |-> i, enrollment |-> i] : i \in old}
  /\ \E seen \in [Tabs -> Found] :
       /\ \A t \in Tabs : seen[t] \in Mine(user[t])
       /\ tab = [t \in Tabs |-> [enrollment |-> seen[t], enrolling |-> FALSE, failed |-> FALSE, shown |-> reviews,
                                 loading |-> FALSE, newest |-> None, saving |-> FALSE]]
  /\ calls = {} /\ fresh = FALSE /\ channel = 0
  /\ counter \in {0, Count} /\ expires = (counter > 0)
  /\ clicks = 0 /\ faults = 0 /\ enroller = None /\ author = None /\ late = FALSE /\ lapsed = FALSE

Clicks == clicks < MaxClicks /\ clicks' = clicks + 1 /\ UNCHANGED <<user, redis, faults>>

NewCall(t, at, kind, id) ==
  [tab |-> t, at |-> at, kind |-> kind, id |-> id, heard |-> TRUE, stage |-> "sent",
   list |-> {}, enrollment |-> None]

Sends(t, kind, id) == calls' = calls \cup {NewCall(t, clicks + 1, kind, id)}

(* The calls of the list and the form of a tab; and what is left of calls   *)
(* that nobody hears any more, those that may change something.             *)
OfReviews(t) == {c \in calls : c.tab = t /\ c.kind \notin {"enroll", "enrollment"}}
Reads       == {"list", "enrollment"}
Silenced(S) == (calls \ S) \cup {[c EXCEPT !.heard = FALSE] : c \in {d \in S : d.kind \notin Reads}}
-----------------------------------------------------------------------------
(* Opening the page anew: the calls of the old one are not heard any more.  *)
Open(t) ==
  /\ Clicks /\ UNCHANGED rows
  /\ tab' = [tab EXCEPT ![t] = [enrollment |-> None, enrolling |-> FALSE, failed |-> FALSE, shown |-> {},
                                loading |-> TRUE, newest |-> clicks + 1, saving |-> FALSE]]
  /\ late' = (late \/ \E c \in calls : c.tab = t /\ c.kind \in {"create", "enroll"})
  /\ calls' = Silenced({c \in calls : c.tab = t})
              \cup {NewCall(t, clicks + 1, k, None) : k \in {"list", "enrollment"}}

Enroll(t) ==
  /\ tab[t].enrollment = None /\ ~tab[t].enrolling /\ ~tab[t].failed /\ Clicks
  /\ tab' = [tab EXCEPT ![t].enrolling = TRUE] /\ Sends(t, "enroll", None) /\ UNCHANGED <<late, rows>>

(* Submitting the form: for a review of the list that is the visitor's own, *)
(* or for a new one, which it may be opened for before the list is there.   *)
CanReview(t) == tab[t].enrollment # None /\ tab[t].enrollment.completed

SubmitForm(t) ==
  /\ ~tab[t].saving /\ ~tab[t].failed /\ tab[t].enrollment # None /\ Clicks
  /\ tab' = [tab EXCEPT ![t].saving = TRUE] /\ UNCHANGED <<late, rows>>
  /\ \/ CanReview(t) /\ Sends(t, "create", tab[t].enrollment.id)
     \/ \E r \in Own(tab[t].shown, user[t]) : Sends(t, "update", r.id)

DeleteReview(t) ==
  \E r \in Own(tab[t].shown, user[t]) :
    Clicks /\ Sends(t, "remove", r.id) /\ UNCHANGED <<tab, late, rows>>

(* Elsewhere a student completes the course.                                *)
CompleteCourse(i) ==
  /\ i \in Enrolled \ completed /\ Clicks /\ completed' = completed \cup {i}
  /\ UNCHANGED <<tab, late, calls, student, reviews, enroller, author>>
-----------------------------------------------------------------------------
(* The routes.                                                              *)
Becomes(c, d) == calls' = (calls \ {c}) \cup {d} /\ UNCHANGED <<page, clicks, faults>>
To(c, stage)  == [c EXCEPT !.stage = stage]

FindByCourse(c) ==
  /\ c.kind = "list" /\ c.stage = "sent" /\ Becomes(c, [To(c, "done") EXCEPT !.list = reviews])
  /\ UNCHANGED <<rows, redis>>

FindMyEnrollment(c) ==
  /\ c.kind = "enrollment" /\ c.stage = "sent" /\ UNCHANGED <<rows, redis>>
  /\ \E e \in Mine(user[c.tab]) : Becomes(c, [To(c, "done") EXCEPT !.enrollment = e])

(* enroll(): there is none yet; the insert; the message.                    *)
CheckEnrollment(c) ==
  /\ c.kind = "enroll" /\ c.stage = "sent" /\ UNCHANGED <<rows, redis>>
  /\ Becomes(c, To(c, IF Mine(user[c.tab]) = {None} THEN "found" ELSE "refused"))

Insert(c) ==
  /\ student' = [student EXCEPT ![c.at] = user[c.tab]] /\ enroller' = c.tab
  /\ UNCHANGED <<completed, reviews, author, redis>>

SaveEnrollment(c) ==
  /\ c.kind = "enroll" /\ c.stage = "found" /\ Insert(c)
  /\ Becomes(c, [To(c, "saved") EXCEPT !.enrollment = [id |-> c.at, completed |-> FALSE]])

Message == channel' = channel + 1 /\ UNCHANGED <<rows, counter, expires, fresh, lapsed>>

Publish(c) == c.kind = "enroll" /\ c.stage = "saved" /\ Becomes(c, To(c, "done")) /\ Message

(* create(): this enrollment is completed, and has no review yet.           *)
CheckReview(c) ==
  /\ c.kind = "create" /\ c.stage = "sent" /\ UNCHANGED <<rows, redis>>
  /\ Becomes(c, To(c, IF c.id \in completed /\ (\A r \in reviews : r.enrollment # c.id)
                      THEN "found" ELSE "refused"))

(* The unique index refuses a second review of an enrollment.               *)
Insertable(c) == \A r \in reviews : r.enrollment # c.id

Write(c) ==
  /\ reviews' = reviews \cup {[id |-> c.at, enrollment |-> c.id]}
  /\ author' = c.tab /\ UNCHANGED <<student, completed, enroller, redis>>

(* update() and remove(): the review is there, and its student is who       *)
(* calls, which the routes take from a field that the user's row does not   *)
(* have.                                                                    *)
Caller == None

FindReview(c) ==
  /\ c.kind \in {"update", "remove"} /\ c.stage = "sent" /\ UNCHANGED <<rows, redis>>
  /\ Becomes(c, [To(c, IF Own(Named(c.id), Caller) # {} THEN "found" ELSE "refused")
                 EXCEPT !.list = Named(c.id)])

(* What has been found is written, for update() as it was read: ratings     *)
(* and comments are left out.                                               *)
Change(c) ==
  /\ reviews' = (IF c.kind = "remove" THEN reviews \ c.list ELSE reviews \cup c.list)
  /\ UNCHANGED <<student, completed, enroller, author, redis>>

SaveReview(c) ==
  /\ c.kind \in {"create", "update", "remove"} /\ c.stage = "found"
  /\ IF c.kind = "create" /\ ~Insertable(c)
     THEN Becomes(c, To(c, "refused")) /\ UNCHANGED <<rows, redis>>
     ELSE Becomes(c, To(c, "done")) /\ IF c.kind = "create" THEN Write(c) ELSE Change(c)

(* A call fails on either side of what it would have done next.             *)
Fail(c) ==
  /\ c.stage \in {"sent", "found", "saved"} /\ faults < MaxFaults /\ faults' = faults + 1
  /\ calls' = (calls \ {c}) \cup {To(c, "refused")} /\ UNCHANGED <<page, clicks>>
  /\ \/ UNCHANGED <<rows, redis>>
     \/ c.kind = "enroll" /\ c.stage = "found" /\ Insert(c)
     \/ c.stage = "saved" /\ Message
     \/ c.kind = "create" /\ c.stage = "found" /\ Insertable(c) /\ Write(c)
-----------------------------------------------------------------------------
(* What the page does with the answers; the others are dropped.             *)
Hears(c) ==
  c \in calls /\ c.stage \in {"refused", "done"} /\ UNCHANGED <<user, rows, redis, clicks, faults>>

Unheard(c) == ~c.heard /\ Hears(c) /\ calls' = calls \ {c} /\ UNCHANGED <<tab, late>>

ReloadsQuietly(c) ==
  /\ tab' = [tab EXCEPT ![c.tab].saving = @ /\ c.kind = "remove"]
  /\ calls' = calls \ {c} /\ UNCHANGED late

Reloads(c) ==
  /\ tab' = [tab EXCEPT ![c.tab].loading = TRUE, ![c.tab].newest = c.at,
                        ![c.tab].saving = @ /\ c.kind = "remove"]
  /\ calls' = (calls \ {c}) \cup {NewCall(c.tab, c.at, "list", None)} /\ UNCHANGED late

ReviewsLoaded(c) ==
  /\ c.kind = "list" /\ c.heard /\ Hears(c) /\ calls' = calls \ {c}
  /\ late' = (late \/ tab[c.tab].newest = None)
  /\ tab' = [tab EXCEPT ![c.tab].loading = FALSE,
                        ![c.tab].newest = IF @ = c.at THEN None ELSE @,
                        ![c.tab].shown = IF c.stage = "done" THEN c.list ELSE @]

EnrollmentFound(c) ==
  /\ c.kind = "enrollment" /\ c.heard /\ Hears(c) /\ calls' = calls \ {c}
  /\ tab' = [tab EXCEPT ![c.tab].enrollment = c.enrollment]
  /\ late' = (late \/ (tab[c.tab].enrollment # None /\ c.enrollment = None))

EnrollAnswered(c) ==
  /\ c.kind = "enroll" /\ c.stage = "done" /\ c.heard /\ Hears(c) /\ calls' = calls \ {c} /\ UNCHANGED late
  /\ tab' = [tab EXCEPT ![c.tab].enrolling = FALSE, ![c.tab].enrollment = c.enrollment]

(* A refused enrollment leaves an error in place of the whole page.         *)
EnrollRefused(c) ==
  /\ c.kind = "enroll" /\ c.stage = "refused" /\ c.heard /\ Hears(c)
  /\ calls' = Silenced(OfReviews(c.tab)) \ {c}
  /\ late' = (late \/ \E d \in OfReviews(c.tab) : d.kind = "create")
  /\ tab' = [tab EXCEPT ![c.tab].enrolling = FALSE, ![c.tab].failed = TRUE, ![c.tab].shown = {},
                        ![c.tab].loading = FALSE, ![c.tab].newest = None, ![c.tab].saving = FALSE]

SaveRefused(c) ==
  calls' = calls \ {c} /\ tab' = [tab EXCEPT ![c.tab].saving = FALSE] /\ UNCHANGED late

(* A removal that fails is not told.                                        *)
DeleteFails(c) == calls' = calls \ {c} /\ UNCHANGED <<tab, late>>

Submitted(c) ==
  /\ c.kind \in {"create", "update", "remove"} /\ c.heard /\ Hears(c)
  /\ IF c.stage = "done" THEN Reloads(c)
     ELSE IF c.kind = "remove" THEN DeleteFails(c) ELSE SaveRefused(c)
-----------------------------------------------------------------------------
(* The subscriber: INCR, and for the first a lifetime in a call of its own. *)
HandleMessageTwice ==
  /\ channel > 0 /\ channel' = channel - 1 /\ counter' = counter + 2 /\ fresh' = (fresh \/ counter = 0)
  /\ lapsed' = (lapsed \/ (counter = 0 /\ Count > channel + Cardinality(Unpublished)))
  /\ UNCHANGED <<page, calls, rows, expires, clicks, faults>>

HandleMessage ==
  /\ channel > 0 /\ channel' = channel - 1 /\ counter' = counter + 1 /\ fresh' = (fresh \/ counter = 0)
  /\ lapsed' = (lapsed \/ (counter = 0 /\ Count > channel + Cardinality(Unpublished)))
  /\ UNCHANGED <<page, calls, rows, expires, clicks, faults>>

SetLifetime ==
  /\ fresh /\ fresh' = FALSE /\ expires' = TRUE
  /\ UNCHANGED <<page, calls, rows, counter, channel, lapsed, clicks, faults>>

Expire ==
  /\ expires /\ counter' = 0 /\ expires' = FALSE /\ lapsed' = TRUE
  /\ faults < MaxFaults /\ faults' = faults + 1
  /\ UNCHANGED <<page, calls, rows, fresh, channel, clicks>>

(* Redis forgets a message nobody listens to; the process ends before the   *)
(* counter has its lifetime.                                                *)
Lose ==
  /\ faults < MaxFaults /\ faults' = faults + 1
  /\ \/ channel > 0 /\ channel' = channel - 1 /\ UNCHANGED fresh
     \/ fresh /\ fresh' = FALSE /\ UNCHANGED channel
  /\ UNCHANGED <<page, calls, rows, counter, expires, lapsed, clicks>>

(* getCourseStats() of the dashboard: the counter if there is one.          *)
EnrollmentCount == IF counter > 0 THEN counter ELSE Count
-----------------------------------------------------------------------------
Serve(c) ==
  \/ FindByCourse(c) \/ FindMyEnrollment(c) \/ CheckEnrollment(c) \/ SaveEnrollment(c) \/ Publish(c)
  \/ CheckReview(c) \/ FindReview(c) \/ SaveReview(c)
Take(c) ==
  \/ Unheard(c) \/ ReviewsLoaded(c) \/ EnrollmentFound(c) \/ EnrollAnswered(c) \/ EnrollRefused(c)
  \/ Submitted(c)

Settle == \E c \in calls : Serve(c) \/ Take(c)

CPNext ==
  \/ \E t \in Tabs : Open(t) \/ Enroll(t) \/ SubmitForm(t) \/ DeleteReview(t)
  \/ \E i \in Ids : CompleteCourse(i)
  \/ Settle \/ \E c \in calls : Fail(c)
  \/ HandleMessage \/ SetLifetime \/ Expire \/ Lose

CPSpec == CPInit /\ [][CPNext]_cpVars
-----------------------------------------------------------------------------
CPTypeOK ==
  /\ user \in [Tabs -> Students] /\ tab \in [Tabs -> Tab] /\ calls \subseteq PageCall
  /\ student \in [Ids -> Students \cup {None}] /\ completed \subseteq Ids /\ reviews \subseteq Review
  /\ counter \in Nat /\ channel \in Nat /\ expires \in BOOLEAN /\ fresh \in BOOLEAN
  /\ clicks \in 0..MaxClicks /\ faults \in 0..MaxFaults
  /\ {enroller, author} \subseteq Tabs \cup {None} /\ late \in BOOLEAN /\ lapsed \in BOOLEAN

(* Whatever several tabs send, a review is of an enrollment whose course is *)
(* completed, and the only one of it.  A student who is enrolled twice may  *)
(* have two.                                                                *)
OneReviewEach ==
  \A r \in reviews : /\ r.enrollment \in completed \cap Enrolled
                     /\ \A q \in reviews : q.enrollment = r.enrollment => q = r

(* Once all calls are answered, the tab that has stored a review last shows *)
(* the reviews as they are, also those of others, and the one that has      *)
(* stored an enrollment last knows that its student is enrolled, unless the *)
(* page has since failed over another enrollment.                           *)
AuthorSees ==
  calls = {} /\ faults = 0 /\ ~late =>
    /\ author # None /\ ~tab[author].failed => tab[author].shown = reviews
    /\ enroller # None => tab[enroller].enrollment # None

(* However calls from two tabs cross, an enrollment gets one review, and    *)
(* what was written is shown where it was written.                          *)
PageIsRight == CPTypeOK /\ OneReviewEach /\ AuthorSees

(* The dashboard counts the enrollments, once their messages are sent and   *)
(* handled, until the counter has expired or started above older ones: the  *)
(* README (README.md:286) calls it persistent.                              *)
CountIsRight ==
  channel = 0 /\ Unpublished = {} /\ faults = 0 /\ ~lapsed => EnrollmentCount = Count
-----------------------------------------------------------------------------
(* reviews.controller.ts:50 and :65 document "Review updated successfully." *)
(* and "Review deleted successfully.": an owner's call to change a review   *)
(* is not refused while it is there.  No run lists it: as a PROPERTY of     *)
(* MCCoursePage.cfg it is refuted by the first such call, since the student *)
(* of a review is never the Caller.                                         *)
OwnersChangeTheirs ==
  [][\A c \in calls :
       /\ c.kind \in {"update", "remove"} /\ c.stage = "sent" /\ faults' = faults
       /\ Own(Named(c.id), user[c.tab]) # {}
         => \A d \in calls' : d.at = c.at /\ d.kind = c.kind => d.stage # "refused"]_cpVars
=============================================================================
