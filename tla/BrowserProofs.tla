--------------------------- MODULE BrowserProofs ----------------------------
(***************************************************************************)
(* Proofs about two models of the browser.  AuthInterceptor, for any number *)
(* of calls under way: its types, and that refreshes do not overlap until a *)
(* call fails when it is repeated behind its own.  CoursePage, for any      *)
(* number of students, tabs and clicks: its types, that an enrollment has   *)
(* one review, that the tabs that acted last show what is stored, though a  *)
(* student may be enrolled twice, and that the dashboard counts the         *)
(* enrollments.                                                             *)
(***************************************************************************)
EXTENDS AuthInterceptor, CoursePage, FiniteSetTheorems, TLAPS

LEMMA TypeInit == Init => TypeOK
<1> SUFFICES ASSUME Init PROVE TypeOK
  OBVIOUS
<1>1. isRefreshing \in BOOLEAN /\ refreshFailed \in BOOLEAN /\ unsubscribed \in BOOLEAN
        /\ retryFailed \in BOOLEAN
  BY DEF Init
<1>2. token \in Token /\ issued \in Token /\ expired \in Token /\ session \in Token
  BY TokensAssumption DEF Init, Token
<1>3. carries \in [Slots -> Token]
  BY TokensAssumption DEF Init, Token
<1> QED
  BY <1>1, <1>2, <1>3 DEF Init, TypeOK, Labels

(* What the steps do to a slot that they free or hand to a logout. *)
LEMMA VacateType ==
  ASSUME TypeOK, NEW r \in Slots, Vacate(r)
  PROVE  /\ pc' \in [Slots -> Labels] /\ kind' \in [Slots -> {"api", "logout"}]
         /\ carries' \in [Slots -> Token]
  BY TokensAssumption DEF TypeOK, Vacate, Labels, Token

(* forceLogout() keeps the types of what it clears.                          *)
LEMMA ForceLogoutType ==
  ASSUME TypeOK, NEW r \in Slots, ForceLogout(r)
  PROVE  /\ pc' \in [Slots -> Labels] /\ kind' \in [Slots -> {"api", "logout"}]
         /\ carries' \in [Slots -> Token] /\ token' \in Token
         /\ isRefreshing' \in BOOLEAN
<1>1. isRefreshing' \in BOOLEAN
  BY DEF ForceLogout
<1>2. token' \in Token
  BY TokensAssumption DEF TypeOK, ForceLogout, Token
<1> QED
  BY <1>1, <1>2 DEF TypeOK, ForceLogout, Labels

(* The answer to a request keeps the types.                                  *)
LEMMA EndType ==
  ASSUME TypeOK, NEW r \in Slots, End(r)
  PROVE  /\ pc' \in [Slots -> Labels] /\ kind' \in [Slots -> {"api", "logout"}]
         /\ carries' \in [Slots -> Token] /\ token' \in Token /\ session' \in Token
<1>1. 0 \in Token
  BY TokensAssumption DEF Token
<1>2. token' \in {0, token}
  BY DEF End
<1>3. session' = session \/ session' = 0
  BY DEF End
<1>4. Vacate(r)
  BY DEF End
<1> QED
  BY <1>1, <1>2, <1>3, <1>4, VacateType DEF TypeOK

(* Every step of the interceptor and of its callers keeps the types.         *)
LEMMA TypeStep == TypeOK /\ [Next]_vars => TypeOK'
<1> SUFFICES ASSUME TypeOK, [Next]_vars PROVE TypeOK'
  OBVIOUS
<1> USE DEF backend, history
<1>1. ASSUME NEW r \in Slots, NEW k \in {"api", "logout"}, Call(r, k) PROVE TypeOK'
  BY <1>1 DEF TypeOK, Call, Labels
<1>2. ASSUME NEW r \in Slots, Answer(r) \/ ReplayEnds(r) PROVE TypeOK'
  <2>1. End(r)
    BY <1>2 DEF Answer, ReplayEnds
  <2> QED
    BY <1>2, <2>1, EndType DEF TypeOK, Answer, ReplayEnds, End
<1>3. ASSUME NEW r \in Slots, Unauthorized(r) PROVE TypeOK'
  <2>1. isRefreshing' \in BOOLEAN
    BY <1>3 DEF TypeOK, Unauthorized
  <2>2. pc' \in [Slots -> Labels] /\ carries' \in [Slots -> Token]
    BY <1>3, TokensAssumption DEF TypeOK, Unauthorized, Labels, Token
  <2> QED
    BY <1>3, <2>1, <2>2 DEF TypeOK, Unauthorized
<1>4. ASSUME NEW r \in Slots, Refreshed(r) PROVE TypeOK'
  <2>1. issued' \in Token
    BY <1>4, TokensAssumption DEF TypeOK, Refreshed, Token
  <2>2. pc' \in [Slots -> Labels] /\ carries' \in [Slots -> Token]
    BY <1>4, <2>1 DEF TypeOK, Refreshed, Labels
  <2>3. isRefreshing' \in BOOLEAN
    BY <1>4 DEF Refreshed
  <2> QED
    BY <1>4, <2>1, <2>2, <2>3 DEF TypeOK, Refreshed
<1>5. ASSUME NEW r \in Slots, RefreshFails(r) PROVE TypeOK'
  <2>1. ForceLogout(r)
    BY <1>5 DEF RefreshFails
  <2>2. session' \in Token
    BY <1>5, TokensAssumption DEF TypeOK, RefreshFails, Token
  <2>3. refreshFailed' \in BOOLEAN
    BY <1>5 DEF RefreshFails
  <2> QED
    BY <1>5, <2>1, <2>2, <2>3, ForceLogoutType DEF TypeOK, RefreshFails, ForceLogout
<1>6. ASSUME NEW r \in Slots, RetryEnds(r) PROVE TypeOK'
  <2>1. CASE End(r) /\ UNCHANGED <<isRefreshing, history>>
    BY <2>1, EndType DEF TypeOK, End
  <2>2. CASE ForceLogout(r) /\ retryFailed' = TRUE
             /\ UNCHANGED <<session, refreshFailed, unsubscribed>>
    <3>1. retryFailed' \in BOOLEAN
      BY <2>2
    <3> QED
      BY <2>2, <3>1, ForceLogoutType DEF TypeOK, ForceLogout
  <2> QED
    BY <1>6, <2>1, <2>2 DEF RetryEnds
<1>7. ASSUME NEW r \in Slots, Unsubscribe(r) PROVE TypeOK'
  <2>1. Vacate(r) /\ unsubscribed' \in BOOLEAN
    BY <1>7 DEF Unsubscribe
  <2> QED
    BY <1>7, <2>1, VacateType DEF TypeOK, Unsubscribe
<1>8. ASSUME Login \/ TokenExpires \/ SessionEnds PROVE TypeOK'
  BY <1>8, TokensAssumption DEF TypeOK, Login, TokenExpires, SessionEnds, Token
<1>9. ASSUME UNCHANGED vars PROVE TypeOK'
  BY <1>9 DEF TypeOK, vars
<1> QED
  BY <1>1, <1>2, <1>3, <1>4, <1>5, <1>6, <1>7, <1>8, <1>9 DEF Next, Network

(* Every variable of AuthInterceptor keeps its type.                        *)
THEOREM InterceptorTypes == Spec => []TypeOK
  BY TypeInit, TypeStep, PTL DEF Spec
-----------------------------------------------------------------------------
(* A refresh under way is the one that isRefreshing stands for.             *)
Guarded ==
  retryFailed \/ /\ \A r \in Slots : pc[r] = "refresh" => isRefreshing
                 /\ SingleRefresh

LEMMA GuardedInit == Init => Guarded
  BY DEF Init, Guarded, SingleRefresh

(* As long as no retry has failed, every step keeps the flag up while a      *)
(* refresh runs, and so keeps the refresh the only one.                      *)
LEMMA GuardedStep == TypeOK /\ Guarded /\ [Next]_vars => Guarded'
<1> SUFFICES ASSUME TypeOK, Guarded, [Next]_vars PROVE Guarded'
  OBVIOUS
<1> USE DEF TypeOK, Guarded, SingleRefresh, backend, history
<1>1. ASSUME NEW r \in Slots, NEW k \in {"api", "logout"}, Call(r, k) PROVE Guarded'
  BY <1>1 DEF Call
<1>2. ASSUME NEW r \in Slots, Answer(r) \/ ReplayEnds(r) PROVE Guarded'
  BY <1>2 DEF Answer, ReplayEnds, End, Vacate
<1>3. ASSUME NEW r \in Slots, Unauthorized(r) PROVE Guarded'
  BY <1>3 DEF Unauthorized
<1>4. ASSUME NEW r \in Slots, Refreshed(r) PROVE Guarded'
  BY <1>4 DEF Refreshed
<1>5. ASSUME NEW r \in Slots, RefreshFails(r) PROVE Guarded'
  BY <1>5 DEF RefreshFails, ForceLogout
<1>6. ASSUME NEW r \in Slots, RetryEnds(r) PROVE Guarded'
  BY <1>6 DEF RetryEnds, End, Vacate, ForceLogout
<1>7. ASSUME NEW r \in Slots, Unsubscribe(r) PROVE Guarded'
  BY <1>7 DEF Unsubscribe, Vacate
<1>8. ASSUME Login \/ TokenExpires \/ SessionEnds \/ UNCHANGED vars PROVE Guarded'
  BY <1>8 DEF Login, TokenExpires, SessionEnds, vars
<1> QED
  BY <1>1, <1>2, <1>3, <1>4, <1>5, <1>6, <1>7, <1>8 DEF Next, Network

(* Until a call fails when it is repeated behind its own refresh, any       *)
(* number of calls that meet a 401 make one refresh at a time.              *)
THEOREM RefreshesDoNotOverlap == Spec => []SingleRefresh
<1>1. Guarded => SingleRefresh
  BY DEF Guarded, SingleRefresh
<1> QED
  BY <1>1, GuardedInit, GuardedStep, TypeInit, TypeStep, PTL DEF Spec
-----------------------------------------------------------------------------
(* The page of a course.                                                   *)
-----------------------------------------------------------------------------
(* Calls are numbered by clicks.  A page that is left behind a change is    *)
(* late, and an enrollment that is stored is answered.                      *)
CallInv ==
  \A c \in calls :
    /\ c.at <= clicks
    /\ ~c.heard /\ c.kind \in {"create", "enroll"} => late
    /\ c.kind = "enroll" /\ c.stage \in {"saved", "done"} => c.enrollment # None

(* A click makes one call, but for opening a page, which makes two.         *)
OneClick ==
  \A c, d \in calls : c.at = d.at => c = d \/ {c.kind, d.kind} = {"list", "enrollment"}

(* What calls in the middle of a route know of the rows: an enrollment that *)
(* is not stored yet does not exist, a review is of a completed one, and no *)
(* call has found a review that it may change.                              *)
RowInv ==
  /\ completed \subseteq Enrolled
  /\ \A n \in 1..MaxClicks : n > clicks => student[n] = None
  /\ \A c \in calls :
       /\ c.kind = "enroll" /\ c.stage \in {"sent", "found"} => student[c.at] = None
       /\ c.stage = "saved" => c.kind = "enroll"
       /\ c.stage = "found" => c.kind = "enroll" \/ (c.kind = "create" /\ c.id \in completed)

(* Until it expires, the counter and the messages on their way or still to  *)
(* be sent add up to the enrollments; while there is none, messages are not *)
(* too many.                                                                *)
Owed == channel + Cardinality(Unpublished)

CountInv ==
  faults = 0 /\ ~lapsed => IF counter > 0 THEN counter + Owed = Count ELSE Owed <= Count

(* A tab knows that its student is enrolled, or a call will tell it.        *)
TellsEnrolled(c) ==
  \/ c.kind = "enroll" /\ c.stage \in {"saved", "done"}
  \/ c.kind = "enrollment" /\ (c.stage = "sent" \/ (c.stage = "done" /\ c.enrollment # None))

ToldEnrolled(t) ==
  \/ tab[t].enrollment # None
  \/ \E c \in calls : c.tab = t /\ c.heard /\ TellsEnrolled(c)

EnrollmentInv ==
  enroller # None =>
    /\ \E i \in Ids : student[i] = user[enroller]
    /\ faults = 0 /\ ~late => ToldEnrolled(enroller)

(* A tab shows the reviews, or is told that its own was stored, or waits    *)
(* for a list that has them, or has failed.                                 *)
NewestList(c, t) == c.kind = "list" /\ c.heard /\ c.tab = t /\ c.at = tab[t].newest

Stores(c, t) == c.kind = "create" /\ c.stage = "done" /\ c.heard /\ c.tab = t

Lists(t) ==
  \/ tab[t].failed
  \/ \E c \in calls : Stores(c, t)
  \/ tab[t].newest = None /\ tab[t].shown = reviews
  \/ /\ tab[t].newest # None /\ \E c \in calls : NewestList(c, t)
     /\ \A c \in calls :
          NewestList(c, t) => c.stage = "sent" \/ (c.stage = "done" /\ c.list = reviews)

ListInv == author # None /\ faults = 0 /\ ~late => Lists(author)

CourseInv ==
  /\ CPTypeOK /\ OneReviewEach /\ CallInv /\ OneClick /\ RowInv /\ CountInv
  /\ EnrollmentInv /\ ListInv
-----------------------------------------------------------------------------
(* What a call is once its stage has changed.                               *)
LEMMA ToCall ==
  ASSUME NEW c \in PageCall, NEW s \in Stages
  PROVE  /\ To(c, s) \in PageCall /\ To(c, s).stage = s
         /\ \A S \in SUBSET Review : [To(c, s) EXCEPT !.list = S] \in PageCall
         /\ \A e \in Found : [To(c, s) EXCEPT !.enrollment = e] \in PageCall
  BY DEF To, PageCall

(* A click makes a call.                                                    *)
LEMMA NewCallType ==
  ASSUME NEW t \in Tabs, NEW at \in 1..MaxClicks, NEW k \in Kinds,
         NEW id \in Ids \cup {None}
  PROVE  NewCall(t, at, k, id) \in PageCall
  BY DEF NewCall, PageCall, Found, Stages

(* A call that is not heard any more is the same call otherwise.            *)
Mute(b) == [b EXCEPT !.heard = FALSE]

Like(b, c) ==
  /\ c.tab = b.tab /\ c.at = b.at /\ c.kind = b.kind /\ c.id = b.id /\ c.stage = b.stage
  /\ c.list = b.list /\ c.enrollment = b.enrollment

LEMMA SilencedCalls ==
  ASSUME CPTypeOK, NEW S \in SUBSET calls
  PROVE  /\ Silenced(S) \subseteq PageCall
         /\ \A c \in Silenced(S) : \E b \in calls :
              Like(b, c) /\ c = (IF b \in S THEN Mute(b) ELSE b) /\ (b \in S => ~c.heard)
         /\ calls \ S \subseteq Silenced(S)
         /\ \A b \in calls : b.kind \notin Reads => \E c \in Silenced(S) : Like(b, c)
<1> DEFINE T == {b \in S : b.kind \notin Reads}
<1>1. \A b \in S : Mute(b) \in PageCall /\ Like(b, Mute(b)) /\ ~Mute(b).heard
  BY DEF CPTypeOK, PageCall, Like, Mute
<1>2. Silenced(S) = (calls \ S) \cup {Mute(b) : b \in T} /\ T \subseteq S
  BY DEF Silenced, Mute
<1>3. \A b \in calls : Like(b, b)
  BY DEF Like
<1>4. Silenced(S) \subseteq PageCall
  BY <1>1, <1>2 DEF CPTypeOK
<1>5. ASSUME NEW c \in Silenced(S)
      PROVE  \E b \in calls :
               Like(b, c) /\ c = (IF b \in S THEN Mute(b) ELSE b) /\ (b \in S => ~c.heard)
  <2>1. CASE c \in calls \ S
    BY <1>3, <2>1
  <2>2. CASE \E b \in T : c = Mute(b)
    BY <1>1, <1>2, <2>2
  <2> QED
    BY <1>2, <1>5, <2>1, <2>2
<1>6. calls \ S \subseteq Silenced(S)
  BY <1>2
<1>7. ASSUME NEW b \in calls, b.kind \notin Reads PROVE \E c \in Silenced(S) : Like(b, c)
  <2>1. CASE b \in S
    BY <1>1, <1>2, <1>7, <2>1
  <2>2. CASE b \notin S
    BY <1>2, <1>3, <2>2
  <2> QED
    BY <2>1, <2>2
<1> QED
  BY <1>4, <1>5, <1>6, <1>7

(* What the page of a tab holds after an answer.                            *)
LEMMA Loaded ==
  ASSUME CPTypeOK, NEW c \in calls, ReviewsLoaded(c)
  PROVE  /\ tab' \in [Tabs -> Tab] /\ \A t \in Tabs \ {c.tab} : tab'[t] = tab[t]
         /\ tab'[c.tab].enrollment = tab[c.tab].enrollment
         /\ tab'[c.tab].failed = tab[c.tab].failed
         /\ tab'[c.tab].newest = IF tab[c.tab].newest = c.at THEN None ELSE tab[c.tab].newest
         /\ tab'[c.tab].shown = IF c.stage = "done" THEN c.list ELSE tab[c.tab].shown
<1> DEFINE new == [tab[c.tab] EXCEPT !.loading = FALSE,
                                   !.newest = IF @ = c.at THEN None ELSE @,
                                   !.shown = IF c.stage = "done" THEN c.list ELSE @]
<1>1. c.tab \in Tabs /\ c.list \in SUBSET Review /\ tab[c.tab] \in Tab
  BY DEF CPTypeOK, PageCall
<1>2. new \in Tab
  BY <1>1 DEF Tab
<1>3. tab' = [tab EXCEPT ![c.tab] = new]
  BY DEF ReviewsLoaded
<1>4. tab' \in [Tabs -> Tab] /\ tab'[c.tab] = new /\ \A t \in Tabs \ {c.tab} : tab'[t] = tab[t]
  <2> HIDE DEF new
  <2> QED
    BY <1>1, <1>2, <1>3 DEF CPTypeOK
<1> QED
  BY <1>1, <1>4 DEF Tab

(* What the page of a tab holds after the answers about an enrollment.      *)
LEMMA Answered ==
  ASSUME CPTypeOK, NEW c \in calls, EnrollAnswered(c) \/ EnrollmentFound(c)
  PROVE  /\ tab' \in [Tabs -> Tab] /\ \A t \in Tabs \ {c.tab} : tab'[t] = tab[t]
         /\ tab'[c.tab].shown = tab[c.tab].shown /\ tab'[c.tab].newest = tab[c.tab].newest
         /\ tab'[c.tab].failed = tab[c.tab].failed
         /\ tab'[c.tab].enrollment = c.enrollment
<1> DEFINE new == [tab[c.tab] EXCEPT !.enrolling = FALSE, !.enrollment = c.enrollment]
           old == [tab[c.tab] EXCEPT !.enrollment = c.enrollment]
<1>1. c.tab \in Tabs /\ c.enrollment \in Found /\ tab[c.tab] \in Tab
  BY DEF CPTypeOK, PageCall
<1>2. new \in Tab /\ old \in Tab
  BY <1>1 DEF Tab
<1>3. tab' = [tab EXCEPT ![c.tab] = new] \/ tab' = [tab EXCEPT ![c.tab] = old]
  BY DEF EnrollAnswered, EnrollmentFound
<1>4. /\ tab' \in [Tabs -> Tab] /\ \A t \in Tabs \ {c.tab} : tab'[t] = tab[t]
      /\ tab'[c.tab] = new \/ tab'[c.tab] = old
  <2> HIDE DEF new, old
  <2> QED
    BY <1>1, <1>2, <1>3 DEF CPTypeOK
<1> QED
  BY <1>1, <1>4 DEF Tab

(* What is left of the page of a tab after a refused enrollment.            *)
LEMMA Refused ==
  ASSUME CPTypeOK, NEW c \in calls, EnrollRefused(c)
  PROVE  /\ tab' \in [Tabs -> Tab] /\ \A t \in Tabs \ {c.tab} : tab'[t] = tab[t]
         /\ tab'[c.tab].failed /\ tab'[c.tab].enrollment = tab[c.tab].enrollment
<1> DEFINE new == [tab[c.tab] EXCEPT !.enrolling = FALSE, !.failed = TRUE, !.shown = {},
                                   !.loading = FALSE, !.newest = None, !.saving = FALSE]
<1>1. c.tab \in Tabs /\ tab[c.tab] \in Tab
  BY DEF CPTypeOK, PageCall
<1>2. new \in Tab
  BY <1>1 DEF Tab
<1>3. tab' = [tab EXCEPT ![c.tab] = new]
  BY DEF EnrollRefused
<1>4. tab' \in [Tabs -> Tab] /\ tab'[c.tab] = new /\ \A t \in Tabs \ {c.tab} : tab'[t] = tab[t]
  <2> HIDE DEF new
  <2> QED
    BY <1>1, <1>2, <1>3 DEF CPTypeOK
<1> QED
  BY <1>1, <1>4 DEF Tab

(* What the page of a tab holds when a stored change has it load its list   *)
(* again, and when a change was refused.                                    *)
LEMMA Reloaded ==
  ASSUME CPTypeOK, NEW c \in calls, Reloads(c)
  PROVE  /\ tab' \in [Tabs -> Tab] /\ \A t \in Tabs \ {c.tab} : tab'[t] = tab[t]
         /\ tab'[c.tab].newest = c.at /\ tab'[c.tab].enrollment = tab[c.tab].enrollment
         /\ tab'[c.tab].failed = tab[c.tab].failed
<1> DEFINE new == [tab[c.tab] EXCEPT !.loading = TRUE, !.newest = c.at, 
                                   !.saving = @ /\ c.kind = "remove"]
<1>1. c.tab \in Tabs /\ c.at \in 1..MaxClicks /\ tab[c.tab] \in Tab
  BY DEF CPTypeOK, PageCall
<1>2. new \in Tab
  BY <1>1 DEF Tab
<1>3. tab' = [tab EXCEPT ![c.tab] = new]
  BY DEF Reloads
<1>4. tab' \in [Tabs -> Tab] /\ tab'[c.tab] = new /\ \A t \in Tabs \ {c.tab} : tab'[t] = tab[t]
  <2> HIDE DEF new
  <2> QED
    BY <1>1, <1>2, <1>3 DEF CPTypeOK
<1> QED
  BY <1>1, <1>4 DEF Tab

LEMMA NotStored ==
  ASSUME CPTypeOK, NEW c \in calls, Submitted(c), c.stage # "done"
  PROVE  /\ tab' \in [Tabs -> Tab] /\ calls' = calls \ {c} /\ late' = late
         /\ \A t \in Tabs : /\ tab'[t].newest = tab[t].newest /\ tab'[t].shown = tab[t].shown
                            /\ tab'[t].enrollment = tab[t].enrollment
                            /\ tab'[t].failed = tab[t].failed
<1> DEFINE new == [tab[c.tab] EXCEPT !.saving = FALSE]
<1>1. c.tab \in Tabs /\ tab[c.tab] \in Tab /\ tab \in [Tabs -> Tab]
  BY DEF CPTypeOK, PageCall
<1>2. new \in Tab
  BY <1>1 DEF Tab
<1>3. /\ tab' = [tab EXCEPT ![c.tab] = new] \/ tab' = tab
      /\ calls' = calls \ {c} /\ late' = late
  BY DEF Submitted, SaveRefused, DeleteFails
<1>4. /\ new.newest = tab[c.tab].newest /\ new.shown = tab[c.tab].shown
      /\ new.enrollment = tab[c.tab].enrollment /\ new.failed = tab[c.tab].failed
  BY <1>1 DEF Tab
<1> HIDE DEF new
<1> QED
  BY <1>1, <1>2, <1>3, <1>4

(* TypeOK holds at the start.                                               *)
LEMMA IdsFinite ==
  /\ IsFiniteSet(Ids) /\ IsFiniteSet(Enrolled) /\ Count \in Nat
  /\ \A S \in SUBSET Ids : IsFiniteSet(S) /\ Cardinality(S) \in Nat
<1>1. IsFiniteSet(1..MaxClicks)
  BY FS_Interval, ConstantsAssumption
<1>2. IsFiniteSet(Ids)
  BY <1>1, FS_Union, ConstantsAssumption DEF Ids
<1>3. \A S \in SUBSET Ids : IsFiniteSet(S) /\ Cardinality(S) \in Nat
  BY <1>2, FS_Subset, FS_CardinalityType
<1> QED
  BY <1>2, <1>3 DEF Enrolled, Count

LEMMA CourseTypeInit ==
  CPInit => CPTypeOK
<1> SUFFICES ASSUME CPInit PROVE CPTypeOK
  OBVIOUS
<1>1. student \in [Ids -> Students \cup {None}] /\ completed \subseteq Ids
  BY DEF CPInit, Enrolled
<1>2. reviews \subseteq Review
  BY <1>1 DEF CPInit, Review
<1>3. counter \in Nat
  BY IdsFinite DEF CPInit
<1>4. tab \in [Tabs -> Tab]
  BY <1>2 DEF CPInit, Tab, Found
<1>5. expires \in BOOLEAN
  BY DEF CPInit
<1>6. /\ user \in [Tabs -> Students]
      /\ calls = {} /\ fresh \in BOOLEAN /\ channel \in Nat /\ late \in BOOLEAN /\ lapsed \in BOOLEAN
      /\ clicks = 0 /\ faults = 0 /\ enroller = None /\ author = None
  BY DEF CPInit
<1> QED
  BY <1>1, <1>2, <1>3, <1>4, <1>5, <1>6, ConstantsAssumption DEF CPTypeOK
-----------------------------------------------------------------------------
(* A request between two awaits changes the stage of its call, and keeps    *)
(* what the page has asked for.                                             *)
Same(c, d) == d.tab = c.tab /\ d.at = c.at /\ d.kind = c.kind /\ d.heard = c.heard /\ d.id = c.id

(* A change of stage keeps the other fields of a call.                      *)
LEMMA ToSame ==
  ASSUME NEW c \in PageCall, NEW s \in Stages
  PROVE  /\ Same(c, To(c, s)) /\ To(c, s).enrollment = c.enrollment
         /\ \A S \in SUBSET Review :
              LET d == [To(c, s) EXCEPT !.list = S]
              IN  Same(c, d) /\ d.stage = s /\ d.list = S
         /\ \A e \in Found :
              LET d == [To(c, s) EXCEPT !.enrollment = e]
              IN  Same(c, d) /\ d.stage = s /\ d.enrollment = e
  BY DEF To, PageCall, Same

(* What a student is told of own enrollments: there is one, or none.        *)
LEMMA MineType ==
  ASSUME CPTypeOK, NEW s \in Students
  PROVE  /\ Mine(s) \subseteq Found
         /\ Mine(s) = {None} <=> \A i \in Ids : student[i] # s
         /\ (\E i \in Ids : student[i] = s) => None \notin Mine(s)
<1> DEFINE own == {i \in Ids : student[i] = s}
           told == {[id |-> i, completed |-> i \in completed] : i \in own}
<1>1. told \subseteq Seen /\ None \notin Seen
  <2>1. ASSUME NEW i \in Ids, NEW b \in BOOLEAN PROVE [id |-> i, completed |-> b] \in Seen
    BY DEF Seen
  <2>2. ASSUME NEW i \in Ids PROVE [id |-> i, completed |-> i \in completed] \in Seen
    <3> DEFINE b == i \in completed
    <3>1. b \in BOOLEAN
      BY DEF b
    <3> HIDE DEF b
    <3>2. [id |-> i, completed |-> b] \in Seen
      BY <2>1, <3>1
    <3> QED
      BY <3>2 DEF b
  <2>3. told \subseteq Seen
    BY <2>2
  <2> QED
    BY <2>3, ConstantsAssumption
<1>2. Mine(s) = IF own = {} THEN {None} ELSE told
  BY DEF Mine
<1>3. own # {} => told # {}
  OBVIOUS
<1>4. own # {} <=> \E i \in Ids : student[i] = s
  OBVIOUS
<1> HIDE DEF own, told
<1> QED
  BY <1>1, <1>2, <1>3, <1>4 DEF Found

(* What the routes do to a call, each in turn.                              *)
Steps(c, d) ==
  /\ d \in PageCall /\ Same(c, d) /\ calls' = (calls \ {c}) \cup {d} /\ UNCHANGED <<page, clicks>>

LEMMA ReadServed ==
  ASSUME CPTypeOK, NEW c \in calls, FindByCourse(c) \/ FindMyEnrollment(c)
  PROVE  \E d \in PageCall :
           /\ Steps(c, d) /\ c.stage = "sent" /\ d.stage = "done" /\ c.kind \in Reads
           /\ c.kind = "list" => d.list = reviews
           /\ c.kind = "enrollment" => d.enrollment \in Mine(user[c.tab])
           /\ UNCHANGED <<rows, redis, faults>>
<1>0. /\ c \in PageCall /\ reviews \in SUBSET Review /\ user[c.tab] \in Students
      /\ "done" \in Stages
  BY DEF CPTypeOK, PageCall, Stages
<1>1. CASE FindByCourse(c)
  <2> DEFINE d == [To(c, "done") EXCEPT !.list = reviews]
  <2>1. d \in PageCall
    BY <1>0, ToCall
  <2>2. Same(c, d) /\ d.stage = "done" /\ d.list = reviews
    BY <1>0, ToSame
  <2>3. calls' = (calls \ {c}) \cup {d} /\ UNCHANGED <<page, clicks>> /\ c.kind = "list"
        /\ c.stage = "sent" /\ UNCHANGED <<rows, redis, faults>>
    BY <1>1 DEF FindByCourse, Becomes
  <2> HIDE DEF d
  <2> QED
    BY <2>1, <2>2, <2>3 DEF Steps, Reads
<1>2. CASE FindMyEnrollment(c)
  <2>1. PICK e \in Mine(user[c.tab]) : Becomes(c, [To(c, "done") EXCEPT !.enrollment = e])
    BY <1>2 DEF FindMyEnrollment
  <2>2. e \in Found
    BY <1>0, <2>1, MineType
  <2> DEFINE d == [To(c, "done") EXCEPT !.enrollment = e]
  <2>3. d \in PageCall
    BY <1>0, <2>2, ToCall
  <2>4. Same(c, d) /\ d.stage = "done" /\ d.enrollment = e
    BY <1>0, <2>2, ToSame
  <2>5. calls' = (calls \ {c}) \cup {d} /\ UNCHANGED <<page, clicks>> /\ c.kind = "enrollment"
        /\ c.stage = "sent" /\ UNCHANGED <<rows, redis, faults>>
    BY <1>2, <2>1 DEF FindMyEnrollment, Becomes
  <2> HIDE DEF d
  <2> QED
    BY <2>3, <2>4, <2>5 DEF Steps, Reads
<1> QED
  BY <1>1, <1>2

LEMMA EnrollServed ==
  ASSUME CPTypeOK, NEW c \in calls, CheckEnrollment(c) \/ SaveEnrollment(c) \/ Publish(c)
  PROVE  \E d \in PageCall :
           /\ Steps(c, d) /\ c.kind = "enroll" /\ faults' = faults
           /\ \/ /\ c.stage = "sent" /\ d.stage \in {"found", "refused"} /\ UNCHANGED <<rows, redis>>
                 /\ d.stage = "refused" => \E i \in Ids : student[i] = user[c.tab]
              \/ c.stage = "found" /\ d.stage = "saved" /\ d.enrollment # None /\ Insert(c)
              \/ c.stage = "saved" /\ d.stage = "done" /\ d.enrollment = c.enrollment /\ Message
<1>0. c \in PageCall /\ user[c.tab] \in Students /\ c.at \in Ids
  BY DEF CPTypeOK, PageCall, Ids
<1>1. CASE CheckEnrollment(c)
  <2> DEFINE s == IF Mine(user[c.tab]) = {None} THEN "found" ELSE "refused"
             d == To(c, s)
  <2>1. s \in Stages /\ s \in {"found", "refused"}
        /\ (s = "refused" => \E i \in Ids : student[i] = user[c.tab])
    BY <1>0, MineType DEF Stages
  <2> HIDE DEF s
  <2>2. d \in PageCall /\ d.stage = s /\ Same(c, d)
    BY <1>0, <2>1, ToCall, ToSame
  <2>3. calls' = (calls \ {c}) \cup {d} /\ UNCHANGED <<page, clicks, rows, redis, faults>>
        /\ c.kind = "enroll" /\ c.stage = "sent"
    BY <1>1 DEF CheckEnrollment, Becomes, s
  <2> HIDE DEF d
  <2> QED
    BY <2>1, <2>2, <2>3 DEF Steps
<1>2. CASE SaveEnrollment(c)
  <2> DEFINE e == [id |-> c.at, completed |-> FALSE]
             d == [To(c, "saved") EXCEPT !.enrollment = e]
  <2>1. e \in Found /\ e # None /\ "saved" \in Stages
    <3>1. e \in Seen
      BY <1>0 DEF Seen
    <3> HIDE DEF e
    <3> QED
      BY <3>1, ConstantsAssumption DEF Found, Stages
  <2>2. calls' = (calls \ {c}) \cup {d} /\ UNCHANGED <<page, clicks, faults>>
        /\ c.kind = "enroll" /\ c.stage = "found" /\ Insert(c)
    BY <1>2 DEF SaveEnrollment, Becomes
  <2> HIDE DEF e
  <2>3. d \in PageCall
    BY <1>0, <2>1, ToCall
  <2>4. Same(c, d) /\ d.stage = "saved" /\ d.enrollment = e
    BY <1>0, <2>1, ToSame
  <2> HIDE DEF d
  <2> QED
    BY <2>1, <2>2, <2>3, <2>4 DEF Steps
<1>3. CASE Publish(c)
  <2> DEFINE d == To(c, "done")
  <2>1. d \in PageCall /\ d.stage = "done" /\ Same(c, d) /\ d.enrollment = c.enrollment
    BY <1>0, ToCall, ToSame DEF Stages
  <2>2. calls' = (calls \ {c}) \cup {d} /\ UNCHANGED <<page, clicks, faults>>
        /\ c.kind = "enroll" /\ c.stage = "saved" /\ Message
    BY <1>3 DEF Publish, Becomes
  <2> HIDE DEF d
  <2> QED
    BY <2>1, <2>2 DEF Steps
<1> QED
  BY <1>1, <1>2, <1>3

LEMMA ReviewServed ==
  ASSUME CPTypeOK, OneReviewEach, RowInv, NEW c \in calls,
         CheckReview(c) \/ FindReview(c) \/ SaveReview(c)
  PROVE  \E d \in PageCall :
           /\ Steps(c, d) /\ c.kind \in {"create", "update", "remove"} /\ UNCHANGED <<redis, faults>>
           /\ \/ c.stage = "sent" /\ d.stage \in {"found", "refused"} /\ UNCHANGED rows
              \/ c.stage = "found" /\ d.stage = "refused" /\ UNCHANGED rows
              \/ c.stage = "found" /\ d.stage = "done" /\ Insertable(c) /\ Write(c)
           /\ d.stage = "found" => c.kind = "create" /\ c.id \in completed
           /\ c.stage = "found" => c.kind = "create" /\ c.id \in completed
<1>0. c \in PageCall
  BY DEF CPTypeOK
<1>1. CASE CheckReview(c)
  <2> DEFINE s == IF c.id \in completed /\ (\A r \in reviews : r.enrollment # c.id)
                  THEN "found" ELSE "refused"
             d == To(c, s)
  <2>1. s \in Stages /\ s \in {"found", "refused"} /\ (s = "found" => c.id \in completed)
    BY DEF Stages
  <2> HIDE DEF s
  <2>2. d \in PageCall /\ d.stage = s /\ Same(c, d)
    BY <1>0, <2>1, ToCall, ToSame
  <2>3. calls' = (calls \ {c}) \cup {d} /\ UNCHANGED <<page, clicks, rows, redis, faults>>
        /\ c.kind = "create" /\ c.stage = "sent"
    BY <1>1 DEF CheckReview, Becomes, s
  <2> HIDE DEF d
  <2> QED
    BY <2>1, <2>2, <2>3 DEF Steps
<1>2. CASE FindReview(c)
  <2>1. Own(Named(c.id), Caller) = {}
    BY ConstantsAssumption DEF Own, Named, Caller, OneReviewEach, Enrolled
  <2> DEFINE d == [To(c, "refused") EXCEPT !.list = Named(c.id)]
  <2>2. Named(c.id) \in SUBSET Review /\ "refused" \in Stages
    BY DEF Named, CPTypeOK, Stages
  <2>3. d \in PageCall
    BY <1>0, <2>2, ToCall
  <2>4. Same(c, d) /\ d.stage = "refused"
    BY <1>0, <2>2, ToSame
  <2>5. calls' = (calls \ {c}) \cup {d} /\ UNCHANGED <<page, clicks, rows, redis, faults>>
        /\ c.kind \in {"update", "remove"} /\ c.stage = "sent"
    BY <1>2, <2>1 DEF FindReview, Becomes
  <2> HIDE DEF d
  <2> QED
    BY <2>3, <2>4, <2>5 DEF Steps
<1>3. CASE SaveReview(c)
  <2>0. c.kind = "create" /\ c.stage = "found" /\ c.id \in completed
    BY <1>3 DEF SaveReview, RowInv
  <2>1. CASE Insertable(c)
    <3> DEFINE d == To(c, "done")
    <3>1. d \in PageCall /\ d.stage = "done" /\ Same(c, d)
      BY <1>0, ToCall, ToSame DEF Stages
    <3>2. calls' = (calls \ {c}) \cup {d} /\ UNCHANGED <<page, clicks, faults>> /\ Write(c)
      BY <1>3, <2>0, <2>1 DEF SaveReview, Becomes
    <3> HIDE DEF d
    <3> QED
      BY <2>0, <2>1, <3>1, <3>2 DEF Steps, Write
  <2>2. CASE ~Insertable(c)
    <3> DEFINE d == To(c, "refused")
    <3>1. d \in PageCall /\ d.stage = "refused" /\ Same(c, d)
      BY <1>0, ToCall, ToSame DEF Stages
    <3>2. calls' = (calls \ {c}) \cup {d} /\ UNCHANGED <<page, clicks, faults, rows, redis>>
      BY <1>3, <2>0, <2>2 DEF SaveReview, Becomes
    <3> HIDE DEF d
    <3> QED
      BY <2>0, <3>1, <3>2 DEF Steps
  <2> QED
    BY <2>1, <2>2
<1> QED
  BY <1>1, <1>2, <1>3

LEMMA FailServed ==
  ASSUME CPTypeOK, NEW c \in calls, Fail(c)
  PROVE  \E d \in PageCall :
           /\ Steps(c, d) /\ d.stage = "refused" /\ faults' = faults + 1 /\ faults' # 0
           /\ faults' \in 0..MaxFaults /\ c.stage \in {"sent", "found", "saved"}
           /\ \/ UNCHANGED <<rows, redis>>
              \/ c.kind = "enroll" /\ c.stage = "found" /\ Insert(c)
              \/ Message
              \/ c.kind = "create" /\ c.stage = "found" /\ Insertable(c) /\ Write(c)
<1> DEFINE d == To(c, "refused")
<1>1. d \in PageCall /\ d.stage = "refused" /\ Same(c, d)
  BY ToCall, ToSame DEF Stages, CPTypeOK
<1>2. faults' = faults + 1 /\ faults' # 0 /\ faults' \in 0..MaxFaults
  BY ConstantsAssumption DEF Fail, CPTypeOK
<1>3. calls' = (calls \ {c}) \cup {d} /\ UNCHANGED <<page, clicks>>
  BY DEF Fail
<1> HIDE DEF d
<1> QED
  BY <1>1, <1>2, <1>3 DEF Fail, Steps

(* What the inserts leave in the tables.                                    *)
LEMMA InsertType ==
  ASSUME CPTypeOK, NEW c \in calls, Insert(c)
  PROVE  /\ student' \in [Ids -> Students \cup {None}] /\ c.at \in Ids
         /\ user[c.tab] \in Students /\ c.tab \in Tabs
         /\ \A i \in Ids : student'[i] = IF i = c.at THEN user[c.tab] ELSE student[i]
         /\ enroller' = c.tab /\ UNCHANGED <<completed, reviews, author, redis>>
<1>1. c.at \in Ids /\ user[c.tab] \in Students /\ c.tab \in Tabs
  BY DEF CPTypeOK, PageCall, Ids
<1> QED
  BY <1>1 DEF Insert, CPTypeOK

LEMMA WriteType ==
  ASSUME CPTypeOK, NEW c \in calls, Write(c), c.id \in Ids
  PROVE  /\ reviews' \subseteq Review /\ c.tab \in Tabs /\ author' = c.tab
         /\ UNCHANGED <<student, completed, enroller, redis>>
  BY DEF Write, CPTypeOK, PageCall, Review, Ids
-----------------------------------------------------------------------------
(* What a call becomes, on the server as in its failures, and what that     *)
(* leaves in the tables.                                                    *)
Stored(c, d) ==
  \/ UNCHANGED rows
  \/ c.kind = "enroll" /\ c.stage = "found" /\ d.stage \in {"saved", "refused"} /\ Insert(c)
  \/ c.kind = "create" /\ c.id \in completed /\ d.stage \in {"done", "refused"}
     /\ Insertable(c) /\ Write(c)

LEMMA Served ==
  ASSUME CPTypeOK, OneReviewEach, RowInv, NEW c \in calls, Serve(c) \/ Fail(c)
  PROVE  \E d \in PageCall :
           /\ Steps(c, d) /\ Stored(c, d) /\ c.stage \in {"sent", "found", "saved"}
           /\ faults' = faults \/ faults' # 0
           /\ d.stage # "sent"
           /\ d.stage = "saved" => c.kind = "enroll" /\ d.enrollment # None
           /\ d.kind = "enroll" /\ d.stage = "done" => c.stage = "saved" /\ d.enrollment = c.enrollment
           /\ d.stage = "found" => (c.kind = "enroll" /\ c.stage = "sent")
                                  \/ (c.kind = "create" /\ c.id \in completed)
           /\ faults' = 0 /\ c.kind = "list" => d.stage = "done" /\ d.list = reviews
           /\ faults' = 0 /\ c.kind = "enrollment" =>
                d.stage = "done" /\ d.enrollment \in Mine(user[c.tab])
           /\ faults' = 0 /\ c.kind = "enroll" /\ c.stage = "saved" => d.stage = "done"
<1>1. CASE FindByCourse(c) \/ FindMyEnrollment(c)
  BY <1>1, ReadServed DEF Steps, Same, Stored, Reads
<1>2. CASE CheckEnrollment(c) \/ SaveEnrollment(c) \/ Publish(c)
  <2>1. PICK d \in PageCall :
          /\ Steps(c, d) /\ c.kind = "enroll" /\ faults' = faults
          /\ \/ /\ c.stage = "sent" /\ d.stage \in {"found", "refused"} /\ UNCHANGED <<rows, redis>>
                /\ d.stage = "refused" => \E i \in Ids : student[i] = user[c.tab]
             \/ c.stage = "found" /\ d.stage = "saved" /\ d.enrollment # None /\ Insert(c)
             \/ c.stage = "saved" /\ d.stage = "done" /\ d.enrollment = c.enrollment /\ Message
    BY <1>2, EnrollServed
  <2>2. Stored(c, d)
    BY <2>1 DEF Stored, Message
  <2>3. d.kind = c.kind
    BY <2>1 DEF Steps, Same
  <2>4. CASE c.stage = "sent"
    BY <2>1, <2>2, <2>3, <2>4
  <2>5. CASE c.stage # "sent"
    BY <2>1, <2>2, <2>3, <2>5
  <2> QED
    BY <2>4, <2>5
<1>3. CASE CheckReview(c) \/ FindReview(c) \/ SaveReview(c)
  <2>1. PICK d \in PageCall :
          /\ Steps(c, d) /\ c.kind \in {"create", "update", "remove"} /\ UNCHANGED <<redis, faults>>
          /\ \/ c.stage = "sent" /\ d.stage \in {"found", "refused"} /\ UNCHANGED rows
             \/ c.stage = "found" /\ d.stage = "refused" /\ UNCHANGED rows
             \/ c.stage = "found" /\ d.stage = "done" /\ Insertable(c) /\ Write(c)
          /\ d.stage = "found" => c.kind = "create" /\ c.id \in completed
          /\ c.stage = "found" => c.kind = "create" /\ c.id \in completed
    BY <1>3, ReviewServed
  <2> QED
    BY <2>1 DEF Stored, Steps, Same
<1>4. CASE Fail(c)
  <2>1. PICK d \in PageCall :
          /\ Steps(c, d) /\ d.stage = "refused" /\ faults' # 0 /\ c.stage \in {"sent", "found", "saved"}
          /\ \/ UNCHANGED <<rows, redis>>
             \/ c.kind = "enroll" /\ c.stage = "found" /\ Insert(c)
             \/ Message
             \/ c.kind = "create" /\ c.stage = "found" /\ Insertable(c) /\ Write(c)
    BY <1>4, FailServed
  <2>2. c.kind = "create" /\ c.stage = "found" => c.id \in completed
    BY DEF RowInv
  <2> QED
    BY <2>1, <2>2 DEF Stored, Message
<1> QED
  BY <1>1, <1>2, <1>3, <1>4 DEF Serve

(* An answer takes its call away; after a change the list is asked for      *)
(* again, and a failed page no longer hears the calls of its reviews.       *)
LEMMA PlaceTaken ==
  ASSUME CPTypeOK, NEW c \in calls, Take(c)
  PROVE  /\ \/ calls' = calls \ {c} /\ ~EnrollRefused(c)
            \/ /\ c.kind \in {"create", "update", "remove"} /\ c.stage = "done" /\ c.heard
               /\ Reloads(c)
               /\ calls' = (calls \ {c}) \cup {NewCall(c.tab, c.at, "list", None)}
            \/ /\ c.kind = "enroll" /\ c.stage = "refused" /\ EnrollRefused(c)
               /\ calls' = Silenced(OfReviews(c.tab)) \ {c}
         /\ c.stage \in {"refused", "done"} /\ (late => late')
         /\ UNCHANGED <<user, rows, redis, clicks, faults>>
<1>1. CASE EnrollRefused(c)
  BY <1>1 DEF EnrollRefused, Hears, CPTypeOK
<1>2. CASE Submitted(c)
  <2>1. c.kind # "enroll" /\ ~EnrollRefused(c)
    BY <1>2 DEF Submitted, EnrollRefused
  <2> QED
    BY <1>2, <2>1 DEF Submitted, Reloads, SaveRefused, DeleteFails, Hears, CPTypeOK
<1>3. CASE ~EnrollRefused(c) /\ ~Submitted(c)
  BY <1>3 DEF Take, Unheard, ReviewsLoaded, EnrollmentFound, EnrollAnswered, Hears, CPTypeOK
<1> QED
  BY <1>1, <1>2, <1>3

(* A click that sends a call sends one of its own number.                   *)
LEMMA Clicked ==
  ASSUME CPTypeOK, NEW t \in Tabs,
         Enroll(t) \/ SubmitForm(t) \/ DeleteReview(t)
  PROVE  \E k \in {"enroll", "create", "update", "remove"} : \E id \in Ids \cup {None} :
           /\ clicks < MaxClicks /\ clicks' = clicks + 1 /\ Sends(t, k, id)
           /\ UNCHANGED <<user, late, rows, redis, faults>>
           /\ tab' \in [Tabs -> Tab]
           /\ \A u \in Tabs : /\ tab'[u].enrollment = tab[u].enrollment
                              /\ tab'[u].failed = tab[u].failed
                              /\ tab'[u].newest = tab[u].newest /\ tab'[u].shown = tab[u].shown
<1>0. tab \in [Tabs -> Tab] /\ \A r \in tab[t].shown : r.id \in Ids
  BY DEF CPTypeOK, Tab, Review
<1>1. CASE Enroll(t)
  <2> DEFINE new == [tab[t] EXCEPT !.enrolling = TRUE]
  <2>1. new \in Tab /\ new.enrollment = tab[t].enrollment /\ new.failed = tab[t].failed
        /\ new.newest = tab[t].newest /\ new.shown = tab[t].shown
    BY <1>0 DEF Tab
  <2>2. tab' = [tab EXCEPT ![t] = new]
    BY <1>1 DEF Enroll
  <2> HIDE DEF new
  <2> QED
    BY <1>0, <1>1, <2>1, <2>2 DEF Enroll, Clicks
<1>2. CASE SubmitForm(t)
  <2> DEFINE new == [tab[t] EXCEPT !.saving = TRUE]
  <2>1. new \in Tab /\ new.enrollment = tab[t].enrollment /\ new.failed = tab[t].failed
        /\ new.newest = tab[t].newest /\ new.shown = tab[t].shown
    BY <1>0 DEF Tab
  <2>2. tab' = [tab EXCEPT ![t] = new]
    BY <1>2 DEF SubmitForm
  <2> HIDE DEF new
  <2>3. tab[t].enrollment.id \in Ids
    BY <1>0, <1>2 DEF SubmitForm, Tab, Found, Seen
  <2>4. CASE Sends(t, "create", tab[t].enrollment.id)
    BY <1>0, <1>2, <2>1, <2>2, <2>3, <2>4 DEF SubmitForm, Clicks
  <2>5. CASE \E r \in Own(tab[t].shown, user[t]) : Sends(t, "update", r.id)
    <3>1. PICK r \in tab[t].shown : Sends(t, "update", r.id)
      BY <2>5 DEF Own
    <3>2. r.id \in Ids
      BY <1>0
    <3> QED
      BY <1>0, <1>2, <2>1, <2>2, <3>1, <3>2 DEF SubmitForm, Clicks
  <2> QED
    BY <1>2, <2>4, <2>5 DEF SubmitForm
<1>3. CASE DeleteReview(t)
  <2>1. PICK r \in tab[t].shown : Clicks /\ Sends(t, "remove", r.id) /\ UNCHANGED <<tab, late, rows>>
    BY <1>3 DEF DeleteReview, Own
  <2> QED
    BY <1>0, <2>1 DEF Clicks
<1> QED
  BY <1>1, <1>2, <1>3

(* Steps that leave the calls alone.                                        *)
Redis == HandleMessage \/ SetLifetime \/ Expire \/ Lose

(* Every step keeps TypeOK.                                                 *)
LEMMA CourseTypeNext ==
  CPTypeOK /\ OneReviewEach /\ RowInv /\ [CPNext]_cpVars => CPTypeOK'
<1> SUFFICES ASSUME CPTypeOK, OneReviewEach, RowInv, [CPNext]_cpVars PROVE CPTypeOK'
  OBVIOUS
<1>0. clicks < MaxClicks => clicks + 1 \in 1..MaxClicks
  BY ConstantsAssumption DEF CPTypeOK
<1>1. CASE UNCHANGED cpVars
  BY <1>1 DEF CPTypeOK, cpVars, page, rows, redis
<1>2. ASSUME NEW t \in Tabs, Open(t) PROVE CPTypeOK'
  <2>1. NewCall(t, clicks + 1, "list", None) \in PageCall
        /\ NewCall(t, clicks + 1, "enrollment", None) \in PageCall
    BY <1>0, <1>2, NewCallType DEF Open, Clicks, Kinds
  <2> DEFINE S == {c \in calls : c.tab = t}
  <2>2. Silenced(S) \subseteq PageCall
    BY SilencedCalls
  <2>3. calls' \subseteq PageCall
    BY <1>2, <2>1, <2>2 DEF Open
  <2>4. tab' \in [Tabs -> Tab]
    <3> DEFINE new == [enrollment |-> None, enrolling |-> FALSE, failed |-> FALSE, shown |-> {},
                       loading |-> TRUE, newest |-> clicks + 1, saving |-> FALSE]
    <3>1. new \in Tab
      BY <1>2, <1>0 DEF Open, Clicks, Tab, Found
    <3>2. tab' = [tab EXCEPT ![t] = new]
      BY <1>2 DEF Open
    <3> HIDE DEF new
    <3> QED
      BY <3>1, <3>2 DEF CPTypeOK
  <2>5. late' \in BOOLEAN
    BY <1>2 DEF Open
  <2> QED
    BY <1>2, <1>0, <2>3, <2>4, <2>5 DEF Open, Clicks, CPTypeOK, rows, redis
<1>3. ASSUME NEW t \in Tabs, Enroll(t) \/ SubmitForm(t) \/ DeleteReview(t) PROVE CPTypeOK'
  <2>1. PICK k \in {"enroll", "create", "update", "remove"}, id \in Ids \cup {None} :
          /\ clicks < MaxClicks /\ clicks' = clicks + 1 /\ Sends(t, k, id)
          /\ UNCHANGED <<user, late, rows, redis, faults>> /\ tab' \in [Tabs -> Tab]
    BY <1>3, Clicked
  <2>2. NewCall(t, clicks + 1, k, id) \in PageCall
    BY <1>0, <2>1, NewCallType DEF Kinds
  <2> QED
    BY <1>0, <2>1, <2>2 DEF Sends, CPTypeOK, rows, redis
<1>4. ASSUME NEW i \in Ids, CompleteCourse(i) PROVE CPTypeOK'
  BY <1>4, <1>0 DEF CompleteCourse, Clicks, CPTypeOK, redis
<1>5. ASSUME NEW c \in calls, Serve(c) \/ Fail(c) PROVE CPTypeOK'
  <2>1. PICK d \in PageCall : Steps(c, d) /\ Stored(c, d)
    BY <1>5, Served
  <2>2. calls' \subseteq PageCall /\ UNCHANGED <<page, clicks>>
    BY <2>1 DEF Steps, CPTypeOK
  <2>3. /\ student' \in [Ids -> Students \cup {None}] /\ completed' \subseteq Ids
        /\ reviews' \subseteq Review /\ {enroller', author'} \subseteq Tabs \cup {None}
    <3>1. CASE UNCHANGED rows
      BY <3>1 DEF rows, CPTypeOK
    <3>2. CASE Insert(c)
      BY <3>2, InsertType DEF CPTypeOK
    <3>3. CASE c.id \in completed /\ Write(c)
      BY <3>3, WriteType DEF CPTypeOK
    <3> QED
      BY <2>1, <3>1, <3>2, <3>3 DEF Stored
  <2>4. /\ counter' \in Nat /\ channel' \in Nat /\ expires' \in BOOLEAN /\ fresh' \in BOOLEAN
        /\ lapsed' \in BOOLEAN /\ faults' \in 0..MaxFaults
    <3>1. CASE Serve(c)
      <4>1. faults' = faults
        BY <3>1 DEF Serve, FindByCourse, FindMyEnrollment, CheckEnrollment, SaveEnrollment, Publish,
               CheckReview, FindReview, SaveReview, Becomes
      <4>2. UNCHANGED redis \/ Message
        BY <3>1 DEF Serve, FindByCourse, FindMyEnrollment, CheckEnrollment, SaveEnrollment, Publish,
               CheckReview, FindReview, SaveReview, Insert, Write, Change
      <4> QED
        BY <4>1, <4>2 DEF Message, redis, CPTypeOK
    <3>2. CASE Fail(c)
      <4>1. faults' \in 0..MaxFaults
        BY <3>2, FailServed
      <4>2. UNCHANGED redis \/ Message
        BY <3>2 DEF Fail, Insert, Write
      <4> QED
        BY <4>1, <4>2 DEF Message, redis, CPTypeOK
    <3> QED
      BY <1>5, <3>1, <3>2
  <2> QED
    BY <2>2, <2>3, <2>4 DEF CPTypeOK, page
<1>6. ASSUME NEW c \in calls, Take(c) PROVE CPTypeOK'
  <2>0. /\ c \in PageCall /\ c.tab \in Tabs /\ c.at \in 1..MaxClicks
        /\ NewCall(c.tab, c.at, "list", None) \in PageCall
    BY NewCallType DEF CPTypeOK, PageCall, Kinds
  <2>1. calls' \subseteq PageCall
    <3>1. OfReviews(c.tab) \subseteq calls
      BY DEF OfReviews
    <3>2. Silenced(OfReviews(c.tab)) \subseteq PageCall
      BY <3>1, SilencedCalls
    <3> QED
      BY <1>6, <2>0, <3>2, PlaceTaken DEF CPTypeOK
  <2>2. tab' \in [Tabs -> Tab] /\ late' \in BOOLEAN
    <3>1. CASE Unheard(c)
      BY <3>1 DEF Unheard, CPTypeOK
    <3>2. CASE ReviewsLoaded(c)
      BY <3>2, Loaded DEF ReviewsLoaded
    <3>3. CASE EnrollmentFound(c)
      BY <3>3, Answered DEF EnrollmentFound
    <3>4. CASE EnrollAnswered(c)
      BY <3>4, Answered DEF EnrollAnswered, CPTypeOK
    <3>5. CASE EnrollRefused(c)
      BY <3>5, Refused DEF EnrollRefused
    <3>6. CASE Submitted(c) /\ c.stage = "done"
      BY <3>6, Reloaded DEF Submitted, Reloads, CPTypeOK
    <3>7. CASE Submitted(c) /\ c.stage # "done"
      BY <3>7, NotStored DEF CPTypeOK
    <3> QED
      BY <1>6, <3>1, <3>2, <3>3, <3>4, <3>5, <3>6, <3>7 DEF Take
  <2>3. UNCHANGED <<user, rows, redis, clicks, faults>>
    BY <1>6, PlaceTaken
  <2> QED
    BY <2>1, <2>2, <2>3 DEF CPTypeOK, rows, redis
<1>7. CASE HandleMessage
  BY <1>7 DEF HandleMessage, CPTypeOK, page, rows
<1>8. CASE SetLifetime
  BY <1>8 DEF SetLifetime, CPTypeOK, page, rows
<1>9. CASE Expire \/ Lose
  <2>1. faults' \in 0..MaxFaults
    BY <1>9, ConstantsAssumption DEF Expire, Lose, CPTypeOK
  <2>2. channel' \in Nat /\ fresh' \in BOOLEAN /\ counter' \in Nat /\ expires' \in BOOLEAN
        /\ lapsed' \in BOOLEAN
    <3>1. CASE Expire
      BY <3>1 DEF Expire, CPTypeOK
    <3>2. CASE Lose /\ UNCHANGED channel
      BY <3>2 DEF Lose, CPTypeOK
    <3>3. CASE Lose /\ channel > 0 /\ channel' = channel - 1 /\ UNCHANGED fresh
      BY <3>3 DEF Lose, CPTypeOK
    <3> QED
      BY <1>9, <3>1, <3>2, <3>3 DEF Lose
  <2>3. UNCHANGED <<page, calls, rows, clicks>>
    BY <1>9 DEF Expire, Lose
  <2> QED
    BY <2>1, <2>2, <2>3 DEF CPTypeOK, page, rows
<1> QED
  BY <1>1, <1>2, <1>3, <1>4, <1>5, <1>6, <1>7, <1>8, <1>9 DEF CPNext, Settle
-----------------------------------------------------------------------------
(* What the calls say of the clicks that made them is left when some are    *)
(* not heard any more.                                                      *)
LEMMA SilencedKept ==
  ASSUME CPTypeOK, CallInv, OneClick, NEW S \in SUBSET calls
  PROVE  /\ \A d \in Silenced(S) :
              /\ d.at <= clicks
              /\ ~d.heard /\ d.kind \in {"create", "enroll"} =>
                   late \/ \E b \in S : b.kind \in {"create", "enroll"} /\ b.kind = d.kind
              /\ d.kind = "enroll" /\ d.stage \in {"saved", "done"} => d.enrollment # None
         /\ \A c, d \in Silenced(S) :
              c.at = d.at => c = d \/ {c.kind, d.kind} = {"list", "enrollment"}
<1>1. \A c \in Silenced(S) : \E b \in calls :
        Like(b, c) /\ c = (IF b \in S THEN Mute(b) ELSE b) /\ (b \in S => ~c.heard)
  BY SilencedCalls
<1>2. ASSUME NEW d \in Silenced(S)
      PROVE  /\ d.at <= clicks
             /\ ~d.heard /\ d.kind \in {"create", "enroll"} =>
                  late \/ \E b \in S : b.kind \in {"create", "enroll"} /\ b.kind = d.kind
             /\ d.kind = "enroll" /\ d.stage \in {"saved", "done"} => d.enrollment # None
  <2>1. PICK b \in calls : Like(b, d) /\ d = (IF b \in S THEN Mute(b) ELSE b)
    BY <1>1, <1>2
  <2>2. CASE b \in S
    BY <2>1, <2>2 DEF CallInv, Like
  <2>3. CASE b \notin S
    BY <2>1, <2>3 DEF CallInv
  <2> QED
    BY <2>2, <2>3
<1>3. ASSUME NEW c \in Silenced(S), NEW d \in Silenced(S), c.at = d.at
      PROVE  c = d \/ {c.kind, d.kind} = {"list", "enrollment"}
  <2>1. PICK a \in calls : Like(a, c) /\ c = (IF a \in S THEN Mute(a) ELSE a)
    BY <1>1, <1>3
  <2>2. PICK b \in calls : Like(b, d) /\ d = (IF b \in S THEN Mute(b) ELSE b)
    BY <1>1, <1>3
  <2>3. a = b \/ {a.kind, b.kind} = {"list", "enrollment"}
    BY <1>3, <2>1, <2>2 DEF OneClick, Like
  <2> QED
    BY <2>1, <2>2, <2>3 DEF Like
<1> QED
  BY <1>2, <1>3

(* Every step keeps what the calls say of the clicks that made them.        *)
LEMMA CallsNext ==
  ASSUME CPTypeOK, OneReviewEach, RowInv, CallInv, OneClick, [CPNext]_cpVars
  PROVE  CallInv' /\ OneClick'
<1>0. clicks \in Nat /\ \A c \in calls : c.at \in Nat /\ c.at <= clicks
  BY ConstantsAssumption DEF CallInv, CPTypeOK, PageCall
<1>1. CASE UNCHANGED <<calls, late, clicks>>
  BY <1>1 DEF CallInv, OneClick
<1>2. ASSUME NEW t \in Tabs, Open(t) PROVE CallInv' /\ OneClick'
  <2> DEFINE S == {c \in calls : c.tab = t}
             new(k) == NewCall(t, clicks + 1, k, None)
  <2>1. /\ \A d \in Silenced(S) :
             /\ d.at <= clicks
             /\ ~d.heard /\ d.kind \in {"create", "enroll"} =>
                  late \/ \E b \in S : b.kind \in {"create", "enroll"} /\ b.kind = d.kind
             /\ d.kind = "enroll" /\ d.stage \in {"saved", "done"} => d.enrollment # None
        /\ \A c, d \in Silenced(S) :
             c.at = d.at => c = d \/ {c.kind, d.kind} = {"list", "enrollment"}
        /\ Silenced(S) \subseteq PageCall
    BY SilencedKept, SilencedCalls
  <2>2. \A k \in {"list", "enrollment"} : new(k).at = clicks + 1 /\ new(k).kind = k /\ new(k).heard
    BY DEF NewCall
  <2>3. /\ calls' = Silenced(S) \cup {new(k) : k \in {"list", "enrollment"}}
        /\ clicks' = clicks + 1 /\ (late => late')
        /\ (\E b \in S : b.kind \in {"create", "enroll"}) => late'
    BY <1>2 DEF Open, Clicks, CPTypeOK
  <2>4. \A d \in Silenced(S) : d.at \in Nat
    BY <2>1 DEF PageCall
  <2> HIDE DEF S, new
  <2>5. CallInv'
    <3> SUFFICES ASSUME NEW d \in calls'
                 PROVE  /\ d.at <= clicks'
                        /\ ~d.heard /\ d.kind \in {"create", "enroll"} => late'
                        /\ d.kind = "enroll" /\ d.stage \in {"saved", "done"} => d.enrollment # None
      BY DEF CallInv
    <3>1. CASE \E k \in {"list", "enrollment"} : d = new(k)
      BY <1>0, <2>2, <2>3, <3>1
    <3>2. CASE d \in Silenced(S)
      BY <1>0, <2>1, <2>3, <2>4, <3>2
    <3> QED
      BY <2>3, <3>1, <3>2
  <2>6. OneClick'
    <3> SUFFICES ASSUME NEW c \in calls', NEW d \in calls', c.at = d.at
                 PROVE  c = d \/ {c.kind, d.kind} = {"list", "enrollment"}
      BY DEF OneClick
    <3>1. CASE c \in Silenced(S) /\ d \in Silenced(S)
      BY <2>1, <3>1
    <3>2. ASSUME NEW a \in Silenced(S), NEW k \in {"list", "enrollment"}
          PROVE  a.at # new(k).at
      BY <1>0, <2>1, <2>2, <2>4
    <3>3. ASSUME NEW k \in {"list", "enrollment"}, NEW l \in {"list", "enrollment"},
                 c = new(k), d = new(l)
          PROVE  c = d \/ {c.kind, d.kind} = {"list", "enrollment"}
      BY <2>2, <3>3
    <3> QED
      BY <2>3, <3>1, <3>2, <3>3
  <2> QED
    BY <2>5, <2>6
<1>3. ASSUME NEW t \in Tabs, Enroll(t) \/ SubmitForm(t) \/ DeleteReview(t)
      PROVE  CallInv' /\ OneClick'
  <2>1. PICK k \in {"enroll", "create", "update", "remove"}, id \in Ids \cup {None} :
          clicks' = clicks + 1 /\ Sends(t, k, id) /\ late' = late
    BY <1>3, Clicked
  <2> DEFINE n == NewCall(t, clicks + 1, k, id)
  <2>2. n.at = clicks + 1 /\ n.heard /\ n.stage = "sent" /\ calls' = calls \cup {n}
    BY <2>1 DEF NewCall, Sends
  <2> HIDE DEF n
  <2>4. CallInv'
    BY <1>0, <2>1, <2>2 DEF CallInv
  <2>5. OneClick'
    BY <1>0, <2>1, <2>2 DEF OneClick
  <2> QED
    BY <2>4, <2>5
<1>4. ASSUME NEW i \in Ids, CompleteCourse(i) PROVE CallInv' /\ OneClick'
  <2>1. calls' = calls /\ late' = late /\ clicks' = clicks + 1
    BY <1>4 DEF CompleteCourse, Clicks
  <2> QED
    BY <1>0, <2>1 DEF CallInv, OneClick
<1>5. ASSUME NEW c \in calls, Serve(c) \/ Fail(c) PROVE CallInv' /\ OneClick'
  <2>1. PICK d \in PageCall :
          /\ Steps(c, d)
          /\ d.stage = "saved" => c.kind = "enroll" /\ d.enrollment # None
          /\ d.kind = "enroll" /\ d.stage = "done" => c.stage = "saved" /\ d.enrollment = c.enrollment
    BY <1>5, Served
  <2>2. /\ calls' = (calls \ {c}) \cup {d} /\ Same(c, d) /\ clicks' = clicks /\ late' = late
        /\ d.kind = "enroll" /\ d.stage \in {"saved", "done"} => d.enrollment # None
    BY <2>1 DEF Steps, page, Same, CallInv
  <2>3. CallInv'
    BY <2>2 DEF CallInv, Same
  <2>4. OneClick'
    BY <2>2 DEF OneClick, Same
  <2> QED
    BY <2>3, <2>4
<1>6. ASSUME NEW c \in calls, Take(c) PROVE CallInv' /\ OneClick'
  <2>1. (late => late') /\ clicks' = clicks
    BY <1>6, PlaceTaken
  <2>2. CASE calls' = calls \ {c}
    BY <2>1, <2>2 DEF CallInv, OneClick
  <2>3. CASE /\ c.kind \in {"create", "update", "remove"}
             /\ calls' = (calls \ {c}) \cup {NewCall(c.tab, c.at, "list", None)}
    <3> DEFINE n == NewCall(c.tab, c.at, "list", None)
    <3>1. n.at = c.at /\ n.kind = "list" /\ calls' = (calls \ {c}) \cup {n}
      BY <2>3 DEF NewCall
    <3> HIDE DEF n
    <3>2. \A d \in calls \ {c} : d.at # c.at
      BY <2>3 DEF OneClick
    <3>3. CallInv'
      BY <2>1, <3>1 DEF CallInv
    <3>4. OneClick'
      BY <3>1, <3>2 DEF OneClick
    <3> QED
      BY <3>3, <3>4
  <2>4. CASE EnrollRefused(c) /\ calls' = Silenced(OfReviews(c.tab)) \ {c}
    <3> DEFINE S == OfReviews(c.tab)
    <3>1. S \subseteq calls /\ \A b \in S : b.kind # "enroll"
      BY DEF OfReviews
    <3>2. (\E b \in S : b.kind = "create") => late'
      BY <2>4 DEF EnrollRefused
    <3> HIDE DEF S
    <3>3. /\ \A d \in Silenced(S) :
               /\ d.at <= clicks
               /\ ~d.heard /\ d.kind \in {"create", "enroll"} =>
                    late \/ \E b \in S : b.kind \in {"create", "enroll"} /\ b.kind = d.kind
               /\ d.kind = "enroll" /\ d.stage \in {"saved", "done"} => d.enrollment # None
          /\ \A b, d \in Silenced(S) :
               b.at = d.at => b = d \/ {b.kind, d.kind} = {"list", "enrollment"}
      BY <3>1, SilencedKept
    <3>4. calls' \subseteq Silenced(S)
      BY <2>4 DEF S
    <3>5. CallInv'
      BY <2>1, <3>1, <3>2, <3>3, <3>4 DEF CallInv
    <3>6. OneClick'
      BY <3>3, <3>4 DEF OneClick
    <3> QED
      BY <3>5, <3>6
  <2> QED
    BY <1>6, <2>2, <2>3, <2>4, PlaceTaken
<1>7. CASE Redis
  BY <1>1, <1>7 DEF Redis, HandleMessage, SetLifetime, Expire, Lose, page
<1> QED
  BY <1>1, <1>2, <1>3, <1>4, <1>5, <1>6, <1>7 DEF CPNext, Settle, Redis, cpVars, page

(* Every step keeps what the calls know of the rows.                        *)
LEMMA RowNext ==
  ASSUME CPTypeOK, OneReviewEach, RowInv, CallInv, OneClick, [CPNext]_cpVars
  PROVE  RowInv'
<1>0. clicks \in Nat /\ \A c \in calls : c.at \in 1..MaxClicks /\ c.at \in Nat /\ c.at <= clicks
  BY ConstantsAssumption DEF CallInv, CPTypeOK, PageCall
<1> DEFINE Knows(c) ==
      /\ c.kind = "enroll" /\ c.stage \in {"sent", "found"} => student[c.at] = None
      /\ c.stage = "saved" => c.kind = "enroll"
      /\ c.stage = "found" => c.kind = "enroll" \/ (c.kind = "create" /\ c.id \in completed)
<1>1. /\ completed \subseteq Enrolled /\ \A c \in calls : Knows(c)
      /\ \A n \in 1..MaxClicks : n > clicks => student[n] = None
  BY DEF RowInv
<1>2. ASSUME UNCHANGED <<student, completed>>, clicks' \in Nat, clicks' >= clicks,
             \A d \in calls' : Knows(d)
      PROVE  RowInv'
  BY <1>0, <1>1, <1>2 DEF RowInv, Enrolled
<1>3. ASSUME NEW S \in SUBSET calls, NEW d \in Silenced(S) PROVE Knows(d)
  <2>1. PICK b \in calls : Like(b, d)
    BY <1>3, SilencedCalls
  <2> QED
    BY <1>1, <2>1 DEF Like
<1>4. ASSUME NEW t \in Tabs, Open(t) PROVE RowInv'
  <2>1. UNCHANGED <<student, completed>> /\ clicks' \in Nat /\ clicks' >= clicks
    BY <1>0, <1>4 DEF Open, Clicks, rows
  <2>2. \A d \in calls' : Knows(d)
    <3> DEFINE S == {c \in calls : c.tab = t}
    <3>1. \A k \in {"list", "enrollment"} : Knows(NewCall(t, clicks + 1, k, None))
      BY DEF NewCall
    <3>2. \A d \in Silenced(S) : Knows(d)
      BY <1>3
    <3>3. calls' = Silenced(S) \cup {NewCall(t, clicks + 1, k, None) : k \in {"list", "enrollment"}}
      BY <1>4 DEF Open
    <3> HIDE DEF S, Knows
    <3> QED
      BY <3>1, <3>2, <3>3
  <2> QED
    BY <1>2, <2>1, <2>2
<1>5. ASSUME NEW t \in Tabs, Enroll(t) \/ SubmitForm(t) \/ DeleteReview(t) PROVE RowInv'
  <2>1. PICK k \in {"enroll", "create", "update", "remove"}, id \in Ids \cup {None} :
          clicks < MaxClicks /\ clicks' = clicks + 1 /\ Sends(t, k, id) /\ UNCHANGED rows
    BY <1>5, Clicked
  <2> DEFINE n == NewCall(t, clicks + 1, k, id)
  <2>2. n.at = clicks + 1 /\ n.stage = "sent" /\ calls' = calls \cup {n}
    BY <2>1 DEF NewCall, Sends
  <2>3. student[clicks + 1] = None
    BY <1>0, <1>1, <2>1, ConstantsAssumption
  <2> HIDE DEF n
  <2>4. Knows(n)
    BY <2>2, <2>3
  <2>5. UNCHANGED <<student, completed>> /\ clicks' \in Nat /\ clicks' >= clicks
    BY <1>0, <2>1 DEF rows
  <2> HIDE DEF Knows
  <2> QED
    BY <1>1, <1>2, <2>2, <2>4, <2>5
<1>6. ASSUME NEW i \in Ids, CompleteCourse(i) PROVE RowInv'
  <2>1. calls' = calls /\ clicks' = clicks + 1 /\ student' = student /\ i \in Enrolled
        /\ completed' = completed \cup {i}
    BY <1>6 DEF CompleteCourse, Clicks
  <2> QED
    BY <1>0, <1>1, <2>1 DEF RowInv, Enrolled
<1>7. ASSUME NEW c \in calls, Serve(c) \/ Fail(c) PROVE RowInv'
  <2>1. PICK d \in PageCall :
          /\ Steps(c, d) /\ Stored(c, d) /\ d.stage # "sent"
          /\ d.stage = "saved" => c.kind = "enroll" /\ d.enrollment # None
          /\ d.stage = "found" => (c.kind = "enroll" /\ c.stage = "sent")
                                  \/ (c.kind = "create" /\ c.id \in completed)
          /\ c.stage \in {"sent", "found", "saved"}
    BY <1>7, Served
  <2>2. calls' = (calls \ {c}) \cup {d} /\ Same(c, d) /\ clicks' = clicks
    BY <2>1 DEF Steps
  <2>3. CASE UNCHANGED <<student, completed>>
    <3>1. Knows(d)
      <4>1. d.kind = "enroll" /\ d.stage \in {"sent", "found"} => student[d.at] = None
        BY <1>1, <2>1, <2>2 DEF Same
      <4>2. d.stage = "saved" => d.kind = "enroll"
        BY <2>1, <2>2 DEF Same
      <4>3. d.stage = "found" => d.kind = "enroll" \/ (d.kind = "create" /\ d.id \in completed)
        BY <2>1, <2>2 DEF Same
      <4> QED
        BY <4>1, <4>2, <4>3
    <3> HIDE DEF Knows
    <3> QED
      BY <1>0, <1>1, <1>2, <2>2, <2>3, <3>1
  <2>4. CASE c.kind = "enroll" /\ c.stage = "found" /\ d.stage \in {"saved", "refused"} /\ Insert(c)
    <3>1. /\ \A i \in Ids : student'[i] = IF i = c.at THEN user[c.tab] ELSE student[i]
          /\ user[c.tab] \in Students /\ completed' = completed /\ c.at \in Ids
      BY <2>4, InsertType
    <3>2. completed' \subseteq Enrolled'
      BY <1>1, <3>1, ConstantsAssumption DEF Enrolled
    <3>3. \A n \in 1..MaxClicks : n > clicks' => student'[n] = None
      BY <1>0, <1>1, <2>2, <3>1 DEF Ids
    <3>4. \A e \in calls' : e.kind = "enroll" /\ e.stage \in {"sent", "found"} => student'[e.at] = None
      <4> SUFFICES ASSUME NEW e \in calls', e.kind = "enroll", e.stage \in {"sent", "found"}
                   PROVE  student'[e.at] = None
        OBVIOUS
      <4>1. e \in calls /\ e # c
        BY <2>2, <2>4
      <4>2. e.at # c.at
        BY <2>4, <4>1 DEF OneClick
      <4>3. e.at \in Ids /\ student[e.at] = None
        BY <1>0, <1>1, <4>1 DEF Ids
      <4> QED
        BY <3>1, <4>2, <4>3
    <3>5. \A e \in calls' :
            /\ e.stage = "saved" => e.kind = "enroll"
            /\ e.stage = "found" => e.kind = "enroll" \/ (e.kind = "create" /\ e.id \in completed')
      BY <1>1, <2>1, <2>2, <2>4, <3>1 DEF Same
    <3> QED
      BY <3>2, <3>3, <3>4, <3>5 DEF RowInv
  <2>5. CASE Write(c)
    BY <2>3, <2>5 DEF Write
  <2> QED
    BY <2>1, <2>3, <2>4, <2>5 DEF Stored, rows
<1>8. ASSUME NEW c \in calls, Take(c) PROVE RowInv'
  <2>1. UNCHANGED <<student, completed>> /\ clicks' \in Nat /\ clicks' >= clicks
    BY <1>0, <1>8, PlaceTaken DEF rows
  <2>2. Knows(NewCall(c.tab, c.at, "list", None))
    BY DEF NewCall
  <2>3. \A d \in Silenced(OfReviews(c.tab)) : Knows(d)
    BY <1>3 DEF OfReviews
  <2> HIDE DEF Knows
  <2>4. \A d \in calls' : Knows(d)
    BY <1>1, <1>8, <2>2, <2>3, PlaceTaken
  <2> QED
    BY <1>2, <2>1, <2>4
<1>9. CASE Redis \/ UNCHANGED cpVars
  <2>1. UNCHANGED <<student, completed, calls, clicks>>
    BY <1>9 DEF Redis, HandleMessage, SetLifetime, Expire, Lose, cpVars, rows
  <2> QED
    BY <2>1 DEF RowInv, Enrolled
<1> QED
  BY <1>4, <1>5, <1>6, <1>7, <1>8, <1>9 DEF CPNext, Settle, Redis
-----------------------------------------------------------------------------
(* A request that inserts a review finds none of its enrollment.            *)
LEMMA ReviewNext ==
  ASSUME CPTypeOK, OneReviewEach, RowInv, CallInv, OneClick, [CPNext]_cpVars
  PROVE  OneReviewEach'
<1>1. CASE UNCHANGED <<reviews, completed, student>>
  BY <1>1 DEF OneReviewEach, Enrolled
<1>2. ASSUME NEW c \in calls, Serve(c) \/ Fail(c) PROVE OneReviewEach'
  <2>1. PICK d \in PageCall : Stored(c, d)
    BY <1>2, Served
  <2>2. CASE UNCHANGED rows
    BY <1>1, <2>2 DEF rows
  <2>3. CASE Insert(c)
    <3>1. /\ \A i \in Ids : student'[i] = IF i = c.at THEN user[c.tab] ELSE student[i]
          /\ user[c.tab] \in Students /\ UNCHANGED <<completed, reviews>>
      BY <2>3, InsertType
    <3>2. Enrolled \subseteq Enrolled'
      BY <3>1, ConstantsAssumption DEF Enrolled
    <3> QED
      BY <3>1, <3>2 DEF OneReviewEach
  <2>4. CASE c.id \in completed /\ Insertable(c) /\ Write(c)
    <3>1. completed' = completed /\ Enrolled' = Enrolled /\ c.id \in completed \cap Enrolled
      BY <2>4 DEF Write, Enrolled, RowInv
    <3> DEFINE n == [id |-> c.at, enrollment |-> c.id]
    <3>2. reviews' = reviews \cup {n} /\ n.enrollment = c.id
      BY <2>4 DEF Write
    <3> HIDE DEF n
    <3> QED
      BY <2>4, <3>1, <3>2 DEF OneReviewEach, Insertable
  <2> QED
    BY <2>1, <2>2, <2>3, <2>4 DEF Stored
<1>3. ASSUME NEW c \in calls, Take(c) PROVE OneReviewEach'
  BY <1>1, <1>3, PlaceTaken DEF rows
<1>4. ASSUME NEW t \in Tabs, Open(t) \/ Enroll(t) \/ SubmitForm(t) \/ DeleteReview(t)
      PROVE  OneReviewEach'
  BY <1>1, <1>4 DEF Open, Enroll, SubmitForm, DeleteReview, rows
<1>5. ASSUME NEW i \in Ids, CompleteCourse(i) PROVE OneReviewEach'
  BY <1>5 DEF CompleteCourse, OneReviewEach, Enrolled
<1>6. CASE Redis \/ UNCHANGED cpVars
  BY <1>1, <1>6 DEF Redis, HandleMessage, SetLifetime, Expire, Lose, rows, cpVars
<1> QED
  BY <1>2, <1>3, <1>4, <1>5, <1>6 DEF CPNext, Settle, Redis
-----------------------------------------------------------------------------
(* The counter.  It counts one more with each student who enrolls.          *)
LEMMA CountPut ==
  ASSUME CPTypeOK, NEW c \in calls, Insert(c), student[c.at] = None
  PROVE  Count' = Count + 1
<1>1. /\ \A i \in Ids : student'[i] = IF i = c.at THEN user[c.tab] ELSE student[i]
      /\ user[c.tab] \in Students /\ c.at \in Ids
  BY InsertType
<1>2. Enrolled' = Enrolled \cup {c.at} /\ c.at \notin Enrolled
  BY <1>1, ConstantsAssumption DEF Enrolled
<1>3. Cardinality(Enrolled') = Cardinality(Enrolled) + 1
  BY <1>2, IdsFinite, FS_AddElement
<1> QED
  BY <1>3 DEF Count

(* The enrollments that wait for their message are those of the calls.      *)
LEMMA OwedType ==
  CPTypeOK => IsFiniteSet(Unpublished) /\ Cardinality(Unpublished) \in Nat
<1> SUFFICES ASSUME CPTypeOK PROVE IsFiniteSet(Unpublished) /\ Cardinality(Unpublished) \in Nat
  OBVIOUS
<1>1. Unpublished \subseteq Ids
  BY DEF Unpublished, Ids, CPTypeOK, PageCall
<1> QED
  BY <1>1, IdsFinite

LEMMA OwedSilenced ==
  ASSUME CPTypeOK, RowInv, NEW S \in SUBSET calls, NEW T,
         \A c \in T : c.stage # "saved",
         calls' \subseteq Silenced(S) \cup T,
         \A c \in Silenced(S) : c.stage = "saved" => c \in calls'
  PROVE  Unpublished' = Unpublished
<1>1. ASSUME NEW d \in calls', d.stage = "saved" PROVE \E b \in calls : b.stage = "saved" /\ b.at = d.at
  <2>1. PICK b \in calls : Like(b, d)
    BY <1>1, SilencedCalls
  <2> QED
    BY <1>1, <2>1 DEF Like
<1>2. ASSUME NEW b \in calls, b.stage = "saved" PROVE \E d \in calls' : d.stage = "saved" /\ d.at = b.at
  <2>1. b.kind \notin Reads
    BY <1>2 DEF RowInv, Reads
  <2>2. PICK d \in Silenced(S) : Like(b, d)
    BY <2>1, SilencedCalls
  <2> QED
    BY <1>2, <2>2 DEF Like
<1>3. \A n : n \in Unpublished' => n \in Unpublished
  BY <1>1 DEF Unpublished
<1>4. \A n : n \in Unpublished => n \in Unpublished'
  BY <1>2 DEF Unpublished
<1> QED
  BY <1>3, <1>4

LEMMA OwedServed ==
  ASSUME CPTypeOK, RowInv, OneClick, NEW c \in calls, NEW d \in PageCall, Steps(c, d)
  PROVE  /\ c.stage # "saved" /\ d.stage # "saved" => Unpublished' = Unpublished
         /\ c.stage # "saved" /\ d.stage = "saved" /\ c.kind = "enroll" =>
              Unpublished' = Unpublished \cup {c.at} /\ c.at \notin Unpublished
         /\ c.stage = "saved" /\ d.stage # "saved" =>
              Unpublished' = Unpublished \ {c.at} /\ c.at \in Unpublished
<1>1. calls' = (calls \ {c}) \cup {d} /\ d.at = c.at
  BY DEF Steps, Same
<1>2. \A b \in calls : b.stage = "saved" /\ b.at = c.at /\ c.kind = "enroll" => b = c
  BY DEF RowInv, OneClick
<1>3. \A b \in calls : b.stage = "saved" => b.kind = "enroll"
  BY DEF RowInv
<1>4. CASE c.stage # "saved" /\ d.stage # "saved"
  BY <1>1, <1>4 DEF Unpublished
<1>5. CASE c.stage # "saved" /\ d.stage = "saved" /\ c.kind = "enroll"
  BY <1>1, <1>2, <1>5 DEF Unpublished
<1>6. CASE c.stage = "saved" /\ d.stage # "saved"
  BY <1>1, <1>2, <1>3, <1>6 DEF Unpublished
<1> QED
  BY <1>4, <1>5, <1>6

(* CountInv holds at the start.                                             *)
LEMMA CountInit ==
  CPInit => CountInv
<1> SUFFICES ASSUME CPInit PROVE CountInv
  OBVIOUS
<1>1. Unpublished = {}
  BY DEF CPInit, Unpublished
<1>2. Cardinality(Unpublished) = 0
  BY <1>1, FS_EmptySet
<1> QED
  BY <1>2, IdsFinite DEF CPInit, CountInv, Owed

(* Every step keeps CountInv.                                               *)
LEMMA CountNext ==
  ASSUME CPTypeOK, OneReviewEach, RowInv, OneClick, CountInv, [CPNext]_cpVars
  PROVE  CountInv'
<1>0. Count \in Nat /\ counter \in Nat /\ channel \in Nat /\ Cardinality(Unpublished) \in Nat
      /\ IsFiniteSet(Unpublished)
  BY IdsFinite, OwedType DEF CPTypeOK
<1>1. ASSUME UNCHANGED <<student, redis, faults>>, Unpublished' = Unpublished PROVE CountInv'
  BY <1>1 DEF CountInv, Count, Enrolled, Owed, redis
<1>2. ASSUME faults' = faults + 1 PROVE CountInv'
  BY <1>2 DEF CountInv, CPTypeOK
<1>3. ASSUME NEW t \in Tabs, Open(t) PROVE CountInv'
  <2> DEFINE S == {c \in calls : c.tab = t}
             T == {NewCall(t, clicks + 1, k, None) : k \in {"list", "enrollment"}}
  <2>1. \A c \in T : c.stage # "saved"
    BY DEF NewCall
  <2>2. calls' = Silenced(S) \cup T /\ S \in SUBSET calls
    BY <1>3 DEF Open
  <2> HIDE DEF S, T
  <2>3. Unpublished' = Unpublished
    BY <2>1, <2>2, OwedSilenced
  <2> QED
    BY <1>1, <1>3, <2>3 DEF Open, Clicks, rows
<1>4. ASSUME NEW t \in Tabs, Enroll(t) \/ SubmitForm(t) \/ DeleteReview(t) PROVE CountInv'
  <2>1. PICK k \in {"enroll", "create", "update", "remove"}, id \in Ids \cup {None} :
          Sends(t, k, id) /\ UNCHANGED <<rows, redis, faults>>
    BY <1>4, Clicked
  <2> DEFINE n == NewCall(t, clicks + 1, k, id)
  <2>2. n.stage = "sent" /\ calls' = calls \cup {n}
    BY <2>1 DEF NewCall, Sends
  <2> HIDE DEF n
  <2>3. Unpublished' = Unpublished
    BY <2>2 DEF Unpublished
  <2> QED
    BY <1>1, <2>1, <2>3 DEF rows
<1>5. ASSUME NEW i \in Ids, CompleteCourse(i) PROVE CountInv'
  BY <1>1, <1>5 DEF CompleteCourse, Clicks, Unpublished
<1>6. ASSUME NEW c \in calls, CheckEnrollment(c) \/ SaveEnrollment(c) \/ Publish(c) PROVE CountInv'
  <2>1. PICK d \in PageCall :
          /\ Steps(c, d) /\ c.kind = "enroll" /\ faults' = faults
          /\ \/ /\ c.stage = "sent" /\ d.stage \in {"found", "refused"} /\ UNCHANGED <<rows, redis>>
                /\ d.stage = "refused" => \E i \in Ids : student[i] = user[c.tab]
             \/ c.stage = "found" /\ d.stage = "saved" /\ d.enrollment # None /\ Insert(c)
             \/ c.stage = "saved" /\ d.stage = "done" /\ d.enrollment = c.enrollment /\ Message
    BY <1>6, EnrollServed
  <2>2. CASE c.stage = "sent"
    <3>1. Unpublished' = Unpublished
      BY <2>1, <2>2, OwedServed
    <3> QED
      BY <1>1, <2>1, <2>2, <3>1 DEF rows
  <2>3. CASE c.stage = "found" /\ d.stage = "saved" /\ Insert(c)
    <3>1. Count' = Count + 1
      BY <2>1, <2>3, CountPut DEF RowInv
    <3>2. Unpublished' = Unpublished \cup {c.at} /\ c.at \notin Unpublished
      BY <2>1, <2>3, OwedServed
    <3>3. Cardinality(Unpublished') = Cardinality(Unpublished) + 1
      BY <1>0, <3>2, FS_AddElement
    <3>4. channel' = channel /\ counter' = counter /\ lapsed' = lapsed /\ faults' = faults
      BY <2>1, <2>3 DEF Insert, redis
    <3> QED
      BY <1>0, <3>1, <3>3, <3>4 DEF CountInv, Owed
  <2>4. CASE c.stage = "saved" /\ d.stage = "done" /\ Message
    <3>1. Unpublished' = Unpublished \ {c.at} /\ c.at \in Unpublished
      BY <2>1, <2>4, OwedServed
    <3>2. Cardinality(Unpublished') = Cardinality(Unpublished) - 1
      BY <1>0, <3>1, FS_RemoveElement
    <3>3. channel' = channel + 1 /\ counter' = counter /\ lapsed' = lapsed /\ faults' = faults
          /\ Count' = Count
      BY <2>1, <2>4 DEF Message, rows, Count, Enrolled
    <3> QED
      BY <1>0, <3>2, <3>3 DEF CountInv, Owed
  <2> QED
    BY <2>1, <2>2, <2>3, <2>4
<1>7. ASSUME NEW c \in calls, FindByCourse(c) \/ FindMyEnrollment(c) PROVE CountInv'
  <2>1. PICK d \in PageCall : Steps(c, d) /\ c.stage = "sent" /\ d.stage = "done"
                              /\ UNCHANGED <<rows, redis, faults>>
    BY <1>7, ReadServed
  <2>2. Unpublished' = Unpublished
    BY <2>1, OwedServed
  <2> QED
    BY <1>1, <2>1, <2>2 DEF rows
<1>8. ASSUME NEW c \in calls, CheckReview(c) \/ FindReview(c) \/ SaveReview(c) PROVE CountInv'
  <2>1. PICK d \in PageCall :
          /\ Steps(c, d) /\ UNCHANGED <<redis, faults>>
          /\ \/ c.stage = "sent" /\ d.stage \in {"found", "refused"} /\ UNCHANGED rows
             \/ c.stage = "found" /\ d.stage = "refused" /\ UNCHANGED rows
             \/ c.stage = "found" /\ d.stage = "done" /\ Insertable(c) /\ Write(c)
    BY <1>8, ReviewServed
  <2>2. Unpublished' = Unpublished
    BY <2>1, OwedServed
  <2>3. student' = student
    BY <2>1 DEF rows, Write
  <2> QED
    BY <1>1, <2>1, <2>2, <2>3
<1>9. ASSUME NEW c \in calls, Fail(c) PROVE CountInv'
  BY <1>2, <1>9 DEF Fail
<1>10. ASSUME NEW c \in calls, Take(c) PROVE CountInv'
  <2>1. UNCHANGED <<student, redis, faults>> /\ c.stage \in {"refused", "done"}
    BY <1>10, PlaceTaken DEF rows
  <2>2. Unpublished' = Unpublished
    <3>1. CASE calls' = calls \ {c}
      BY <2>1, <3>1 DEF Unpublished
    <3>2. CASE calls' = (calls \ {c}) \cup {NewCall(c.tab, c.at, "list", None)}
      <4> DEFINE n == NewCall(c.tab, c.at, "list", None)
      <4>1. n.stage = "sent"
        BY DEF NewCall
      <4> HIDE DEF n
      <4> QED
        BY <2>1, <3>2, <4>1 DEF Unpublished, n
    <3>3. CASE calls' = Silenced(OfReviews(c.tab)) \ {c}
      <4>1. OfReviews(c.tab) \in SUBSET calls
        BY DEF OfReviews
      <4> QED
        BY <2>1, <3>3, <4>1, OwedSilenced
    <3> QED
      BY <1>10, <3>1, <3>2, <3>3, PlaceTaken
  <2> QED
    BY <1>1, <2>1, <2>2
<1>11. CASE HandleMessage
  <2>1. Count' = Count /\ Unpublished' = Unpublished
    BY <1>11 DEF HandleMessage, Count, Enrolled, Unpublished, rows
  <2>2. /\ faults' = faults /\ channel > 0 /\ channel' = channel - 1 /\ counter' = counter + 1
        /\ ~lapsed' => ~lapsed /\ ~(counter = 0 /\ Count > Owed)
    BY <1>11 DEF HandleMessage, Owed
  <2> QED
    BY <1>0, <2>1, <2>2 DEF CountInv, Owed
<1>12. CASE SetLifetime \/ UNCHANGED cpVars
  BY <1>12 DEF SetLifetime, CountInv, Count, Enrolled, Unpublished, Owed, rows, redis, cpVars
<1>13. CASE Expire \/ Lose
  BY <1>2, <1>13 DEF Expire, Lose
<1> QED
  BY <1>3, <1>4, <1>5, <1>6, <1>7, <1>8, <1>9, <1>10, <1>11, <1>12, <1>13 DEF CPNext, Settle, Serve
-----------------------------------------------------------------------------
(* Other answers leave what a tab knows of its enrollment, and were not to  *)
(* tell it.                                                                 *)
LEMMA EnrollmentShown ==
  ASSUME CPTypeOK, NEW c \in calls, Take(c), ~EnrollmentFound(c), ~EnrollAnswered(c)
  PROVE  /\ \A t \in Tabs : tab'[t].enrollment = tab[t].enrollment
         /\ ~c.heard \/ ~TellsEnrolled(c)
<1>1. CASE Unheard(c)
  BY <1>1 DEF Unheard
<1>2. CASE ReviewsLoaded(c)
  <2>1. c.kind = "list"
    BY <1>2 DEF ReviewsLoaded
  <2> QED
    BY <1>2, <2>1, Loaded DEF TellsEnrolled
<1>3. CASE EnrollRefused(c)
  <2>1. c.kind = "enroll" /\ c.stage = "refused"
    BY <1>3 DEF EnrollRefused
  <2> QED
    BY <1>3, <2>1, Refused DEF TellsEnrolled
<1>4. CASE Submitted(c)
  <2>1. c.kind \in {"create", "update", "remove"}
    BY <1>4 DEF Submitted
  <2>2. CASE c.stage = "done"
    BY <1>4, <2>1, <2>2, Reloaded DEF Submitted, TellsEnrolled
  <2>3. CASE c.stage # "done"
    BY <1>4, <2>1, <2>3, NotStored DEF TellsEnrolled
  <2> QED
    BY <2>2, <2>3
<1> QED
  BY <1>1, <1>2, <1>3, <1>4 DEF Take

(* Nobody is ever taken off the list of the enrolled.                       *)
LEMMA EnrolledStays ==
  ASSUME CPTypeOK, OneReviewEach, RowInv, [CPNext]_cpVars, NEW s \in Students,
         \E i \in Ids : student[i] = s
  PROVE  \E i \in Ids : student'[i] = s
<1>1. CASE student' = student
  BY <1>1
<1>2. ASSUME NEW c \in calls, Serve(c) \/ Fail(c) PROVE \E i \in Ids : student'[i] = s
  <2>1. PICK d \in PageCall : Stored(c, d)
    BY <1>2, Served
  <2>2. CASE Insert(c) /\ c.kind = "enroll" /\ c.stage = "found"
    <3>1. student[c.at] = None /\ s # None
      BY <2>2, ConstantsAssumption DEF RowInv
    <3>2. \A i \in Ids : student'[i] = IF i = c.at THEN user[c.tab] ELSE student[i]
      BY <2>2, InsertType
    <3> QED
      BY <3>1, <3>2
  <2> QED
    BY <1>1, <2>1, <2>2 DEF Stored, rows, Write
<1>3. ASSUME NEW c \in calls, Take(c) PROVE student' = student
  BY <1>3, PlaceTaken DEF rows
<1>4. ASSUME NEW t \in Tabs, Open(t) \/ Enroll(t) \/ SubmitForm(t) \/ DeleteReview(t)
      PROVE  student' = student
  BY <1>4 DEF Open, Enroll, SubmitForm, DeleteReview, rows
<1>5. CASE Redis \/ UNCHANGED cpVars \/ \E i \in Ids : CompleteCourse(i)
  BY <1>1, <1>5 DEF Redis, HandleMessage, SetLifetime, Expire, Lose, CompleteCourse, rows, cpVars
<1> QED
  BY <1>1, <1>2, <1>3, <1>4, <1>5 DEF CPNext, Settle, Redis

(* A tab that has been told stays told, unless it is left.                  *)
LEMMA ToldStays ==
  ASSUME CPTypeOK, OneReviewEach, RowInv, CallInv, [CPNext]_cpVars,
         NEW t \in Tabs, ToldEnrolled(t), \E i \in Ids : student[i] = user[t], faults' = 0
  PROVE  ToldEnrolled(t)' \/ late'
<1>1. CASE UNCHANGED <<tab, calls>>
  BY <1>1 DEF ToldEnrolled, TellsEnrolled
<1>2. ASSUME NEW u \in Tabs, Open(u) PROVE ToldEnrolled(t)'
  <2>1. CASE u = t
    <3> DEFINE n == NewCall(t, clicks + 1, "enrollment", None)
    <3>1. n \in calls' /\ n.tab = t /\ n.heard /\ n.kind = "enrollment" /\ n.stage = "sent"
      BY <1>2, <2>1 DEF Open, NewCall
    <3> HIDE DEF n
    <3> QED
      BY <3>1 DEF ToldEnrolled, TellsEnrolled
  <2>2. CASE u # t
    <3> DEFINE S == {c \in calls : c.tab = u}
    <3>1. tab'[t] = tab[t] /\ Silenced(S) \subseteq calls' /\ calls \ S \subseteq Silenced(S)
      BY <1>2, <2>2, SilencedCalls DEF Open, CPTypeOK
    <3>2. \A c \in calls : c.tab = t => c \in calls'
      BY <2>2, <3>1
    <3> QED
      BY <3>1, <3>2 DEF ToldEnrolled, TellsEnrolled
  <2> QED
    BY <2>1, <2>2
<1>3. ASSUME NEW u \in Tabs, Enroll(u) \/ SubmitForm(u) \/ DeleteReview(u)
      PROVE  ToldEnrolled(t)'
  <2>1. tab'[t].enrollment = tab[t].enrollment /\ calls \subseteq calls'
    BY <1>3, Clicked DEF Sends
  <2> QED
    BY <2>1 DEF ToldEnrolled, TellsEnrolled
<1>4. ASSUME NEW c \in calls, Serve(c) \/ Fail(c) PROVE ToldEnrolled(t)'
  <2>1. PICK d \in PageCall :
          /\ Steps(c, d) /\ c.stage \in {"sent", "found", "saved"}
          /\ d.kind = "enroll" /\ d.stage = "done" => c.stage = "saved" /\ d.enrollment = c.enrollment
          /\ faults' = 0 /\ c.kind = "enrollment" =>
               d.stage = "done" /\ d.enrollment \in Mine(user[c.tab])
          /\ faults' = 0 /\ c.kind = "enroll" /\ c.stage = "saved" => d.stage = "done"
    BY <1>4, Served
  <2>2. calls' = (calls \ {c}) \cup {d} /\ Same(c, d) /\ tab' = tab
    BY <2>1 DEF Steps, page
  <2>3. CASE tab[t].enrollment # None
    BY <2>2, <2>3 DEF ToldEnrolled
  <2>4. ASSUME NEW w \in calls, w.tab = t, w.heard, TellsEnrolled(w) PROVE ToldEnrolled(t)'
    <3>1. CASE w = c
      <4>1. c.kind = "enrollment" => d.stage = "done" /\ d.enrollment # None
        <5>1. user[t] \in Students
          BY DEF CPTypeOK
        <5>2. None \notin Mine(user[t])
          BY <5>1, MineType
        <5> QED
          BY <2>1, <2>4, <3>1, <5>2
      <4>2. c.kind = "enroll" => d.stage = "done"
        BY <2>1, <2>4, <3>1 DEF TellsEnrolled
      <4>3. d.tab = t /\ d.heard /\ TellsEnrolled(d)
        BY <2>2, <2>4, <3>1, <4>1, <4>2 DEF TellsEnrolled, Same
      <4> QED
        BY <2>2, <4>3 DEF ToldEnrolled, TellsEnrolled
    <3>2. CASE w # c
      BY <2>2, <2>4, <3>2 DEF ToldEnrolled, TellsEnrolled
    <3> QED
      BY <3>1, <3>2
  <2> QED
    BY <2>3, <2>4 DEF ToldEnrolled
<1>5. ASSUME NEW c \in calls, Take(c) PROVE ToldEnrolled(t)' \/ late'
  <2>0. /\ c.tab \in Tabs /\ c.stage \in {"refused", "done"}
        /\ \A w \in calls \ {c} : TellsEnrolled(w) => w \in calls'
    <3>1. c.tab \in Tabs /\ c.stage \in {"refused", "done"}
      BY <1>5, PlaceTaken DEF CPTypeOK, PageCall
    <3> DEFINE S == OfReviews(c.tab)
    <3>2. calls \ S \subseteq Silenced(S) /\ \A w \in calls : TellsEnrolled(w) => w \notin S
      <4>1. S \in SUBSET calls /\ \A w \in calls : TellsEnrolled(w) => w \notin S
        BY DEF OfReviews, TellsEnrolled
      <4> HIDE DEF S
      <4> QED
        BY <4>1, SilencedCalls
    <3>3. calls \ {c} \subseteq calls' \/ calls' = Silenced(S) \ {c}
      BY <1>5, PlaceTaken
    <3> HIDE DEF S
    <3> QED
      BY <3>1, <3>2, <3>3
  <2>1. CASE EnrollmentFound(c)
    <3>1. (late' <=> (late \/ (tab[c.tab].enrollment # None /\ c.enrollment = None)))
          /\ c.kind = "enrollment"
      BY <2>1 DEF EnrollmentFound, CPTypeOK
    <3>2. tab'[t].enrollment = IF t = c.tab THEN c.enrollment ELSE tab[t].enrollment
      BY <2>0, <2>1, Answered
    <3>3. CASE tab'[t].enrollment # None
      BY <3>3 DEF ToldEnrolled
    <3>4. CASE tab'[t].enrollment = None /\ tab[t].enrollment # None
      BY <3>1, <3>2, <3>4
    <3>5. ASSUME NEW w \in calls, w.tab = t, w.heard, TellsEnrolled(w), tab'[t].enrollment = None
          PROVE  ToldEnrolled(t)'
      <4>1. w # c
        BY <2>0, <3>1, <3>2, <3>5 DEF TellsEnrolled
      <4> QED
        BY <2>0, <3>5, <4>1 DEF ToldEnrolled, TellsEnrolled
    <3> QED
      BY <3>3, <3>4, <3>5 DEF ToldEnrolled
  <2>2. CASE EnrollAnswered(c)
    <3>1. tab'[t].enrollment = IF t = c.tab THEN c.enrollment ELSE tab[t].enrollment
      BY <2>0, <2>2, Answered
    <3>2. c.enrollment # None
      BY <2>2 DEF EnrollAnswered, CallInv
    <3>3. CASE tab[t].enrollment # None
      BY <3>1, <3>2, <3>3 DEF ToldEnrolled
    <3>4. ASSUME NEW w \in calls, w.tab = t, w.heard, TellsEnrolled(w) PROVE ToldEnrolled(t)'
      <4>1. CASE w = c
        BY <3>1, <3>2, <3>4, <4>1 DEF ToldEnrolled
      <4>2. CASE w # c
        BY <2>0, <3>4, <4>2 DEF ToldEnrolled, TellsEnrolled
      <4> QED
        BY <4>1, <4>2
    <3> QED
      BY <3>3, <3>4 DEF ToldEnrolled
  <2>3. CASE ~EnrollmentFound(c) /\ ~EnrollAnswered(c)
    <3>1. tab'[t].enrollment = tab[t].enrollment /\ (~c.heard \/ ~TellsEnrolled(c))
      BY <1>5, <2>3, EnrollmentShown
    <3>2. ASSUME NEW w \in calls, w.tab = t, w.heard, TellsEnrolled(w) PROVE ToldEnrolled(t)'
      BY <2>0, <3>1, <3>2 DEF ToldEnrolled, TellsEnrolled
    <3> QED
      BY <3>1, <3>2 DEF ToldEnrolled
  <2> QED
    BY <2>1, <2>2, <2>3
<1>6. CASE Redis \/ \E i \in Ids : CompleteCourse(i)
  BY <1>1, <1>6 DEF Redis, HandleMessage, SetLifetime, Expire, Lose, CompleteCourse, page
<1> QED
  BY <1>1, <1>2, <1>3, <1>4, <1>5, <1>6 DEF CPNext, Settle, Redis, cpVars, page

(* What an earlier state has seen is not forgotten.                         *)
LEMMA PastStays ==
  ASSUME CPTypeOK, OneReviewEach, RowInv, [CPNext]_cpVars
  PROVE  (late => late') /\ (faults # 0 => faults' # 0) /\ user' = user
<1>1. ASSUME NEW c \in calls, Take(c) PROVE (late => late') /\ faults' = faults /\ user' = user
  BY <1>1, PlaceTaken
<1>2. ASSUME NEW c \in calls, Serve(c) \/ Fail(c)
      PROVE  late' = late /\ (faults # 0 => faults' # 0) /\ user' = user
  BY <1>2, Served DEF Steps, page
<1>3. ASSUME NEW t \in Tabs, Open(t) PROVE (late => late') /\ faults' = faults /\ user' = user
  BY <1>3 DEF Open, Clicks, CPTypeOK
<1>4. ASSUME NEW t \in Tabs, Enroll(t) \/ SubmitForm(t) \/ DeleteReview(t)
      PROVE  late' = late /\ faults' = faults /\ user' = user
  BY <1>4, Clicked
<1>5. CASE Redis
  BY <1>5 DEF Redis, HandleMessage, SetLifetime, Expire, Lose, page, CPTypeOK
<1> QED
  BY <1>1, <1>2, <1>3, <1>4, <1>5 DEF CPNext, Settle, Redis, CompleteCourse, Clicks, cpVars, page

(* Every step keeps EnrollmentInv.                                          *)
LEMMA EnrollmentNext ==
  ASSUME CPTypeOK, OneReviewEach, RowInv, CallInv, EnrollmentInv, [CPNext]_cpVars
  PROVE  EnrollmentInv'
<1>0. (late => late') /\ (faults # 0 => faults' # 0) /\ user' = user
  BY PastStays
<1>1. ASSUME NEW c \in calls, Serve(c) \/ Fail(c), Insert(c), c.kind = "enroll", c.stage = "found"
      PROVE  EnrollmentInv'
  <2>1. /\ \A i \in Ids : student'[i] = IF i = c.at THEN user[c.tab] ELSE student[i]
        /\ enroller' = c.tab /\ c.at \in Ids
    BY <1>1, InsertType
  <2>2. \E i \in Ids : student'[i] = user'[enroller']
    BY <1>0, <2>1
  <2>3. ASSUME faults' = 0, ~late' PROVE ToldEnrolled(enroller)'
    <3>1. SaveEnrollment(c)
      <4>1. ~Fail(c)
        BY <2>3, FailServed
      <4> QED
        BY <1>1, <4>1 DEF Serve, FindByCourse, FindMyEnrollment, CheckEnrollment, Publish,
               CheckReview, FindReview, SaveReview
    <3>2. PICK d \in PageCall : Steps(c, d) /\ d.stage = "saved"
      BY <1>1, <3>1, EnrollServed
    <3>3. c.heard
      BY <1>0, <1>1, <2>3 DEF CallInv
    <3>4. d \in calls' /\ d.tab = enroller' /\ d.heard /\ d.kind = "enroll"
      BY <1>1, <2>1, <3>2, <3>3 DEF Steps, Same
    <3> QED
      BY <3>2, <3>4 DEF ToldEnrolled, TellsEnrolled
  <2> QED
    BY <2>2, <2>3 DEF EnrollmentInv
<1>2. CASE UNCHANGED enroller
  <2> SUFFICES ASSUME enroller # None
               PROVE  /\ \E i \in Ids : student'[i] = user'[enroller']
                      /\ (faults' = 0 /\ ~late' => ToldEnrolled(enroller)')
    BY <1>2 DEF EnrollmentInv
  <2>1. (\E i \in Ids : student[i] = user[enroller]) /\ enroller \in Tabs
    BY DEF EnrollmentInv, CPTypeOK
  <2>2. user[enroller] \in Students
    BY <2>1 DEF CPTypeOK
  <2>3. \E i \in Ids : student'[i] = user'[enroller']
    BY <1>0, <1>2, <2>1, <2>2, EnrolledStays
  <2>4. ASSUME faults' = 0, ~late' PROVE ToldEnrolled(enroller)'
    <3>1. ToldEnrolled(enroller)
      BY <1>0, <2>4 DEF EnrollmentInv
    <3>2. ASSUME NEW t \in Tabs, t = enroller PROVE ToldEnrolled(t)'
      BY <2>1, <2>4, <3>1, <3>2, ToldStays
    <3> QED
      BY <1>2, <2>1, <3>2 DEF ToldEnrolled, TellsEnrolled
  <2> QED
    BY <2>3, <2>4
<1>3. ASSUME NEW c \in calls, Serve(c) \/ Fail(c)
      PROVE  \/ UNCHANGED enroller
             \/ Insert(c) /\ c.kind = "enroll" /\ c.stage = "found"
  BY <1>3, Served DEF Stored, Write, rows
<1>4. ASSUME NEW c \in calls, Take(c) PROVE UNCHANGED enroller
  BY <1>4, PlaceTaken DEF rows
<1>5. ASSUME NEW t \in Tabs, Open(t) \/ Enroll(t) \/ SubmitForm(t) \/ DeleteReview(t)
      PROVE  UNCHANGED enroller
  BY <1>5 DEF Open, Enroll, SubmitForm, DeleteReview, rows
<1>6. CASE Redis \/ UNCHANGED cpVars \/ \E i \in Ids : CompleteCourse(i)
  <2>1. UNCHANGED enroller
    BY <1>6 DEF Redis, HandleMessage, SetLifetime, Expire, Lose, CompleteCourse, rows, cpVars
  <2> QED
    BY <1>2, <2>1
<1> QED
  BY <1>1, <1>2, <1>3, <1>4, <1>5, <1>6 DEF CPNext, Settle, Redis
-----------------------------------------------------------------------------
(* Silencing the calls of one tab leaves those of another as they are.      *)
LEMMA OthersHeard ==
  ASSUME CPTypeOK, NEW u \in Tabs, NEW t \in Tabs \ {u}, NEW S \in SUBSET calls,
         \A c \in S : c.tab = u
  PROVE  \A c : c \in Silenced(S) /\ c.tab = t <=> c \in calls /\ c.tab = t
<1>1. ASSUME NEW c \in Silenced(S), c.tab = t PROVE c \in calls
  <2>1. PICK b \in calls : Like(b, c) /\ c = (IF b \in S THEN Mute(b) ELSE b)
    BY <1>1, SilencedCalls
  <2>2. b \notin S
    BY <1>1, <2>1 DEF Like
  <2> QED
    BY <2>1, <2>2
<1>2. calls \ S \subseteq Silenced(S)
  BY SilencedCalls
<1> QED
  BY <1>1, <1>2

(* A tab lists what it did while its row and its calls are the same.        *)
LEMMA ListsSame ==
  ASSUME NEW t \in Tabs, Lists(t), tab'[t] = tab[t], reviews' = reviews,
         \A c : c \in calls' /\ c.tab = t <=> c \in calls /\ c.tab = t
  PROVE  Lists(t)'
<1>1. \A c \in calls : Stores(c, t) => c \in calls' /\ Stores(c, t)
  BY DEF Stores
<1>2. \A c : c \in calls' /\ NewestList(c, t)' <=> c \in calls /\ NewestList(c, t)
  BY DEF NewestList
<1> QED
  BY <1>1, <1>2 DEF Lists, Stores

(* A tab that waits for its review, or shows it, goes on to do so while no  *)
(* other is stored, unless an older list is shown late.                     *)
LEMMA ListsKept ==
  ASSUME CPTypeOK, OneReviewEach, RowInv, OneClick, CallInv, [CPNext]_cpVars,
         NEW t \in Tabs, Lists(t), faults' = 0, reviews' = reviews
  PROVE  Lists(t)' \/ late'
<1>0. tab[t] \in Tab /\ \A c \in calls : c.at \in Nat /\ c.at <= clicks /\ c.at # None
  BY ConstantsAssumption DEF CPTypeOK, PageCall, CallInv
<1>1. CASE UNCHANGED <<tab, calls>>
  BY <1>1 DEF Lists, Stores, NewestList
<1>2. ASSUME NEW u \in Tabs, Open(u) PROVE Lists(t)'
  <2>0. clicks \in Nat /\ clicks + 1 # None
    BY ConstantsAssumption DEF CPTypeOK
  <2> DEFINE S == {c \in calls : c.tab = u}
             new(k) == NewCall(u, clicks + 1, k, None)
  <2>1. calls' = Silenced(S) \cup {new(k) : k \in {"list", "enrollment"}}
        /\ S \subseteq calls /\ \A c \in S : c.tab = u
    BY <1>2 DEF Open
  <2>2. \A k \in {"list", "enrollment"} :
          /\ new(k).at = clicks + 1 /\ new(k).kind = k /\ new(k).heard
          /\ new(k).tab = u /\ new(k).stage = "sent"
    BY DEF NewCall
  <2> HIDE DEF new
  <2>3. CASE u = t
    <3>1. tab'[t].newest = clicks + 1
      BY <1>2, <2>3 DEF Open, CPTypeOK
    <3>2. \A c \in calls' : c.tab = t /\ c.heard => c.stage = "sent"
      <4> SUFFICES ASSUME NEW c \in calls', c.tab = t, c.heard PROVE c.stage = "sent"
        OBVIOUS
      <4>1. CASE \E k \in {"list", "enrollment"} : c = new(k)
        BY <2>2, <4>1
      <4>2. ASSUME c \in Silenced(S) PROVE FALSE
        <5>1. PICK b \in calls : Like(b, c) /\ (b \in S => ~c.heard)
          BY <4>2, SilencedCalls
        <5> QED
          BY <2>3, <5>1 DEF Like
      <4> QED
        BY <2>1, <4>1, <4>2
    <3>3. new("list") \in calls'
      BY <2>1
    <3> QED
      BY <2>0, <2>2, <2>3, <3>1, <3>2, <3>3 DEF Lists, NewestList
  <2>4. CASE u # t
    <3>1. tab'[t] = tab[t]
      BY <1>2, <2>4 DEF Open, CPTypeOK
    <3>2. \A c : c \in Silenced(S) /\ c.tab = t <=> c \in calls /\ c.tab = t
      <4> HIDE DEF S
      <4> QED
        BY <2>1, <2>4, OthersHeard
    <3>3. \A c : c \in calls' /\ c.tab = t <=> c \in calls /\ c.tab = t
      BY <2>1, <2>2, <2>4, <3>2
    <3> QED
      BY <3>1, <3>3, ListsSame
  <2> QED
    BY <2>3, <2>4
<1>3. ASSUME NEW u \in Tabs, Enroll(u) \/ SubmitForm(u) \/ DeleteReview(u)
      PROVE  Lists(t)'
  <2>1. PICK k \in {"enroll", "create", "update", "remove"}, id \in Ids \cup {None} :
          /\ Sends(u, k, id) /\ tab'[t].newest = tab[t].newest /\ tab'[t].shown = tab[t].shown
          /\ tab'[t].failed = tab[t].failed
    BY <1>3, Clicked
  <2> DEFINE n == NewCall(u, clicks + 1, k, id)
  <2>2. n.kind # "list" /\ calls' = calls \cup {n}
    BY <2>1 DEF NewCall, Sends
  <2> HIDE DEF n
  <2> QED
    BY <2>1, <2>2 DEF Lists, Stores, NewestList
<1>4. ASSUME NEW c \in calls, Serve(c) \/ Fail(c) PROVE Lists(t)'
  <2>1. PICK d \in PageCall :
          /\ calls' = (calls \ {c}) \cup {d} /\ Same(c, d) /\ c.stage \in {"sent", "found", "saved"}
          /\ c.kind = "list" => d.stage = "done" /\ d.list = reviews
          /\ tab' = tab
    BY <1>4, Served DEF Steps, page
  <2>2. CASE tab[t].failed \/ \E w \in calls : Stores(w, t)
    BY <2>1, <2>2 DEF Lists, Stores
  <2>3. CASE tab[t].newest = None /\ tab[t].shown = reviews
    BY <2>1, <2>3 DEF Lists
  <2>4. ASSUME NEW w \in calls, NewestList(w, t), tab[t].newest # None,
               \A e \in calls :
                 NewestList(e, t) => e.stage = "sent" \/ (e.stage = "done" /\ e.list = reviews)
        PROVE  Lists(t)'
    <3>1. \E e \in calls' : NewestList(e, t)'
      BY <2>1, <2>4 DEF NewestList, Same
    <3>2. \A e \in calls' : NewestList(e, t)' =>
            e.stage = "sent" \/ (e.stage = "done" /\ e.list = reviews')
      BY <2>1, <2>4 DEF NewestList, Same
    <3> QED
      BY <2>1, <2>4, <3>1, <3>2 DEF Lists
  <2> QED
    BY <2>2, <2>3, <2>4 DEF Lists
<1>5. ASSUME NEW c \in calls, Take(c) PROVE Lists(t)' \/ late'
  <2>0. c.tab \in Tabs /\ c.stage \in {"refused", "done"} /\ c \in PageCall
    BY <1>5, PlaceTaken DEF CPTypeOK, PageCall
  <2>1. CASE Submitted(c) /\ c.stage = "done"
    <3> DEFINE n == NewCall(c.tab, c.at, "list", None)
    <3>1. calls' = (calls \ {c}) \cup {n} /\ n.tab = c.tab /\ n.at = c.at /\ n.kind = "list"
          /\ n.heard /\ n.stage = "sent" /\ Reloads(c) /\ c.kind \in {"create", "update", "remove"}
      BY <2>1 DEF Submitted, Reloads, NewCall
    <3>2. \A d \in calls \ {c} : d.at # c.at
      BY <3>1 DEF OneClick
    <3> HIDE DEF n
    <3>3. CASE c.tab = t
      <4>1. tab'[t].newest = c.at
        BY <3>1, <3>3, Reloaded
      <4>2. \A d \in calls' : NewestList(d, t)' => d = n
        BY <3>1, <3>2, <4>1 DEF NewestList
      <4> QED
        BY <1>0, <3>1, <3>3, <4>1, <4>2 DEF Lists, NewestList
    <3>4. CASE c.tab # t
      <4>1. tab'[t] = tab[t]
        BY <3>1, <3>4, Reloaded
      <4> QED
        BY <3>1, <3>4, <4>1, ListsSame
    <3> QED
      BY <3>3, <3>4
  <2>2. CASE Unheard(c)
    BY <2>2 DEF Unheard, Lists, Stores, NewestList
  <2>3. CASE ReviewsLoaded(c)
    <3>1. calls' = calls \ {c} /\ c.kind = "list" /\ c.heard
          /\ (late' <=> (late \/ tab[c.tab].newest = None))
      BY <2>3 DEF ReviewsLoaded, CPTypeOK
    <3>2. CASE c.tab # t
      <4>1. tab'[t] = tab[t]
        BY <2>3, <3>2, Loaded
      <4> QED
        BY <3>1, <3>2, <4>1, ListsSame
    <3>3. CASE c.tab = t /\ tab[t].newest # None
      <4>1. /\ tab'[t].newest = IF tab[t].newest = c.at THEN None ELSE tab[t].newest
            /\ tab'[t].shown = IF c.stage = "done" THEN c.list ELSE tab[t].shown
            /\ tab'[t].failed = tab[t].failed
        BY <2>3, <3>3, Loaded
      <4>2. CASE tab[t].failed \/ \E w \in calls : Stores(w, t)
        BY <3>1, <4>1, <4>2 DEF Lists, Stores
      <4>3. ASSUME NEW w \in calls, NewestList(w, t),
                   \A e \in calls :
                     NewestList(e, t) => e.stage = "sent" \/ (e.stage = "done" /\ e.list = reviews)
            PROVE  Lists(t)'
        <5>1. CASE tab[t].newest = c.at
          BY <2>0, <3>1, <3>3, <4>1, <4>3, <5>1 DEF Lists, NewestList
        <5>2. CASE tab[t].newest # c.at
          BY <3>1, <3>3, <4>1, <4>3, <5>2 DEF Lists, NewestList
        <5> QED
          BY <5>1, <5>2
      <4> QED
        BY <3>3, <4>2, <4>3 DEF Lists
    <3>4. CASE c.tab = t /\ tab[t].newest = None
      BY <3>1, <3>4
    <3> QED
      BY <3>2, <3>3, <3>4
  <2>4. CASE EnrollmentFound(c) \/ EnrollAnswered(c) \/ (Submitted(c) /\ c.stage # "done")
    <3>1. calls' = calls \ {c} /\ c.kind # "list" /\ (c.kind = "create" => c.stage # "done")
      BY <2>4, NotStored DEF EnrollmentFound, EnrollAnswered, Submitted
    <3>2. /\ tab'[t].newest = tab[t].newest /\ tab'[t].shown = tab[t].shown
          /\ tab'[t].failed = tab[t].failed
      <4>1. CASE EnrollmentFound(c) \/ EnrollAnswered(c)
        BY <4>1, Answered
      <4>2. CASE Submitted(c) /\ c.stage # "done"
        BY <4>2, NotStored
      <4> QED
        BY <2>4, <4>1, <4>2
    <3> QED
      BY <3>1, <3>2 DEF Lists, Stores, NewestList
  <2>5. CASE EnrollRefused(c)
    <3>1. CASE c.tab = t
      BY <2>5, <3>1, Refused DEF Lists
    <3>2. CASE c.tab # t
      <4>1. tab'[t] = tab[t]
        BY <2>5, <3>2, Refused
      <4> DEFINE S == OfReviews(c.tab)
      <4>2. S \in SUBSET calls /\ \A b \in S : b.tab = c.tab
        BY DEF OfReviews
      <4>3. calls' = Silenced(S) \ {c}
        BY <2>5 DEF EnrollRefused
      <4> HIDE DEF S
      <4>4. \A b : b \in Silenced(S) /\ b.tab = t <=> b \in calls /\ b.tab = t
        BY <2>0, <3>2, <4>2, OthersHeard
      <4>5. \A b : b \in calls' /\ b.tab = t <=> b \in calls /\ b.tab = t
        BY <3>2, <4>3, <4>4
      <4> QED
        BY <4>1, <4>5, ListsSame
    <3> QED
      BY <3>1, <3>2
  <2> QED
    BY <1>5, <2>1, <2>2, <2>3, <2>4, <2>5 DEF Take
<1>6. CASE Redis \/ \E i \in Ids : CompleteCourse(i)
  BY <1>1, <1>6 DEF Redis, HandleMessage, SetLifetime, Expire, Lose, CompleteCourse, page
<1> QED
  BY <1>1, <1>2, <1>3, <1>4, <1>5, <1>6 DEF CPNext, Settle, Redis, cpVars, page

(* Every step keeps ListInv: a review that is stored is yet to be answered, *)
(* and nothing else changes the reviews.                                    *)
LEMMA ListNext ==
  ASSUME CPTypeOK, OneReviewEach, RowInv, OneClick, CallInv, ListInv, [CPNext]_cpVars
  PROVE  ListInv'
<1> SUFFICES ASSUME author' # None, faults' = 0, ~late' PROVE Lists(author)'
  BY DEF ListInv
<1>0. ~late /\ faults = 0
  BY PastStays
<1>1. CASE UNCHANGED <<reviews, author>>
  <2>1. author \in Tabs /\ Lists(author)
    BY <1>0, <1>1 DEF ListInv, CPTypeOK
  <2>2. ASSUME NEW t \in Tabs, t = author PROVE Lists(t)'
    BY <1>1, <2>1, <2>2, ListsKept
  <2> QED
    BY <1>1, <2>1, <2>2 DEF Lists, Stores, NewestList
<1>2. ASSUME NEW c \in calls, Serve(c) \/ Fail(c) PROVE Lists(author)'
  <2>1. PICK d \in PageCall : Steps(c, d) /\ Stored(c, d)
    BY <1>2, Served
  <2>2. CASE UNCHANGED rows \/ Insert(c)
    BY <1>1, <2>2 DEF rows, Insert
  <2>3. CASE c.kind = "create" /\ Write(c) /\ d.stage \in {"done", "refused"} /\ ~UNCHANGED rows
    <3>1. SaveReview(c)
      <4>1. ~Fail(c)
        BY FailServed
      <4> QED
        BY <1>2, <2>3, <4>1 DEF Serve, FindByCourse, FindMyEnrollment, CheckEnrollment,
               SaveEnrollment, Publish, CheckReview, FindReview
    <3>2. PICK e \in PageCall :
            /\ Steps(c, e) /\ c.stage = "found"
            /\ \/ c.stage = "sent"
               \/ c.stage = "found" /\ e.stage = "refused" /\ UNCHANGED rows
               \/ c.stage = "found" /\ e.stage = "done"
      <4>1. c.stage = "found"
        BY <3>1 DEF SaveReview
      <4> QED
        BY <3>1, <4>1, ReviewServed
    <3>3. e \in calls' /\ e.stage = "done" /\ e.tab = author' /\ e.kind = "create" /\ e.heard
      BY <1>0, <2>3, <3>2 DEF Steps, Same, Write, CallInv
    <3> QED
      BY <3>3 DEF Lists, Stores
  <2> QED
    BY <2>1, <2>2, <2>3 DEF Stored
<1>3. ASSUME NEW c \in calls, Take(c) PROVE UNCHANGED <<reviews, author>>
  BY <1>3, PlaceTaken DEF rows
<1>4. ASSUME NEW t \in Tabs, Open(t) \/ Enroll(t) \/ SubmitForm(t) \/ DeleteReview(t)
      PROVE  UNCHANGED <<reviews, author>>
  BY <1>4 DEF Open, Enroll, SubmitForm, DeleteReview, rows
<1>5. CASE Redis \/ UNCHANGED cpVars \/ \E i \in Ids : CompleteCourse(i)
  <2>1. UNCHANGED <<reviews, author>>
    BY <1>5 DEF Redis, HandleMessage, SetLifetime, Expire, Lose, CompleteCourse, rows, cpVars
  <2> QED
    BY <1>1, <2>1
<1> QED
  BY <1>1, <1>2, <1>3, <1>4, <1>5 DEF CPNext, Settle, Redis
-----------------------------------------------------------------------------
(* CourseInv holds at the start.                                            *)
LEMMA CourseInit ==
  CPInit => CourseInv
<1> SUFFICES ASSUME CPInit PROVE CourseInv
  OBVIOUS
<1>1. CPTypeOK /\ CountInv
  BY CourseTypeInit, CountInit
<1>2. CallInv /\ OneClick /\ EnrollmentInv /\ ListInv
  BY DEF CPInit, CallInv, OneClick, EnrollmentInv, ListInv
<1>3. completed \subseteq Enrolled /\ calls = {}
  BY DEF CPInit
<1>4. OneReviewEach
  BY <1>3 DEF CPInit, OneReviewEach
<1>5. RowInv
  <2>1. \A n \in 1..MaxClicks : n \in Ids \ Old
    BY ConstantsAssumption DEF Ids
  <2>2. \A n \in 1..MaxClicks : student[n] = None
    BY <2>1 DEF CPInit
  <2> QED
    BY <1>3, <2>2 DEF RowInv
<1> QED
  BY <1>1, <1>2, <1>4, <1>5 DEF CourseInv

(* Every step keeps CourseInv.                                              *)
LEMMA CourseNext ==
  CourseInv /\ [CPNext]_cpVars => CourseInv'
  BY CourseTypeNext, ReviewNext, RowNext, CallsNext, CountNext, EnrollmentNext, ListNext
     DEF CourseInv

(* CourseInv is an invariant of the page of a course.                       *)
LEMMA CourseInductive ==
  CPSpec => []CourseInv
  BY CourseInit, CourseNext, PTL DEF CPSpec

(* Whoever writes in how many tabs, for how many enrollments of the same    *)
(* student, and however their calls cross: an enrollment gets one review,   *)
(* and once all calls are answered the tab that has written last shows the  *)
(* reviews as they are, unless its page has failed.                         *)
THEOREM PagesAreRight ==
  CPSpec => []PageIsRight
<1>1. CourseInv => PageIsRight
  <2> SUFFICES ASSUME CourseInv, calls = {}, faults = 0, ~late
               PROVE  /\ author # None /\ ~tab[author].failed => tab[author].shown = reviews
                      /\ enroller # None => tab[enroller].enrollment # None
    BY DEF CourseInv, PageIsRight, AuthorSees
  <2> QED
    BY DEF CourseInv, ListInv, Lists, EnrollmentInv, ToldEnrolled
<1> QED
  BY <1>1, CourseInductive, PTL

(* The dashboard counts the enrollments, several of one student among them, *)
(* until the counter has expired or started above older ones.               *)
THEOREM CountsAreRight ==
  CPSpec => []CountIsRight
<1>1. CourseInv => CountIsRight
  <2> SUFFICES ASSUME CourseInv, channel = 0, Unpublished = {}, faults = 0, ~lapsed
               PROVE  EnrollmentCount = Count
    BY DEF CountIsRight
  <2>1. Owed = 0
    BY FS_EmptySet DEF Owed
  <2>2. counter \in Nat /\ Count \in Nat
    BY IdsFinite DEF CourseInv, CPTypeOK
  <2> QED
    BY <2>1, <2>2 DEF CourseInv, CountInv, EnrollmentCount
<1> QED
  BY <1>1, CourseInductive, PTL
=============================================================================
