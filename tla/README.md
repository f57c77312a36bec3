# SynapsisForge, in TLA+

SynapsisForge is an e-learning platform: a NestJS backend (`src/backend/src`) over
PostgreSQL, MongoDB, Redis and BullMQ, with Braintree for payments, and an Angular
frontend (`src/frontend/src`). This directory holds TLA+ models of the parts of it whose
correctness depends on the order in which things happen, the TLC configurations that check
them on small instances, and TLAPS proofs of the properties that matter most.

Of the implementation's source lines (tests, styles and configuration aside) the map in
`PROJECT.json` names the three tenths in which that is so.

The backend is one Node process: a handler runs without interruption from one `await` to
the next, and at every `await` any other request, queue job or event listener may run. No
service opens a database transaction or takes a lock around its steps. That is why almost
every model here is a set of request processes that move from `await` to `await` over
shared tables, with one action per awaited step.

## Inventory

| Part | State it keeps | Operations | What it talks to |
|---|---|---|---|
| Purchase: `payments`, `cart`, `enrollments` | rows of `payments`, `enrollments`, `cart_items`, `student_profiles`, `courses` | single checkout, cart checkout, enroll | Braintree, event bus, Redis counters |
| Subscriptions and webhooks: `payments`, `users` | `users.plan` and `subscription_*`, `payments`, one idempotency key per notice | subscribe, cancel, webhook handlers, profile edit | Braintree (both ways), Redis |
| Learning and certificates: `lessons`, `enrollments`, `queues`, `certificates` | `lesson_progress` documents, `enrollments.progress_percent` and `completed_at`, `certificates`, PDF files | report progress, announce completion, generate, revoke | MongoDB, event bus, BullMQ, S3 |
| Sessions and passwords: `auth`, `users` | `sf:session:refresh:<user>` (one key per user, shared by web and mobile), `sf:login:attempts`, `sf:login:locked`, the tokens in `users` | login with lockout, refresh, logout, verify e-mail, reset password, for web and mobile | Redis, mail queue |
| Storefront: `courses`, `admin`, `lessons`, `cart`, `cache` | `courses`, `sections`, `lessons`, `cart_items`; cached pages (`sf:cache:course*`) and carts (`sf:cart:*`) | browse, create, edit, delete, sections, approve, reject, fill and clear a cart | Redis |
| Frontend session: `auth.interceptor.ts`, `auth.service.ts` | access token in localStorage, `isRefreshing`, the calls that wait | attach the token, refresh on a 401 and repeat, log in and out | backend `auth` |
| Accounts: `auth` strategies, `users`, mail queue | `users`, `user_providers`, `sf:github:device:*`, mail jobs | register, verify, find or create or link the user of a provider, device flow, the guard of every call | Google, GitHub, BullMQ, the pages for signing in |
| Course wizard (frontend) | the draft of a course, ids of what was created, uploads | four steps, back, publish, edit | backend `courses`, `lessons`, `upload`; S3 |
| Lesson player and quiz (frontend) | signals: lesson shown, ticks, answers, timers | load, play, answer, save, navigate, leave | backend `lessons` |
| Cart and checkout (frontend) | signals: items, badge, the page that is open | add, remove, buy now, check out, pay, sign in and out, refresh | backend `cart`, `payments`, `enrollments`; Braintree drop-in |
| Reviews and the page of a course | `reviews`; per tab: enrollment, list, form | open, enroll, list, create, update, remove | backend `reviews`, `enrollments` |
| Enrollment counter: `cache/redis-pubsub` | one Redis counter per course, one message per enrollment | publish, INCR, EXPIRE, count | Redis |
| Rate limits: `cache/redis-throttler-storage` | hit counters and blocks in Redis | count, block | Redis |
| Notifications: `notifications`, push queue | `user_devices`, `notification_logs` | register, remove, push | FCM, BullMQ |
| Background jobs: `queues` | BullMQ queues: email, certificate, receipt, push, maintenance | enqueue from events, retry, cron | mail, PDF, S3 |
| Uploads, mail, PDF, guards, filters, health, seeds, infrastructure | none or files | pure I/O, or one decision per request | S3, SMTP |

How the parts interact: `enroll()` is the one door to an enrollment and is called by its
own route and by both checkouts. It emits `enrollment.created` (mail) and publishes to
Redis (counter). `updateProgress()` emits `enrollment.completed`, which a listener turns
into a certificate job and a push job. A subscription webhook changes the same `payments`
and `users` rows that the subscribe route changes. An instructor's edit of a course changes
what `enroll()`, the cart and `updateProgress()` have read a step earlier. Deleting a course
deletes its payments, enrollments, cart items, lessons and sections by cascade.

### What is hard

- **Check-then-act over awaits.** Published, already enrolled, already paid, already
  completed, locked out, token still valid: each is read in one step and relied on in a
  later one.
- **Whole-entity saves.** TypeORM's `save()` of a loaded entity reads the row again and
  writes back every column that differs, in two awaited statements. A stale entity undoes
  what others wrote meanwhile, and two saves may each write a part of the row.
- **Caches.** What a reader stores under a key may be older than the deletion of that key.
- **Half-done work.** Money is taken before rows are written, rows before files, events are
  emitted between the two, and jobs are retried from the start.
- **Outside parties.** Braintree may take money and lose the answer, deliver a webhook
  twice, late, or out of order; Redis keys expire; BullMQ retries.
- **Boundaries.** Percentages round, TTLs are in units, prices have no lower bound.

`PROJECT.json` lists each hazard at its line, with the properties that cover it.

### What makes each part correct

- *Purchase*: access to a priced course is backed by a completed payment, a completed
  payment by an accepted sale; nobody pays twice for, or is enrolled twice in, one course;
  a paid course is enrolled in, in the end; every request is answered.
- *Learning*: the completion is announced when all lessons are completed and not before;
  one certificate per enrollment, made by one job, with a stored file; a revocation holds.
- *Subscriptions*: rows name only subscriptions made for their user; what is recorded is
  what the gateway has charged; a cancelled or expired subscription is not revived.
- *Sessions*: a secret that was replaced, consumed or ended is never accepted again; a
  closed session is opened by logins only; only wrong passwords lock an account.
- *Frontend session*: one refresh at a time, every call ends, a logout clears the token.
- *Storefront*: what an edit outdates in Redis is deleted before it answers; whatever else
  makes a copy stale, Redis comes to agree with the database.
- *Accounts*: one user per account at a provider; a user that nobody can sign in as belongs
  to a request that failed; the mail's link works; a page for members serves its visitor.
- *Course wizard*: what is entered for a lesson is stored with that lesson and in its
  section; nothing is created twice; the page is left only when everything is stored.
- *Lesson player*: answers are stored under their own quiz and complete it; a lesson that
  ended is completed.
- *Cart and checkout*: the browser's copy is the user's cart, and a cart is charged as shown.
- *Reviews and counter*: one review per enrollment, which its owner can change; the author
  sees what is stored, and the dashboard counts the enrollments.

## Modules

| Module | Models | Correspondence |
|---|---|---|
| `Entitlement` | what the purchase routes promise | abstract: billed, paid, access, everFree |
| `Purchase` | `POST /payments/checkout`, `POST /cart/checkout`, `POST /enrollments` | a request's `pc` names the `await` it is at; `Sale` is Braintree's answer, its refusal, or an answer that is lost; `UpdateCourse`, `DeleteCourse`, `AddItem`, `RemoveItem` are what the owners do meanwhile |
| `Percent` | the percentage of `updateProgress` | a pure function, with its rounding |
| `Learning` | progress, completion, certificate job with its three attempts, revocation | extends `Percent`; `UpsertFind` and `UpsertInsert` are the two halves of MongoDB's upsert |
| `Subscriptions` | subscribe, cancel, webhook, profile edit | Braintree is `created`, `live` and `sent`, and a delivery picks any notice that was sent, as often as it likes; a `save()` reads the row again (`SaveUser`, `SaveSubscriber`) and then writes the columns that differ (`WriteUser`, `WriteSubscriber`) |
| `Sessions` | login and lockout, verify, refresh, logout, reset, profile edit, of one account | tokens and passwords are named by the request that made them |
| `AuthInterceptor` | the interceptor and the session of the browser | one action per callback |
| `Storefront` | catalogue, cart, and the Redis copies | one key is followed, chosen at the start; the copy under it is a mark |
| `Accounts` | registration, verification, logins by password and provider, device flow, mail job, guard, and the page each request ends on | a user is named by the request that inserted it; `Insertable` and `Linkable` are the unique indexes |
| `CourseWizard` | the wizard with its video uploads, and the rows and documents behind its calls | the page's arrays are sequences, what is entered is named by the section or lesson it was meant for, so that a mismatch can be seen; a call is a record that is answered, refused or lost in any order |
| `LessonPlayer` | the player, its quiz and both routes behind it | an answer is named by the lesson whose quiz it answers; the timers of Next and Back are steps of their own, and so is the effect of the quiz (`RunEffect`), which runs again whenever the question on show or the answers change; `Hang` is a call left behind a lost refresh |
| `CartPages` | the browser's cart, all pages that use it, and the cart routes | one click is one action, one answer another; between them a call goes through the route from `await` to `await` (`Check`, `Charge`, `Change`, `Invalidate`, and `GetCached`, `FindItems`, `SetCached` of the cached cart, which `Lapse` ends); what the server has charged for is compared with what the page showed |
| `CoursePage` | the page of a course in several tabs, its reviews, and the enrollment counter | calls go through the stages at which the service awaits: `enroll()` looks, saves and publishes in three steps, so that a student may be enrolled twice; the Redis message is handled in two |

Each `...Proofs` module extends the module it is named after and holds its theorems, with
three that hold those of two modules each: `LearningProofs` extends `Learning` (with
`Percent`) and `LessonPlayer`, `BrowserProofs` extends `AuthInterceptor` and `CoursePage`,
`StorefrontProofs` extends `Storefront` and `CourseWizard`. What two modules extended
together would name alike is named apart: `LPInit`, `LPNext`, `LPSpec`, `LPTypeOK` in
`LessonPlayer`, whose count of failed calls is `failures`; `CPInit`, `CPNext`, `CPSpec`,
`CPTypeOK` in `CoursePage`; `CWInit`, `CWNext`, `CWSpec`, `CWTypeOK` and `cwVars` in
`CourseWizard`.
`MCPurchase`, `MCSessions` and `MCCoursePage` add symmetry, `MCPurchase` and `MCCoursePage`
the start of a run, and `MCLessonPlayer` the quizzes.
The five browser models (`AuthInterceptor`, `CourseWizard`, `LessonPlayer`, `CartPages`,
`CoursePage`) compose the page with the routes that serve it: an answer is computed from the
tables when the route runs, and is taken by the page in a later step.
The configurations of the others instantiate the module itself.

Modelling decisions that hold throughout:

- `save()` of a loaded TypeORM entity reads the row again and writes the columns that differ.
  In `Subscriptions`, where two saves of one row meet and the columns depend on each other,
  these are two steps; `mixed` marks a row whose columns are neither save's. In the other
  models it is one write-back of what was loaded.
- A crash, a rejected `await` and a client timeout are `Abort`: the request takes no further
  step. Where no fairness is assumed a request may stop anyway and there is no `Abort`.
- Amounts, pages, file contents and tokens are names. A sale's amount is the set of lines
  it is the sum of, so that no property depends on a sum.
- History variables (`everFree`, `owned`, `announced`, `created`, `dead`, `wrong`, `issued`, ...)
  are marked as such where they are declared; no guard reads one where the code has none.

## Runs

Every run ends with no error. One run for each question; statements that the code does not
keep are under "Divergences".

| Run | Instance | Shows |
|---|---|---|
| `purchase_safety` | 1 user, 2 courses, 2 requests, prices 0 and 2, 1 edit, 1 fault | access is paid, payments are backed by sales, at most one paid course is left without access, late requests are neither charged nor enrolled twice, `Purchase` implements `Entitlement` |
| `purchase_live` | 1 user, 2 courses, 2 requests, 1 edit | a paid course is enrolled in, in the end, and every request is answered |
| `learning` | 1 enrollment, 2 lessons, 2 requests, 1 edit, 1 fault | one certificate job gets through, files exist, completions are final and earned, and lead to a certificate |
| `subscriptions` | 1 user, 2 requests, 2 deliveries, 1 expiry, 1 fault | rows name only subscriptions created for their user, and premium users are subscribed unless the row is a mixture of two saves; payments are Braintree's charges, a dropped subscription stays dropped, a first delivery is recorded |
| `sessions` | 4 requests, lock after 2, 1 expiry | dead secrets are refused, closed sessions are opened by logins only, locks are earned |
| `interceptor` | 3 calls, 2 tokens | one refresh at a time, calls end, a logout clears the token |
| `storefront` | 1 course, 1 user, 3 requests, one of them a reader | outdated copies are owed a deletion, and Redis catches up |
| `accounts` | 3 requests of any kind, 1 address, 1 account at a provider, mail tried twice, 1 fault | one user per identity, links by address, mailed tokens open, half-made users belong to failures, who registers is mailed |
| `wizard` | a new course or an edit, 2 sections, 2 lessons, 5 changes, 4 clicks, 1 upload, 1 fault | lessons stay in their section and contents in their lesson, nothing is made twice by clicking on, the page waits for the contents, the buttons come back |
| `lesson_player` | 3 lessons with quizzes of 1, 2 and 0 questions, 4 clicks, 1 call that fails, is overtaken or hangs | answers of the own quiz; a quiz of one question is completed with its answer, a longer one never; a lesson that ended is stored; the spinner ends unless its load hangs |
| `cart_pages` | 1 user, 2 courses, 3 clicks, 2 calls at a time, 1 fault | the copy is the cart, the badge counts it, the charge is what was shown, the pages come back unless the call they wait for hangs |
| `course_page` | 2 students, 2 tabs of one of them or of both, 3 clicks, 1 fault; at first nobody or one student is enrolled, once or twice, with the course completed | one review per enrollment, the author sees what is stored, the counter is right |

**Why the bounds are enough.** Two requests is what a lost check or a lost write needs, and
the sessions get four because the worst cases there combine a login, a refresh, a reset and
an edit. Two courses, or two lessons, is what "one of several" needs. One user is enough
where rows of different users do not meet; the theorems cover the rest. Two students share
the list of a course's reviews: with one of them TLC accepts that whoever acted last in any
tab sees both the reviews and the enrollment as stored, and with two it refutes that, since
one tab may enroll after another has written. `PageIsRight` therefore follows the tab that
wrote last and the tab that enrolled last apart (`author`, `enroller`). One edit and one
fault put an edit or a crash between any two steps. Two deliveries are one notice and its
duplicate. `LockAfter` is 5 in the code and 2 here: what matters is a count above one.
Clicks are what bounds the browser models: three start every pair of calls that can cross on
the page of a course and in the cart, four lead through the wizard's four steps, or answer a
quiz of one question, leave it and come back. Two calls at a time (`MaxCalls`) race for the
cart's key at the server; the theorems hold for any number. Quizzes of one question and of
two are those that can be completed and those that cannot. `MCCoursePage` starts with what is
hard to reach in three clicks; the theorems are about `CPSpec`, which starts anywhere. One
fault is a call that fails or hangs, is answered in the wrong order, or is lost behind its
effect. `Attempts` is 3 in the code and 2
in `accounts`: one try that fails and one more. `Storefront` follows one key because copies
under different keys do not influence each other; each initial state chooses another.

**Conditions in the properties.** Several properties of the browser models hold until
something happens that the code does not guard against: `late` (an answer behind a newer
one), `crossed` (answers taken out of order, or another user's), `raced` (the cart changed
between a read or deletion of its key and the answer), `hasty` (a checkout beside another
call), `odd` (a course paid that the copy did not hold), `moved`, `back`, `lapsed`, and
`mixed` in `Subscriptions`. Each is a history variable, set by the step in question and
nothing else, and reached by its run; without the condition TLC refutes the property, and
the hazards say so. `faults = 0` in a property excludes failures that the run nevertheless
contains.

**Deadlock** is checked in `storefront`. The other runs may stop for good: requests or
clicks are used up, or the browser waits for a refresh nobody makes any more
(`AuthInterceptor`, when the call that refreshes is unsubscribed).

**Fairness.** `WF` on the steps of a request: Node resumes a handler whose `await` has
settled, and every `await` settles, or rejects, which is `Abort` and is not fair. In
`Learning` also on the steps of a job, which BullMQ takes up again after a restart. In
`Subscriptions` on the steps of a delivery only, since Braintree need not deliver and a
user need not ask. In `Storefront` also on `Expire`: every key is set with a lifetime. In
`AuthInterceptor` on the answers: a browser settles every call, if only with an error.
In `CourseWizard`, `LessonPlayer` and `CartPages` likewise on the answers as a
whole, and never on a click. A call that met a 401 may instead wait in the interceptor for
good, behind a refresh that failed or was unsubscribed, as `AuthInterceptor` shows. In
`LessonPlayer` and `CartPages` any call may come to that (`Hang`, one of the faults) and
fairness does not cover it: `SpinnerEnds` and `PagesComeBack` except what waits for such a
call. `ButtonsComeBack` is about a wizard none of whose calls is left so. In `Accounts` on the steps of a request and on the mail worker.
Nothing is assumed to arrive, to be edited or to be retried by a user. `Sessions` and
`CoursePage` have safety properties only and no fairness.

**Types.** `TypeOK` is a conjunct of one invariant of four runs: of `EntriesInPlace`
(`CourseWizard`), `QuizIsAnswered` (`LessonPlayer`), `CartIsShown` (`CartPages`) and
`PageIsRight` (`CoursePage`), which are theorems too. In the other modules it is a theorem, or part of one, and no run repeats it. Those invariants, like `AccountsSound`,
name what has to be right together, and each conjunct is stated and explained above it.

## Divergences

Where a document, a comment or a test says more than the code does. Each is an operator of
a module (at its end); no run lists them, and TLC refutes each within seconds when it is
listed as an INVARIANT, the last as a PROPERTY, of the configuration named with it.

| Operator | Statement | What the code does |
|---|---|---|
| `OneEnrollment` (`MCPurchase_safety.cfg`) | 409 "Student already enrolled in this course" (`src/backend/src/modules/enrollments/enrollments.controller.ts:84`) | two overlapping purchases both look before either inserts, and no index refuses the second row |
| `SaleRecorded` (`MCPurchase_safety.cfg`) | "On success: create Payment(COMPLETED) + enroll() per item" (`src/MEMORY.md:711`) | a cart sale whose loop is stopped is recorded in part |
| `ProgressSettles` (`Learning.cfg`) | "aggiorna progress_percent" (`src/backend/src/modules/lessons/lesson-player.controller.ts:49`) | of two overlapping reports the last save wins, with the older count |
| `OnePaymentPerCharge` (`Subscriptions.cfg`) | "duplicate webhook must not create duplicates" (`src/PLAN.md:507`) | two deliveries at once both read the key before either sets it |
| `OneRefresh` (`AuthInterceptor.cfg`) | "should queue concurrent 401s and perform single refresh" (`auth.interceptor.spec.ts:133`) | a repeated call that fails resets `isRefreshing` under another refresh |
| `OAuthIsServed` (`Accounts.cfg`) | "OAuth2 login via Google and GitHub" (`src/README.md:130`) | a user created by such a login is not verified, and the guard refuses each of its calls |
| `OwnersChangeTheirs` (`MCCoursePage.cfg`) | "Review updated successfully.", "Review deleted successfully." (`src/backend/src/modules/reviews/reviews.controller.ts:50` and `:65`; `src/backend/test/rest/reviews_req.rest:49` and `:79`) | the routes pass `req.user.sub`, which the user row that `JwtStrategy` returns does not have, so every change is refused, the owner's too |

Read in the code while modelling it, and kept in the models as it is:

- A quiz shows "Question 1 of n" and "Next question" (`quiz-player.html:5` and `:91`), but
  the effect of `quiz-player.ts:26-34` reads the index and the answers, untracked though it
  means them to be, and takes the quiz back to its first question whenever one of them
  changes: a quiz of several questions is never completed (`LongQuizStaysOpen`).
- Two saves of a user at once may leave a premium user without a subscription (`mixed` in
  `Subscriptions`): one writes the plan only, the other the subscription only.
- A cart read before a change may be stored behind its deletion, and the change's own answer
  then shows the old cart, a checkout one that is not charged (`raced` in `CartPages`).
- `RestoreRefused` in `Storefront`: `restore()` looks for a course with `deleted_at`, which
  nothing sets, since `delete()` removes the row.
- The enrollment counter is called persistent (`src/README.md:286`); it lapses after a day
  and then starts again at one (`lapsed` in `CoursePage`).
- "Your subscription gives you access to all courses" (the page of a course): `enroll()`
  asks for a completed payment of the course whatever the plan is.
- A profile edit may restore an old password or subscription, an approval a deleted course;
  a browser whose refresh was unsubscribed waits until it is reloaded.

Hazards that `PROJECT.json` has no room for: rounding to 100 before the last of 200 lessons
(excluded below 200 by `HundredIsAll`); webhook notices that overtake each other; an approval
that races a deletion; devices deactivated by a stale token, registered twice, or pushed to
again by a retry; a rate-limit counter whose EXPIRE is lost; saves of the lesson player that
are aborted on leaving, or that fail and are only logged (`lesson-player.ts:181`); that an
e-mail is verified is asked by the login with a password and by the guard
(`jwt.strategy.ts:30`), not by a refresh.

## Proofs

TLAPS checks every theorem for all values of the constants, from the assumptions on the
constants that each module names and nothing else. Each module's type invariant is proved
first, one step per action. The others need more than the property:

- *Purchase*. `AccessIsPaid` needs `PaidInv`: between `enroll()`'s payment check and its
  insert, the payment it saw can only disappear with the course, and then the insert fails.
  `PaymentsAreCharged` needs `ChargedInv`: a row is a line of its request's sale that the
  loop has taken off its list, all rows of a request have one outcome, and a completed one
  means that the gateway accepted the sale. `OneUnentitled` adds `EntitledInv`: a paid row
  without its enrollment is the row of the line the loop is at.
  `LateRequestsAreRefused` needs `LateInv`: what a request's user owned when it arrived stays
  owned while the course is there, a request has charged and enrolled nothing before it asks,
  a single checkout asks for one course, and behind a duplicate check neither the sale nor
  the insert is for such a course.
  `PurchaseImplementsEntitlement` maps each action to a step of `Entitlement` or a stutter.
- *Learning*. `OneJob` and `FilesAreStored` rest on `CertificateInv`: a certificate belongs
  to the job that inserted it, an enrollment has one, what a revocation writes back is a
  certificate of the same job, and a job links a file after storing it. `CompletionIsFinal`
  is a property of steps that follows from the types alone. `HundredIsAll` and
  `AllIsHundred` say that the percentage is 100 exactly when all lessons are completed, the
  first for courses of fewer than 200 lessons; `PercentRange` that it is never out of range.
  `AnnouncementsAreEarned` uses the first, and so holds below 200 lessons: with as many
  completed documents as lessons, none of them a duplicate or outlived, the map from document
  to lesson is an injection between sets of one size, so every lesson has one.
- *Subscriptions*. `RowInv` says of the row, of every entity a request or delivery has
  loaded, and of every row a save has read again, that the subscription it names was created
  for that user, and that a premium plan names one, unless the user is `mixed`. A save that
  writes takes each column from the entity or from the row (`UpdateConsistent`): what is
  neither marks the user. `SubscriptionPaymentsBilled` adds the deliveries, `DroppedIsFinal`
  the step.
- *Sessions*. `EarnedInv` counts: what any login has read, or the key holds, is at most the
  number of wrong passwords. `DeadInv` says of a request that arrived with a dead secret
  that whoever stored that secret has ended, that neither the session, the row nor an edit
  that will save still has it, and that the request is short of the point that would accept
  it. `OnlyLoginsReopenSessions` needs that kinds and labels agree (`KindInv`).
- *AuthInterceptor*. `Guarded`: while a refresh is under way `isRefreshing` is set, until a
  repeated call fails behind its own refresh.
- *Storefront*. `OwedPhase`: a request owes a deletion only between its write and its
  answer, so that no later write of the same request can drop what it owes.
- *Accounts*. `RequestOK` says what a request has at each step: no row before its insert, the
  row it goes on with after it, the identity of its login with the address the provider told
  or none, and behind the lookup a user with that address. `StepOf` says what one request's
  step leaves to the others, so that a lemma (`OthersKeep`) carries them over once for all
  actions. `OneUser` then needs no look at interleavings: two links of an identity are of
  users with its address, and an address is one user's.
- *A course's page* (`CourseInv`). Until it expires, a counter above zero, the messages on
  their way and the enrollments still to be published add up to the enrollments (`CountInv`);
  `CountIsRight` alone says nothing while a message is on its way. An enrollment that is not
  stored yet has no row, and a review that a call is about to insert is of a completed
  enrollment (`RowInv`). A click makes one call, or the few that opening the page makes, and
  a page that was left with a change under way is `late` (`CallInv`). `EnrollmentInv`: the
  student who enrolled last has a row, and their tab shows it or a call will tell it.
  `ListInv`: the tab that wrote last shows the reviews, or has not heard yet that its own was
  stored, or waits for a list that is not read yet or was read as the reviews are now, or
  says that its list failed.
- *The lesson player* (`LessonInv`). Calls are told apart by their click (`IdInv`). While the
  newest load is on its way there is a spinner and no move, and without a spinner the lesson
  shown is the route's (`LoadInv`); so the answers in hand, in the saves under way and in
  the tables are of the lesson they are kept under, and to its first question
  (`AnswersInv`). The quiz is at its first question and no move is owed, or that question is
  answered (`MovesInv`), and what completes a quiz is that one answer to its one question
  (`QuizInv`). Of the saves under way for a lesson that ended, the last one completes it
  (`EndedInv`).
- *The cart's pages* (`CartInv`). `CopyInv` has two parts. At the server, only a call that
  has not deleted the key yet leaves an older cart under it. In the browser, the answers on
  their way, taken in turn, lead from the copy to the cart, but for the courses touched by
  calls that have changed it and are not answered, or a load will that is still to be
  answered. Both are about runs in which nothing failed, crossed or raced (`InTurn`).
  `ChargeParts` is about the page of the checkout: unless the user was `hasty`, the page is
  quiet and shows the cart, or its one call is under way, sent and checked with the cart as
  it is, or its answer waits to be taken (`CheckoutInv`), and nothing but loads is sent
  beside a checkout (`ChargeInv`). What is left when an answer is taken from the middle is a
  lemma about `RemoveAt` (`Removed`).
- *The course wizard* (`WizardInv`). The wizard finds everything by position: the id of a
  lesson, its contents and its calls are under the number that `globalLessonIndex` gives it.
  So the proof starts with positions. `Held(l)` are the slots of a list of lists, `At(l, s)`
  is the number of a slot, and `Matched(l, list, table)` says that `list` has one entry for
  each slot, each of them missing or the id of a row with that lesson's title. Lemmas say
  once what appending a lesson, dropping one and dropping an empty section do to all three
  (`HeldAppend` and `MatchedAppend`, `HeldRemove` and `MatchedRemove`, `HeldClosed` and
  `MatchedClosed`); a number is a count of slots, so each is an argument about
  cardinalities. On them rest, in this order: the draft names nothing twice (`ListsInv`); a
  call has one name and is waited for by the wave that made it (`CallsInv`, `RowsInv`); the
  ids of sections and lessons fit the draft when they are used, while they are collected and
  while they are asked for, in whatever order the answers come (`SectionsInv`,
  `LessonCallsInv`, `MatchInv`); an upload that step 4 still shows is at its lesson's number,
  because no list changes there (`AliveInv`); and so contents, the calls that carry them, the
  uploads and the documents are each of one lesson (`ContentsInv`, `StoreInv`). Where they
  name `moved` they would be false without it. `LeavesWhenStored` needs `AskedInv`: what was sent is
  stored or a call of the wave that the page waits for will store it, and a document never
  loses a video or a quiz, because only lessons with a video have their contents sent
  (`VideosSent`). `NothingTwice` needs `OnceInv`: until the user goes back or a call fails,
  each step is left only by its own wave, so that before it there are no rows of its kind, and
  a call and a row, or two calls, never have one title.

Only model-checked is liveness (`PaidEventuallyEntitled`, `RequestEnds`,
`CompletedIsCertified`, `ChargeRecorded`, `CallsEnd`, `LogoutClears`, `CatchesUp`,
`RegisteredIsMailed`, `ButtonsComeBack`, `SpinnerEnds`, `PagesComeBack`), because TLAPS has
no proof rules for fairness and `ENABLED`. Every safety property that a run checks is proved.

## Not modelled

`PROJECT.json` lists each part with its reason. Rendering, mail templates and the file store
keep no state the properties read. Filters, statistics and search read only. Guards and
interceptors of the backend decide one request each. Within the modelled parts: decoding a
token for the role and plan signals, cookie attributes, the payment history, TTLs as numbers,
the drop-in form of Braintree, and the receipt mails that the purchase events lead to.
Notifications and rate limits keep state and are the next modules of the plan.

## Plan

Done: `Purchase` and `Entitlement`, `Percent` and `Learning`, `Subscriptions`, `Sessions`,
`AuthInterceptor`, `Storefront`, `Accounts`, `LessonPlayer`, `CartPages`, `CoursePage` and
`CourseWizard`, and their proofs. Next, in this order:

1. `Devices`: registration against the push job and its retries; the rate limits.
2. The composition of `Purchase` with `Learning`: a certificate is backed by a payment or a
   free offer; the whole-entity saves of sections and lessons.
