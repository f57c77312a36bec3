------------------------------ MODULE Learning ------------------------------
(***************************************************************************)
(* A student works through a course and earns its certificate:             *)
(* PATCH /enrollments/:id/lessons/:id/progress (LessonsService, then       *)
(* EnrollmentsService.updateProgress), the certificate queue and its       *)
(* processor, PATCH /certificates/:id/revoke, and the instructor who adds  *)
(* and soft-deletes lessons meanwhile.                                     *)
(*                                                                         *)
(* The course and its enrollments are there throughout; what deleting them *)
(* does is in Purchase.  TypeORM's save() of a loaded entity writes every  *)
(* column that differs from the row, so it is modelled as writing back all *)
(* of what was loaded.                                                     *)
(***************************************************************************)
EXTENDS Percent, FiniteSets

CONSTANTS
  Enrollments,  \* enrollments in the course
  Lessons,      \* lessons the course has, had, or may be given
  Requests,     \* PATCH requests; each may announce at most one completion
  MaxEdits,     \* bound: lessons added and deleted
  MaxFaults     \* bound: awaits and job attempts that fail

ASSUME LessonsAssumption == IsFiniteSet(Lessons)
ASSUME BoundsAssumption  == MaxEdits \in Nat /\ MaxFaults \in Nat

VARIABLES
  lessons,    \* the lessons whose deleted_at is null
  docs,       \* documents of lesson_progress; "by" is who inserted it
  row,        \* [Enrollments -> Row]: progress_percent, completed_at # null
  announced,  \* history: requests that emitted enrollment.completed
  pc,         \* [Requests -> Labels]: the await a request is at
  en, lesson, \* [Requests -> ...]: its route parameters
  completes,  \* [Requests -> BOOLEAN]: dto.completed
  seen,       \* [Requests -> Row]: the enrollment entity it works on
  total,      \* [Requests -> Nat]: the lessons it loaded with it
  job,        \* [Requests -> JobLabels]: the job its announcement queued
  attempts,   \* [Requests -> 0..Attempts]: attempts of that job that failed
  certs,      \* rows of certificates; "by" is the job that inserted it
  stored,     \* the jobs whose PDF is on S3 or on disk
  revoker,    \* [Enrollments -> {"idle", "save", "done"}]: a revoke request
  revoking,   \* [Enrollments -> SUBSET Certificate]: the row it loaded
  edits, faults

requests == <<pc, en, lesson, completes, seen, total>>
jobs     == <<job, attempts, certs, stored>>
revokes  == <<revoker, revoking>>
bounds   == <<edits, faults>>
vars     == <<lessons, docs, row, announced, requests, jobs, revokes, bounds>>

Attempts    == 3
Ended       == {"done", "failed", "aborted"}
Labels      == {"idle", "find", "insert", "load", "count", "save"} \cup Ended
Active      == {"insert", "store", "update"}
JobLabels   == {"none", "queued", "done", "failed"} \cup Active
Row         == [percent : 0..100, completed : BOOLEAN]
Doc         == [by : Requests, en : Enrollments, lesson : Lessons,
                completed : BOOLEAN]
Certificate == [by : Requests, en : Enrollments, valid : BOOLEAN,
                filed : BOOLEAN]

TypeOK ==
  /\ lessons \subseteq Lessons
  /\ docs \subseteq Doc /\ IsFiniteSet(docs)
  /\ row \in [Enrollments -> Row] /\ announced \subseteq Requests
  /\ pc \in [Requests -> Labels]
  /\ en \in [Requests -> Enrollments] /\ lesson \in [Requests -> Lessons]
  /\ completes \in [Requests -> BOOLEAN]
  /\ seen \in [Requests -> Row] /\ total \in [Requests -> Nat]
  /\ job \in [Requests -> JobLabels]
  /\ attempts \in [Requests -> 0..Attempts]
  /\ certs \subseteq Certificate /\ stored \subseteq Requests
  /\ revoker \in [Enrollments -> {"idle", "save", "done"}]
  /\ revoking \in [Enrollments -> SUBSET Certificate]
  /\ edits \in 0..MaxEdits /\ faults \in 0..MaxFaults
-----------------------------------------------------------------------------
Goto(r, label) == pc' = [pc EXCEPT ![r] = label]

DocsOf(r)       == {d \in docs : d.en = en[r] /\ d.lesson = lesson[r]}
CompletedDocs(e) == {d \in docs : d.en = e /\ d.completed}
Completed(e, l) == \E d \in docs : d.en = e /\ d.lesson = l /\ d.completed
CertsOf(e)      == {c \in certs : c.en = e}

Init ==
  /\ lessons \in SUBSET Lessons
  /\ docs = {} /\ announced = {}
  /\ row = [e \in Enrollments |-> [percent |-> 0, completed |-> FALSE]]
  /\ pc = [r \in Requests |-> "idle"]
  /\ en \in [Requests -> Enrollments] /\ lesson \in [Requests -> Lessons]
  /\ completes \in [Requests -> BOOLEAN]
  /\ seen = [r \in Requests |-> [percent |-> 0, completed |-> FALSE]]
  /\ total = [r \in Requests |-> 0]
  /\ job = [r \in Requests |-> "none"]
  /\ attempts = [r \in Requests |-> 0]
  /\ certs = {} /\ stored = {}
  /\ revoker = [e \in Enrollments |-> "idle"]
  /\ revoking = [e \in Enrollments |-> {}]
  /\ edits = 0 /\ faults = 0
-----------------------------------------------------------------------------
(* LessonsService.updateLessonProgress.  findOneAndUpdate with upsert: the  *)
(* update of a document that matches is atomic; when none does, the insert  *)
(* comes after the search, and lesson_progress has no unique index.         *)
Arrive(r) ==
  /\ pc[r] = "idle" /\ Goto(r, "find")
  /\ UNCHANGED <<lessons, docs, row, announced, en, lesson, completes, seen,
                 total, jobs, revokes, bounds>>

(* Only a request that completes its lesson goes on to updateProgress.      *)
AfterUpsert(r) == IF completes[r] THEN "load" ELSE "done"

UpsertFind(r) ==
  /\ pc[r] = "find"
  /\ \/ /\ DocsOf(r) = {} /\ Goto(r, "insert") /\ docs' = docs
     \/ /\ \E d \in DocsOf(r) :
             docs' = (docs \ {d}) \cup {[d EXCEPT !.completed = completes[r]]}
        /\ Goto(r, AfterUpsert(r))
  /\ UNCHANGED <<lessons, row, announced, en, lesson, completes, seen, total,
                 jobs, revokes, bounds>>

UpsertInsert(r) ==
  /\ pc[r] = "insert" /\ Goto(r, AfterUpsert(r))
  /\ docs' = docs \cup {[by |-> r, en |-> en[r], lesson |-> lesson[r],
                         completed |-> completes[r]]}
  /\ UNCHANGED <<lessons, row, announced, en, lesson, completes, seen, total,
                 jobs, revokes, bounds>>

(* EnrollmentsService.updateProgress: load the enrollment and its course's  *)
(* lessons, count the completed documents, announce the completion when     *)
(* this request is the first to see it, and save the entity.                *)
LoadWithDeleted(r) ==
  /\ pc[r] = "load" /\ Goto(r, IF lessons = {} THEN "failed" ELSE "count")
  /\ seen' = [seen EXCEPT ![r] = row[en[r]]]
  /\ total' = [total EXCEPT ![r] = Cardinality(Lessons)]
  /\ UNCHANGED <<lessons, docs, row, announced, en, lesson, completes, jobs,
                 revokes, bounds>>

LoadEnrollment(r) ==
  /\ pc[r] = "load" /\ Goto(r, IF lessons = {} THEN "failed" ELSE "count")
  /\ seen' = [seen EXCEPT ![r] = row[en[r]]]
  /\ total' = [total EXCEPT ![r] = Cardinality(lessons)]
  /\ UNCHANGED <<lessons, docs, row, announced, en, lesson, completes, jobs,
                 revokes, bounds>>

Counted(r)    == ProgressPercent(Cardinality(CompletedDocs(en[r])), total[r])
Announces(r) == Counted(r) = 100 /\ ~seen[r].completed

CountAnyDoc(r) ==
  LET counted == ProgressPercent(
                   Cardinality({d \in docs : d.en = en[r]}), total[r])
      first   == counted = 100 /\ ~seen[r].completed
  IN  /\ pc[r] = "count" /\ Goto(r, "save")
      /\ seen' = [seen EXCEPT ![r] = [percent |-> counted,
                                      completed |-> @.completed \/ first]]
      /\ announced' = announced \cup IF first THEN {r} ELSE {}
      /\ job' = [job EXCEPT ![r] = IF first THEN "queued" ELSE "none"]
      /\ UNCHANGED <<lessons, docs, row, en, lesson, completes, total,
                     attempts, certs, stored, revokes, bounds>>

CountAlwaysAnnounces(r) ==
  /\ pc[r] = "count" /\ Goto(r, "save")
  /\ seen' = [seen EXCEPT ![r] = [percent |-> Counted(r),
                                  completed |-> @.completed \/ Announces(r)]]
  /\ announced' = announced \cup IF Counted(r) = 100 THEN {r} ELSE {}
  /\ job' = [job EXCEPT ![r] = IF Counted(r) = 100 THEN "queued" ELSE "none"]
  /\ UNCHANGED <<lessons, docs, row, en, lesson, completes, total, attempts,
                 certs, stored, revokes, bounds>>

(* The listener of enrollment.completed adds the certificate job; when that *)
(* fails the error is only logged.                                          *)
CountProgress(r) ==
  /\ pc[r] = "count" /\ Goto(r, "save")
  /\ seen' = [seen EXCEPT ![r] = [percent |-> Counted(r),
                                  completed |-> @.completed \/ Announces(r)]]
  /\ announced' = announced \cup IF Announces(r) THEN {r} ELSE {}
  /\ \/ /\ job' = [job EXCEPT ![r] = IF Announces(r) THEN "queued" ELSE "none"]
        /\ faults' = faults
     \/ /\ Announces(r) /\ job' = job
        /\ faults < MaxFaults /\ faults' = faults + 1
  /\ UNCHANGED <<lessons, docs, row, en, lesson, completes, total, attempts,
                 certs, stored, revokes, edits>>

SaveEnrollment(r) ==
  /\ pc[r] = "save" /\ Goto(r, "done")
  /\ row' = [row EXCEPT ![en[r]] = seen[r]]
  /\ UNCHANGED <<lessons, docs, announced, en, lesson, completes, seen, total,
                 jobs, revokes, bounds>>

(* Any await of a request may reject.                                       *)
Abort(r) ==
  /\ pc[r] \notin Ended \cup {"idle"} /\ Goto(r, "aborted")
  /\ faults < MaxFaults /\ faults' = faults + 1
  /\ UNCHANGED <<lessons, docs, row, announced, en, lesson, completes, seen,
                 total, jobs, revokes, edits>>
-----------------------------------------------------------------------------
(* CertificateQueueProcessor: one worker, one job at a time; an attempt     *)
(* that throws is retried from the start, three attempts in all.            *)
JobGoto(j, label) == job' = [job EXCEPT ![j] = label]

JobStart(j) ==
  /\ job[j] = "queued" /\ \A k \in Requests : job[k] \notin Active
  /\ JobGoto(j, "insert")
  /\ UNCHANGED <<lessons, docs, row, announced, requests, attempts, certs,
                 stored, revokes, bounds>>

AttemptFails(j) ==
  /\ attempts' = [attempts EXCEPT ![j] = @ + 1]
  /\ JobGoto(j, IF attempts[j] + 1 < Attempts THEN "queued" ELSE "failed")

(* certificates.enrollmentId is unique: a second insert throws.             *)
InsertAgain(j) ==
  /\ job[j] = "insert" /\ JobGoto(j, "store") /\ attempts' = attempts
  /\ certs' = certs \cup {[by |-> j, en |-> en[j], valid |-> TRUE,
                           filed |-> FALSE]}
  /\ UNCHANGED <<lessons, docs, row, announced, requests, stored, revokes,
                 bounds>>

InsertCertificate(j) ==
  /\ job[j] = "insert"
  /\ \/ /\ CertsOf(en[j]) = {} /\ JobGoto(j, "store") /\ attempts' = attempts
        /\ certs' = certs \cup {[by |-> j, en |-> en[j], valid |-> TRUE,
                                 filed |-> FALSE]}
     \/ CertsOf(en[j]) # {} /\ AttemptFails(j) /\ certs' = certs
  /\ UNCHANGED <<lessons, docs, row, announced, requests, stored, revokes,
                 bounds>>

StoreSkipped(j) ==
  /\ job[j] = "store" /\ JobGoto(j, "update")
  /\ UNCHANGED <<lessons, docs, row, announced, requests, attempts, certs,
                 stored, revokes, bounds>>

StorePdf(j) ==
  /\ job[j] = "store" /\ JobGoto(j, "update") /\ stored' = stored \cup {j}
  /\ UNCHANGED <<lessons, docs, row, announced, requests, attempts, certs,
                 revokes, bounds>>

(* save() of the entity the job inserted, with its file: whatever happened  *)
(* to the row since then is written over.                                   *)
WriteCertificate(e, c) == certs' = {d \in certs : d.en # e} \cup {c}

FileCertificate(j) ==
  /\ job[j] = "update" /\ JobGoto(j, "done")
  /\ WriteCertificate(en[j], [by |-> j, en |-> en[j], valid |-> TRUE,
                              filed |-> TRUE])
  /\ UNCHANGED <<lessons, docs, row, announced, requests, attempts, stored,
                 revokes, bounds>>

(* The PDF, the upload or a save throws, or the worker dies with the job.   *)
JobFails(j) ==
  /\ job[j] \in Active /\ AttemptFails(j)
  /\ faults < MaxFaults /\ faults' = faults + 1
  /\ UNCHANGED <<lessons, docs, row, announced, requests, certs, stored,
                 revokes, edits>>

(* CertificatesService.revoke, one request per enrollment.                  *)
RevokeLoad(e) ==
  /\ revoker[e] = "idle" /\ \E c \in CertsOf(e) : c.valid
  /\ revoker' = [revoker EXCEPT ![e] = "save"]
  /\ revoking' = [revoking EXCEPT ![e] = CertsOf(e)]
  /\ UNCHANGED <<lessons, docs, row, announced, requests, jobs, bounds>>

RevokeSave(e) ==
  /\ revoker[e] = "save" /\ revoker' = [revoker EXCEPT ![e] = "done"]
  /\ \E c \in revoking[e] : WriteCertificate(e, [c EXCEPT !.valid = FALSE])
  /\ UNCHANGED <<lessons, docs, row, announced, requests, job, attempts,
                 stored, revoking, bounds>>

(* The instructor: LessonsService.createLesson and softDeleteLesson.        *)
AddLesson(l) ==
  /\ edits < MaxEdits /\ edits' = edits + 1
  /\ l \in Lessons \ lessons /\ lessons' = lessons \cup {l}
  /\ UNCHANGED <<docs, row, announced, requests, jobs, revokes, faults>>

DeleteLesson(l) ==
  /\ edits < MaxEdits /\ edits' = edits + 1
  /\ l \in lessons /\ lessons' = lessons \ {l}
  /\ UNCHANGED <<docs, row, announced, requests, jobs, revokes, faults>>

Step(r) ==
  \/ UpsertFind(r) \/ UpsertInsert(r)
  \/ LoadEnrollment(r) \/ CountProgress(r) \/ SaveEnrollment(r)

JobStep(j) ==
  JobStart(j) \/ InsertCertificate(j) \/ StorePdf(j) \/ FileCertificate(j)

Next ==
  \/ \E r \in Requests : Arrive(r) \/ Step(r) \/ Abort(r)
  \/ \E j \in Requests : JobStep(j) \/ JobFails(j)
  \/ \E e \in Enrollments : RevokeLoad(e) \/ RevokeSave(e)
  \/ \E l \in Lessons : AddLesson(l) \/ DeleteLesson(l)

Spec     == Init /\ [][Next]_vars
FairSpec == Spec /\ \A r \in Requests : WF_vars(Step(r)) /\ WF_vars(JobStep(r))
-----------------------------------------------------------------------------
(* However often a completion is announced and however often its jobs are   *)
(* retried, one job only gets past the insert for an enrollment: no two     *)
(* PDFs are made for it, and the row is the one that job made.              *)
OneJobPerCertificate ==
  \A j \in Requests : job[j] \in {"store", "update", "done"} =>
    /\ \A k \in Requests :
         job[k] \in {"store", "update", "done"} /\ en[k] = en[j] => k = j
    /\ \E c \in certs : c.by = j /\ c.en = en[j]
    /\ \A c \in certs : c.en = en[j] => c.by = j

(* A certificate that names a file, which download() then serves, names one *)
(* that was stored: no interleaving of the job with its own retries or with *)
(* a revocation leaves a link to nothing.                                   *)
FileStored == \A c \in certs : c.filed => c.by \in stored

(* Once the completion is on the row, and every request that loaded the row *)
(* before has seen a completion too, it is never taken back, and nobody     *)
(* announces it again, whatever lessons and documents come and go.          *)
Between(r) == pc[r] \in {"count", "save"}

Settled(e) ==
  /\ row[e].completed
  /\ \A s \in Requests : en[s] = e /\ Between(s) => seen[s].completed

SettledStays ==
  [][\A e \in Enrollments : Settled(e) =>
       Settled(e)' /\ \A r \in announced' \ announced : en[r] # e]_vars

(* "Se tutte le lezioni sono completate, EnrollmentsService emette          *)
(* enrollment.completed": a completion is announced only when every lesson  *)
(* is completed, but for the three ways in which the count of documents     *)
(* parts from the lessons: a lesson that overlapping first reports have     *)
(* given two documents, a completed lesson that has been deleted, and a     *)
(* lesson list that has changed since it was loaded.                        *)
AllCompleted(e) == lessons # {} /\ \A l \in lessons : Completed(e, l)

Duplicated(e) == \E c, d \in docs : /\ c.en = e /\ d.en = e /\ c # d
                                   /\ c.lesson = d.lesson
Outlived(e)   == \E d \in CompletedDocs(e) : d.lesson \notin lessons

AnnouncedIsEarned ==
  [][\A r \in announced' \ announced : LET e == en[r] IN
       AllCompleted(e) \/ Duplicated(e) \/ Outlived(e) \/ edits > 0]_vars

(* With a fixed list of lessons and no faults, a student who has completed  *)
(* all of them, and does not take that back, gets a certificate with a file,*)
(* also when the requests for the last lessons race.                        *)
Filed(e) == \E c \in CertsOf(e) : c.filed

CompletedIsCertified ==
  \A e \in Enrollments :
    <>[](AllCompleted(e) /\ edits = 0 /\ faults = 0) => <>Filed(e)
-----------------------------------------------------------------------------
(* "... e aggiorna progress_percent" (lesson-player.controller.ts:49): once  *)
(* no request is under way, the row of a student who has completed all      *)
(* lessons says 100. No run lists it: as an INVARIANT of Learning.cfg it is *)
(* refuted, because the last save wins and not the last count.              *)
ProgressSettles ==
  \A e \in Enrollments :
    /\ AllCompleted(e)
    /\ \A r \in Requests : en[r] = e => pc[r] \in {"idle", "done"}
    => row[e].percent = 100
=============================================================================
