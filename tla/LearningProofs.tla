--------------------------- MODULE LearningProofs ---------------------------
(***************************************************************************)
(* Proofs about the lessons of a course.  About the stored percentage, for *)
(* every number of lessons.  About Learning, for every set of enrollments, *)
(* lessons and requests: its types, that one job gets past the insert of a *)
(* certificate, that a certificate names only files that were stored, that *)
(* a settled completion is final, and that an announced one was earned.    *)
(* About LessonPlayer, for any number of lessons, questions and clicks: its *)
(* types, that quizzes are stored with their own answers, all of them, and *)
(* that a lesson that ended is stored as completed.                        *)
(***************************************************************************)
EXTENDS Learning, LessonPlayer, FiniteSetTheorems, TLAPS

(* Rounding brackets the exact ratio by half a unit on either side.         *)
LEMMA RoundedBrackets ==
  ASSUME NEW x \in Nat, NEW y \in Nat \ {0}
  PROVE  /\ Rounded(x, y) \in Nat
         /\ 2 * y * Rounded(x, y) <= 2 * x + y
         /\ 2 * x + y < 2 * y * Rounded(x, y) + 2 * y
<1> DEFINE n == 2 * x + y
           d == 2 * y
           q == n \div d
<1>1. n \in Nat /\ d \in Nat /\ d > 0
  OBVIOUS
<1> HIDE DEF n, d
<1>2. q \in Int /\ d * q <= n /\ n < d * q + d
  BY <1>1, SMT
<1>3. q \in Nat
  BY <1>1, <1>2, SMT
<1> QED
  BY <1>2, <1>3 DEF Rounded, n, d

(* The percentage reaches 100 only when all lessons are completed, in every *)
(* course of fewer than 200 lessons.                                        *)
THEOREM HundredIsAll ==
  ASSUME NEW completed \in Nat, NEW all \in Nat, 0 < all, all < 200,
         ProgressPercent(completed, all) = 100
  PROVE  completed >= all
<1> DEFINE p == Rounded(100 * completed, all)
           x == 100 * completed
<1>0. x \in Nat /\ 2 * x = 200 * completed /\ all \in Nat \ {0}
  OBVIOUS
<1>1. p \in Nat /\ 2 * all * p <= 200 * completed + all
  <2>1. p = Rounded(x, all)
    OBVIOUS
  <2> HIDE DEF x, p
  <2>2. Rounded(x, all) \in Nat /\ 2 * all * Rounded(x, all) <= 2 * x + all
    BY <1>0, RoundedBrackets, Zenon
  <2>3. p \in Nat /\ 2 * all * p <= 2 * x + all
    BY <2>1, <2>2
  <2> QED
    BY <1>0, <2>3, Zenon
<1>2. p >= 100
  <2>1. ~(p < 100)
    BY DEF ProgressPercent
  <2> QED
    BY <1>1, <2>1
<1> HIDE DEF p
<1>3. 2 * all * p >= 2 * all * 100
  BY <1>1, <1>2, SMT
<1>4. 200 * all <= 200 * completed + all
  BY <1>1, <1>3, SMT
<1> QED
  BY <1>4, SMT

(* And it always reaches 100 when they are.                                 *)
THEOREM AllIsHundred ==
  ASSUME NEW completed \in Nat, NEW all \in Nat, 0 < all,
         completed >= all
  PROVE  ProgressPercent(completed, all) = 100
<1> DEFINE p == Rounded(100 * completed, all)
<1>1. p \in Nat /\ 200 * completed + all < 2 * all * p + 2 * all
  BY RoundedBrackets, 100 * completed \in Nat, all \in Nat \ {0}, SMT
<1>2. p >= 100
  <2> SUFFICES ASSUME p < 100 PROVE FALSE
    BY <1>1
  <2> HIDE DEF p
  <2>1. p <= 99
    BY <1>1, SMT
  <2>2. 2 * all * p <= 2 * all * 99
    BY <1>1, <2>1, SMT
  <2> QED
    BY <1>1, <2>2, SMT
<1> QED
  BY <1>1, <1>2 DEF ProgressPercent

(* It is a percentage.                                                      *)
THEOREM PercentRange ==
  ASSUME NEW completed \in Nat, NEW all \in Nat, 0 < all
  PROVE  ProgressPercent(completed, all) \in 0..100
<1>1. Rounded(100 * completed, all) \in Nat
  BY RoundedBrackets, 100 * completed \in Nat, all \in Nat \ {0}, SMT
<1> QED
  BY <1>1 DEF ProgressPercent
-----------------------------------------------------------------------------

(* A request counts only after it has loaded at least one lesson.           *)
TotalLoaded == \A r \in Requests : pc[r] = "count" => total[r] > 0

(* A request that has not counted yet has no job, and a job that is not     *)
(* over has an attempt left.                                                *)
Early == {"idle", "find", "insert", "load", "count"}

AttemptLeft ==
  \A r \in Requests :
    /\ pc[r] \in Early => job[r] = "none"
    /\ job[r] \notin {"done", "failed"} => attempts[r] < Attempts

TypeInv == TypeOK /\ TotalLoaded /\ AttemptLeft

LEMMA TypeInit == Init => TypeInv
<1> SUFFICES ASSUME Init PROVE TypeInv
  OBVIOUS
<1>1. IsFiniteSet(docs)
  BY FS_EmptySet DEF Init
<1> QED
  BY <1>1, BoundsAssumption DEF Init, TypeInv, TypeOK, TotalLoaded, AttemptLeft, Row,
     Labels, JobLabels, Attempts

(* What a request stores is a percentage.                                   *)
LEMMA CountedIsPercent ==
  ASSUME TypeInv, NEW r \in Requests, pc[r] = "count"
  PROVE  Counted(r) \in 0..100
<1>1. IsFiniteSet(CompletedDocs(en[r]))
  <2>1. CompletedDocs(en[r]) \subseteq docs
    BY DEF CompletedDocs
  <2> QED
    BY <2>1, FS_Subset DEF TypeInv, TypeOK
<1>2. Cardinality(CompletedDocs(en[r])) \in Nat
  BY <1>1, FS_CardinalityType
<1>3. total[r] \in Nat /\ 0 < total[r]
  BY DEF TypeInv, TypeOK, TotalLoaded
<1> QED
  BY <1>2, <1>3, PercentRange DEF Counted

(* Every handler, and every edit of the course, keeps the types.             *)
LEMMA TypeStep == TypeInv /\ [Next]_vars => TypeInv'
<1> SUFFICES ASSUME TypeInv, [Next]_vars PROVE TypeInv'
  OBVIOUS
<1> USE DEF TypeInv, TypeOK, TotalLoaded, AttemptLeft, Early, requests, jobs,
            revokes, bounds, Goto, JobGoto
<1>1. ASSUME NEW r \in Requests, Arrive(r) PROVE TypeInv'
  BY <1>1 DEF Arrive, Labels
<1>2. ASSUME NEW r \in Requests, UpsertFind(r) PROVE TypeInv'
  <2>1. pc' \in [Requests -> Labels]
    BY <1>2 DEF UpsertFind, AfterUpsert, Labels, Ended
  <2>2. \A s \in Requests : pc'[s] = "count" => pc[s] = "count"
    BY <1>2 DEF UpsertFind, AfterUpsert
  <2>3. docs' \subseteq Doc /\ IsFiniteSet(docs')
    <3>1. CASE docs' = docs
      BY <3>1
    <3>2. ASSUME NEW d \in docs,
                 docs' = (docs \ {d}) \cup {[d EXCEPT !.completed = completes[r]]}
          PROVE  docs' \subseteq Doc /\ IsFiniteSet(docs')
      <4>1. [d EXCEPT !.completed = completes[r]] \in Doc
        BY DEF Doc
      <4>2. IsFiniteSet(docs')
        BY <3>2, FS_RemoveElement, FS_AddElement
      <4> QED
        BY <3>2, <4>1, <4>2
    <3> QED
      BY <1>2, <3>1, <3>2 DEF UpsertFind, DocsOf
  <2> QED
    BY <1>2, <2>1, <2>2, <2>3 DEF UpsertFind
<1>3. ASSUME NEW r \in Requests, UpsertInsert(r) PROVE TypeInv'
  <2> DEFINE doc == [by |-> r, en |-> en[r], lesson |-> lesson[r],
                     completed |-> completes[r]]
  <2>1. pc' \in [Requests -> Labels]
    BY <1>3 DEF UpsertInsert, AfterUpsert, Labels, Ended
  <2>2. \A s \in Requests : pc'[s] = "count" => pc[s] = "count"
    BY <1>3 DEF UpsertInsert, AfterUpsert
  <2>3. doc \in Doc /\ docs' = docs \cup {doc}
    BY <1>3 DEF UpsertInsert, Doc
  <2>4. IsFiniteSet(docs')
    BY <2>3, FS_AddElement
  <2> QED
    BY <1>3, <2>1, <2>2, <2>3, <2>4 DEF UpsertInsert
<1>4. ASSUME NEW r \in Requests, LoadEnrollment(r) PROVE TypeInv'
  <2>1. IsFiniteSet(lessons) /\ Cardinality(lessons) \in Nat
    BY LessonsAssumption, FS_Subset, FS_CardinalityType
  <2>2. lessons # {} => Cardinality(lessons) > 0
    BY <2>1, FS_EmptySet
  <2> QED
    BY <1>4, <2>1, <2>2 DEF LoadEnrollment, Labels, Ended
<1>5. ASSUME NEW r \in Requests, CountProgress(r) PROVE TypeInv'
  <2>1. Counted(r) \in 0..100
    BY <1>5, CountedIsPercent DEF CountProgress
  <2>2. [percent |-> Counted(r),
         completed |-> seen[r].completed \/ Announces(r)] \in Row
    BY <2>1 DEF Row
  <2>3. seen' \in [Requests -> Row]
    BY <1>5, <2>2 DEF CountProgress
  <2>4. job' \in [Requests -> JobLabels] /\ pc' \in [Requests -> Labels]
    BY <1>5 DEF CountProgress, JobLabels, Labels
  <2>5. faults' \in 0..MaxFaults
    BY <1>5, BoundsAssumption DEF CountProgress
  <2>6. announced' \subseteq Requests
          /\ \A s \in Requests : pc'[s] = "count" => pc[s] = "count"
    BY <1>5 DEF CountProgress
  <2> QED
    BY <1>5, <2>3, <2>4, <2>5, <2>6 DEF CountProgress
<1>6. ASSUME NEW r \in Requests, SaveEnrollment(r) PROVE TypeInv'
  BY <1>6 DEF SaveEnrollment, Labels, Ended
<1>7. ASSUME NEW r \in Requests, Abort(r) PROVE TypeInv'
  BY <1>7, BoundsAssumption DEF Abort, Labels, Ended
<1>8. ASSUME NEW j \in Requests, JobStart(j) \/ StorePdf(j) PROVE TypeInv'
  BY <1>8 DEF JobStart, StorePdf, JobLabels, Active
<1>9. ASSUME NEW j \in Requests, InsertCertificate(j) PROVE TypeInv'
  <2>1. [by |-> j, en |-> en[j], valid |-> TRUE, filed |-> FALSE] \in Certificate
    BY DEF Certificate
  <2>2. certs' \subseteq Certificate
    BY <1>9, <2>1 DEF InsertCertificate
  <2> QED
    BY <1>9, <2>2 DEF InsertCertificate, AttemptFails, JobLabels, Active,
         Attempts
<1>10. ASSUME NEW j \in Requests, FileCertificate(j) PROVE TypeInv'
  <2>1. [by |-> j, en |-> en[j], valid |-> TRUE, filed |-> TRUE] \in Certificate
    BY DEF Certificate
  <2>2. certs' \subseteq Certificate
    BY <1>10, <2>1 DEF FileCertificate, WriteCertificate
  <2> QED
    BY <1>10, <2>2 DEF FileCertificate, JobLabels, Active
<1>11. ASSUME NEW j \in Requests, JobFails(j) PROVE TypeInv'
  BY <1>11, BoundsAssumption DEF JobFails, AttemptFails, JobLabels, Active,
     Attempts
<1>12. ASSUME NEW e \in Enrollments, RevokeLoad(e) PROVE TypeInv'
  BY <1>12 DEF RevokeLoad, CertsOf
<1>13. ASSUME NEW e \in Enrollments, RevokeSave(e) PROVE TypeInv'
  <2> PICK c \in revoking[e] : WriteCertificate(e, [c EXCEPT !.valid = FALSE])
    BY <1>13 DEF RevokeSave
  <2>1. c \in Certificate
    OBVIOUS
  <2>2. [c EXCEPT !.valid = FALSE] \in Certificate
    BY <2>1 DEF Certificate
  <2>3. certs' \subseteq Certificate
    BY <2>2 DEF WriteCertificate
  <2> QED
    BY <1>13, <2>3 DEF RevokeSave
<1>14. ASSUME NEW l \in Lessons, AddLesson(l) \/ DeleteLesson(l) PROVE TypeInv'
  BY <1>14, BoundsAssumption DEF AddLesson, DeleteLesson
<1>15. CASE UNCHANGED vars
  BY <1>15 DEF vars
<1> QED
  BY <1>1, <1>2, <1>3, <1>4, <1>5, <1>6, <1>7, <1>8, <1>9, <1>10, <1>11,
     <1>12, <1>13, <1>14, <1>15
  DEF Next, Step, JobStep

(* The variables keep their types; what is stored is a percentage.          *)
THEOREM LearningTypes == Spec => []TypeOK
<1>1. TypeInv => TypeOK
  BY DEF TypeInv
<1> QED
  BY <1>1, TypeInit, TypeStep, PTL DEF Spec
-----------------------------------------------------------------------------
(* Why one job gets past the insert.  A certificate belongs to the job that *)
(* inserted it, an enrollment has one, and whatever a revocation writes     *)
(* back is a certificate of the same job.                                   *)
Past == {"store", "update", "done"}

Owned ==
  /\ \A j \in Requests : job[j] \in Past => \E c \in certs : c.by = j
  /\ \A c \in certs : c.en = en[c.by]
  /\ \A c, d \in certs : c.en = d.en => c = d

Reloaded ==
  \A e \in Enrollments : \A c \in revoking[e] :
    c.en = e /\ \E d \in certs : d.en = e /\ d.by = c.by

(* Why a file named is a file stored.                                       *)
StoredFirst ==
  /\ \A j \in Requests : job[j] = "update" => j \in stored
  /\ \A e \in Enrollments : \A c \in revoking[e] : c.filed => c.by \in stored

CertificateInv == Owned /\ Reloaded /\ StoredFirst /\ FileStored

LEMMA CertificateInit == Init => CertificateInv
  BY DEF Init, CertificateInv, Owned, Reloaded, StoredFirst, FileStored, Past

(* A step that leaves the certificates alone and moves no job into Past.    *)
LEMMA CertificateQuiet ==
  ASSUME TypeOK, CertificateInv,
         UNCHANGED <<certs, en>>, stored \subseteq stored',
         \A j \in Requests : job'[j] \in Past => job[j] \in Past,
         \A j \in Requests : job'[j] = "update" => j \in stored',
         \A e \in Enrollments :
           revoking'[e] = revoking[e] \/ revoking'[e] = CertsOf(e)
  PROVE  CertificateInv'
<1>1. \A c \in certs : c.by \in Requests
  BY DEF TypeOK, Certificate
<1>2. Owned'
  BY <1>1 DEF CertificateInv, Owned
<1>3. Reloaded'
  BY DEF CertificateInv, Reloaded, CertsOf
<1>4. StoredFirst'
  BY DEF CertificateInv, StoredFirst, FileStored, CertsOf
<1>5. FileStored'
  BY DEF CertificateInv, FileStored
<1> QED
  BY <1>2, <1>3, <1>4, <1>5 DEF CertificateInv

(* A save of the certificate of e, by the job it belongs to.                *)
LEMMA CertificateWritten ==
  ASSUME TypeOK, CertificateInv, NEW e \in Enrollments, NEW c,
         c.en = e, \E d \in certs : d.en = e /\ d.by = c.by,
         c.filed => c.by \in stored, WriteCertificate(e, c),
         UNCHANGED <<en, stored, revoking>>,
         \A j \in Requests : job'[j] \in Past => job[j] \in Past,
         \A j \in Requests : job'[j] = "update" => job[j] = "update"
  PROVE  CertificateInv'
<1>1. certs' = {d \in certs : d.en # e} \cup {c}
  BY DEF WriteCertificate
<1>2. \A d \in certs : d.en = e => d.by = c.by
  BY DEF CertificateInv, Owned
<1>3. Owned'
  <2>1. \A j \in Requests : job'[j] \in Past => \E d \in certs' : d.by = j
    BY <1>1, <1>2 DEF CertificateInv, Owned
  <2>2. \A d \in certs' : d.en = en'[d.by]
    BY <1>1, <1>2 DEF CertificateInv, Owned
  <2>3. \A d1, d2 \in certs' : d1.en = d2.en => d1 = d2
    BY <1>1 DEF CertificateInv, Owned
  <2> QED
    BY <2>1, <2>2, <2>3 DEF Owned
<1>4. Reloaded'
  BY <1>1, <1>2 DEF CertificateInv, Reloaded
<1>5. StoredFirst' /\ FileStored'
  BY <1>1 DEF CertificateInv, StoredFirst, FileStored
<1> QED
  BY <1>3, <1>4, <1>5 DEF CertificateInv

(* Every step keeps what a certificate and a job say of each other: each     *)
(* certificate belongs to the job that made it, whose PDF is stored first.   *)
LEMMA CertificateStep ==
  TypeOK /\ CertificateInv /\ [Next]_vars => CertificateInv'
<1> SUFFICES ASSUME TypeOK, CertificateInv, [Next]_vars PROVE CertificateInv'
  OBVIOUS
<1> USE DEF requests, jobs, revokes, bounds
<1>1. ASSUME NEW r \in Requests,
             \/ Arrive(r) \/ UpsertFind(r) \/ UpsertInsert(r)
             \/ LoadEnrollment(r) \/ SaveEnrollment(r) \/ Abort(r)
      PROVE  CertificateInv'
  <2>1. UNCHANGED <<certs, en, stored, job, revoking>>
    BY <1>1 DEF Arrive, UpsertFind, UpsertInsert, LoadEnrollment,
         SaveEnrollment, Abort
  <2> QED
    BY <2>1, CertificateQuiet DEF CertificateInv, StoredFirst
<1>2. ASSUME NEW r \in Requests, CountProgress(r) PROVE CertificateInv'
  <2>1. UNCHANGED <<certs, en, stored, revoking>>
    BY <1>2 DEF CountProgress
  <2>2. \A j \in Requests : job'[j] \in Past \cup {"update"} => job'[j] = job[j]
    BY <1>2 DEF CountProgress, Past, TypeOK
  <2> QED
    BY <2>1, <2>2, CertificateQuiet DEF CertificateInv, StoredFirst
<1>3. ASSUME NEW j \in Requests, JobStart(j) \/ JobFails(j) PROVE CertificateInv'
  <2>1. UNCHANGED <<certs, en, stored, revoking>>
    BY <1>3 DEF JobStart, JobFails
  <2>2. \A k \in Requests : job'[k] \in Past \cup {"update"} => job'[k] = job[k]
    BY <1>3 DEF JobStart, JobFails, AttemptFails, JobGoto, Past, TypeOK
  <2> QED
    BY <2>1, <2>2, CertificateQuiet DEF CertificateInv, StoredFirst
<1>4. ASSUME NEW j \in Requests, StorePdf(j) PROVE CertificateInv'
  <2>1. UNCHANGED <<certs, en, revoking>> /\ stored' = stored \cup {j}
    BY <1>4 DEF StorePdf
  <2>2. \A k \in Requests : k # j => job'[k] = job[k]
    BY <1>4 DEF StorePdf, JobGoto, TypeOK
  <2>3. job[j] \in Past
    BY <1>4 DEF StorePdf, Past
  <2> QED
    BY <2>1, <2>2, <2>3, CertificateQuiet DEF CertificateInv, StoredFirst
<1>5. ASSUME NEW j \in Requests, InsertCertificate(j) PROVE CertificateInv'
  <2>1. UNCHANGED <<en, stored, revoking>> /\ job[j] = "insert"
    BY <1>5 DEF InsertCertificate
  <2>2. CASE CertsOf(en[j]) # {} /\ AttemptFails(j) /\ certs' = certs
    <3>1. \A k \in Requests : job'[k] \in Past \cup {"update"} => job'[k] = job[k]
      BY <2>2 DEF AttemptFails, JobGoto, Past, TypeOK
    <3> QED
      BY <2>1, <2>2, <3>1, CertificateQuiet DEF CertificateInv, StoredFirst
  <2>3. ASSUME CertsOf(en[j]) = {}, JobGoto(j, "store"),
               certs' = certs \cup {[by |-> j, en |-> en[j], valid |-> TRUE,
                                     filed |-> FALSE]}
        PROVE  CertificateInv'
    <3> DEFINE c == [by |-> j, en |-> en[j], valid |-> TRUE, filed |-> FALSE]
    <3>1. c.by = j /\ c.en = en[j] /\ ~c.filed /\ certs' = certs \cup {c}
      BY <2>3
    <3>2. \A k \in Requests \ {j} : job'[k] = job[k]
      BY <2>3 DEF JobGoto, TypeOK
    <3>3. job'[j] = "store"
      BY <2>3 DEF JobGoto, TypeOK
    <3>4. \A d \in certs : d.en # en[j]
      BY <2>3 DEF CertsOf
    <3> HIDE DEF c
    <3>5. Owned'
      BY <2>1, <3>1, <3>2, <3>3, <3>4 DEF CertificateInv, Owned
    <3>6. Reloaded'
      BY <2>1, <3>1 DEF CertificateInv, Reloaded
    <3>7. StoredFirst' /\ FileStored'
      BY <2>1, <3>1, <3>2, <3>3 DEF CertificateInv, StoredFirst, FileStored
    <3> QED
      BY <3>5, <3>6, <3>7 DEF CertificateInv
  <2> QED
    BY <1>5, <2>2, <2>3 DEF InsertCertificate
<1>6. ASSUME NEW j \in Requests, FileCertificate(j) PROVE CertificateInv'
  <2> DEFINE c == [by |-> j, en |-> en[j], valid |-> TRUE, filed |-> TRUE]
  <2>1. c.by = j /\ c.en = en[j] /\ en[j] \in Enrollments
    BY DEF TypeOK
  <2>2. WriteCertificate(en[j], c) /\ UNCHANGED <<en, stored, revoking>>
    BY <1>6 DEF FileCertificate
  <2>3. job[j] = "update" /\ job'[j] = "done"
          /\ \A k \in Requests \ {j} : job'[k] = job[k]
    BY <1>6 DEF FileCertificate, JobGoto, TypeOK
  <2>4. j \in stored /\ \E d \in certs : d.en = en[j] /\ d.by = j
    BY <2>3 DEF CertificateInv, StoredFirst, Owned, Past
  <2> HIDE DEF c
  <2> QED
    BY <2>1, <2>2, <2>3, <2>4, CertificateWritten DEF Past
<1>7. ASSUME NEW e \in Enrollments, RevokeLoad(e) PROVE CertificateInv'
  <2>1. UNCHANGED <<certs, en, stored, job>>
    BY <1>7 DEF RevokeLoad
  <2>2. \A f \in Enrollments :
          revoking'[f] = revoking[f] \/ revoking'[f] = CertsOf(f)
    BY <1>7 DEF RevokeLoad, TypeOK
  <2> QED
    BY <2>1, <2>2, CertificateQuiet DEF CertificateInv, StoredFirst
<1>8. ASSUME NEW e \in Enrollments, RevokeSave(e) PROVE CertificateInv'
  <2> PICK c \in revoking[e] : WriteCertificate(e, [c EXCEPT !.valid = FALSE])
    BY <1>8 DEF RevokeSave
  <2> DEFINE d == [c EXCEPT !.valid = FALSE]
  <2>1. UNCHANGED <<en, stored, job, revoking>>
    BY <1>8 DEF RevokeSave
  <2>2. c \in Certificate /\ c.en = e
          /\ (\E b \in certs : b.en = e /\ b.by = c.by)
          /\ (c.filed => c.by \in stored)
    BY DEF TypeOK, CertificateInv, Reloaded, StoredFirst
  <2>3. d.en = c.en /\ d.by = c.by /\ d.filed = c.filed
    BY <2>2 DEF Certificate
  <2>4. WriteCertificate(e, d)
    OBVIOUS
  <2> HIDE DEF d
  <2> QED
    BY <2>1, <2>2, <2>3, <2>4, CertificateWritten
<1>9. ASSUME NEW l \in Lessons, AddLesson(l) \/ DeleteLesson(l)
      PROVE  CertificateInv'
  <2>1. UNCHANGED <<certs, en, stored, job, revoking>>
    BY <1>9 DEF AddLesson, DeleteLesson
  <2> QED
    BY <2>1, CertificateQuiet DEF CertificateInv, StoredFirst
<1>10. CASE UNCHANGED vars
  <2>1. UNCHANGED <<certs, en, stored, job, revoking>>
    BY <1>10 DEF vars
  <2> QED
    BY <2>1, CertificateQuiet DEF CertificateInv, StoredFirst
<1> QED
  BY <1>1, <1>2, <1>3, <1>4, <1>5, <1>6, <1>7, <1>8, <1>9, <1>10
  DEF Next, Step, JobStep

(* However often a completion is announced and its jobs retried, one job    *)
(* gets past the insert of an enrollment's certificate.                     *)
THEOREM OneJob == Spec => []OneJobPerCertificate
<1>1. Init => TypeInv /\ CertificateInv
  BY TypeInit, CertificateInit
<1>2. TypeInv /\ CertificateInv /\ [Next]_vars => TypeInv' /\ CertificateInv'
  BY TypeStep, CertificateStep DEF TypeInv
<1>3. CertificateInv => OneJobPerCertificate
  BY DEF CertificateInv, Owned, OneJobPerCertificate, Past
<1> QED
  BY <1>1, <1>2, <1>3, PTL DEF Spec

(* A certificate that names a file names one that was stored.               *)
THEOREM FilesAreStored == Spec => []FileStored
<1>1. Init => TypeInv /\ CertificateInv
  BY TypeInit, CertificateInit
<1>2. TypeInv /\ CertificateInv /\ [Next]_vars => TypeInv' /\ CertificateInv'
  BY TypeStep, CertificateStep DEF TypeInv
<1>3. CertificateInv => FileStored
  BY DEF CertificateInv
<1> QED
  BY <1>1, <1>2, <1>3, PTL DEF Spec
-----------------------------------------------------------------------------
(* A completion, once every request under way has seen it, is never undone  *)
(* and never announced again: a save writes back what was seen, and a count *)
(* announces only what was not seen.                                        *)
LEMMA SettledStep ==
  ASSUME TypeOK, [Next]_vars, NEW e \in Enrollments, Settled(e)
  PROVE  Settled(e)' /\ \A r \in announced' \ announced : en[r] # e
<1> USE DEF TypeOK, Settled, Between, requests, jobs, revokes, bounds
<1> DEFINE Stays == Settled(e)' /\ \A r \in announced' \ announced : en[r] # e
<1>1. ASSUME NEW r \in Requests,
             Arrive(r) \/ UpsertFind(r) \/ UpsertInsert(r) \/ Abort(r)
      PROVE  Stays
  <2>1. UNCHANGED <<row, announced, en, seen>>
    BY <1>1 DEF Arrive, UpsertFind, UpsertInsert, Abort
  <2>2. \A s \in Requests : Between(s)' => Between(s)
    BY <1>1 DEF Arrive, UpsertFind, UpsertInsert, Abort, Goto, AfterUpsert
  <2> QED
    BY <2>1, <2>2
<1>2. ASSUME NEW r \in Requests, LoadEnrollment(r) PROVE Stays
  BY <1>2 DEF LoadEnrollment, Goto
<1>3. ASSUME NEW r \in Requests, CountProgress(r) PROVE Stays
  <2>1. UNCHANGED <<row, en>> /\ pc[r] = "count"
    BY <1>3 DEF CountProgress
  <2>2. \A s \in Requests : Between(s)' => Between(s)
    BY <1>3 DEF CountProgress, Goto
  <2>3. \A s \in Requests : seen[s].completed => seen'[s].completed
    BY <1>3 DEF CountProgress
  <2>4. \A s \in announced' \ announced : s = r /\ ~seen[r].completed
    BY <1>3 DEF CountProgress, Announces
  <2> QED
    BY <2>1, <2>2, <2>3, <2>4
<1>4. ASSUME NEW r \in Requests, SaveEnrollment(r) PROVE Stays
  BY <1>4 DEF SaveEnrollment, Goto
<1>5. ASSUME NEW j \in Requests, JobStep(j) \/ JobFails(j) PROVE Stays
  BY <1>5 DEF JobStep, JobStart, InsertCertificate, StorePdf, FileCertificate,
     JobFails
<1>6. ASSUME NEW f \in Enrollments, RevokeLoad(f) \/ RevokeSave(f) PROVE Stays
  BY <1>6 DEF RevokeLoad, RevokeSave
<1>7. ASSUME NEW l \in Lessons, AddLesson(l) \/ DeleteLesson(l) PROVE Stays
  BY <1>7 DEF AddLesson, DeleteLesson
<1>8. CASE UNCHANGED vars
  BY <1>8 DEF vars
<1> QED
  BY <1>1, <1>2, <1>3, <1>4, <1>5, <1>6, <1>7, <1>8 DEF Next, Step

(* Once the completion of an enrollment is settled it stays settled, and no  *)
(* later progress report announces it again.                                 *)
THEOREM CompletionIsFinal == Spec => SettledStays
<1>1. TypeOK /\ [Next]_vars =>
        [\A e \in Enrollments : Settled(e) =>
           Settled(e)' /\ \A r \in announced' \ announced : en[r] # e]_vars
  BY SettledStep
<1> QED
  BY <1>1, LearningTypes, PTL DEF Spec, SettledStays
-----------------------------------------------------------------------------
(* Below 200 lessons, a completion is announced only when all lessons are   *)
(* completed, or for one of the reasons that AnnouncedIsEarned names.       *)

(* While no lesson has come or gone, a count is made against all of them.   *)
LoadedInv ==
  edits = 0 => \A r \in Requests : pc[r] = "count" => total[r] = Cardinality(lessons)

LEMMA LoadedInit == Init => LoadedInv
  BY DEF Init, LoadedInv

LEMMA LoadedStep == TypeOK /\ LoadedInv /\ [Next]_vars => LoadedInv'
<1> SUFFICES ASSUME TypeOK, LoadedInv, [Next]_vars PROVE LoadedInv'
  OBVIOUS
<1> USE DEF LoadedInv, requests, jobs, revokes, bounds
<1>1. ASSUME NEW r \in Requests,
             Arrive(r) \/ UpsertFind(r) \/ UpsertInsert(r) \/ CountProgress(r)
               \/ SaveEnrollment(r) \/ Abort(r)
      PROVE  LoadedInv'
  <2>1. UNCHANGED <<lessons, total, edits>>
    BY <1>1 DEF Arrive, UpsertFind, UpsertInsert, CountProgress, SaveEnrollment, Abort
  <2>2. \A s \in Requests : pc'[s] = "count" => pc[s] = "count"
    BY <1>1 DEF TypeOK, Arrive, UpsertFind, UpsertInsert, CountProgress, SaveEnrollment,
       Abort, Goto, AfterUpsert
  <2> QED
    BY <2>1, <2>2
<1>2. ASSUME NEW r \in Requests, LoadEnrollment(r) PROVE LoadedInv'
  <2>1. UNCHANGED <<lessons, edits>> /\ total'[r] = Cardinality(lessons)
    BY <1>2 DEF TypeOK, LoadEnrollment
  <2>2. \A s \in Requests \ {r} : pc'[s] = pc[s] /\ total'[s] = total[s]
    BY <1>2 DEF TypeOK, LoadEnrollment, Goto
  <2> QED
    BY <2>1, <2>2
<1>3. ASSUME NEW j \in Requests, JobStep(j) \/ JobFails(j) PROVE LoadedInv'
  BY <1>3 DEF JobStep, JobStart, InsertCertificate, StorePdf, FileCertificate, JobFails
<1>4. ASSUME NEW e \in Enrollments, RevokeLoad(e) \/ RevokeSave(e) PROVE LoadedInv'
  BY <1>4 DEF RevokeLoad, RevokeSave
<1>5. ASSUME NEW l \in Lessons, AddLesson(l) \/ DeleteLesson(l) PROVE LoadedInv'
  BY <1>5 DEF TypeOK, AddLesson, DeleteLesson
<1>6. CASE UNCHANGED vars
  BY <1>6 DEF vars
<1> QED
  BY <1>1, <1>2, <1>3, <1>4, <1>5, <1>6 DEF Next, Step

(* As many completed documents as lessons, none of them a lesson's second   *)
(* or a deleted lesson's, are one for each lesson.                          *)
LEMMA EnoughIsAll ==
  ASSUME TypeOK, NEW e \in Enrollments, ~Duplicated(e), ~Outlived(e),
         Cardinality(CompletedDocs(e)) >= Cardinality(lessons)
  PROVE  \A l \in lessons : Completed(e, l)
<1> DEFINE f == [d \in CompletedDocs(e) |-> d.lesson]
<1>1. IsFiniteSet(lessons) /\ IsFiniteSet(CompletedDocs(e))
  BY LessonsAssumption, FS_Subset DEF TypeOK, CompletedDocs
<1>2. f \in Injection(CompletedDocs(e), lessons)
  BY DEF Injection, IsInjective, CompletedDocs, Duplicated, Outlived
<1>3. Cardinality(CompletedDocs(e)) = Cardinality(lessons)
  BY <1>1, <1>2, FS_Injection, FS_CardinalityType
<1>4. f \in Surjection(CompletedDocs(e), lessons)
  BY <1>1, <1>2, <1>3, FS_Injection
<1> QED
  BY <1>4 DEF Surjection, CompletedDocs, Completed

LEMMA EarnedStep ==
  ASSUME Cardinality(Lessons) < 200, TypeInv, LoadedInv, [Next]_vars,
         NEW r \in announced' \ announced
  PROVE  AllCompleted(en[r]) \/ Duplicated(en[r]) \/ Outlived(en[r]) \/ edits > 0
<1> DEFINE e == en[r]
<1>1. r \in Requests /\ pc[r] = "count" /\ Counted(r) = 100
  <2>1. ASSUME announced' = announced PROVE FALSE
    BY <2>1
  <2>2. PICK s \in Requests : CountProgress(s)
    BY <2>1 DEF Next, Arrive, Step, Abort, UpsertFind, UpsertInsert, LoadEnrollment,
       SaveEnrollment, JobStep, JobStart, InsertCertificate, StorePdf, FileCertificate,
       JobFails, RevokeLoad, RevokeSave, AddLesson, DeleteLesson, vars
  <2>3. pc[s] = "count" /\ announced' = announced \cup IF Announces(s) THEN {s} ELSE {}
    BY <2>2 DEF CountProgress
  <2> QED
    BY <2>3 DEF Announces
<1>2. SUFFICES ASSUME ~Duplicated(e), ~Outlived(e), edits = 0
               PROVE  AllCompleted(e)
  BY BoundsAssumption DEF TypeInv, TypeOK
<1>3. total[r] = Cardinality(lessons) /\ total[r] \in Nat /\ 0 < total[r]
  BY <1>1, <1>2 DEF LoadedInv, TypeInv, TypeOK, TotalLoaded
<1>4. total[r] < 200
  <2>1. lessons \in SUBSET Lessons
    BY DEF TypeInv, TypeOK
  <2>2. Cardinality(lessons) <= Cardinality(Lessons)
    BY <2>1, LessonsAssumption, FS_Subset
  <2>3. Cardinality(Lessons) \in Nat
    BY LessonsAssumption, FS_CardinalityType
  <2> QED
    BY <1>3, <2>2, <2>3
<1>5. IsFiniteSet(CompletedDocs(e))
  BY FS_Subset DEF TypeInv, TypeOK, CompletedDocs
<1>6. Cardinality(CompletedDocs(e)) >= total[r]
  BY <1>1, <1>3, <1>4, <1>5, FS_CardinalityType, HundredIsAll DEF Counted
<1>7. \A l \in lessons : Completed(e, l)
  BY <1>1, <1>2, <1>3, <1>6, EnoughIsAll DEF TypeInv, TypeOK
<1>8. lessons # {}
  BY <1>3, FS_EmptySet
<1> QED
  BY <1>7, <1>8 DEF AllCompleted

(* In a course of fewer than 200 lessons a completion is announced only when *)
(* every lesson is completed, but for the three ways in which the count of   *)
(* documents parts from the lessons.                                         *)
THEOREM AnnouncementsAreEarned ==
  ASSUME Cardinality(Lessons) < 200 PROVE Spec => AnnouncedIsEarned
<1>1. TypeInv => TypeOK
  BY DEF TypeInv
<1>2. TypeInv /\ LoadedInv /\ [Next]_vars =>
        [\A r \in announced' \ announced : LET e == en[r] IN
           AllCompleted(e) \/ Duplicated(e) \/ Outlived(e) \/ edits > 0]_vars
  BY EarnedStep
<1> QED
  BY <1>1, <1>2, TypeInit, TypeStep, LoadedInit, LoadedStep, PTL DEF Spec, AnnouncedIsEarned
-----------------------------------------------------------------------------
(* The page that plays a lesson.                                            *)
-----------------------------------------------------------------------------
(* Calls are numbered by clicks, each by its own.                           *)
IdInv ==
  /\ \A c \in calls : c.id[1] <= clicks
  /\ \A c, d \in calls : c.id = d.id => c = d

(* While the load sent last is on its way there is a spinner; without one   *)
(* the lesson of the route is shown.                                        *)
LoadInv ==
  ~late =>
    /\ \A c \in Loads : c.id = newest => c.lesson = lessonId /\ loading
    /\ Visible => shown = lessonId

(* Answers stay with the lesson that they were given in, and are answers to *)
(* its first question: in the quiz on show, on their way, and where they    *)
(* are stored.                                                              *)
OwnAnswers(given, l) == \A q \in Numbers : given[q] \in {None, l} /\ (q # 1 => given[q] = None)

AnswersInv ==
  ~late =>
    /\ shown # None => OwnAnswers(answered, shown)
    /\ \A c \in calls : c.answers # None => OwnAnswers(c.answers, c.lesson)
    /\ \A l \in AllLessons : OwnAnswers(progress[l].answers, l)

(* A quiz moves only behind an answer to its first question, and only a     *)
(* quiz of one question is completed, with that answer.                     *)
MovesInv == (index = 1 /\ moves = 0) \/ answered[1] # None

AllAnswered(given, l) == Questions[l] = 1 /\ given[1] # None

QuizInv ==
  ~late =>
    /\ MovesInv
    /\ \A c \in calls : c.kind = "save" /\ c.completed /\ c.lesson \in Quizzes =>
         c.answers # None /\ AllAnswered(c.answers, c.lesson)
    /\ \A l \in Quizzes : progress[l].completed => AllAnswered(progress[l].answers, l)

(* The last save that is under way for a finished lesson completes it.      *)
AtLast(c) == \A d \in Saves(c.lesson) \ {c} : Before(d.id, c.id)

EndedInv ==
  \A l \in ended :
    /\ Saves(l) = {} => progress[l].completed
    /\ \A c \in Saves(l) : AtLast(c) => c.completed

LessonInv ==
  /\ LPTypeOK /\ IdInv /\ LoadInv /\ AnswersInv /\ QuizInv /\ EndedInv

-----------------------------------------------------------------------------
(* What the page sends, and what becomes of a call.                         *)
LEMMA SentTypes ==
  ASSUME LPTypeOK, clicks < MaxClicks
  PROVE  /\ clicks + 1 \in 0..MaxClicks
         /\ \A n \in 1..3 : Id(n) \in Ids
         /\ \A l \in AllLessons, n \in 1..3 : GetVideoUrl(l, n) \in Load
         /\ \A a \in Answers \cup {None} :
              {SaveProgress(1, FALSE, a), SaveProgress(1, TRUE, a),
               SaveProgress(2, TRUE, a)} \subseteq Save
<1>1. clicks + 1 \in 1..MaxClicks
  BY ConstantsAssumption DEF LPTypeOK
<1>2. \A n \in 1..3 : Id(n) \in Ids
  BY <1>1 DEF Id, Ids
<1>3. NoAnswers \in Answers
  BY DEF NoAnswers, Answers
<1>4. \A l \in AllLessons, n \in 1..3 : GetVideoUrl(l, n) \in Load
  BY <1>2, <1>3 DEF GetVideoUrl, Load
<1>5. ASSUME NEW a \in Answers \cup {None}
      PROVE  {SaveProgress(1, FALSE, a), SaveProgress(1, TRUE, a),
              SaveProgress(2, TRUE, a)} \subseteq Save
  BY <1>2 DEF SaveProgress, Save, LPTypeOK
<1>6. clicks + 1 \in 0..MaxClicks
  BY <1>1
<1> QED
  BY <1>2, <1>4, <1>5, <1>6, Zenon

(* The same of the calls themselves, and of what opening a lesson sets.     *)
LEMMA ClickTypes ==
  ASSUME LPTypeOK, Clicks
  PROVE  /\ clicks' \in 0..MaxClicks /\ UNCHANGED <<failures, progress, hung>>
         /\ \A a \in Answers \cup {None} :
              SaveOnly(a) =>
                calls' \subseteq Load \cup Save /\ ended' \subseteq AllLessons
         /\ \A l \in AllLessons :
              Sends(l, 1, {}) =>
                calls' \subseteq Load \cup Save /\ newest' \in Ids
<1>1. clicks' \in 0..MaxClicks /\ UNCHANGED <<failures, progress, hung>> /\ clicks < MaxClicks
  BY ConstantsAssumption DEF Clicks, LPTypeOK
<1>2. ASSUME NEW a \in Answers \cup {None}, SaveOnly(a)
      PROVE  calls' \subseteq Load \cup Save /\ ended' \subseteq AllLessons
  <2>1. SaveProgress(1, FALSE, a) \in Save
    BY <1>1, SentTypes
  <2> QED
    BY <1>2, <2>1 DEF SaveOnly, LPTypeOK
<1>3. ASSUME NEW l \in AllLessons, Sends(l, 1, {})
      PROVE  calls' \subseteq Load \cup Save /\ newest' \in Ids
  <2>1. GetVideoUrl(l, 1) \in Load /\ Id(1) \in Ids
    BY <1>1, SentTypes
  <2> QED
    BY <1>3, <2>1 DEF Sends, LPTypeOK
<1> QED
  BY <1>1, <1>2, <1>3

(* TypeOK holds at the start.                                               *)
LEMMA LessonTypeInit ==
  LPInit => LPTypeOK
<1> SUFFICES ASSUME LPInit PROVE LPTypeOK
  OBVIOUS
<1>1. NoAnswers \in Answers
  BY DEF NoAnswers, Answers
<1>2. 0 \in 0..MaxClicks /\ 0 \in 0..MaxFailures
  BY ConstantsAssumption
<1> QED
  BY <1>1, <1>2 DEF LPInit, LPTypeOK

(* Every step keeps TypeOK.                                                 *)
LEMMA LessonTypeNext ==
  LPTypeOK /\ [LPNext]_lpVars => LPTypeOK'
<1> SUFFICES ASSUME LPTypeOK, [LPNext]_lpVars PROVE LPTypeOK'
  OBVIOUS
<1>0. failures < MaxFailures => failures + 1 \in 0..MaxFailures
  BY ConstantsAssumption DEF LPTypeOK
<1>n. NoQuiz => shown' = None /\ index' \in Nat /\ answered' \in Answers /\ moves' \in Nat
  BY DEF NoQuiz, NoAnswers, Answers
<1>1. CASE UNCHANGED lpVars
  BY <1>1 DEF LPTypeOK, lpVars, page, quiz, history
<1>2. ASSUME NEW l \in AllLessons, Open(l) PROVE LPTypeOK'
  BY <1>n, <1>2, ClickTypes DEF Open, LoadLesson, LPTypeOK
<1>3. ASSUME NEW l \in AllLessons, NavigateToLesson(l) PROVE LPTypeOK'
  BY <1>n, <1>3, ClickTypes DEF NavigateToLesson, LoadLesson, LPTypeOK
<1>4. CASE Leave
  <2>1. calls' \subseteq calls /\ ended' \subseteq ended
    BY <1>4 DEF Leave
  <2> QED
    BY <1>n, <1>4, <2>1, SentTypes DEF Leave, Clicks, LPTypeOK
<1>5. CASE TimeUpdate
  BY <1>5, ClickTypes DEF TimeUpdate, LPTypeOK, page, quiz
<1>6. CASE OnVideoEnded
  <2>1. CASE shown \in Quizzes
    BY <1>6, <2>1, ClickTypes DEF OnVideoEnded, LPTypeOK, quiz
  <2>2. CASE shown \notin Quizzes
    <3>1. SaveProgress(1, TRUE, None) \in Save
      BY <1>6, SentTypes DEF OnVideoEnded, Clicks
    <3>2. /\ calls' = calls \cup {SaveProgress(1, TRUE, None)} /\ Finish
          /\ CheckCourseCompletion
      BY <1>6, <2>2 DEF OnVideoEnded
    <3>3. /\ calls' \subseteq Load \cup Save /\ ticked' \subseteq AllLessons
          /\ ended' \subseteq AllLessons
          /\ congratulated' \in BOOLEAN
      BY <3>1, <3>2 DEF Finish, CheckCourseCompletion, LPTypeOK
    <3> QED
      BY <1>6, <3>3, ClickTypes DEF OnVideoEnded, LPTypeOK, quiz
  <2> QED
    BY <2>1, <2>2
<1>7. CASE SelectAnswer
  <2>1. answered' \in Answers
    BY <1>7, ConstantsAssumption DEF SelectAnswer, HasQuiz, LPTypeOK, Answers
  <2> QED
    BY <1>7, <2>1, ClickTypes DEF SelectAnswer, LPTypeOK, page
<1>8. CASE NextQuestion
  BY <1>8, ClickTypes DEF NextQuestion, LPTypeOK, page
<1>9. CASE CompleteQuiz
  <2>1. /\ calls \cup CompletingSaves \subseteq Load \cup Save
        /\ clicks' \in 0..MaxClicks
        /\ UNCHANGED <<failures, progress, hung>>
    <3>1. /\ SaveProgress(1, FALSE, answered) \in Save
          /\ SaveProgress(2, TRUE, answered) \in Save
      BY <1>9, SentTypes DEF CompleteQuiz, Clicks, LPTypeOK
    <3> QED
      BY <1>9, <3>1, ClickTypes DEF CompleteQuiz, CompletingSaves, LPTypeOK
  <2>2. ticked' \subseteq AllLessons /\ ended' \subseteq AllLessons
    BY <1>9 DEF CompleteQuiz, Finish, LPTypeOK
  <2>3. CASE lessonId < LessonCount
    <3>1. lessonId + 1 \in AllLessons
      BY <2>3, ConstantsAssumption DEF LPTypeOK, AllLessons
    <3>2. LoadLesson(lessonId + 1) /\ Sends(lessonId + 1, 3, CompletingSaves)
          /\ UNCHANGED <<alive, late>> /\ clicks < MaxClicks
      BY <1>9, <2>3 DEF CompleteQuiz, Clicks
    <3>3. calls' \subseteq Load \cup Save /\ newest' \in Ids
      BY <2>1, <3>1, <3>2, SentTypes DEF Sends
    <3> QED
      BY <1>n, <2>1, <2>2, <3>1, <3>2, <3>3 DEF LoadLesson, LPTypeOK
  <2>4. CASE ~(lessonId < LessonCount)
    BY <1>9, <2>1, <2>2, <2>4 DEF CompleteQuiz, CheckCourseCompletion,
           LPTypeOK, quiz
  <2> QED
    BY <2>3, <2>4
<1>10. CASE OnTimer \/ RunEffect
  <2>1. index' \in Nat /\ moves' \in Nat
    BY <1>10 DEF OnTimer, RunEffect, LPTypeOK
  <2> QED
    BY <1>10, <2>1 DEF OnTimer, RunEffect, LPTypeOK, page, history
<1>11. ASSUME NEW c \in calls, ReadProgress(c) \/ ReadCompleted(c) PROVE LPTypeOK'
  <2>1. c \in Load /\ {l \in AllLessons : progress[l].completed} \in SUBSET AllLessons
        /\ progress[c.lesson].answers \in Answers
    BY <1>11 DEF ReadProgress, ReadCompleted, LPTypeOK, Load,
           Save, Progress
  <2>2. \A a \in Answers, t \in SUBSET AllLessons :
          /\ [c EXCEPT !.kind = "read", !.answers = a] \in Load
                                                               /\ [c EXCEPT !.kind = "found", !.ticked = t] \in Load
    BY <2>1 DEF Load
  <2>3. calls' \subseteq Load \cup Save
    BY <1>11, <2>1, <2>2 DEF ReadProgress, ReadCompleted, Answer,
           LPTypeOK
  <2> QED
    BY <1>11, <2>3 DEF ReadProgress, ReadCompleted, Answer, LPTypeOK,
           page, quiz, history
<1>12. ASSUME NEW c \in calls, Loaded(c) PROVE LPTypeOK'
  <2>1. c \in Load
    BY <1>12 DEF Loaded, LPTypeOK, Load, Save
  <2> QED
    BY <1>12, <2>1 DEF Loaded, LPTypeOK, Load
<1>13. ASSUME NEW c \in calls, LoadFails(c) PROVE LPTypeOK'
  BY <1>0, <1>n, <1>13 DEF LoadFails, LPTypeOK
<1>14. ASSUME NEW c \in calls, UpdateLessonProgress(c)
       PROVE  calls' \subseteq Load \cup Save
                                                             /\ progress' \in [AllLessons -> Progress]
  <2>1. c \in Save
    BY <1>14 DEF UpdateLessonProgress, LPTypeOK, Load, Save
  <2>2. c.lesson \in AllLessons /\ progress[c.lesson] \in Progress
    BY <2>1 DEF Save, LPTypeOK
  <2>3. [completed |-> c.completed,
         answers |-> IF c.answers = None THEN progress[c.lesson].answers ELSE c.answers] \in Progress
    BY <2>1, <2>2 DEF Save, Progress
  <2> QED
    BY <1>14, <2>2, <2>3 DEF UpdateLessonProgress, LPTypeOK
<1>15. ASSUME NEW c \in calls, Store(c) PROVE LPTypeOK'
  BY <1>14, <1>15 DEF Store, UpdateLessonProgress, LPTypeOK, page,
         quiz
<1>16. ASSUME NEW c \in calls, StoreEarly(c) PROVE LPTypeOK'
  BY <1>0, <1>14, <1>16 DEF StoreEarly, UpdateLessonProgress, LPTypeOK,
         page, quiz
<1>17. ASSUME NEW c \in calls, SaveFails(c) PROVE LPTypeOK'
  BY <1>0, <1>17 DEF SaveFails, LPTypeOK, page, quiz
<1>18. ASSUME NEW c \in calls, Hang(c) PROVE LPTypeOK'
  BY <1>0, <1>18 DEF Hang, LPTypeOK, Load, Save, page, quiz
<1> QED
  BY <1>1, <1>2, <1>3, <1>4, <1>5, <1>6, <1>7, <1>8, <1>9, <1>10, <1>11, <1>12, <1>13, <1>15,
         <1>16, <1>17, <1>18 DEF LPNext, Serve
-----------------------------------------------------------------------------
(* What each kind of step does to the calls.  A click adds calls of its own *)
(* number, the backend turns a load into the same load, and answers take a  *)
(* call away.                                                               *)
Adds(N) ==
  /\ calls' = calls \cup N /\ clicks' = clicks + 1
  /\ \A c \in N : c.id[1] = clicks + 1
  /\ \A c, d \in N : c.id = d.id => c = d

(* The one call that saves without completing.                              *)
LEMMA OneSave ==
  ASSUME NEW a, SaveOnly(a)
  PROVE  \E s : /\ calls' = calls \cup {s} /\ s.id = <<clicks + 1, 1>> /\ s.kind = "save"
                /\ s.lesson = lessonId /\ s.answers = a /\ s.completed = FALSE
<1> DEFINE s == SaveProgress(1, FALSE, a)
<1>1. /\ calls' = calls \cup {s} /\ s.id = <<clicks + 1, 1>> /\ s.kind = "save"
      /\ s.lesson = lessonId /\ s.answers = a /\ s.completed = FALSE
  BY DEF SaveOnly, SaveProgress, Id
<1> HIDE DEF s
<1> QED
  BY <1>1

(* The save with which a lesson that has no quiz ends.                      *)
LEMMA FinalSave ==
  \E s : /\ s = SaveProgress(1, TRUE, None) /\ s.id = <<clicks + 1, 1>> /\ s.kind = "save"
         /\ s.lesson = lessonId /\ s.answers = None /\ s.completed
<1> DEFINE s == SaveProgress(1, TRUE, None)
<1>1. /\ s.id = <<clicks + 1, 1>> /\ s.kind = "save"
      /\ s.lesson = lessonId /\ s.answers = None /\ s.completed
  BY DEF SaveProgress, Id
<1> HIDE DEF s
<1>2. s = SaveProgress(1, TRUE, None)
  BY DEF s
<1> QED
  BY <1>1, <1>2

(* The two saves with which a quiz ends.                                    *)
LEMMA CompletingIs ==
  \E s, t :
    /\ CompletingSaves = {s, t} /\ s.id = <<clicks + 1, 1>> /\ t.id = <<clicks + 1, 2>>
    /\ s.completed = FALSE /\ t.completed
    /\ \A c \in {s, t} : c.kind = "save" /\ c.lesson = lessonId /\ c.answers = answered
<1> DEFINE s == SaveProgress(1, FALSE, answered)
           t == SaveProgress(2, TRUE, answered)
<1>1. /\ s.id = <<clicks + 1, 1>> /\ t.id = <<clicks + 1, 2>>
      /\ s.completed = FALSE /\ t.completed
      /\ s.kind = "save" /\ s.lesson = lessonId /\ s.answers = answered
      /\ t.kind = "save" /\ t.lesson = lessonId /\ t.answers = answered
  BY DEF SaveProgress, Id
<1>2. CompletingSaves = {s, t}
  BY DEF CompletingSaves
<1> HIDE DEF s, t
<1> QED
  BY <1>1, <1>2

(* New calls of a click keep IdInv.                                         *)
LEMMA IdsAdded ==
  ASSUME LPTypeOK, IdInv, NEW N, Adds(N)
  PROVE  IdInv'
<1>1. clicks \in Int /\ \A c \in calls : c.id[1] \in Int
  BY DEF LPTypeOK, Load, Save, Ids
<1> QED
  BY <1>1 DEF IdInv, Adds

(* So does a step that sends no call.                                       *)
LEMMA IdsKept ==
  ASSUME IdInv, calls' \subseteq calls, clicks' \in Int, clicks \in Int, clicks <= clicks',
         LPTypeOK
  PROVE  IdInv'
<1>1. \A c \in calls : c.id[1] \in Int
  BY DEF LPTypeOK, Load, Save, Ids
<1> QED
  BY <1>1 DEF IdInv

(* The calls that each click adds: one save,                                *)
LEMMA SavesAdded ==
  ASSUME Clicks, NEW a, SaveOnly(a)
  PROVE  Adds({SaveProgress(1, FALSE, a)})
  BY DEF Adds, Clicks, SaveOnly, SaveProgress, Id

(* one load,                                                                *)
LEMMA LoadsAdded ==
  ASSUME Clicks, NEW l, Sends(l, 1, {})
  PROVE  Adds({GetVideoUrl(l, 1)})
  BY DEF Adds, Clicks, Sends, GetVideoUrl, Id

(* or the saves of a completed quiz with the load of the next lesson.       *)
LEMMA CompletionAdded ==
  ASSUME CompleteQuiz
  PROVE  /\ lessonId < LessonCount =>
           Adds(CompletingSaves \cup {GetVideoUrl(lessonId + 1, 3)})
         /\ ~(lessonId < LessonCount) => Adds(CompletingSaves)
<1>1. PICK s, t : /\ CompletingSaves = {s, t} /\ s.id = <<clicks + 1, 1>>
                  /\ t.id = <<clicks + 1, 2>>
  BY CompletingIs
<1>2. GetVideoUrl(lessonId + 1, 3).id = <<clicks + 1, 3>>
  BY DEF GetVideoUrl, Id
<1>3. clicks' = clicks + 1
      /\ (lessonId < LessonCount =>
            calls' = calls \cup (CompletingSaves \cup {GetVideoUrl(lessonId + 1, 3)}))
      /\ (~(lessonId < LessonCount) => calls' = calls \cup CompletingSaves)
  BY DEF CompleteQuiz, Clicks, Sends
<1> QED
  BY <1>1, <1>2, <1>3 DEF Adds

(* Every step keeps IdInv.                                                  *)
LEMMA IdNext ==
  ASSUME LPTypeOK, IdInv, [LPNext]_lpVars PROVE IdInv'
<1>0. clicks \in Int
  BY DEF LPTypeOK
<1>1. CASE UNCHANGED <<calls, clicks>>
  BY <1>1 DEF IdInv
<1>2. ASSUME NEW l \in AllLessons, Open(l) \/ NavigateToLesson(l) PROVE IdInv'
  BY <1>2, LoadsAdded, IdsAdded DEF Open, NavigateToLesson
<1>3. CASE Leave
  BY <1>0, <1>3, IdsKept DEF Leave, Clicks
<1>4. CASE TimeUpdate \/ SelectAnswer \/ NextQuestion
  BY <1>4, SavesAdded, IdsAdded DEF TimeUpdate, SelectAnswer, NextQuestion
<1>5. CASE OnVideoEnded
  <2>1. CASE shown \in Quizzes
    BY <1>5, <2>1, SavesAdded, IdsAdded DEF OnVideoEnded
  <2>2. CASE shown \notin Quizzes
    <3>1. Adds({SaveProgress(1, TRUE, None)})
      BY <1>5, <2>2 DEF OnVideoEnded, Adds, Clicks, SaveProgress, Id
    <3> QED
      BY <3>1, IdsAdded
  <2> QED
    BY <2>1, <2>2
<1>6. CASE CompleteQuiz
  BY <1>6, CompletionAdded, IdsAdded
<1>7. ASSUME NEW c \in calls, ReadProgress(c) \/ ReadCompleted(c) PROVE IdInv'
  <2>1. PICK d : d.id = c.id /\ calls' = (calls \ {c}) \cup {d} /\ clicks' = clicks
    BY <1>7 DEF ReadProgress, ReadCompleted, Answer, LPTypeOK,
           Load, Save
  <2> QED
    BY <2>1 DEF IdInv
<1>8. ASSUME NEW c \in calls,
             \/ Loaded(c) \/ Store(c) \/ LoadFails(c)
             \/ StoreEarly(c) \/ SaveFails(c)
      PROVE  IdInv'
  BY <1>0, <1>8, IdsKept DEF Loaded, Store, LoadFails, StoreEarly,
         SaveFails, UpdateLessonProgress
<1>9. CASE OnTimer \/ RunEffect \/ \E c \in calls : Hang(c)
  BY <1>1, <1>9 DEF OnTimer, RunEffect, Hang
<1> QED
  BY <1>1, <1>2, <1>3, <1>4, <1>5, <1>6, <1>7, <1>8, <1>9 DEF LPNext, Serve, lpVars
-----------------------------------------------------------------------------
(* The loads under way: only opening a lesson adds one.                     *)
LEMMA LoadIs ==
  \A l, n : GetVideoUrl(l, n).kind = "sent" /\ GetVideoUrl(l, n).lesson = l
            /\ GetVideoUrl(l, n).answers = NoAnswers
            /\ GetVideoUrl(l, n).id = <<clicks + 1, n>>
  BY DEF GetVideoUrl, Id

(* A save is no load.                                                       *)
LEMMA LoadsUntouched ==
  /\ \A a : SaveOnly(a) => Loads' = Loads
  /\ calls' = calls \cup {SaveProgress(1, TRUE, None)} => Loads' = Loads
<1>1. ASSUME NEW a, SaveOnly(a) PROVE Loads' = Loads
  <2>1. PICK s : calls' = calls \cup {s} /\ s.kind = "save"
    BY <1>1, OneSave
  <2> QED
    BY <2>1 DEF Loads
<1>2. ASSUME calls' = calls \cup {SaveProgress(1, TRUE, None)}
      PROVE  Loads' = Loads
  BY <1>2, FinalSave DEF Loads
<1> QED
  BY <1>1, <1>2

(* A lesson is opened with the load that is the newest.                     *)
LEMMA LoadOpens ==
  ASSUME LPTypeOK, IdInv, NEW l \in AllLessons, NEW n \in 1..3, NEW S, LoadLesson(l),
         Sends(l, n, S), \A c \in S : c.kind = "save"
  PROVE  LoadInv'
<1>1. \A c \in calls : c.id[1] <= clicks /\ c.id[1] \in Int
  BY DEF IdInv, LPTypeOK, Load, Save, Ids
<1>2. clicks \in Int
  BY DEF LPTypeOK
<1>3. newest' = <<clicks + 1, n>> /\ calls' = calls \cup S \cup {GetVideoUrl(l, n)}
      /\ GetVideoUrl(l, n).lesson = l
  BY LoadIs DEF Sends, Id
<1>4. \A c \in Loads' : c.id = newest' => c = GetVideoUrl(l, n)
  BY <1>1, <1>2, <1>3 DEF Loads
<1> QED
  BY <1>3, <1>4 DEF LoadInv, LoadLesson, Visible

(* Every step keeps LoadInv.                                                *)
LEMMA LoadNext ==
  ASSUME LPTypeOK, IdInv, LoadInv, [LPNext]_lpVars PROVE LoadInv'
<1>1. CASE UNCHANGED <<page, newest, late>> /\ Loads' \subseteq Loads
  BY <1>1 DEF LoadInv, Visible, page
<1>2. ASSUME NEW l \in AllLessons, Open(l) \/ NavigateToLesson(l) PROVE LoadInv'
  BY <1>2, LoadOpens DEF Open, NavigateToLesson
<1>3. CASE Leave
  BY <1>3 DEF Leave, NoQuiz, Loads, LoadInv, Visible
<1>4. CASE TimeUpdate \/ SelectAnswer \/ NextQuestion
  BY <1>1, <1>4, LoadsUntouched DEF TimeUpdate, SelectAnswer, NextQuestion, page
<1>5. CASE OnVideoEnded
  <2>1. UNCHANGED <<alive, lessonId, loading, failed, shown, newest, late>>
    BY <1>5 DEF OnVideoEnded
  <2>2. Loads' = Loads
    BY <1>5, LoadsUntouched DEF OnVideoEnded
  <2> QED
    BY <2>1, <2>2 DEF LoadInv, Visible
<1>7. CASE CompleteQuiz
  <2>1. \A c \in CompletingSaves : c.kind = "save"
    BY CompletingIs
  <2>2. CASE lessonId < LessonCount
    <3>1. lessonId + 1 \in AllLessons
      BY <2>2, ConstantsAssumption DEF LPTypeOK, AllLessons
    <3> QED
      BY <1>7, <2>1, <2>2, <3>1, LoadOpens DEF CompleteQuiz
  <2>3. CASE ~(lessonId < LessonCount)
    <3>1. /\ UNCHANGED <<alive, lessonId, loading, failed, shown, newest, late>>
          /\ Loads' = Loads
      BY <1>7, <2>1, <2>3 DEF CompleteQuiz, Loads
    <3> QED
      BY <3>1 DEF LoadInv, Visible
  <2> QED
    BY <2>2, <2>3
<1>8. CASE OnTimer \/ RunEffect \/ \E c \in calls : Hang(c)
  BY <1>1, <1>8 DEF OnTimer, RunEffect, Hang, Loads, history
<1>9. ASSUME NEW c \in calls, ReadProgress(c) \/ ReadCompleted(c) PROVE LoadInv'
  <2>1. PICK d : /\ d.id = c.id /\ d.lesson = c.lesson /\ calls' = (calls \ {c}) \cup {d}
                 /\ c.kind # "save" /\ UNCHANGED <<page, quiz, history>>
    BY <1>9 DEF ReadProgress, ReadCompleted, Answer, LPTypeOK,
           Load, Save
  <2>2. c \in Loads /\ Loads' \subseteq Loads \cup {d}
    BY <2>1 DEF Loads
  <2> QED
    BY <2>1, <2>2 DEF LoadInv, Visible, page, quiz, history
<1>10. ASSUME NEW c \in calls, Loaded(c) \/ LoadFails(c) PROVE LoadInv'
  <2>1. /\ c \in Loads /\ Loads' = Loads \ {c}
        /\ (late' <=> (late \/ c.id # newest)) /\ newest' = newest
        /\ lessonId' = lessonId
    BY <1>10 DEF Loaded, LoadFails, Loads, LPTypeOK
  <2>2. SUFFICES ASSUME ~late' PROVE LoadInv'
    BY DEF LoadInv
  <2>3. ~late /\ c.id = newest /\ c.lesson = lessonId /\ \A d \in Loads' : d.id # newest
    BY <2>1, <2>2 DEF LoadInv, IdInv, Loads
  <2>4. Visible' => shown' = lessonId'
    BY <1>10, <2>1, <2>3 DEF Loaded, LoadFails, Visible
  <2> QED
    BY <2>1, <2>3, <2>4 DEF LoadInv
<1>11. ASSUME NEW c \in calls, Store(c) \/ StoreEarly(c) \/ SaveFails(c)
       PROVE  LoadInv'
  BY <1>1, <1>11 DEF Store, StoreEarly, SaveFails,
         UpdateLessonProgress, Loads, quiz
<1> QED
  BY <1>1, <1>2, <1>3, <1>4, <1>5, <1>7, <1>8, <1>9, <1>10, <1>11
  DEF LPNext, Serve, lpVars, quiz, history, Loads
-----------------------------------------------------------------------------
(* A save replaces the document of its lesson.                              *)
LEMMA Updated ==
  ASSUME LPTypeOK, NEW c \in calls, UpdateLessonProgress(c)
  PROVE  /\ c.kind = "save" /\ calls' = calls \ {c} /\ c.lesson \in AllLessons
         /\ \A l \in AllLessons \ {c.lesson} : progress'[l] = progress[l]
         /\ progress'[c.lesson].completed = c.completed
         /\ progress'[c.lesson].answers =
              IF c.answers = None THEN progress[c.lesson].answers ELSE c.answers
         /\ UNCHANGED <<page, quiz, clicks, newest, late, hung>>
<1>1. c.kind = "save" /\ calls' = calls \ {c} /\ c.lesson \in AllLessons
      /\ UNCHANGED <<page, quiz, clicks, newest, late, hung>>
  BY DEF UpdateLessonProgress, LPTypeOK, Load, Save
<1> DEFINE new == [completed |-> c.completed,
                   answers |-> IF c.answers = None THEN progress[c.lesson].answers ELSE c.answers]
<1>2. progress' = [progress EXCEPT ![c.lesson] = new]
  BY DEF UpdateLessonProgress
<1>3. new.completed = c.completed
      /\ new.answers = IF c.answers = None THEN progress[c.lesson].answers ELSE c.answers
  OBVIOUS
<1> HIDE DEF new
<1>4. progress'[c.lesson] = new /\ \A l \in AllLessons \ {c.lesson} : progress'[l] = progress[l]
  BY <1>1, <1>2 DEF LPTypeOK
<1> QED
  BY <1>1, <1>3, <1>4

(* An open quiz belongs to the lesson of the route.                         *)
LEMMA QuizOfRoute ==
  ASSUME LPTypeOK, LoadInv, ~late, Visible PROVE shown = lessonId /\ shown # None
  BY ConstantsAssumption DEF LoadInv, LPTypeOK

(* AnswersInv holds at the start.                                           *)
LEMMA AnswersInit == LPInit => AnswersInv
<1> SUFFICES ASSUME LPInit PROVE AnswersInv
  OBVIOUS
<1>1. \A l \in AllLessons : OwnAnswers(progress[l].answers, l)
  BY DEF LPInit, Earlier, OwnAnswers, NoAnswers
<1> QED
  BY <1>1 DEF LPInit, AnswersInv

(* Every step keeps AnswersInv.                                             *)
LEMMA AnswersNext ==
  ASSUME LPTypeOK, LoadInv, AnswersInv, QuizInv, [LPNext]_lpVars PROVE AnswersInv'
<1>1. CASE UNCHANGED <<shown, answered, progress, late>> /\ calls' \subseteq calls
  BY <1>1 DEF AnswersInv, OwnAnswers
<1>a. ASSUME shown' = None \/ UNCHANGED <<shown, answered>>, UNCHANGED <<progress, late>>,
             \A c \in calls' \ calls : c.answers # None /\ ~late => OwnAnswers(c.answers, c.lesson)
      PROVE  AnswersInv'
  BY <1>a DEF AnswersInv, OwnAnswers
<1>b. \A l : OwnAnswers(NoAnswers, l)
  BY DEF OwnAnswers, NoAnswers
<1>c. late' = FALSE \/ late' = TRUE
  BY LessonTypeNext DEF LPTypeOK
<1>2. ASSUME NEW l \in AllLessons, Open(l) \/ NavigateToLesson(l) PROVE AnswersInv'
  <2>1. /\ calls' = calls \cup {GetVideoUrl(l, 1)} /\ shown' = None
        /\ UNCHANGED <<progress, late>>
    BY <1>2 DEF Open, NavigateToLesson, LoadLesson, NoQuiz, Sends, Clicks
  <2> QED
    BY <1>a, <1>b, <2>1, LoadIs
<1>4. CASE Leave
  <2>1. calls' \subseteq calls /\ shown' = None /\ UNCHANGED <<progress, late>>
    BY <1>4 DEF Leave, NoQuiz, Clicks
  <2> QED
    BY <1>a, <2>1
<1>5. CASE TimeUpdate
  <2>1. SaveOnly(None) /\ UNCHANGED <<shown, answered, progress, late>>
    BY <1>5 DEF TimeUpdate, Clicks, page, quiz
  <2> QED
    BY <1>a, <2>1, OneSave
<1>6. CASE OnVideoEnded
  <2>1. UNCHANGED <<shown, answered, progress, late>>
    BY <1>6 DEF OnVideoEnded, Clicks, quiz
  <2>2. \A c \in calls' \ calls : c.answers = None
    <3>1. SaveOnly(None) \/ calls' = calls \cup {SaveProgress(1, TRUE, None)}
      BY <1>6 DEF OnVideoEnded
    <3>2. PICK s : s.answers = None /\ (calls' = calls \cup {s})
      BY <3>1, OneSave, FinalSave
    <3> QED
      BY <3>2
  <2> QED
    BY <1>a, <2>1, <2>2
<1>7. CASE SelectAnswer
  <2>1. SaveOnly(answered') /\ answered' = [answered EXCEPT ![index] = shown] /\ Visible
        /\ answered[1] = None /\ UNCHANGED <<shown, progress, late>>
    BY <1>7 DEF SelectAnswer, HasQuiz, Clicks, page
  <2>2. SUFFICES ASSUME ~late PROVE AnswersInv'
    BY <2>1 DEF AnswersInv
  <2>3. shown = lessonId /\ shown # None
    BY <2>1, <2>2, QuizOfRoute
  <2>4. OwnAnswers(answered', shown)
    <3>1. index = 1
      BY <2>1, <2>2 DEF QuizInv, MovesInv
    <3> QED
      BY <2>1, <2>2, <2>3, <3>1 DEF AnswersInv, OwnAnswers, LPTypeOK, Answers
  <2>5. \A c \in calls' : c.answers # None => OwnAnswers(c.answers, c.lesson)
    <3>1. PICK s : calls' = calls \cup {s} /\ s.lesson = lessonId /\ s.answers = answered'
      BY <2>1, OneSave
    <3> QED
      BY <2>2, <2>3, <2>4, <3>1 DEF AnswersInv
  <2> QED
    BY <2>1, <2>2, <2>4, <2>5 DEF AnswersInv, OwnAnswers
<1>8. CASE NextQuestion
  <2>1. SaveOnly(answered) /\ Visible /\ UNCHANGED <<shown, answered, progress, late>>
    BY <1>8 DEF NextQuestion, CanGoOn, HasQuiz, Clicks, page
  <2>2. ~late => OwnAnswers(answered, lessonId)
    BY <2>1, QuizOfRoute DEF AnswersInv
  <2> QED
    <3>1. PICK s : calls' = calls \cup {s} /\ s.lesson = lessonId /\ s.answers = answered
      BY <2>1, OneSave
    <3> QED
      BY <1>a, <2>1, <2>2, <3>1
<1>9. CASE CompleteQuiz
  <2>1. /\ Visible /\ UNCHANGED <<progress, late>>
        /\ shown' = None \/ UNCHANGED <<shown, answered>>
        /\ \/ calls' = calls \cup CompletingSaves
           \/ calls' = calls \cup CompletingSaves \cup {GetVideoUrl(lessonId + 1, 3)}
    BY <1>9 DEF CompleteQuiz, LoadLesson, NoQuiz, CanGoOn, HasQuiz, Clicks, Sends, quiz
  <2>2. ~late => OwnAnswers(answered, lessonId)
    BY <2>1, QuizOfRoute DEF AnswersInv
  <2>3. PICK s, t : /\ CompletingSaves = {s, t}
                    /\ \A c \in {s, t} : c.lesson = lessonId /\ c.answers = answered
    BY CompletingIs
  <2> QED
    BY <1>a, <1>b, <2>1, <2>2, <2>3, LoadIs
<1>10. CASE OnTimer \/ RunEffect \/ \E c \in calls : Hang(c)
  BY <1>1, <1>10 DEF OnTimer, RunEffect, Hang, page, quiz, history
<1>11. ASSUME NEW c \in calls, ReadProgress(c) \/ ReadCompleted(c) PROVE AnswersInv'
  <2>1. c \in Load /\ UNCHANGED <<shown, answered, progress, late>>
    BY <1>11 DEF ReadProgress, ReadCompleted, Answer, LPTypeOK,
           Load, Save, page, quiz, history
  <2>2. PICK d : /\ d.lesson = c.lesson /\ calls' = (calls \ {c}) \cup {d}
                 /\ d.answers = c.answers \/ d.answers = progress[c.lesson].answers
    <3>1. CASE ReadProgress(c)
      <4> DEFINE d == [c EXCEPT !.kind = "read", !.answers = progress[c.lesson].answers]
      <4>1. d.lesson = c.lesson /\ d.answers = progress[c.lesson].answers
        BY <2>1 DEF Load
      <4>2. calls' = (calls \ {c}) \cup {d}
        BY <3>1 DEF ReadProgress, Answer
      <4> QED
        BY <4>1, <4>2
    <3>2. CASE ReadCompleted(c)
      <4> DEFINE d == [c EXCEPT !.kind = "found", !.ticked = {l \in AllLessons : progress[l].completed}]
      <4>1. d.lesson = c.lesson /\ d.answers = c.answers
        BY <2>1 DEF Load
      <4>2. calls' = (calls \ {c}) \cup {d}
        BY <3>2 DEF ReadCompleted, Answer
      <4> HIDE DEF d
      <4> QED
        BY <4>1, <4>2
    <3> QED
      BY <1>11, <3>1, <3>2
  <2>3. c.answers # None /\ c.lesson \in AllLessons
    BY <2>1, ConstantsAssumption DEF Load, Answers
  <2> QED
    BY <1>a, <2>1, <2>2, <2>3 DEF AnswersInv
<1>12. ASSUME NEW c \in calls, Loaded(c) PROVE AnswersInv'
  <2>1. c \in Load
    BY <1>12 DEF Loaded, LPTypeOK, Load, Save
  <2>2. c.answers # None /\ (late => late') /\ shown' = c.lesson /\ answered' = c.answers
        /\ calls' \subseteq calls /\ progress' = progress
    BY <1>12, <2>1, ConstantsAssumption DEF Load, Answers, Loaded, LPTypeOK
  <2> QED
    BY <2>2 DEF AnswersInv, OwnAnswers
<1>13. ASSUME NEW c \in calls, LoadFails(c) PROVE AnswersInv'
  <2>1. (late => late') /\ shown' = None /\ progress' = progress /\ calls' \subseteq calls
    BY <1>13 DEF LoadFails, NoQuiz, LPTypeOK
  <2> QED
    BY <2>1 DEF AnswersInv, OwnAnswers
<1>14. ASSUME NEW c \in calls, Store(c) \/ StoreEarly(c) PROVE AnswersInv'
  <2>1. UpdateLessonProgress(c)
    BY <1>14 DEF Store, StoreEarly
  <2>2. \A l \in AllLessons : ~late => OwnAnswers(progress[l].answers, l)'
    BY <2>1, Updated DEF AnswersInv, OwnAnswers
  <2>3. UNCHANGED <<shown, answered, late>> /\ calls' \subseteq calls
    BY <2>1 DEF UpdateLessonProgress, page, quiz
  <2> QED
    BY <2>2, <2>3 DEF AnswersInv, OwnAnswers
<1>15. ASSUME NEW c \in calls, SaveFails(c) PROVE AnswersInv'
  BY <1>1, <1>15 DEF SaveFails, page, quiz
<1> QED
  BY <1>1, <1>2, <1>4, <1>5, <1>6, <1>7, <1>8, <1>9, <1>10, <1>11, <1>12, <1>13, <1>14, <1>15
  DEF LPNext, Serve, lpVars, page, quiz, history
-----------------------------------------------------------------------------
(* The saves that complete a quiz.  The other steps of the page send saves  *)
(* that complete nothing, and the backend stores only what was sent.        *)
Whole(c) == c.kind = "save" /\ c.completed /\ c.lesson \in Quizzes =>
  c.answers # None /\ AllAnswered(c.answers, c.lesson)

StoredWhole == \A l \in Quizzes : progress[l].completed => AllAnswered(progress[l].answers, l)

(* QuizInv in its three parts.                                              *)
LEMMA QuizSplit == QuizInv <=> (~late => MovesInv /\ (\A c \in calls : Whole(c)) /\ StoredWhole)
  BY DEF QuizInv, Whole, StoredWhole

(* QuizInv holds at the start.                                              *)
LEMMA QuizInit ==
  LPInit => QuizInv
<1> SUFFICES ASSUME LPInit PROVE QuizInv
  OBVIOUS
<1>1. MovesInv
  BY DEF LPInit, MovesInv
<1>2. StoredWhole
  <2> SUFFICES ASSUME NEW l \in Quizzes, progress[l].completed
               PROVE  AllAnswered(progress[l].answers, l)
    BY DEF StoredWhole
  <2>1. l \in AllLessons /\ l # None /\ Questions[l] > 0
    BY ConstantsAssumption DEF Quizzes
  <2>2. /\ Questions[l] = 1 /\ progress[l].answers # NoAnswers
        /\ progress[l].answers \in {NoAnswers, [NoAnswers EXCEPT ![1] = l]}
    BY <2>1 DEF LPInit, Earlier, Quizzes
  <2>3. 1 \in Numbers
    BY <2>1, <2>2 DEF Numbers
  <2> QED
    BY <2>1, <2>2, <2>3 DEF AllAnswered, NoAnswers
<1> QED
  BY <1>1, <1>2, QuizSplit DEF LPInit

(* A call that does not complete a lesson is not asked for every answer.    *)
LEMMA UnfinishedIsWhole ==
  /\ \A a : SaveOnly(a) => \A c \in calls' \ calls : Whole(c)
  /\ \A l, n : Whole(GetVideoUrl(l, n))
<1>1. ASSUME NEW a, SaveOnly(a) PROVE \A c \in calls' \ calls : Whole(c)
  <2>1. PICK s : calls' = calls \cup {s} /\ s.completed = FALSE
    BY <1>1, OneSave
  <2> QED
    BY <2>1 DEF Whole
<1>2. \A l, n : Whole(GetVideoUrl(l, n))
  BY LoadIs DEF Whole
<1> QED
  BY <1>1, <1>2

(* A quiz is completed at its last question, and answered is only the first. *)
LEMMA AllAtTheEnd ==
  ASSUME LPTypeOK, LoadInv, AnswersInv, ~late, CompleteQuiz
  PROVE  AllAnswered(answered, lessonId)
<1>1. /\ Visible /\ shown \in Quizzes /\ answered[1] # None
      /\ index = Questions[shown] /\ index \in 1..Questions[shown] /\ answered[index] # None
  BY DEF CompleteQuiz, CanGoOn, HasQuiz
<1>2. shown = lessonId /\ OwnAnswers(answered, shown)
  BY <1>1, QuizOfRoute DEF AnswersInv
<1>3. index \in Numbers
  BY <1>1 DEF Numbers, Quizzes
<1>4. index = 1
  BY <1>1, <1>2, <1>3 DEF OwnAnswers
<1> QED
  BY <1>1, <1>2, <1>4 DEF AllAnswered

(* A step that stores nothing keeps QuizInv if its new calls carry every    *)
(* answer.                                                                  *)
LEMMA QuizKept ==
  ASSUME QuizInv, UNCHANGED <<progress, late>>,
         ~late => MovesInv' /\ \A c \in calls' \ calls : Whole(c)
  PROVE  QuizInv'
<1>1. StoredWhole => StoredWhole'
  BY DEF StoredWhole, AllAnswered
<1> QED
  BY <1>1, QuizSplit DEF QuizInv, Whole, StoredWhole, AllAnswered

(* A step that leaves the quiz alone keeps MovesInv, and so does one that   *)
(* puts it away.                                                            *)
LEMMA MovesKept ==
  ASSUME MovesInv, UNCHANGED quiz \/ NoQuiz PROVE MovesInv'
  BY DEF MovesInv, quiz, NoQuiz

(* Every step keeps QuizInv.                                                *)
LEMMA QuizNext ==
  ASSUME LPTypeOK, IdInv, LoadInv, AnswersInv, QuizInv, [LPNext]_lpVars PROVE QuizInv'
<1>0. ~late => MovesInv
  BY DEF QuizInv
<1>1. ASSUME UNCHANGED quiz \/ NoQuiz, UNCHANGED <<progress, late>>,
             ~late => \A c \in calls' \ calls : Whole(c)
      PROVE  QuizInv'
  BY <1>0, <1>1, MovesKept, QuizKept
<1>2. ASSUME NEW l \in AllLessons, Open(l) \/ NavigateToLesson(l) PROVE QuizInv'
  <2>1. /\ calls' = calls \cup {GetVideoUrl(l, 1)} /\ UNCHANGED <<progress, late>> /\ NoQuiz
    BY <1>2 DEF Open, NavigateToLesson, Sends, Clicks, LoadLesson
  <2> QED
    BY <1>1, <2>1, UnfinishedIsWhole
<1>3. CASE Leave
  BY <1>1, <1>3 DEF Leave, Clicks
<1>4. CASE TimeUpdate
  BY <1>1, <1>4, UnfinishedIsWhole DEF TimeUpdate, Clicks
<1>5. CASE OnVideoEnded
  <2>1. UNCHANGED <<quiz, progress, late>> /\ Visible
    BY <1>5 DEF OnVideoEnded, Clicks
  <2>2. CASE shown \in Quizzes
    BY <1>1, <1>5, <2>1, <2>2, UnfinishedIsWhole DEF OnVideoEnded
  <2>3. CASE shown \notin Quizzes
    <3>1. PICK s : calls' = calls \cup {s} /\ s.lesson = lessonId
      BY <1>5, <2>3, FinalSave DEF OnVideoEnded
    <3>2. ~late => \A c \in calls' \ calls : Whole(c)
      BY <2>1, <2>3, <3>1, QuizOfRoute DEF Whole
    <3> QED
      BY <1>1, <2>1, <3>2
  <2> QED
    BY <2>2, <2>3
<1>6. CASE SelectAnswer
  <2>1. SaveOnly(answered') /\ answered' = [answered EXCEPT ![index] = shown] /\ shown # None
        /\ index \in Numbers /\ answered[1] = None /\ UNCHANGED <<progress, late>>
    BY <1>6, ConstantsAssumption DEF SelectAnswer, HasQuiz, Clicks, Quizzes
  <2>2. MovesInv => MovesInv'
    <3>1. MovesInv => index = 1
      BY <2>1 DEF MovesInv
    <3> QED
      BY <2>1, <3>1 DEF MovesInv, LPTypeOK, Answers
  <2>3. \A c \in calls' \ calls : Whole(c)
    <3>1. PICK s : calls' = calls \cup {s} /\ s.completed = FALSE
      BY <2>1, OneSave
    <3> QED
      BY <3>1 DEF Whole
  <2> QED
    BY <1>0, <2>1, <2>2, <2>3, QuizKept
<1>7. CASE NextQuestion
  <2>1. SaveOnly(answered) /\ UNCHANGED <<answered, progress, late>> /\ answered[1] # None
    BY <1>7 DEF NextQuestion, CanGoOn, Clicks
  <2>2. MovesInv'
    BY <2>1 DEF MovesInv
  <2> QED
    BY <2>1, <2>2, QuizKept, UnfinishedIsWhole
<1>8. CASE CompleteQuiz
  <2>1. (UNCHANGED quiz \/ NoQuiz) /\ UNCHANGED <<progress, late>>
        /\ \/ calls' = calls \cup CompletingSaves
           \/ calls' = calls \cup CompletingSaves \cup {GetVideoUrl(lessonId + 1, 3)}
    BY <1>8 DEF CompleteQuiz, Clicks, Sends, LoadLesson
  <2>2. ASSUME ~late PROVE \A c \in calls' \ calls : Whole(c)
    <3>1. AllAnswered(answered, lessonId) /\ answered # None
      BY <1>8, <2>2, AllAtTheEnd, ConstantsAssumption DEF LPTypeOK, Answers
    <3>2. PICK s, t : CompletingSaves = {s, t}
                      /\ \A c \in {s, t} : c.answers = answered /\ c.lesson = lessonId
      BY CompletingIs
    <3> QED
      BY <2>1, <3>1, <3>2, UnfinishedIsWhole DEF Whole
  <2> QED
    BY <1>1, <2>1, <2>2
<1>9. CASE OnTimer \/ RunEffect \/ \E c \in calls : Hang(c)
  <2>1. UNCHANGED <<answered, progress, late, calls>>
        /\ (UNCHANGED quiz \/ moves > 0 \/ index # 1)
    BY <1>9 DEF OnTimer, RunEffect, Hang, page, quiz, history
  <2>2. MovesInv => MovesInv'
    BY <2>1 DEF MovesInv, quiz
  <2> QED
    BY <1>0, <2>1, <2>2, QuizKept
<1>10. ASSUME NEW c \in calls, ReadProgress(c) \/ ReadCompleted(c) PROVE QuizInv'
  <2>1. PICK d : d.kind # "save" /\ calls' = (calls \ {c}) \cup {d}
    BY <1>10 DEF ReadProgress, ReadCompleted, Answer, LPTypeOK,
           Load, Save
  <2>2. UNCHANGED <<quiz, progress, late>>
    BY <1>10 DEF ReadProgress, ReadCompleted, Answer, history
  <2> QED
    BY <1>1, <2>1, <2>2 DEF Whole
<1>11. ASSUME NEW c \in calls, Loaded(c) PROVE QuizInv'
  <2>1. c \in Load /\ index' = 1 /\ calls' \subseteq calls
        /\ progress' = progress /\ (late' <=> (late \/ c.id # newest))
    BY <1>11 DEF Loaded, LPTypeOK, Load, Save
  <2>2. ~late' => moves' = 0
    BY <1>11, <2>1 DEF LoadInv, Loads, Loaded, HasQuiz, Visible
  <2>3. ~late' => MovesInv'
    BY <2>1, <2>2 DEF MovesInv
  <2>4. \A e \in calls' : e \in calls
    BY <2>1
  <2> QED
    BY <2>1, <2>3, <2>4 DEF QuizInv, AllAnswered
<1>12. ASSUME NEW c \in calls, LoadFails(c) PROVE QuizInv'
  <2>1. calls' \subseteq calls /\ progress' = progress /\ (late => late') /\ NoQuiz
    BY <1>12 DEF LoadFails, LPTypeOK
  <2>2. MovesInv'
    BY <2>1 DEF MovesInv, NoQuiz
  <2> QED
    BY <2>1, <2>2 DEF QuizInv, AllAnswered
<1>13. ASSUME NEW c \in calls, Store(c) \/ StoreEarly(c) PROVE QuizInv'
  <2>1. UpdateLessonProgress(c)
    BY <1>13 DEF Store, StoreEarly
  <2>2. SUFFICES ASSUME ~late' PROVE MovesInv' /\ (\A d \in calls : Whole(d)) /\ StoredWhole'
    BY <2>1, Updated DEF QuizInv, Whole, StoredWhole, AllAnswered
  <2>3. MovesInv /\ (\A d \in calls : Whole(d)) /\ StoredWhole
    BY <2>1, <2>2, QuizSplit DEF UpdateLessonProgress
  <2>4. MovesInv'
    BY <2>1, <2>3, MovesKept DEF UpdateLessonProgress
  <2>5. StoredWhole'
    <3> SUFFICES ASSUME NEW l \in Quizzes, progress'[l].completed
                 PROVE  AllAnswered(progress'[l].answers, l)
      BY DEF StoredWhole, AllAnswered
    <3>1. l \in AllLessons
      BY DEF Quizzes
    <3>2. CASE l = c.lesson
      <4>1. Whole(c) /\ c.kind = "save" /\ c.completed /\ c.lesson \in Quizzes
        BY <2>1, <2>3, <3>2, Updated
      <4> QED
        BY <2>1, <3>2, <4>1, Updated DEF Whole
    <3>3. CASE l # c.lesson
      BY <2>1, <2>3, <3>1, <3>3, Updated DEF StoredWhole
    <3> QED
      BY <3>2, <3>3
  <2> QED
    BY <2>3, <2>4, <2>5
<1>14. ASSUME NEW c \in calls, SaveFails(c) PROVE QuizInv'
  BY <1>1, <1>14 DEF SaveFails
<1> QED
  BY <1>1, <1>2, <1>3, <1>4, <1>5, <1>6, <1>7, <1>8, <1>9, <1>10, <1>11, <1>12, <1>13, <1>14
  DEF LPNext, Serve, lpVars, history
-----------------------------------------------------------------------------
(* The saves of a finished lesson, in the order of their clicks.            *)
LEMMA BeforeTotal ==
  ASSUME LPTypeOK, IdInv, NEW c \in calls, NEW d \in calls, c # d
  PROVE  Before(c.id, d.id) <=> ~Before(d.id, c.id)
<1>1. c.id \in Ids /\ d.id \in Ids /\ c.id # d.id
  BY DEF LPTypeOK, Load, Save, IdInv
<1>2. c.id[1] # d.id[1] \/ c.id[2] # d.id[2]
  BY <1>1 DEF Ids
<1> QED
  BY <1>1, <1>2 DEF Ids, Before

(* A lesson keeps its last save while none of its saves come or go.         *)
LEMMA EndedKept ==
  ASSUME EndedInv, NEW l \in ended, Saves(l)' = Saves(l),
         Saves(l) = {} /\ progress[l].completed => progress'[l].completed
  PROVE  /\ Saves(l)' = {} => progress'[l].completed
         /\ \A c \in Saves(l)' : AtLast(c)' => c.completed
<1>1. \A c \in Saves(l) : c.lesson = l
  BY DEF Saves
<1>2. \A c \in Saves(l) : AtLast(c)' <=> AtLast(c)
  BY <1>1 DEF AtLast
<1> QED
  BY <1>2 DEF EndedInv

(* With a completing save behind all others its lesson is finished.         *)
LEMMA EndedSent ==
  ASSUME LPTypeOK, IdInv, NEW l \in AllLessons, NEW N, NEW t \in N, NEW n \in 1..3,
         calls' = calls \cup N, t.kind = "save", t.lesson = l, t.completed, t.id = <<clicks + 1, n>>,
         \A c \in N \ {t} : c.kind = "save" => \E m \in 1..3 : m < n /\ c.id = <<clicks + 1, m>>
  PROVE  /\ Saves(l)' = {} => progress'[l].completed
         /\ \A c \in Saves(l)' : AtLast(c)' => c.completed
<1>1. t \in Saves(l)'
  BY DEF Saves
<1>2. \A c \in calls : ~Before(t.id, c.id)
  <2> SUFFICES ASSUME NEW c \in calls PROVE ~Before(t.id, c.id)
    OBVIOUS
  <2>1. c.id[1] \in Int /\ c.id[1] <= clicks /\ clicks \in Int
    BY DEF LPTypeOK, IdInv, Load, Save, Ids
  <2> QED
    BY <2>1 DEF Before
<1>3. ASSUME NEW c \in Saves(l)', AtLast(c)', c # t PROVE FALSE
  <2>1. Before(t.id, c.id) /\ c.kind = "save" /\ c \in calls'
    BY <1>1, <1>3 DEF AtLast, Saves
  <2>2. c \in N \ {t}
    BY <1>2, <1>3, <2>1
  <2>3. PICK m \in 1..3 : m < n /\ c.id = <<clicks + 1, m>>
    BY <2>1, <2>2
  <2>4. clicks \in Int
    BY DEF LPTypeOK
  <2> QED
    BY <2>1, <2>3, <2>4 DEF Before
<1> QED
  BY <1>1, <1>3

(* A save that nothing overtakes leaves the last one as it is, or is it.    *)
LEMMA EndedStored ==
  ASSUME LPTypeOK, IdInv, EndedInv, NEW c \in calls, Store(c), NEW l \in ended
  PROVE  /\ Saves(l)' = {} => progress'[l].completed
         /\ \A d \in Saves(l)' : AtLast(d)' => d.completed
<1>0. UpdateLessonProgress(c) /\ l \in AllLessons
  BY DEF Store, LPTypeOK
<1>1. CASE c.lesson # l
  <2>1. Saves(l)' = Saves(l) /\ progress'[l] = progress[l]
    BY <1>0, <1>1, Updated DEF Saves
  <2> QED
    BY <2>1, EndedKept
<1>2. CASE c.lesson = l
  <2>1. /\ c \in Saves(l) /\ Saves(l)' = Saves(l) \ {c}
        /\ progress'[l].completed = c.completed
    BY <1>0, <1>2, Updated DEF Saves
  <2>2. ASSUME Saves(l)' = {} PROVE progress'[l].completed
    <3>1. AtLast(c)
      BY <1>2, <2>1, <2>2 DEF AtLast
    <3> QED
      BY <2>1, <3>1 DEF EndedInv
  <2>3. ASSUME NEW d \in Saves(l)', AtLast(d)' PROVE d.completed
    <3>1. d \in Saves(l) /\ d # c /\ d.lesson = l /\ c \in calls /\ d \in calls
      BY <2>1, <2>3 DEF Saves
    <3>2. Before(c.id, d.id)
      <4>1. ~Before(d.id, c.id)
        BY <1>2, <3>1 DEF Store, Overtaken
      <4> QED
        BY <3>1, <4>1, BeforeTotal
    <3>3. AtLast(d)
      BY <2>1, <2>3, <3>1, <3>2 DEF AtLast
    <3> QED
      BY <3>1, <3>3 DEF EndedInv
  <2> QED
    BY <2>2, <2>3
<1> QED
  BY <1>1, <1>2

(* Every step keeps EndedInv.                                               *)
LEMMA EndedNext ==
  ASSUME LPTypeOK, IdInv, EndedInv, [LPNext]_lpVars PROVE EndedInv'
<1>1. ASSUME ended' \subseteq ended,
             \A l \in ended' : Saves(l)' = Saves(l) /\ progress'[l] = progress[l]
      PROVE  EndedInv'
  BY <1>1, EndedKept DEF EndedInv
<1>2. ASSUME NEW a, SaveOnly(a), UNCHANGED progress PROVE EndedInv'
  <2>1. PICK s : calls' = calls \cup {s} /\ s.lesson = lessonId
    BY <1>2, OneSave
  <2>2. ended' = ended \ {lessonId}
    BY <1>2 DEF SaveOnly
  <2> QED
    BY <1>1, <1>2, <2>1, <2>2 DEF Saves
<1>3. ASSUME NEW l \in AllLessons, Open(l) \/ NavigateToLesson(l) PROVE EndedInv'
  <2>1. calls' = calls \cup {GetVideoUrl(l, 1)} /\ UNCHANGED <<progress, ended>>
    BY <1>3 DEF Open, NavigateToLesson, Sends, Clicks
  <2>2. \A m : Saves(m)' = Saves(m)
    BY <2>1, LoadIs DEF Saves
  <2> QED
    BY <1>1, <2>1, <2>2
<1>4. CASE Leave
  <2>1. PICK lost \in SUBSET (calls \ Loads) :
          calls' = (calls \ Loads) \ lost /\ ended' = ended \ {c.lesson : c \in lost}
    BY <1>4 DEF Leave
  <2>2. \A l \in ended' : Saves(l)' = Saves(l)
    BY <2>1 DEF Saves, Loads
  <2> QED
    BY <1>1, <1>4, <2>1, <2>2 DEF Leave, Clicks
<1>5. CASE TimeUpdate
  BY <1>2, <1>5 DEF TimeUpdate, Clicks
<1>6. ASSUME NEW N, NEW t \in N, NEW n \in 1..3, Finish, calls' = calls \cup N,
             UNCHANGED progress,
             t.kind = "save", t.lesson = lessonId, t.completed, t.id = <<clicks + 1, n>>,
             \A c \in N : c.kind = "save" =>
               c.lesson = lessonId /\ (c = t \/ \E m \in 1..3 : m < n /\ c.id = <<clicks + 1, m>>)
      PROVE  EndedInv'
  <2> SUFFICES ASSUME NEW l \in ended'
               PROVE  /\ Saves(l)' = {} => progress'[l].completed
                      /\ \A c \in Saves(l)' : AtLast(c)' => c.completed
    BY DEF EndedInv
  <2>1. CASE l = lessonId
    <3>1. l \in AllLessons /\ t.lesson = l
      BY <1>6, <2>1 DEF LPTypeOK
    <3> QED
      BY <1>6, <3>1, EndedSent
  <2>2. CASE l # lessonId
    <3>1. l \in ended /\ Saves(l)' = Saves(l)
      BY <1>6, <2>2 DEF Finish, Saves
    <3> QED
      BY <1>6, <3>1, EndedKept
  <2> QED
    BY <2>1, <2>2
<1>7. CASE OnVideoEnded
  <2>1. CASE shown \in Quizzes
    BY <1>2, <1>7, <2>1 DEF OnVideoEnded, Clicks
  <2>2. CASE shown \notin Quizzes
    <3>1. PICK t : /\ /\ t = SaveProgress(1, TRUE, None) /\ t.id = <<clicks + 1, 1>>
                   /\ t.kind = "save"
                   /\ t.lesson = lessonId /\ t.answers = None /\ t.completed
      BY FinalSave
    <3>2. calls' = calls \cup {t} /\ Finish /\ UNCHANGED progress
      BY <1>7, <2>2, <3>1 DEF OnVideoEnded, Clicks
    <3> QED
      <4>1. PICK N : N = {t} /\ t \in N /\ calls' = calls \cup N
        BY <3>2
      <4>2. \A c \in N : c = t
        BY <4>1
      <4>3. \A c \in N : c.kind = "save" =>
              c.lesson = lessonId /\ (c = t \/ \E m \in 1..3 : m < 1 /\ c.id = <<clicks + 1, m>>)
        BY <3>1, <4>2
      <4>4. 1 \in 1..3
        OBVIOUS
      <4> QED
        BY <1>6, <3>1, <3>2, <4>1, <4>3, <4>4
  <2> QED
    BY <2>1, <2>2
<1>8. CASE SelectAnswer \/ NextQuestion
  BY <1>2, <1>8 DEF SelectAnswer, NextQuestion, Clicks
<1>9. CASE CompleteQuiz
  <2>1. PICK s, t :
          /\ CompletingSaves = {s, t} /\ s.id = <<clicks + 1, 1>> /\ t.id = <<clicks + 1, 2>>
          /\ s.completed = FALSE /\ t.completed
          /\ \A c \in {s, t} : c.kind = "save" /\ c.lesson = lessonId /\ c.answers = answered
    BY CompletingIs
  <2>2. Finish /\ UNCHANGED progress
        /\ \/ calls' = calls \cup {s, t}
           \/ calls' = calls \cup {s, t, GetVideoUrl(lessonId + 1, 3)}
    BY <1>9, <2>1 DEF CompleteQuiz, Clicks, Sends
  <2>3. GetVideoUrl(lessonId + 1, 3).kind # "save"
    BY LoadIs
  <2>4. PICK N : calls' = calls \cup N /\ t \in N /\ \A c \in N : c.kind = "save" => c \in {s, t}
    BY <2>2, <2>3
  <2>5. 2 \in 1..3 /\ 1 \in 1..3 /\ 1 < 2
    OBVIOUS
  <2>6. \A c \in N : c.kind = "save" =>
          c.lesson = lessonId /\ (c = t \/ \E m \in 1..3 : m < 2 /\ c.id = <<clicks + 1, m>>)
    BY <2>1, <2>4, <2>5
  <2>7. t.kind = "save" /\ t.lesson = lessonId
    BY <2>1
  <2> QED
    BY <1>6, <2>1, <2>2, <2>4, <2>5, <2>6, <2>7
<1>10. CASE OnTimer \/ RunEffect \/ \E c \in calls : Hang(c)
  BY <1>1, <1>10 DEF OnTimer, RunEffect, Hang, Saves, history
<1>11. ASSUME NEW c \in calls, ReadProgress(c) \/ ReadCompleted(c) PROVE EndedInv'
  <2>1. PICK d : d.kind # "save" /\ calls' = (calls \ {c}) \cup {d}
    BY <1>11 DEF ReadProgress, ReadCompleted, Answer, LPTypeOK,
           Load, Save
  <2>2. c.kind # "save" /\ UNCHANGED <<progress, ended>>
    BY <1>11 DEF ReadProgress, ReadCompleted, Answer, history
  <2> QED
    BY <1>1, <2>1, <2>2 DEF Saves
<1>12. ASSUME NEW c \in calls, Loaded(c) \/ LoadFails(c) PROVE EndedInv'
  BY <1>1, <1>12 DEF Loaded, LoadFails, Saves
<1>13. ASSUME NEW c \in calls, Store(c) PROVE EndedInv'
  BY <1>13, EndedStored DEF Store, EndedInv
<1>14. ASSUME NEW c \in calls, StoreEarly(c) \/ SaveFails(c) PROVE EndedInv'
  <2>1. ended' = ended \ {c.lesson} /\ calls' = calls \ {c}
        /\ \A l \in AllLessons \ {c.lesson} : progress'[l] = progress[l]
    BY <1>14, Updated DEF StoreEarly, SaveFails, UpdateLessonProgress
  <2> QED
    BY <1>1, <2>1 DEF Saves, LPTypeOK
<1> QED
  BY <1>1, <1>3, <1>4, <1>5, <1>7, <1>8, <1>9, <1>10, <1>11, <1>12, <1>13, <1>14
  DEF LPNext, Serve, lpVars, history, Saves
-----------------------------------------------------------------------------
(* LessonInv holds at the start.                                            *)
LEMMA LessonInit ==
  LPInit => LessonInv
<1> SUFFICES ASSUME LPInit PROVE LessonInv
  OBVIOUS
<1>1. LPTypeOK /\ AnswersInv /\ QuizInv
  BY LessonTypeInit, AnswersInit, QuizInit
<1>2. IdInv /\ LoadInv /\ EndedInv
  BY DEF LPInit, IdInv, LoadInv, EndedInv, Visible, Loads
<1> QED
  BY <1>1, <1>2 DEF LessonInv

(* Every step keeps LessonInv.                                              *)
LEMMA LessonNext ==
  LessonInv /\ [LPNext]_lpVars => LessonInv'
  BY LessonTypeNext, IdNext, LoadNext, AnswersNext, QuizNext, EndedNext DEF LessonInv

(* LessonInv is an invariant of the page that plays a lesson.               *)
LEMMA LessonInductive ==
  LPSpec => []LessonInv
  BY LessonInit, LessonNext, PTL DEF LPSpec

(* However loads and saves cross, and however many lessons and questions    *)
(* there are, what is stored of a quiz is what its own questions were       *)
(* answered with; a quiz of one question is completed with its answer, and  *)
(* a longer one never is, in whatever order its timers and its effect run.  *)
THEOREM QuizzesAreAnswered ==
  LPSpec => []QuizIsAnswered
<1>1. ASSUME LessonInv PROVE QuizIsAnswered
  <2>1. LPTypeOK /\ AnswersOfOwnQuiz
    BY <1>1 DEF LessonInv, AnswersInv, OwnAnswers, AnswersOfOwnQuiz
  <2>2. ASSUME ~late, NEW l \in Quizzes, progress[l].completed
        PROVE  Questions[l] = 1 /\ \A q \in 1..Questions[l] : progress[l].answers[q] # None
    <3>1. Questions[l] = 1 /\ progress[l].answers[1] # None
      BY <1>1, <2>2 DEF LessonInv, QuizInv, AllAnswered
    <3>2. \A q \in 1..Questions[l] : q = 1
      BY <3>1
    <3> QED
      BY <3>1, <3>2
  <2> QED
    BY <2>1, <2>2 DEF QuizIsAnswered, CompletedQuizIsAnswered, LongQuizStaysOpen
<1> QED
  BY <1>1, LessonInductive, PTL

(* A finished lesson is stored as completed, whatever else is on its way.   *)
THEOREM EndedLessonsAreStored ==
  LPSpec => []EndedIsStored
<1>1. LessonInv => EndedIsStored
  BY DEF LessonInv, EndedInv, EndedIsStored
<1> QED
  BY <1>1, LessonInductive, PTL
=============================================================================
