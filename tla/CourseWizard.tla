---------------------------- MODULE CourseWizard ----------------------------
(* The instructor's four-step course wizard against the tables it fills.    *)
(* Step 1 creates the course, step 2 its sections, step 3 its lessons; step *)
(* 4 uploads a video for a lesson, takes its quiz, and saves.  The page is  *)
(* one state: what the signals show, what it believes it has created        *)
(* (courseId, sectionIds, lessonIds), and the calls that are under way.     *)
(*                                                                          *)
(* A call has an effect and an answer.  Both are one step here: the effect  *)
(* depends on the call's arguments and the tables only, so that whatever    *)
(* the user does between the two could as well be done before.              *)
EXTENDS Integers, Sequences, FiniteSets, SequencesExt

CONSTANTS
  MaxSections, \* bound: sections in the draft at a time
  PerSection,  \* how many lessons a section can get
  MaxLessons,  \* bound: lessons in the draft at a time
  MaxClicks,   \* bound: clicks on Next, Save and Submit that call the server
  MaxFaults,   \* bound: calls that fail, before or behind their effect
  MaxUploads,  \* bound: videos uploaded
  MaxEdits,    \* bound: changes of the draft
  None

ASSUME BoundsAssumption ==
  /\ {MaxSections, PerSection, MaxLessons, MaxClicks, MaxFaults, MaxUploads, MaxEdits} \subseteq Nat
  /\ MaxSections <= MaxLessons /\ PerSection >= 1

VARIABLES
  isEdit,      \* the page was opened with a course's id
  step,        \* the step that is shown
  title,       \* step1Model, of which the title (and its slug) must be unique
  sections,    \* the titles, in order
  lessons,     \* for each position of a section, its lessons
  contents,    \* for each position of a lesson, its video and its quiz
  courseId, sectionIds, lessonIds,
  next,        \* the nextStep() that awaits its calls
  pub,         \* the publish() that awaits its calls
  left,        \* publish() has navigated away
  uploads,     \* the videos on their way
  calls,       \* the calls no answer to which has arrived
  clicks, faults, sent, edits,
  courses, sectionRows, lessonRows, stored,
  back,        \* history: the user went back, or something failed
  moved,       \* history: positions changed meaning while something used them
  asked        \* history: the contents that the last publish() sent

page   == <<isEdit, title, sections, lessons, contents, uploads, sent, edits>>
ids    == <<courseId, sectionIds, lessonIds>>
tables == <<courses, sectionRows, lessonRows, stored>>
cwVars == <<page, ids, step, next, pub, left, calls, clicks, faults, tables,
            back, moved, asked>>

Titles   == {"first", "second"}
Sections == 1..MaxSections                   \* a section is named by a number
Lessons  == Sections \X (1..PerSection)      \* a lesson is named by its section
Empty    == [video |-> None, quiz |-> None]
NoWave   == [wave |-> 0, kind |-> None, results |-> <<>>]
Ids      == Nat \X (Nat \ {0})     \* of a row: the click and the call it came from
Places   == 1..MaxSections
Spots    == 1..MaxLessons
Status   == {"DRAFT", "PENDING", "APPROVED"}
Content  == [video : Lessons \cup {None}, quiz : Lessons \cup {None}]

ASSUME NoneAssumption == None \notin Ids \cup Lessons

(* Where the draft has its lessons, each by its section and its place in    *)
(* there, and where step 4 shows the one that has or would get a place.     *)
Slots == {s \in Places \X Spots : s[1] <= Len(sections) /\ s[2] <= Len(lessons[s[1]])}
GlobalLessonIndex(si, li) == Cardinality({s \in Slots : s[1] < si}) + li
Index(s)  == GlobalLessonIndex(s[1], s[2])
Lesson(s) == lessons[s[1]][s[2]]

Submitting == next # NoWave
Saving     == pub # NoWave
-----------------------------------------------------------------------------
(* A new course, or one that has two sections with a lesson each.           *)
Fresh ==
  /\ isEdit = FALSE /\ sections = <<>> /\ courseId = None
  /\ lessons = [i \in Places |-> <<>>]
  /\ sectionIds = <<>> /\ lessonIds = <<>>
  /\ courses = {} /\ sectionRows = {} /\ lessonRows = {}

Loaded ==
  /\ isEdit = TRUE /\ courseId = <<0, 1>>
  /\ sections = [i \in Places |-> i]
  /\ lessons = [i \in Places |-> << <<i, 1>> >>]
  /\ sectionIds = [i \in Places |-> <<0, i>>]
  /\ lessonIds = [i \in Places |-> <<0, i>>]
  /\ courses = {[id |-> <<0, 1>>, title |-> "first", status |-> "APPROVED"]}
  /\ sectionRows = {[id |-> <<0, i>>, title |-> i] : i \in Places}
  /\ lessonRows = {[id |-> <<0, i>>, title |-> <<i, 1>>, section |-> <<0, i>>] : i \in Places}

CWInit ==
  /\ Fresh \/ Loaded
  /\ step = 1 /\ title = "first" /\ contents = [p \in Spots |-> Empty]
  /\ next = NoWave /\ pub = NoWave /\ left = FALSE /\ uploads = {} /\ sent = 0 /\ edits = 0
  /\ calls = {} /\ clicks = 0 /\ faults = 0 /\ stored = {}
  /\ back = FALSE /\ moved = FALSE /\ asked = {}
-----------------------------------------------------------------------------
(* Editing the draft.                                                       *)
Edits == /\ ~left
         /\ UNCHANGED <<isEdit, uploads, sent, step, next, pub, left, calls, clicks,
                        faults, tables, back, asked, courseId>>

(* Contents are keyed by position, and calls in flight were made for        *)
(* positions: a change of the lists under them moves them.                  *)
InUse == ~isEdit /\ (Submitting \/ Saving \/ \E p \in Spots : contents[p] # Empty)
Moves == moved' = (moved \/ InUse)
Counted == edits < MaxEdits /\ edits' = edits + 1

Retitle ==
  /\ Edits /\ Counted /\ step = 1 /\ title' \in Titles \ {title}
  /\ UNCHANGED <<sections, lessons, contents, sectionIds, lessonIds, moved>>

AddSection ==
  /\ Edits /\ Counted /\ step = 2 /\ Moves
  /\ Len(sections) < MaxSections
  /\ \E s \in Sections \ ToSet(sections) :
       /\ \A t \in Sections \ ToSet(sections) : s <= t
       /\ sections' = Append(sections, s)
  /\ UNCHANGED <<title, lessons, contents, sectionIds, lessonIds>>

(* The lists of the later sections move up; sectionIds and lessonIds stay.  *)
Closed(l, n, index) ==
  [i \in Places |-> IF i > n THEN <<>> ELSE IF i >= index THEN l[i + 1] ELSE l[i]]

RemoveSection(index) ==
  /\ Edits /\ Counted /\ step = 2 /\ index \in 1..Len(sections)
  /\ sections' = RemoveAt(sections, index)
  /\ lessons' = Closed(lessons, Len(sections) - 1, index)
  /\ moved' = (moved \/ InUse \/ (isEdit /\ lessons[index] # <<>>))
  /\ UNCHANGED <<title, contents, sectionIds, lessonIds>>

(* The id of a lesson that is not saved yet is the empty string, put where  *)
(* the lesson has been put.                                                 *)
SplicedLast(si) == Append(lessonIds, None)

Spliced(si) ==
  LET at == GlobalLessonIndex(si, Len(lessons[si]) + 1)
  IN  IF at > Len(lessonIds) THEN Append(lessonIds, None) ELSE InsertAt(lessonIds, at, None)

AddLesson(si) ==
  /\ Edits /\ Counted /\ step = 3 /\ Moves /\ si \in 1..Len(sections)
  /\ Cardinality(Slots) < MaxLessons
  /\ \E k \in 1..PerSection :
       /\ <<sections[si], k>> \notin ToSet(lessons[si])
       /\ lessons' = [lessons EXCEPT ![si] = Append(@, <<sections[si], k>>)]
  /\ lessonIds' = Spliced(si)
  /\ UNCHANGED <<title, sections, contents, sectionIds>>

RemoveLesson(si, li) ==
  /\ Edits /\ Counted /\ step = 3 /\ Moves
  /\ <<si, li>> \in Slots
  /\ LET at == GlobalLessonIndex(si, li)
     IN  lessonIds' = IF at > Len(lessonIds) THEN lessonIds ELSE RemoveAt(lessonIds, at)
  /\ lessons' = [lessons EXCEPT ![si] = RemoveAt(@, li)]
  /\ UNCHANGED <<title, sections, contents, sectionIds>>

(* Questions, their options and answers are one quiz, made for the lesson   *)
(* that step 4 shows.                                                       *)
EditQuiz(s) ==
  /\ Edits /\ Counted /\ step = 4
  /\ \E q \in {Lesson(s), None} : contents' = [contents EXCEPT ![Index(s)].quiz = q]
  /\ UNCHANGED <<title, sections, lessons, sectionIds, lessonIds, moved>>
-----------------------------------------------------------------------------
(* Calling the server.  Each click is a wave of calls; a call's position in *)
(* its wave is its place in what Promise.all returns, and the row it makes  *)
(* is named after both.                                                     *)
Call(what, at, args) == [kind |-> what, id |-> <<clicks + 1, at>>, args |-> args]

Send(new, answered) == calls' = (calls \ answered) \cup new /\ clicks' = clicks + 1

Wave(what, places) == [wave |-> clicks + 1, kind |-> what, results |-> [p \in places |-> None]]

(* sectionIds[si], which is undefined behind the end of the list.           *)
SectionId(si) == IF si <= Len(sectionIds) THEN sectionIds[si] ELSE None

LessonCalls ==
  {Call("lessons", Index(s), [title |-> Lesson(s), section |-> SectionId(s[1])]) : s \in Slots}

ClicksTwice == /\ ~left /\ clicks < MaxClicks
               /\ UNCHANGED <<page, courseId, sectionIds, pub, left, faults, tables,
                              back, moved, asked>>

Clicks == /\ ~left /\ ~Submitting /\ clicks < MaxClicks
          /\ UNCHANGED <<page, courseId, sectionIds, pub, left, faults, tables, back,
                         moved, asked>>

NextStep1 ==
  /\ Clicks /\ step = 1 /\ UNCHANGED lessonIds
  /\ \/ isEdit /\ step' = 2 /\ UNCHANGED <<next, calls, clicks>>
     \/ /\ ~isEdit /\ UNCHANGED step
        /\ next' = Wave("course", 1..1) /\ Send({Call("course", 1, title)}, {})

NextStep2 ==
  /\ Clicks /\ step = 2 /\ sections # <<>> /\ UNCHANGED lessonIds
  /\ \/ isEdit /\ step' = 3 /\ UNCHANGED <<next, calls, clicks>>
     \/ /\ ~isEdit /\ courseId # None /\ UNCHANGED step
        /\ next' = Wave("sections", 1..Len(sections))
        /\ Send({Call("sections", i, sections[i]) : i \in 1..Len(sections)}, {})

(* Without sections, which can only be removed while they are being         *)
(* created, there is nothing to wait for.                                   *)
NextStep3 ==
  /\ Clicks /\ step = 3
  /\ \/ isEdit /\ step' = 4 /\ UNCHANGED <<lessonIds, next, calls, clicks>>
     \/ /\ ~isEdit /\ courseId # None /\ sections = <<>>
        /\ step' = 4 /\ lessonIds' = <<>> /\ UNCHANGED <<next, calls, clicks>>
     \/ /\ ~isEdit /\ courseId # None /\ sections # <<>> /\ UNCHANGED <<step, lessonIds>>
        /\ \A i \in 1..Len(sections) : lessons[i] # <<>>
        /\ next' = Wave("lessons", 1..Cardinality(Slots)) /\ Send(LessonCalls, {})

PrevStep ==
  /\ ~left /\ step > 1 /\ step' = step - 1 /\ back' = TRUE
  /\ uploads' = {[u EXCEPT !.alive = FALSE] : u \in uploads}
  /\ UNCHANGED <<isEdit, title, sections, lessons, contents, sent, edits, ids, next, pub, left,
                 calls, clicks, faults, tables, moved, asked>>
-----------------------------------------------------------------------------
(* publish(): the course first, then the contents of the lessons that have  *)
(* a video.  A new course that stays a draft is not updated at all.         *)
LessonId(p) == IF p <= Len(lessonIds) THEN lessonIds[p] ELSE None

ContentCalls ==
  {Call("contents", Index(s), [lesson |-> LessonId(Index(s)), content |-> contents[Index(s)]]) :
    s \in {t \in Slots : contents[Index(t)].video # None}}

SendContentsUnawaited(answered) ==
  /\ left' = TRUE /\ pub' = NoWave /\ asked' = {c.args : c \in ContentCalls}
  /\ Send(ContentCalls, answered)

SendContents(answered) ==
  IF isEdit \/ ContentCalls = {}
  THEN /\ left' = TRUE /\ pub' = NoWave /\ calls' = calls \ answered
       /\ asked' = {} /\ UNCHANGED clicks
  ELSE /\ pub' = Wave("contents", {c.id[2] : c \in ContentCalls})
       /\ asked' = {c.args : c \in ContentCalls}
       /\ Send(ContentCalls, answered) /\ UNCHANGED left

Publish(s) ==
  /\ ~left /\ ~Saving /\ step = 4 /\ courseId # None /\ clicks < MaxClicks
  /\ IF isEdit \/ s = "PENDING"
     THEN /\ pub' = Wave("status", 1..1)
          /\ Send({Call("status", 1, [course |-> courseId, status |-> s, title |-> title])}, {})
          /\ UNCHANGED <<left, asked>>
     ELSE SendContents({})
  /\ UNCHANGED <<page, ids, step, next, faults, tables, back, moved>>
-----------------------------------------------------------------------------
(* What the server does with a call, and when it refuses one.               *)
Doc(id) == IF \E d \in stored : d.lesson = id
           THEN (CHOOSE d \in stored : d.lesson = id).content ELSE Empty
Upsert(id, content) ==
  stored' = {d \in stored : d.lesson # id} \cup {[lesson |-> id, content |-> content]}

Taken(t, id) == \E c \in courses : c.title = t /\ c.id # id

Possible(c) ==
  CASE c.kind = "course"   -> ~Taken(c.args, c.id)
    [] c.kind = "status"   -> isEdit => ~Taken(c.args.title, c.args.course)
    [] c.kind = "contents" -> \E l \in lessonRows : l.id = c.args.lesson
    [] OTHER               -> TRUE

Create(c) ==
  /\ c.kind = "course"
  /\ courses' = courses \cup {[id |-> c.id, title |-> c.args, status |-> "DRAFT"]}
  /\ UNCHANGED <<sectionRows, lessonRows, stored>>

CreateSection(c) ==
  /\ c.kind = "sections"
  /\ sectionRows' = sectionRows \cup {[id |-> c.id, title |-> c.args]}
  /\ UNCHANGED <<courses, lessonRows, stored>>

CreateLesson(c) ==
  /\ c.kind = "lessons"
  /\ lessonRows' = lessonRows \cup
       {[id |-> c.id, title |-> c.args.title, section |-> c.args.section]}
  /\ UNCHANGED <<courses, sectionRows, stored>>

Update(c) ==
  /\ c.kind = "status"
  /\ courses' = {IF r.id # c.args.course THEN r
                 ELSE [r EXCEPT !.status = c.args.status,
                                !.title = IF isEdit THEN c.args.title ELSE @] : r \in courses}
  /\ UNCHANGED <<sectionRows, lessonRows, stored>>

(* One document per lesson; a field that is not sent keeps its value.       *)
CreateContent(c) ==
  /\ c.kind = "contents"
  /\ Upsert(c.args.lesson,
       [video |-> c.args.content.video,
        quiz |-> IF c.args.content.quiz = None THEN Doc(c.args.lesson).quiz
                 ELSE c.args.content.quiz])
  /\ UNCHANGED <<courses, sectionRows, lessonRows>>

Effect(c) ==
  Possible(c) /\ (\/ Create(c) \/ CreateSection(c) \/ CreateLesson(c)
                  \/ Update(c) \/ CreateContent(c))
-----------------------------------------------------------------------------
(* The answers.  A wave ends when all of its calls have succeeded, or with  *)
(* the first failure; the calls it leaves behind go on, unheard.            *)
Settle(results, at, id) == [results EXCEPT ![at] = id]
Complete(w) == None \notin ToSet(w.results)
Waits(w, c) == w.wave = c.id[1]
With(w, c)  == [w EXCEPT !.results = Settle(@, c.id[2], c.id)]

Created(w) ==
  /\ next' = NoWave
  /\ \/ /\ w.kind = "course" /\ step' = 2 /\ courseId' = w.results[1]
        /\ UNCHANGED <<sectionIds, lessonIds>>
     \/ /\ w.kind = "sections" /\ step' = 3 /\ sectionIds' = w.results
        /\ UNCHANGED <<courseId, lessonIds>>
     \/ /\ w.kind = "lessons" /\ step' = 4 /\ lessonIds' = w.results
        /\ UNCHANGED <<courseId, sectionIds>>

Collected(c) ==
  /\ Waits(next, c) /\ calls' = calls \ {c}
  /\ IF Complete(With(next, c)) THEN Created(With(next, c))
     ELSE next' = With(next, c) /\ UNCHANGED <<step, ids>>
  /\ UNCHANGED <<pub, left, clicks, asked, back>>

Published(c) ==
  /\ Waits(pub, c) /\ UNCHANGED <<next, step, ids, back>>
  /\ \/ pub.kind = "status" /\ SendContents({c})
     \/ /\ pub.kind = "contents" /\ calls' = calls \ {c}
        /\ IF Complete(With(pub, c)) THEN left' = TRUE /\ pub' = NoWave
           ELSE pub' = With(pub, c) /\ UNCHANGED left
        /\ UNCHANGED <<clicks, asked>>

Unheard(c) ==
  /\ ~Waits(next, c) /\ ~Waits(pub, c) /\ calls' = calls \ {c}
  /\ UNCHANGED <<next, pub, left, step, ids, clicks, asked, back>>

FailedBusy(c) ==
  /\ calls' = calls \ {c} /\ back' = TRUE
  /\ pub' = (IF Waits(pub, c) THEN NoWave ELSE pub)
  /\ UNCHANGED <<next, left, step, ids, clicks, asked>>

Failed(c) ==
  /\ calls' = calls \ {c} /\ back' = TRUE
  /\ next' = (IF Waits(next, c) THEN NoWave ELSE next)
  /\ pub' = (IF Waits(pub, c) THEN NoWave ELSE pub)
  /\ UNCHANGED <<left, step, ids, clicks, asked>>

Served(c) ==
  /\ Effect(c) /\ (Collected(c) \/ Published(c) \/ Unheard(c))
  /\ UNCHANGED <<page, faults, moved>>

Refused(c) ==
  /\ ~Possible(c) /\ Failed(c) /\ UNCHANGED <<page, faults, tables, moved>>

(* The call is lost, or its answer is.                                      *)
Lost(c) ==
  /\ faults < MaxFaults /\ faults' = faults + 1
  /\ Effect(c) \/ UNCHANGED tables
  /\ Failed(c) /\ UNCHANGED <<page, moved>>

Answer(c) == c \in calls /\ (Served(c) \/ Refused(c))
-----------------------------------------------------------------------------
(* VideoUpload: the file goes to S3, then its key to the lesson's document; *)
(* the page is told at last, unless the user has left step 4 meanwhile.     *)
Uploading == UNCHANGED <<isEdit, edits, title, sections, lessons, ids, step, next, pub, left, calls,
                         clicks, courses, sectionRows, lessonRows, back, moved, asked>>

SelectFile(s) ==
  /\ Uploading /\ ~left /\ step = 4 /\ sent < MaxUploads /\ sent' = sent + 1
  /\ LessonId(Index(s)) # None /\ ~\E u \in uploads : u.at = Index(s) /\ u.alive
  /\ uploads' = uploads \cup
       {[video |-> Lesson(s), id |-> LessonId(Index(s)), at |-> Index(s), alive |-> TRUE]}
  /\ UNCHANGED <<contents, faults, stored>>

UpdateS3Key(u) ==
  /\ Uploading /\ u \in uploads /\ uploads' = uploads \ {u}
  /\ Upsert(u.id, [Doc(u.id) EXCEPT !.video = u.video])
  /\ contents' = (IF u.alive /\ ~left THEN [contents EXCEPT ![u.at].video = u.video]
                  ELSE contents)
  /\ UNCHANGED <<sent, faults>>

UploadFails(u) ==
  /\ Uploading /\ u \in uploads /\ faults < MaxFaults /\ faults' = faults + 1
  /\ uploads' = uploads \ {u} /\ UNCHANGED <<contents, stored, sent>>
-----------------------------------------------------------------------------
Edit ==
  \/ Retitle \/ AddSection
  \/ \E i \in Places : RemoveSection(i) \/ AddLesson(i)
  \/ \E i \in Places, j \in Spots : RemoveLesson(i, j)
  \/ \E s \in Slots : EditQuiz(s) \/ SelectFile(s)
Click ==
  \/ NextStep1 \/ NextStep2 \/ NextStep3 \/ PrevStep
  \/ \E s \in {"DRAFT", "PENDING"} : Publish(s)
World ==
  \/ \E c \in calls : Answer(c) \/ Lost(c)
  \/ \E u \in uploads : UpdateS3Key(u) \/ UploadFails(u)
CWNext == Edit \/ Click \/ World

CWSpec == CWInit /\ [][CWNext]_cwVars
(* A browser settles every call, if only with an error.                     *)
CWFairSpec == CWSpec /\ WF_cwVars(\E c \in calls : Answer(c))
-----------------------------------------------------------------------------
CallOK(c) ==
  /\ c.id \in (1..clicks) \X (Nat \ {0})
  /\ \/ c.kind = "course" /\ c.args \in Titles
     \/ c.kind = "sections" /\ c.args \in Sections
     \/ c.kind = "lessons" /\ c.args \in [title : Lessons, section : Ids \cup {None}]
     \/ c.kind = "status" /\ c.args \in [course : Ids, status : Status, title : Titles]
     \/ c.kind = "contents" /\ c.args \in [lesson : Ids \cup {None}, content : Content]

WaveOK(w, kinds) ==
  /\ w.wave \in 1..clicks /\ w.kind \in kinds
  /\ w = [wave |-> w.wave, kind |-> w.kind, results |-> w.results]
  /\ w.results \in [DOMAIN w.results -> Ids \cup {None}]

CWTypeOK ==
  /\ isEdit \in BOOLEAN /\ step \in 1..4 /\ title \in Titles /\ left \in BOOLEAN
  /\ sections \in Seq(Sections) /\ lessons \in [Places -> Seq(Lessons)]
  /\ contents \in [Spots -> Content] /\ courseId \in Ids \cup {None}
  /\ sectionIds \in Seq(Ids \cup {None}) /\ lessonIds \in Seq(Ids \cup {None})
  /\ \/ next = NoWave
     \/ /\ WaveOK(next, {"course", "sections", "lessons"})
        /\ next.results \in Seq(Ids \cup {None})
  /\ pub = NoWave \/ WaveOK(pub, {"status", "contents"})
  /\ \A c \in calls : CallOK(c)
  /\ uploads \subseteq [video : Lessons, id : Ids, at : Spots, alive : BOOLEAN]
  /\ clicks \in Nat /\ faults \in 0..MaxFaults /\ sent \in 0..MaxUploads /\ edits \in 0..MaxEdits
  /\ courses \subseteq [id : Ids, title : Titles, status : Status]
  /\ sectionRows \subseteq [id : Ids, title : Sections]
  /\ lessonRows \subseteq [id : Ids, title : Lessons, section : Ids \cup {None}]
  /\ stored \subseteq [lesson : Ids, content : Content]
  /\ asked \subseteq [lesson : Ids \cup {None}, content : Content]
  /\ back \in BOOLEAN /\ moved \in BOOLEAN

(* The lessons that the page shows under a section are those that were      *)
(* added to it: removeSection() moves the lists of the later sections up.   *)
LessonsStayInSection ==
  \A i \in 1..Len(sections) : \A l \in ToSet(lessons[i]) : l[1] = sections[i]

(* A lesson is created in the row of the section that it was added to,      *)
(* though the calls of a step are answered in any order and sectionIds is   *)
(* matched with the sections by position only.                              *)
LessonInItsSection ==
  moved \/ \A l \in lessonRows : \E s \in sectionRows :
             s.id = l.section /\ s.title = l.title[1]

(* The video and the quiz that the instructor gave to a lesson are stored   *)
(* with that lesson, in any order of adding, removing, uploading and        *)
(* saving; unless positions were moved while contents were attached to      *)
(* them, which the wizard does not follow.                                  *)
ContentInItsLesson ==
  moved \/ \A l \in lessonRows : /\ Doc(l.id).video \in {None, l.title}
                                 /\ Doc(l.id).quiz \in {None, l.title}

(* Whatever is added, removed, uploaded and saved in whatever order, what   *)
(* the instructor enters stays with the section and the lesson that it was  *)
(* entered for, on the page and in the rows and documents behind it.        *)
EntriesInPlace ==
  CWTypeOK /\ LessonsStayInSection /\ LessonInItsSection /\ ContentInItsLesson

(* The wizard leaves for the dashboard only when everything that publish()  *)
(* sent has been stored: a video for each lesson it sent contents of, and a *)
(* quiz where it sent one.                                                  *)
LeavesWhenStored ==
  left => \A a \in asked :
            /\ Doc(a.lesson).video # None
            /\ a.content.quiz # None => Doc(a.lesson).quiz # None

(* Each title has one row, unless the user has gone back or a call failed:  *)
(* no sequence of clicks alone creates anything twice.                      *)
NothingTwice ==
  back \/ /\ \A s, t \in sectionRows : s.title = t.title => s = t
          /\ \A l, m \in lessonRows : l.title = m.title => l = m
          /\ Cardinality(courses) <= 1

(* The buttons come back: a step that was submitted is answered or fails,   *)
(* and a course that is being saved is saved or is not.                     *)
ButtonsComeBack == (Submitting ~> ~Submitting) /\ (Saving ~> ~Saving)
=============================================================================
