---------------------------- MODULE LessonPlayer ----------------------------
(* The page that plays a lesson, its quiz, and the two routes it calls: one *)
(* loads a lesson, one stores the progress.  A step is what one event of    *)
(* the browser does, or a request between two awaits.  Calls may be         *)
(* answered in any order; a load is not cancelled by the next one.  The     *)
(* browser's buttons change the lesson at any time.                         *)
(* The effect of the quiz reads the index and the answers that it sets, so  *)
(* every change of them runs it again, and it starts at the first question: *)
(* the change detection that runs it is a step of its own after a timer.    *)
(* Left out: positions in the video and what else only shows.               *)
EXTENDS Integers, FiniteSets

CONSTANTS
  LessonCount, \* the lessons of the course, in its order
  Questions,   \* how many questions the quiz of a lesson has; 0: no quiz
  MaxClicks,   \* bound: events of the browser
  MaxFailures, \* bound: calls that fail, are overtaken or hang
  None

AllLessons == 1..LessonCount
Quizzes    == {l \in AllLessons : Questions[l] > 0}
Numbers    == UNION {1..Questions[l] : l \in AllLessons}

(* What the properties rest on.                                             *)
ASSUME ConstantsAssumption ==
  /\ LessonCount \in Nat \ {0} /\ Questions \in [AllLessons -> Nat]
  /\ MaxClicks \in Nat /\ MaxFailures \in Nat
  /\ None \notin AllLessons \cup [Numbers -> AllLessons \cup {None}]

VARIABLES
  alive, lessonId, loading, failed, \* the page: its route and what it shows
  shown,     \* the lesson whose video and quiz were loaded last
  ticked, congratulated, \* the completed lessons, the overlay at the end
  index, answered, moves, \* the quiz: question, answers given, number of timers
  calls, clicks, failures,
  progress,  \* the documents of the backend
  ended,     \* history: lessons whose last save, none of them lost or overtaken, completes them
  newest,    \* history: the load sent last
  late,      \* history: a load was answered behind a later one
  hung       \* calls left behind a refresh that the interceptor has lost

page    == <<alive, lessonId, loading, failed, shown, ticked, congratulated>>
quiz    == <<index, answered, moves>>
history == <<ended, newest, late, hung>>
lpVars  == <<page, quiz, calls, clicks, failures, progress, history>>

(* An answer is told by the lesson to whose quiz it was given.              *)
Answers   == [Numbers -> AllLessons \cup {None}]
NoAnswers == [q \in Numbers |-> None]
Progress  == [completed : BOOLEAN, answers : Answers]
Ids       == (1..MaxClicks) \X (1..3)
Load      == [id : Ids, kind : {"sent", "read", "found"}, lesson : AllLessons,
              answers : Answers, ticked : SUBSET AllLessons]
Save      == [id : Ids, kind : {"save"}, lesson : AllLessons, completed : BOOLEAN,
              answers : Answers \cup {None}]

Saves(l) == {c \in calls : c.kind = "save" /\ c.lesson = l}
Loads    == {c \in calls : c.kind # "save"}
Before(a, b) == a[1] < b[1] \/ (a[1] = b[1] /\ a[2] < b[2])

Visible == alive /\ ~loading /\ ~failed
HasQuiz == Visible /\ shown \in Quizzes

(* Earlier visits: only the first question of a quiz is ever shown.         *)
Earlier(l, p) ==
  /\ p.answers \in {NoAnswers} \cup IF l \in Quizzes THEN {[NoAnswers EXCEPT ![1] = l]} ELSE {}
  /\ p.completed => Questions[l] = 0 \/ (Questions[l] = 1 /\ p.answers # NoAnswers)

LPInit ==
  /\ alive = FALSE /\ lessonId \in AllLessons /\ loading = FALSE /\ failed = FALSE /\ shown = None
  /\ ticked = {} /\ congratulated = FALSE /\ index = 1 /\ answered = NoAnswers /\ moves = 0
  /\ calls = {} /\ clicks = 0 /\ failures = 0
  /\ progress \in [AllLessons -> Progress] /\ \A l \in AllLessons : Earlier(l, progress[l])
  /\ ended = {} /\ newest = None /\ late = FALSE /\ hung = {}

Clicks == clicks < MaxClicks /\ clicks' = clicks + 1 /\ UNCHANGED <<failures, progress, hung>>
Id(n)  == <<clicks + 1, n>>
-----------------------------------------------------------------------------
(* loadLesson(): behind the spinner neither video nor quiz exists, until a  *)
(* load is answered; nothing of the quiz is looked at before.               *)
GetVideoUrl(l, n) ==
  [id |-> Id(n), kind |-> "sent", lesson |-> l, answers |-> NoAnswers, ticked |-> {}]
Sends(l, n, saves) == calls' = calls \cup saves \cup {GetVideoUrl(l, n)} /\ newest' = Id(n)

NoQuiz == shown' = None /\ index' = 1 /\ answered' = NoAnswers /\ moves' = 0

LoadLesson(l) ==
  /\ lessonId' = l /\ loading' = TRUE /\ failed' = FALSE /\ congratulated' = FALSE /\ NoQuiz

Open(l) ==
  /\ ~alive /\ Clicks /\ LoadLesson(l) /\ alive' = TRUE /\ ticked' = {}
  /\ Sends(l, 1, {})
  /\ UNCHANGED <<ended, late>>

NavigateToLesson(l) ==
  /\ alive /\ l # lessonId /\ Clicks /\ LoadLesson(l)
  /\ Sends(l, 1, {})
  /\ UNCHANGED <<alive, ticked, ended, late>>

(* Leaving unsubscribes: a load is dropped, a save is aborted, which the    *)
(* backend may have received all the same.                                  *)
Leave ==
  /\ alive /\ Clicks /\ alive' = FALSE /\ NoQuiz
  /\ \E lost \in SUBSET (calls \ Loads) :
       /\ calls' = (calls \ Loads) \ lost
       /\ ended' = ended \ {c.lesson : c \in lost}
  /\ UNCHANGED <<lessonId, loading, failed, ticked, congratulated, newest, late>>
-----------------------------------------------------------------------------
(* saveProgress(): always for the lesson of the route.                      *)
SaveProgress(n, completed, given) ==
  [id |-> Id(n), kind |-> "save", lesson |-> lessonId, completed |-> completed, answers |-> given]

SaveOnly(given) ==
  calls' = calls \cup {SaveProgress(1, FALSE, given)} /\ ended' = ended \ {lessonId}

(* The tick does not wait for the save.                                     *)
Finish ==
  /\ ticked' = ticked \cup {lessonId} /\ ended' = ended \cup {lessonId}

CheckCourseCompletion == congratulated' = (congratulated \/ AllLessons \subseteq ticked')

TimeUpdate ==
  /\ Visible /\ Clicks /\ SaveOnly(None)
  /\ UNCHANGED <<page, quiz, newest, late>>

OnVideoEnded ==
  /\ Visible /\ Clicks /\ UNCHANGED <<alive, lessonId, loading, failed, shown, quiz, newest, late>>
  /\ \/ /\ shown \notin Quizzes /\ Finish /\ CheckCourseCompletion
        /\ calls' = calls \cup {SaveProgress(1, TRUE, None)}
     \/ shown \in Quizzes /\ SaveOnly(None) /\ UNCHANGED <<ticked, congratulated>>
-----------------------------------------------------------------------------
(* What is rendered is the first question, as the effect has left it.  The  *)
(* quiz emits all its answers with every click, also with a mere move.      *)
SelectAnswer ==
  /\ HasQuiz /\ answered[1] = None /\ Clicks
  /\ index \in Numbers /\ answered[index] = None
  /\ answered' = [answered EXCEPT ![index] = shown]
  /\ SaveOnly(answered') /\ UNCHANGED <<page, index, moves, newest, late>>

(* The button of next() is enabled, and next() looks at the question that   *)
(* the index is at, which no click has rendered yet after a timer.          *)
CanGoOnAlways == HasQuiz /\ index \in 1..Questions[shown]
CanGoOn ==
  /\ HasQuiz /\ answered[1] # None
  /\ index \in 1..Questions[shown] /\ answered[index] # None

(* The step takes 300 ms; the button stays enabled.                         *)
NextQuestion ==
  /\ CanGoOn /\ index # Questions[shown] /\ Clicks
  /\ SaveOnly(answered) /\ moves' = moves + 1
  /\ UNCHANGED <<page, index, answered, newest, late>>

OnTimer ==
  /\ moves > 0 /\ index' = index + 1 /\ moves' = moves - 1
  /\ UNCHANGED <<page, answered, calls, clicks, failures, progress, history>>

(* The effect: back to the first question, with the answers just emitted.   *)
RunEffect ==
  /\ index # 1 /\ index' = 1
  /\ UNCHANGED <<page, answered, moves, calls, clicks, failures, progress, history>>

CompletingSavesSwapped == {SaveProgress(2, FALSE, answered), SaveProgress(1, TRUE, answered)}
CompletingSaves == {SaveProgress(1, FALSE, answered), SaveProgress(2, TRUE, answered)}

(* onQuizCompleted(): two saves at once, and on to the next lesson.         *)
CompleteQuiz ==
  /\ CanGoOn /\ index = Questions[shown] /\ Clicks /\ Finish
  /\ UNCHANGED <<alive, late>>
  /\ IF lessonId < LessonCount
     THEN /\ LoadLesson(lessonId + 1)
          /\ Sends(lessonId + 1, 3, CompletingSaves)
     ELSE /\ CheckCourseCompletion /\ calls' = calls \cup CompletingSaves
          /\ UNCHANGED <<lessonId, loading, failed, shown, quiz, newest>>
-----------------------------------------------------------------------------
(* The backend reads the progress of the lesson, then what is completed.    *)
Answer(c, d) == calls' = (calls \ {c}) \cup {d} /\ UNCHANGED <<page, quiz, clicks, failures, progress, history>>

ReadProgress(c) ==
  c.kind = "sent" /\ Answer(c, [c EXCEPT !.kind = "read", !.answers = progress[c.lesson].answers])

ReadCompleted(c) ==
  c.kind = "read" /\ Answer(c, [c EXCEPT !.kind = "found", !.ticked = {l \in AllLessons : progress[l].completed}])

(* The page takes every answer, also that of a lesson it has left.  A new   *)
(* quiz starts at its first question; a timer of the same player still runs. *)
Loaded(c) ==
  /\ c.kind = "found" /\ calls' = calls \ {c} /\ loading' = FALSE
  /\ shown' = c.lesson /\ ticked' = c.ticked /\ index' = 1 /\ answered' = c.answers
  /\ late' = (late \/ c.id # newest)
  /\ moves' = IF HasQuiz /\ c.lesson \in Quizzes THEN moves ELSE 0
  /\ UNCHANGED <<alive, lessonId, failed, congratulated, clicks, failures, progress, ended, newest, hung>>

LoadFailsLoading(c) ==
  /\ c.kind # "save" /\ failures < MaxFailures /\ failures' = failures + 1 /\ calls' = calls \ {c}
  /\ UNCHANGED loading /\ failed' = TRUE /\ NoQuiz
  /\ late' = (late \/ c.id # newest)
  /\ UNCHANGED <<alive, lessonId, ticked, congratulated, clicks, progress, ended, newest, hung>>

LoadFails(c) ==
  /\ c.kind # "save" /\ failures < MaxFailures /\ failures' = failures + 1 /\ calls' = calls \ {c}
  /\ loading' = FALSE /\ failed' = TRUE /\ NoQuiz
  /\ late' = (late \/ c.id # newest)
  /\ UNCHANGED <<alive, lessonId, ticked, congratulated, clicks, progress, ended, newest, hung>>

(* One document per lesson; answers that are not sent keep their value.     *)
UpdateLessonProgress(c) ==
  /\ c.kind = "save" /\ calls' = calls \ {c}
  /\ progress' = [progress EXCEPT ![c.lesson] =
       [completed |-> c.completed, answers |-> IF c.answers = None THEN @.answers ELSE c.answers]]
  /\ UNCHANGED <<page, quiz, clicks, newest, late, hung>>

Overtaken(c) == \E d \in Saves(c.lesson) : Before(d.id, c.id)

Store(c) == UpdateLessonProgress(c) /\ ~Overtaken(c) /\ UNCHANGED <<failures, ended>>

StoreEarly(c) ==
  /\ UpdateLessonProgress(c) /\ Overtaken(c)
  /\ failures < MaxFailures /\ failures' = failures + 1 /\ ended' = ended \ {c.lesson}

(* A save that fails leaves a line in the console.                          *)
SaveFails(c) ==
  /\ c.kind = "save" /\ failures < MaxFailures /\ failures' = failures + 1 /\ calls' = calls \ {c}
  /\ ended' = ended \ {c.lesson} /\ UNCHANGED <<page, quiz, clicks, progress, newest, late, hung>>
-----------------------------------------------------------------------------
(* A call that has met a 401 waits in the interceptor behind a refresh that *)
(* has failed, or that leaving the page has unsubscribed: it is answered    *)
(* only if another refresh succeeds, which nothing promises.                *)
Hang(c) ==
  /\ c.kind \in {"sent", "save"} /\ c.id \notin hung /\ hung' = hung \cup {c.id}
  /\ failures < MaxFailures /\ failures' = failures + 1
  /\ UNCHANGED <<page, quiz, calls, clicks, progress, ended, newest, late>>

Serve(c) == ReadProgress(c) \/ ReadCompleted(c) \/ Loaded(c) \/ Store(c)
Settle   == \E c \in calls : c.id \notin hung /\ Serve(c)

LPNext ==
  \/ \E l \in AllLessons : Open(l) \/ NavigateToLesson(l)
  \/ Leave \/ TimeUpdate \/ OnVideoEnded
  \/ SelectAnswer \/ NextQuestion \/ CompleteQuiz \/ OnTimer \/ RunEffect
  \/ \E c \in calls : Serve(c) \/ LoadFails(c) \/ StoreEarly(c) \/ SaveFails(c) \/ Hang(c)

LPSpec == LPInit /\ [][LPNext]_lpVars
(* Calls that do not hang are answered.                                     *)
LPFairSpec == LPSpec /\ WF_lpVars(Settle)
-----------------------------------------------------------------------------
LPTypeOK ==
  /\ alive \in BOOLEAN /\ lessonId \in AllLessons /\ loading \in BOOLEAN /\ failed \in BOOLEAN
  /\ shown \in AllLessons \cup {None} /\ ticked \subseteq AllLessons /\ congratulated \in BOOLEAN
  /\ index \in Nat /\ answered \in Answers /\ moves \in Nat
  /\ calls \subseteq Load \cup Save /\ clicks \in 0..MaxClicks /\ failures \in 0..MaxFailures
  /\ progress \in [AllLessons -> Progress] /\ ended \subseteq AllLessons
  /\ newest \in Ids \cup {None} /\ late \in BOOLEAN /\ hung \subseteq Ids

(* What is stored for a lesson was answered in that lesson's quiz, although *)
(* the page saves under the lesson of its route whatever quiz it shows: the *)
(* spinner stands between, until a load is answered behind a later one.     *)
AnswersOfOwnQuiz ==
  ~late => \A l \in AllLessons, q \in Numbers : progress[l].answers[q] \in {None, l}

(* A lesson with a quiz counts as completed only with an answer to each of  *)
(* its questions, although a timer, a click and the effect may come in any  *)
(* order.                                                                   *)
CompletedQuizIsAnswered ==
  ~late => \A l \in Quizzes : progress[l].completed =>
    \A q \in 1..Questions[l] : progress[l].answers[q] # None

(* The effect undoes every move, so a lesson whose quiz has more questions  *)
(* than one is not completed, whatever is clicked.                          *)
LongQuizStaysOpen ==
  ~late => \A l \in Quizzes : Questions[l] > 1 => ~progress[l].completed

(* What is stored of a quiz is what its own questions were answered with.   *)
QuizIsAnswered ==
  LPTypeOK /\ AnswersOfOwnQuiz /\ CompletedQuizIsAnswered /\ LongQuizStaysOpen

(* A lesson that was finished, and not touched again, is completed at the   *)
(* backend once its saves have arrived: none of those that go out with the  *)
(* last click takes the completion back, if they keep their order.          *)
EndedIsStored == \A l \in ended : Saves(l) = {} => progress[l].completed

(* The spinner ends, with the lesson or with an error, unless the lesson's  *)
(* load hangs.                                                              *)
SpinnerEnds == alive /\ loading ~> ~alive \/ ~loading \/ newest \in hung
=============================================================================
