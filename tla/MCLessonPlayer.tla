--------------------------- MODULE MCLessonPlayer ---------------------------
(* Three lessons: a quiz of one question, a quiz of two, and no quiz.       *)
EXTENDS LessonPlayer

MCQuestions == [l \in 1..3 |-> IF l = 3 THEN 0 ELSE l]
=============================================================================
