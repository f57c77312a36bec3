---------------------------- MODULE MCCoursePage ----------------------------
(* Instances of CoursePage: students are alike, and so are tabs and older   *)
(* enrollments.                                                             *)
EXTENDS CoursePage, TLC

Interchangeable == Permutations(Students) \cup Permutations(Tabs) \cup Permutations(Old)

(* At first nobody is enrolled, or one student is, and has completed the    *)
(* course, as often as can be.                                              *)
TwiceOrNever == CPInit /\ Cardinality({student[i] : i \in Old}) = 1 /\ completed = Enrolled

MCSpec == TwiceOrNever /\ [][CPNext]_cpVars
=============================================================================
