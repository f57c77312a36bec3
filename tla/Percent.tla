------------------------------ MODULE Percent -------------------------------
(***************************************************************************)
(* The arithmetic of EnrollmentsService.updateProgress: how far a student  *)
(* is through a course, as the integer stored in enrollments.              *)
(***************************************************************************)
EXTENDS Integers

(* Math.round(x / y) for y > 0: the nearest integer, a half rounded up.  A  *)
(* double may put an exact half below 100 just under it (23 of 40 lessons   *)
(* is stored as 57); no half below 300 lessons is moved across 99.5.        *)
Rounded(x, y) == (2 * x + y) \div (2 * y)

ProgressPercent(completed, total) ==
  LET percent == Rounded(100 * completed, total)
  IN  IF percent < 100 THEN percent ELSE 100
=============================================================================
