----------------------------- MODULE MCProfiler -----------------------------
(* Profiler with three threads and two points.  A range of 4 makes the     *)
(* time wrap around, in both directions.                                   *)
EXTENDS Profiler, TLC

CONSTANTS p1, p2

MCInfoArray == <<p1, p2>>
MCDuration == {-1, 3}
Symmetry == Permutations(Thread)

=============================================================================
