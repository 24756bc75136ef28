--------------------------- MODULE MCCronScheduler ---------------------------
(***************************************************************************)
(* Instances of CronScheduler for TLC.                                     *)
(***************************************************************************)
EXTENDS CronScheduler, TLC

CONSTANTS s1, s2

\* Enabling with either schedule, changing the schedule alone, disabling.
Changes == {[enabled |-> TRUE, schedule |-> s1], [enabled |-> TRUE, schedule |-> s2],
            [enabled |-> None, schedule |-> s2], [enabled |-> FALSE, schedule |-> None]}

\* Switching a job on and off.
Switches == {[enabled |-> TRUE, schedule |-> None], [enabled |-> FALSE, schedule |-> None]}

Symmetry == Permutations(TaskIds) \cup Permutations(Requests)
=============================================================================
