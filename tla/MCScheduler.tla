------------------------------ MODULE MCScheduler ------------------------------
(* Small instances of Scheduler for TLC: a calendar of two-minute hours, two-hour days and
   three-day weeks.  A weekly cadence does what a daily one does, and finds its weekday. *)
EXTENDS Scheduler

MCChosen ==
  {[kind |-> "hourly", weekday |-> 0, hour |-> 0, minute |-> 1],
   [kind |-> "weekly", weekday |-> 0, hour |-> 1, minute |-> 0]}
=============================================================================
