----------------------------- MODULE MCScheduler -----------------------------
(***************************************************************************)
(* Two processes over one scheduler database.  A configuration is the pair *)
(* of the incubation interval and the Source window interval; every        *)
(* process has the same two intervals, whose slots coincide at time 6.     *)
(***************************************************************************)
EXTENDS Scheduler

EqualConfigs == {<<2, 3>>}
=============================================================================
