------------------------------ MODULE AvtpTime ------------------------------
(***************************************************************************)
(* The time arithmetic of avbperf/common.c.  A packet carries only the low *)
(* 32 bits of the time its fragment is due; the listener puts the high     *)
(* bits of its own clock above them.  Epoch is 2^32 ns in the program and  *)
(* a small number in the runs.                                             *)
(***************************************************************************)
EXTENDS Integers

CONSTANT Epoch

ASSUME EpochAssumption == Epoch \in Nat \ {0}

(* Mutants: the transit time is left out; no packet is late. *)
stamp_capture_time(clock, transit) == clock % Epoch
never_late(ts, clock) == FALSE

(* The timestamp field the talker writes: due time modulo the epoch. *)
calculate_avtp_time(clock, transit) == (clock + transit) % Epoch

(* Mutant: a timestamp that lies behind the clock is of the next epoch. *)
presentation_ahead(ts, clock) ==
    LET t == Epoch * (clock \div Epoch) + ts IN IF t < clock THEN t + Epoch ELSE t

(* The time the listener recovers: the high part of the clock, then ts. *)
get_presentation_time(ts, clock) == Epoch * (clock \div Epoch) + ts

(* The return value 1 of get_presentation_time. *)
IsLate(ts, clock) == get_presentation_time(ts, clock) < clock

=============================================================================
