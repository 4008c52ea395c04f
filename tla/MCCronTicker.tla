---------------------------- MODULE MCCronTicker ----------------------------
(* TLC instance of CronTicker: one row, two reloads in flight. *)
EXTENDS CronTicker, TLC

\* A reload carries no identity.
ReloadSymmetry == Permutations(Reloads)
=============================================================================
