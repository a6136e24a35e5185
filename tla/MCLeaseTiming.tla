---------------------------- MODULE MCLeaseTiming ----------------------------
(***************************************************************************)
(* The default settings on a clock of five minutes: a lease of six ticks   *)
(* renewed after two, renewals for 48 ticks, a floor of five and a ceiling *)
(* of 36.  Documents are counted in batches that add one tick each.        *)
(***************************************************************************)
EXTENDS LeaseTiming
==============================================================================
