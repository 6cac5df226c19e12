----------------------------- MODULE MCScheduler -----------------------------
(***************************************************************************)
(* Constants for model-checking Scheduler: one or two boot services of     *)
(* three, the others to be launched, two workers of different weight, an   *)
(* outside thread.                                                         *)
(***************************************************************************)
EXTENDS Scheduler, TLC

CONSTANTS a, b, c, w1, w2, t1

BootOne == <<a>>
BootTwo == <<a, b>>
Weights == (w1 :> -1) @@ (w2 :> 0)
=============================================================================
