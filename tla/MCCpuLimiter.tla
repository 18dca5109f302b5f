---------------------------- MODULE MCCpuLimiter ----------------------------
(***************************************************************************)
(* Instances of the CPU limiter for TLC.                                   *)
(***************************************************************************)
EXTENDS CpuLimiter

\* Two valid limits, and one that is more than all cores have.
SomeLimits == {1, 3, Cores * Second + 1}
=============================================================================
