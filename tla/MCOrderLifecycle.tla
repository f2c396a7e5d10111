--------------------------- MODULE MCOrderLifecycle ---------------------------
(***************************************************************************)
(* Values of OrderLifecycle's constants for TLC: the windows are one or    *)
(* two ticks long, so that every deadline is met, missed and hit exactly.  *)
(***************************************************************************)
EXTENDS OrderLifecycle

\* An administrator may lengthen and shorten both windows.
MCSettings == {[disputeWindow |-> n, returnTimeout |-> n] : n \in {1, 2}}
=============================================================================
