------------------------- MODULE MCCourierOnboarding -------------------------
(***************************************************************************)
(* One required type, the vehicle's licence; two files; a request and one   *)
(* that the app gave up on; a decision in the middle of them.              *)
(***************************************************************************)
EXTENDS CourierOnboarding, TLC

\* Requests are alike, and so are files.
Symmetry == Permutations(Handler) \cup Permutations(File)
=============================================================================
