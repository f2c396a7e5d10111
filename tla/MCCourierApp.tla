----------------------------- MODULE MCCourierApp -----------------------------
(* One order and one call at a time: enough for a dispute to come up and for  *)
(* the app to show it.                                                       *)
EXTENDS CourierApp
=============================================================================
