------------------------------- MODULE MCClients -------------------------------
(***************************************************************************)
(* The two applications side by side: a merchant's browser and a courier's *)
(* app.  They share no row, so each is run on its own while nobody uses    *)
(* the other: the browser in MCScreens, the app here.                      *)
(*                                                                         *)
(* One order, wherever it may stand when the app is opened, that moves on  *)
(* twice, and two calls at a time, so that one can overtake the other.     *)
(***************************************************************************)
EXTENDS MCScreens

CONSTANTS Order, Start, AppCall

VARIABLES row, updates, tab, tabs, busy, appCall

appVars == <<row, updates, tab, tabs, busy, appCall>>

App == INSTANCE CourierApp WITH Call <- AppCall, call <- appCall

ASSUME CourierAppAssumption == App!Assumptions

AppSpec ==
    /\ Init /\ App!Init
    /\ [][App!Next /\ UNCHANGED vars]_<<vars, appVars>>
    /\ App!Fairness

\* Rows, screens and calls of the courier's app hold what they can hold.
AppTypeOK == App!TypeOK

\* An order that only its courier can move on is before his eyes, with a button
\* for every command that the API would take and no other.
NoOrderIsStranded == App!NoOrderIsStranded

\* Whichever tab the courier stays on ends up as the API has it.
TabsCatchUp == App!TabsCatchUp
=============================================================================
