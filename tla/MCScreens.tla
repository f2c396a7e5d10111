------------------------------- MODULE MCScreens -------------------------------
(* Two places for one flat and two flats at one place, two quotes or an order *)
(* that moves on once, and two calls under way.                               *)
EXTENDS Screens

Drafts == {[priced |-> 1, unpriced |-> 3], [priced |-> 1, unpriced |-> 5],
           [priced |-> 2, unpriced |-> 3]}
=============================================================================
