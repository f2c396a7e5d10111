----------------------------- MODULE MCAddressBook -----------------------------
(***************************************************************************)
(* Values of AddressBook's constants for TLC.                              *)
(***************************************************************************)
EXTENDS AddressBook, TLC

\* Requests are alike, and so are names, phone numbers and places.
Symmetry ==
    UNION {Permutations(Request), Permutations(Name), Permutations(Phone),
           Permutations(Point)}
=============================================================================
