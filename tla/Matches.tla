------------------------------- MODULE Matches -------------------------------
(***************************************************************************)
(* What a match range promises, whatever algorithm finds the matches: the  *)
(* positions of a fixed set occ are reported from left to right, each one  *)
(* width code units or more after the previous one, none that could still  *)
(* be reported is passed over, and the end is reported once and for all.   *)
(* A range adaptor (finditer) is correct when it implements this           *)
(* enumeration for the right set of positions.                             *)
(***************************************************************************)
EXTENDS Integers

CONSTANTS
  Pending,    (* the value of result before the first search has ended     *)
  Npos        (* std::string::npos: there is no (further) match            *)

VARIABLES
  occ,        (* every position a match may be reported at: never changes  *)
  width,      (* code units a match takes up: never changes                *)
  from,       (* the next match starts here or later                       *)
  result      (* Pending, the last match reported, or Npos                 *)

vars == <<occ, width, from, result>>

Init ==
  /\ occ \subseteq Nat
  /\ width \in Nat
  /\ from = 0
  /\ result = Pending

(* The leftmost position that is still free is reported.                   *)
Report ==
  /\ result # Npos
  /\ \E p \in occ :
       /\ p >= from
       /\ \A q \in occ : q >= from => p <= q
       /\ result' = p
       /\ from' = p + width
  /\ UNCHANGED <<occ, width>>

(* No position is left.                                                    *)
Finish ==
  /\ result # Npos
  /\ \A q \in occ : q < from
  /\ result' = Npos
  /\ UNCHANGED <<occ, width, from>>

Next == Report \/ Finish

Spec == Init /\ [][Next]_vars
=============================================================================
