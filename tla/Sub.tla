--------------------------------- MODULE Sub ---------------------------------
(***************************************************************************)
(* sub of pythonic/utf8/sub.hpp: a range-for over the finditer of the      *)
(* whole haystack that copies what lies between two matches and puts the   *)
(* result of a callback in the place of each match.  The search runs       *)
(* lazily, a match at a time, between the iterations of the loop.          *)
(*                                                                         *)
(* The result is a sequence of units: <<"unit", k>> is the unit at k of    *)
(* the haystack, <<"repl", k>> what the callback returned for position k.  *)
(***************************************************************************)
EXTENDS FindView, Sequences

CONSTANT
  IntMax        (* the largest int: last_pos is one, positions are size_t  *)

ASSUME IntMaxAssumption == IntMax \in Nat

VARIABLES
  lastPos,      (* last_pos                                                *)
  result,       (* what has been appended                                  *)
  subPc         (* "loop", "done", or "overrun" once an append has been    *)
                (* given memory that is not the haystack's: undefined      *)

subVars == <<lastPos, result, subPc>>
allVars == <<vars, subVars>>

(* The conversion of a size_t to an int, modulo the width of an int.       *)
ToInt(n) ==
  LET m == n % (2 * (IntMax + 1)) IN IF m <= IntMax THEN m ELSE m - 2 * (IntMax + 1)

Unit(k) == <<"unit", k>>
Repl(k) == <<"repl", k>>

(* The units from a up to b, b excluded.                                   *)
Units(a, b) == [k \in 1 .. b - a |-> Unit(a + k - 1)]

(* The callback is only given positions of the haystack, and last_pos is   *)
(* always an int.                                                          *)
SubTypeOK ==
  /\ TypeOK
  /\ lastPos \in -(IntMax + 1) .. IntMax
  /\ result \in Seq({"unit", "repl"} \X (0 .. MaxHaystack - 1))
  /\ subPc \in {"loop", "done", "overrun"}

-----------------------------------------------------------------------------
SubInit == Init /\ lastPos = 0 /\ result = <<>> /\ subPc = "loop"

(* haystack.begin() + last_pos and the size_t end - last_pos describe a    *)
(* part of the haystack: the sum is not before its begin, the difference   *)
(* does not wrap around, and the end is not behind its own.                *)
Copyable(end) == 0 <= lastPos /\ lastPos <= end /\ end <= hsize

(* The search the range-for waits for.                                     *)
SubSearch == subPc = "loop" /\ Search /\ UNCHANGED subVars

(* Mutants: the units in front of a match are left out; the callback is    *)
(* given the end of the match.                                             *)
PieceDropped(pos) == <<Repl(pos)>>
PieceEnd(pos) == Units(lastPos, pos) \o <<Repl(pos + nsize)>>

(* What the two appends of an iteration add to the result.                 *)
Piece(pos) == Units(lastPos, pos) \o <<Repl(pos)>>

(* Mutants: last_pos is the begin of the match; it is one unit too far.    *)
BehindNone(pos) == ToInt(pos)
BehindMore(pos) == ToInt(pos + nsize + 1)

(* The new last_pos.                                                       *)
Behind(pos) == ToInt(pos + nsize)

(* The loop's body and the ++ behind it.                                   *)
Replace ==
  /\ subPc = "loop" /\ pc = "idle" /\ foundAt # Npos
  /\ Copyable(foundAt)
  /\ result' = result \o Piece(foundAt)
  /\ lastPos' = Behind(foundAt)
  /\ UNCHANGED subPc
  /\ Increment

(* What is left behind the last match, and the return.                     *)
Return ==
  /\ subPc = "loop" /\ pc = "idle" /\ foundAt = Npos
  /\ Copyable(hsize)
  /\ result' = result \o Units(lastPos, hsize)
  /\ subPc' = "done"
  /\ UNCHANGED <<lastPos, vars>>

(* Either append given a part that is none.                                *)
Overrun ==
  /\ subPc = "loop" /\ pc = "idle"
  /\ ~Copyable(IF foundAt = Npos THEN hsize ELSE foundAt)
  /\ subPc' = "overrun"
  /\ UNCHANGED <<lastPos, result, vars>>

SubNext == SubSearch \/ Replace \/ Return \/ Overrun

SubSpec == SubInit /\ [][SubNext]_allVars

SubFairSpec == SubSpec /\ WF_allVars(SubNext)
-----------------------------------------------------------------------------
(* The haystack from p on with its matches replaced, the leftmost first.   *)
Rewritten[p \in 0 .. hsize] ==
  IF p = hsize THEN <<>>
  ELSE IF p \in LiesInside THEN <<Repl(p)>> \o Rewritten[p + nsize]
  ELSE <<Unit(p)>> \o Rewritten[p + 1]

(* No two positions a search can come to, behind the haystack included,    *)
(* are the same int.                                                       *)
Distinct == hsize + nsize <= 2 * (IntMax + 1)

(* Whenever sub returns, the result is the haystack with every leftmost    *)
(* match replaced once: no unit is lost, repeated or out of order between  *)
(* the lazy search and the copying that trails behind it.  Neither a match *)
(* that straddles the end nor a last_pos that has wrapped around makes it  *)
(* return anything else: it does not return then.                          *)
SubReplaces == subPc = "done" /\ Distinct => result = Rewritten[0]

(* A match takes up the unit at k.                                         *)
Taken(k) == \E q \in hits : q <= k /\ k < q + nsize

(* What the result is made of up to the position end.                      *)
Origins(end) ==
  {Unit(k) : k \in {k \in 0 .. end - 1 : ~Taken(k)}}
    \union {Repl(q) : q \in {q \in hits : q < end}}

Ascending(s) == \A m, n \in 1 .. Len(s) : m < n => s[m][2] < s[n][2]

Elements(s) == {s[n] : n \in 1 .. Len(s)}

(* At any time the result lists, in the order of the haystack, each unit   *)
(* in front of last_pos that no match takes up and each match replaced,    *)
(* once: although the search is a match ahead of the copying, neither      *)
(* repeats nor leaves out what the other does.                             *)
SubOrigins ==
  Terminated /\ hsize <= IntMax =>
    /\ Ascending(result)
    /\ Elements(result) = Origins(IF subPc = "done" THEN hsize ELSE lastPos)

(* A match that ends behind the haystack, or at what no int can hold.      *)
Excessive(q) == q + nsize > hsize \/ q + nsize > IntMax

(* The only thing that takes an append out of the haystack is such a match *)
(* and, with one among the matches, none of the appends that follow it     *)
(* hides that: sub does not return.  A terminated haystack whose size an   *)
(* int can hold has no such match.                                         *)
OverrunExplained ==
  /\ subPc = "overrun" => \E q \in hits : Excessive(q)
  /\ subPc = "done" /\ Distinct => \A q \in hits : ~Excessive(q)

(* sub returns, or runs into an overrun.                                   *)
SubEnds == <>(subPc # "loop")
=============================================================================
