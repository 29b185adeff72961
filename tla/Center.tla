------------------------------- MODULE Center -------------------------------
(***************************************************************************)
(* center of pythonic/utf8/center.hpp: the counts are computed in size_t,  *)
(* where the gap wraps around when the text is wider than asked for, and   *)
(* the three loops that append count in int.                               *)
(***************************************************************************)
EXTENDS Integers, Sequences

CONSTANTS
  SizeMax,      (* the largest size_t                                      *)
  IntMax,       (* the largest int                                         *)
  Memory,       (* units a string can hold before its allocation throws    *)
  MaxWidth,     (* bound on width                                          *)
  MaxText,      (* bound on the size of the text                           *)
  MaxPadding    (* bound on the size of the padding                        *)

ASSUME SizesAssumption ==
  /\ SizeMax \in Nat /\ IntMax \in Nat /\ Memory \in 0 .. SizeMax
  /\ MaxWidth \in 0 .. SizeMax /\ MaxText \in 0 .. Memory
  /\ MaxPadding \in 1 .. Memory

VARIABLES
  width,
  rngSize,      (* rng_size                                                *)
  paddingSize,  (* padding_size: one of 0 is a division by zero            *)
  result,       (* the origin of each unit of the result                   *)
  pc,           (* the statement that is next                              *)
  i             (* the counter of the loop that runs                       *)

inputs == <<width, rngSize, paddingSize>>
vars == <<inputs, result, pc, i>>

(* Mutant: the subtraction the other way round.                            *)
GapReversed == (rngSize - width) % (SizeMax + 1)

(* Mutant: the distance of the sizes, whichever is the larger.             *)
GapDistance == IF width >= rngSize THEN width - rngSize ELSE rngSize - width

(* gap, a difference of two size_t.                                        *)
Gap == (width - rngSize) % (SizeMax + 1)

(* Mutant: an odd gap is rounded up on the left.                           *)
LeftUp == ((Gap + 1) \div 2) \div paddingSize

(* left_padding_count                                                      *)
LeftCount == (Gap \div 2) \div paddingSize

(* right_padding_count                                                     *)
RightCount == (Gap - LeftCount * paddingSize) \div paddingSize

(* Mutant: what no whole padding fills is left empty.                      *)
TailNone == 0

(* tail_count                                                              *)
TailCount == Gap - LeftCount * paddingSize - RightCount * paddingSize

(* n units of a kind.                                                      *)
Units(kind, n) == [k \in 1 .. n |-> kind]

(* The result never outgrows the memory, nor a counter an int.             *)
TypeOK ==
  /\ width \in 0 .. MaxWidth
  /\ rngSize \in 0 .. MaxText
  /\ paddingSize \in 1 .. MaxPadding
  /\ result \in Seq({"text", "padding", "tail"}) /\ Len(result) <= Memory
  /\ pc \in {"reserve", "left", "text", "right", "tail", "done", "threw", "undefined"}
  /\ i \in 0 .. IntMax

-----------------------------------------------------------------------------
Init ==
  /\ width \in 0 .. MaxWidth
  /\ rngSize \in 0 .. MaxText
  /\ paddingSize \in 1 .. MaxPadding
  /\ result = <<>> /\ pc = "reserve" /\ i = 0

Throw == pc' = "threw" /\ UNCHANGED <<inputs, result, i>>

(* result.reserve(width)                                                   *)
Reserve ==
  /\ pc = "reserve"
  /\ \/ width > Memory /\ Throw
     \/ width <= Memory /\ pc' = "left" /\ UNCHANGED <<inputs, result, i>>

(* Mutant: the string is not asked to grow.                                *)
FitsAlways(n) == TRUE

(* The allocation for n more units succeeds.                               *)
Fits(n) == Len(result) + n <= Memory

(* One test of a loop's condition with, if it holds, the loop's append and *)
(* its i++; the overflow of an int is undefined.                           *)
Loop(at, kind, count, size, next) ==
  /\ pc = at
  /\ \/ i >= count /\ pc' = next /\ i' = 0 /\ UNCHANGED result
     \/ /\ i < count /\ Fits(size)
        /\ result' = result \o Units(kind, size)
        /\ \/ i = IntMax /\ pc' = "undefined" /\ UNCHANGED i
           \/ i < IntMax /\ i' = i + 1 /\ UNCHANGED pc
     \/ i < count /\ ~Fits(size) /\ Throw
  /\ UNCHANGED inputs

LeftPadding == Loop("left", "padding", LeftCount, paddingSize, "text")

(* The append of the text between the two paddings.                        *)
AppendText ==
  /\ pc = "text"
  /\ \/ /\ Fits(rngSize)
        /\ result' = result \o Units("text", rngSize)
        /\ pc' = "right" /\ UNCHANGED <<inputs, i>>
     \/ ~Fits(rngSize) /\ Throw

RightPadding == Loop("right", "padding", RightCount, paddingSize, "tail")

TailUnits == Loop("tail", "tail", TailCount, 1, "done")

Next == Reserve \/ LeftPadding \/ AppendText \/ RightPadding \/ TailUnits

Spec == Init /\ [][Next]_vars
-----------------------------------------------------------------------------
(* A result is as wide as asked for, whatever is left over by paddings of  *)
(* several units and by the halving of the gap.                            *)
CenterWidth == pc = "done" => Len(result) = width

(* The text stands whole between whole paddings, at most one more of them  *)
(* on the right than on the left, and the tail is shorter than a padding.  *)
CenterBalanced ==
  pc = "done" =>
    \E l, t \in 0 .. width, extra \in {0, 1} :
      /\ t < paddingSize
      /\ result = Units("padding", l * paddingSize)
                  \o Units("text", rngSize)
                  \o Units("padding", (l + extra) * paddingSize)
                  \o Units("tail", t)

(* Within the ranges of int and of memory a text no wider than asked for   *)
(* is centered: nothing is thrown and no counter overflows.                *)
CenterReturns ==
  rngSize <= width /\ width <= Memory /\ width <= IntMax =>
    pc \notin {"threw", "undefined"}

(* A text wider than asked for is never returned, neither as it is nor cut *)
(* off: the gap is then nearly SizeMax and the loops go on to the end of   *)
(* the memory or of int.                                                   *)
WideNeverReturns == rngSize > width => pc # "done"
=============================================================================
