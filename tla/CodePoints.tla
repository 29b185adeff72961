----------------------------- MODULE CodePoints -----------------------------
(***************************************************************************)
(* The lazy range of pythonic/utf8/code_points.hpp, which cuts a text into *)
(* code points by looking at the lead byte of each, and the len of         *)
(* pythonic/len.hpp, which counts the bytes that are no continuation byte. *)
(* The two decide alone what a code point is; nothing validates a text.    *)
(*                                                                         *)
(* As in FindView the cursors hold no state: every ++ is a call of         *)
(* CodePointsView::next.                                                   *)
(***************************************************************************)
EXTENDS Integers, FiniteSets

CONSTANTS
  Byte,         (* the code units texts are made of                        *)
  MaxSize       (* bound on the size of a text                             *)

ASSUME ByteAssumption == Byte \subseteq 0 .. 255 /\ MaxSize \in Nat

VARIABLES
  text,         (* rng.utf8_encoded                                        *)
  size,         (* __end - ranges::begin(rng)                              *)
  cur,          (* __cur, as an offset                                     *)
  codePoint,    (* __code_point: the offsets it begins and ends at         *)
  pc,           (* "construct" until the constructor's body has run        *)
  seen          (* history: every non-empty value of codePoint             *)

vars == <<text, size, cur, codePoint, pc, seen>>

(* A string_view of no bytes.                                              *)
NoText == [from |-> 0, to |-> 0]

(* cursor::done                                                            *)
Done == codePoint.to = codePoint.from

(* Mutant: the last two-byte lead is taken for a three-byte one.           *)
StepWrong(code) ==
  IF code <= 193 THEN 1 ELSE IF code < 223 THEN 2 ELSE IF code <= 239 THEN 3 ELSE 4

(* Mutant: a stray continuation byte is stepped over by zero.              *)
StepStuck(code) ==
  IF code <= 127 THEN 1 ELSE IF code <= 193 THEN 0
  ELSE IF code <= 223 THEN 2 ELSE IF code <= 239 THEN 3 ELSE 4

(* The number of bytes next() expects behind a byte, itself included.      *)
Step(code) ==
  IF code <= 193 THEN 1 ELSE IF code <= 223 THEN 2 ELSE IF code <= 239 THEN 3 ELSE 4

(* Mutant: ranges::next without its bound.                                 *)
UnboundedNext(n) == cur + n

(* ranges::next(__cur, step, __end) stops at the end.                      *)
BoundedNext(n) == IF cur + n <= size THEN cur + n ELSE size

(* A byte that is no continuation byte: its top bits 0xc0 are not 0x80, in  *)
(* a signed char as in an unsigned one.                                    *)
IsStart(code) == code \div 64 # 2

(* The bytes len counts, and len itself.                                   *)
Starts == {k \in 0 .. size - 1 : IsStart(text[k])}
Len == Cardinality(Starts)

(* next() never moves, and a code point never reaches, behind the end.     *)
TypeOK ==
  /\ size \in 0 .. MaxSize
  /\ text \in [0 .. size - 1 -> Byte]
  /\ cur \in 0 .. size
  /\ codePoint \in [from : 0 .. size, to : 0 .. size]
  /\ pc \in {"construct", "ready"}
  /\ seen \subseteq [from : 0 .. size, to : 0 .. size]

-----------------------------------------------------------------------------
Init ==
  /\ size \in 0 .. MaxSize
  /\ text \in [0 .. size - 1 -> Byte]
  /\ cur = 0 /\ codePoint = NoText
  /\ pc = "construct" /\ seen = {}

(* next(): an empty code point at the end, or the next one.                *)
Take ==
  \/ cur = size /\ codePoint' = NoText /\ UNCHANGED <<cur, seen>>
  \/ /\ cur # size
     /\ codePoint' = [from |-> cur, to |-> BoundedNext(Step(text[cur]))]
     /\ seen' = seen \union {codePoint'}
     /\ cur' = codePoint'.to

(* The constructor's body.                                                 *)
Construct == pc = "construct" /\ Take /\ pc' = "ready" /\ UNCHANGED <<text, size>>

(* ++ on a cursor.                                                         *)
Increment == pc = "ready" /\ Take /\ UNCHANGED <<pc, text, size>>

Next == Construct \/ Increment

Spec == Init /\ [][Next]_vars

(* The constructor runs on, and a range-for increments to the end.         *)
FairSpec == Spec /\ WF_vars(Next)
-----------------------------------------------------------------------------
(* Each byte behind which the range has moved belongs to exactly one code  *)
(* point of the range, whatever the text: code_points neither drops nor    *)
(* repeats one, and the code points put together again are the text.       *)
Partition ==
  /\ \A k \in 0 .. cur - 1 : \E c \in seen : c.from <= k /\ k < c.to
  /\ \A c \in seen : c.from < c.to /\ c.to <= cur
  /\ \A c, d \in seen : c # d => c.to <= d.from \/ d.to <= c.from

(* The bytes a sequence of n bytes begins with in UTF-8.                   *)
Leads == <<0 .. 127, 194 .. 223, 224 .. 239, 240 .. 244>>

(* A text of complete sequences, of which the last may be cut short.       *)
Decodable ==
  /\ size > 0 => IsStart(text[0])
  /\ \A k \in Starts : \E n \in 1 .. 4 :
       /\ text[k] \in Leads[n]
       /\ \A l \in k + 1 .. k + n - 1 : l < size => ~IsStart(text[l])
       /\ k + n < size => IsStart(text[k + n])

(* On such a text the code points begin where len counts, no matter how    *)
(* far the range has moved: the two functions agree on what they are.      *)
SplitsAtStarts ==
  Decodable => {c.from : c \in seen} = {k \in Starts : k < cur}

(* Hence len is the number of code points.                                 *)
LenAgrees == pc = "ready" /\ Done /\ Decodable => Cardinality(seen) = Len

(* len is the number of code points of any text, a malformed one included. *)
LenCountsCodePoints == pc = "ready" /\ Done => Cardinality(seen) = Len

(* A loop over the range comes to its end, with the whole text seen.       *)
Covered == <>(pc = "ready" /\ Done /\ cur = size)
=============================================================================
