------------------------------- MODULE Queries -------------------------------
(***************************************************************************)
(* The functions that ask one question of a haystack: find, index, count   *)
(* and endswith of pythonic/utf8.  Each slices the haystack by start and   *)
(* end; the first three then build a FindView of the slice and walk it,    *)
(* endswith compares the slice's own last units.                           *)
(* A caller of endswith loops over the FindView of the same slice and asks *)
(* in the body of the loop or behind it, so that the two can be compared.  *)
(*                                                                         *)
(* A position of text is one of the slice; what lies in front of the slice *)
(* is the range -nsize .. -1 of front.                                     *)
(***************************************************************************)
EXTENDS FindView, FiniteSets

VARIABLES
  front,        (* memory in front of the slice                            *)
  query,        (* the function called                                     *)
  answer,       (* NoAnswer until it returns                               *)
  counted       (* the n of ranges::distance                               *)

queryVars == <<front, query, answer, counted>>
allVars == <<vars, queryVars>>

Queried == {"find", "index", "count", "endswith"}

(* A value no function returns, and the folly::Unexpected of index.        *)
NoAnswer == -3
Unexpected == -2

(* The unit at p of the memory around the slice.                           *)
Memory(p) == IF p < 0 THEN front[p] ELSE text[p]

(* An answer is a position, a count, a truth value or one of the ways to   *)
(* say that there is none.                                                 *)
QueryTypeOK ==
  /\ TypeOK
  /\ front \in [-nsize .. -1 -> Char]
  /\ query \in Queried
  /\ answer \in {NoAnswer} \union
       IF query = "endswith" THEN {0, 1} ELSE {Unexpected, Npos} \union 0 .. MaxHaystack
  /\ counted \in 0 .. MaxHaystack

-----------------------------------------------------------------------------
QueryInit ==
  /\ Init
  /\ front \in [-nsize .. -1 -> Char]
  /\ query \in Queried
  /\ answer = NoAnswer /\ counted = 0

Asking(q) == query = q /\ answer = NoAnswer

(* finditer, and the search ranges::empty, ranges::front, ranges::distance *)
(* or the caller of endswith wait for.                                     *)
QuerySearch ==
  /\ answer = NoAnswer
  /\ Search
  /\ UNCHANGED queryVars

(* Mutant: the position behind the match is returned.                      *)
FrontBehind == IF foundAt = Npos THEN Npos ELSE cur

(* ranges::front of the view: its begin() reads what the view stands at.   *)
Front == foundAt

(* find: npos for an empty view, its front otherwise.                      *)
Find ==
  /\ Asking("find") /\ pc = "idle"
  /\ answer' = Front
  /\ UNCHANGED <<vars, front, query, counted>>

(* index: an unexpected for an empty view, its front otherwise.            *)
Index ==
  /\ Asking("index") /\ pc = "idle"
  /\ \/ foundAt = Npos /\ answer' = Unexpected
     \/ foundAt # Npos /\ answer' = Front
  /\ UNCHANGED <<vars, front, query, counted>>

(* Mutant: the position the view stands at is not counted.                 *)
CountedLate == IF hits = {foundAt} THEN 0 ELSE counted + 1

Counted == counted + 1

(* count: a round of ranges::distance, which goes on to the end.           *)
CountNext ==
  /\ Asking("count") /\ pc = "idle" /\ foundAt # Npos
  /\ counted' = Counted
  /\ Increment
  /\ UNCHANGED <<front, query, answer>>

CountReturn ==
  /\ Asking("count") /\ pc = "idle" /\ foundAt = Npos
  /\ answer' = counted
  /\ UNCHANGED <<vars, front, query, counted>>

(* A round of the loop in which endswith is called.                        *)
LoopNext ==
  /\ Asking("endswith") /\ pc = "idle" /\ foundAt # Npos
  /\ Increment
  /\ UNCHANGED queryVars

(* Mutant: the units at the begin of the slice are compared.               *)
TailBegin == 0

(* ranges::end - needle_len, which is in front of the slice when the       *)
(* needle is longer: nothing checks the difference.                        *)
Tail == hsize - nsize

Endswith ==
  /\ Asking("endswith") /\ pc = "idle"
  /\ answer' = IF \A k \in 0 .. nsize - 1 : Memory(Tail + k) = needle[k] THEN 1 ELSE 0
  /\ UNCHANGED <<vars, front, query, counted>>

QueryNext ==
  QuerySearch \/ Find \/ Index \/ CountNext \/ CountReturn \/ LoopNext \/ Endswith

QuerySpec == QueryInit /\ [][QueryNext]_allVars

QueryFairSpec == QuerySpec /\ WF_allVars(QueryNext)
-----------------------------------------------------------------------------
Answered(q) == query = q /\ answer # NoAnswer

(* find and index return the leftmost match, or none only when there is    *)
(* none, although they look no further than the view's first position.     *)
FindLeftmost ==
  \A q \in {"find", "index"} : Answered(q) =>
    IF StartsInside = {} THEN answer = (IF q = "find" THEN Npos ELSE Unexpected)
    ELSE answer \in StartsInside /\ \A p \in StartsInside : answer <= p

(* A set of matches of which no two share a unit.                          *)
Apart(S) == \A p, q \in S : p < q => p + nsize <= q

(* count returns the largest number of matches no two of which overlap:    *)
(* taking the leftmost each time, as the view does, is never worse.        *)
CountMaximal ==
  Answered("count") =>
    /\ \E S \in SUBSET StartsInside : Apart(S) /\ Cardinality(S) = answer
    /\ \A S \in SUBSET StartsInside : Apart(S) => Cardinality(S) <= answer

(* The needle agrees with itself d units further.                          *)
AgreesShifted(d) == \A k \in 0 .. nsize - d - 1 : needle[k + d] = needle[k]

(* A loop over finditer that has come to the last place where the needle   *)
(* fits has been given that place just if endswith is true, with one       *)
(* exception: the match reported before takes up the begin of this one,    *)
(* which a needle that agrees with itself at no shift can never do.        *)
EndswithAgrees ==
  LET last == hsize - nsize IN
  Answered("endswith") /\ nsize \in 1 .. hsize /\ last < Frontier =>
    \/ answer = 1 <=> last \in hits
    \/ /\ answer = 1
       /\ \E q \in hits : q < last /\ last < q + nsize /\ AgreesShifted(last - q)

(* Nothing ends with a longer needle.                                      *)
EndswithFits == Answered("endswith") /\ answer = 1 => nsize <= hsize

(* Every function returns.                                                 *)
QueryEnds == <>(answer # NoAnswer)
=============================================================================
