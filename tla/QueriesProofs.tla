---------------------------- MODULE QueriesProofs ----------------------------
(***************************************************************************)
(* Theorems about Queries, for every haystack and needle.                  *)
(*                                                                         *)
(* find and index stop at the first match the view reports, so that        *)
(* nothing but it is among the hits; count goes on to the end, where every *)
(* match overlaps exactly one of the hits.  A caller of endswith is where  *)
(* it likes in its loop.                                                   *)
(***************************************************************************)
EXTENDS Queries, FindViewProofs, FiniteSetTheorems

(* A step of a query is one of the view, or leaves it alone.               *)
LEMMA QueryLifts == [QueryNext]_allVars => [Next]_vars
  BY DEF QueryNext, QuerySearch, Find, Index, CountNext, CountReturn, LoopNext, Endswith,
         Next, allVars

(* Hence the invariant of the view holds while it is queried.              *)
LEMMA QueryIInv == QuerySpec => []IInv
<1>1. QueryInit => IInv
  BY InitIInv DEF QueryInit
<1>2. IInv /\ [QueryNext]_allVars => IInv'
  BY QueryLifts, IInvStep
<1> QED
  BY <1>1, <1>2, PTL DEF QuerySpec

(* Which of the hits ranges::distance has counted: all but the one the     *)
(* view stands at; find and index have at most that one.                   *)
HitsCounted ==
  /\ query = "count" =>
       Cardinality(hits) = IF Ahead THEN counted + 1 ELSE counted
  /\ query # "count" => counted = 0
  /\ query \in {"find", "index"} => hits = IF Ahead THEN {foundAt} ELSE {}

QueryShape ==
  /\ front \in [-nsize .. -1 -> Char]
  /\ query \in Queried
  /\ counted \in Nat
  /\ answer \in {NoAnswer} \union
       IF query = "endswith" THEN {0, 1} ELSE {Unexpected, Npos} \union 0 .. MaxHaystack

(* There are no more hits than units.                                      *)
LEMMA HitsFinite ==
  ASSUME IInv
  PROVE  /\ IsFiniteSet(hits) /\ Cardinality(hits) \in Nat
         /\ Cardinality(hits) <= MaxHaystack
<1>1. hsize \in Nat /\ hsize <= MaxHaystack /\ hits \in SUBSET (0 .. hsize - 1)
  BY SizesAssumption DEF IInv, TypeOK
<1>2. /\ IsFiniteSet(0 .. hsize - 1)
      /\ Cardinality(0 .. hsize - 1) = IF 0 > hsize - 1 THEN 0 ELSE hsize - 1 - 0 + 1
  <2>1. 0 \in Int /\ hsize - 1 \in Int
    BY <1>1
  <2> QED
    BY <2>1, FS_Interval
<1>3. IsFiniteSet(hits) /\ Cardinality(hits) <= Cardinality(0 .. hsize - 1)
  BY <1>1, <1>2, FS_Subset
<1>4. Cardinality(hits) \in Nat
  BY <1>3, FS_CardinalityType
<1> QED
  BY <1>1, <1>2, <1>3, <1>4, SizesAssumption

(* The search adds a hit that is behind all the others.                    *)
LEMMA SearchCounted ==
  ASSUME IInv, HitsCounted, QueryShape, QuerySearch
  PROVE  HitsCounted'
<1>1. Search /\ UNCHANGED queryVars /\ ~Ahead
  BY SearchMoves DEF QuerySearch
<1>2. UNCHANGED <<query, counted>> /\ counted \in Nat
  BY <1>1 DEF queryVars, QueryShape
<1>3. CASE Ahead' /\ foundAt' = i /\ hits' = hits \union {i} /\ cur <= i
  <2>1. i \notin hits
    BY <1>3 DEF IInv, TypeOK, SearchInv, HitsDisjoint, StartsInside
  <2>2. Cardinality(hits') = Cardinality(hits) + 1
    BY <1>3, <2>1, HitsFinite, FS_AddElement
  <2> QED
    BY <1>1, <1>2, <1>3, <2>2 DEF HitsCounted
<1>4. CASE ~Ahead' /\ UNCHANGED <<cur, hits>>
  BY <1>1, <1>2, <1>4 DEF HitsCounted
<1> QED
  BY <1>1, <1>3, <1>4, SearchMoves

(* Every step counts what it passes.                                       *)
LEMMA CountedStep ==
  ASSUME IInv, HitsCounted, QueryShape, [QueryNext]_allVars
  PROVE  HitsCounted'
<1>1. CASE QuerySearch
  BY <1>1, SearchCounted
<1>2. CASE CountNext
  <2>1. /\ Ahead /\ query = "count" /\ counted' = counted + 1
        /\ pc' = "loop" /\ UNCHANGED <<hits, query>>
    BY <1>2 DEF CountNext, Asking, Ahead, Counted, Increment, BeginSearch
  <2>2. ~Ahead'
    BY <2>1 DEF Ahead
  <2> QED
    BY <2>1, <2>2 DEF HitsCounted
<1>3. CASE LoopNext
  BY <1>3 DEF LoopNext, Asking, queryVars, HitsCounted
<1>4. CASE UNCHANGED <<vars, query, counted>>
  BY <1>4 DEF vars, HitsCounted, Ahead
<1> QED
  BY <1>1, <1>2, <1>3, <1>4 DEF QueryNext, Find, Index, CountReturn, LoopNext, Endswith,
     allVars, queryVars

(* Every step keeps the types.                                             *)
LEMMA ShapeStep ==
  ASSUME IInv, HitsCounted, QueryShape, [QueryNext]_allVars
  PROVE  QueryShape'
<1> USE DEF QueryShape
<1>0. UNCHANGED <<nsize, front, query>>
  <2>1. UNCHANGED nsize
    BY QueryLifts, InputsKept DEF inputs
  <2>2. UNCHANGED <<front, query>>
    BY DEF QueryNext, QuerySearch, Find, Index, CountNext, CountReturn,
       LoopNext, Endswith, allVars, queryVars
  <2> QED
    BY <2>1, <2>2
<1>1. foundAt \in {Npos} \union 0 .. MaxHaystack
  BY SizesAssumption DEF IInv, TypeOK, Npos
<1>2. CASE QuerySearch
  BY <1>0, <1>2 DEF QuerySearch, queryVars
<1>3. CASE Find
  BY <1>0, <1>1, <1>3 DEF Find, Asking, Front
<1>4. CASE Index
  BY <1>0, <1>1, <1>4 DEF Index, Asking, Front
<1>5. CASE CountNext
  BY <1>0, <1>5 DEF CountNext, Counted
<1>6. CASE CountReturn
  <2>1. query = "count" /\ ~Ahead /\ answer' = counted /\ UNCHANGED counted
    BY <1>6 DEF CountReturn, Asking, Ahead
  <2>2. counted \in 0 .. MaxHaystack
    BY <2>1, HitsFinite, SizesAssumption DEF HitsCounted
  <2> QED
    BY <1>0, <2>1, <2>2
<1>7. CASE Endswith
  BY <1>0, <1>7 DEF Endswith, Asking
<1>8. CASE LoopNext \/ UNCHANGED allVars
  BY <1>0, <1>8 DEF LoopNext, allVars, queryVars
<1> QED
  BY <1>2, <1>3, <1>4, <1>5, <1>6, <1>7, <1>8 DEF QueryNext

(* The invariant holds of every state of a query.                          *)
LEMMA QueryInvariance == QuerySpec => [](IInv /\ HitsCounted /\ QueryShape)
<1>1. QueryInit => HitsCounted /\ QueryShape
  <2> SUFFICES ASSUME QueryInit PROVE HitsCounted /\ QueryShape
    OBVIOUS
  <2>1. hits = {} /\ ~Ahead /\ counted = 0
    BY DEF QueryInit, Init, Ahead
  <2> QED
    BY <2>1, FS_EmptySet DEF QueryInit, HitsCounted, QueryShape
<1>2. IInv /\ HitsCounted /\ QueryShape /\ [QueryNext]_allVars
        => HitsCounted' /\ QueryShape'
  BY CountedStep, ShapeStep
<1> QED
  BY <1>1, <1>2, QueryIInv, PTL DEF QuerySpec

(* What a query answers is of its type, and a count is at most the size.   *)
THEOREM QueryTypeCorrect == QuerySpec => []QueryTypeOK
<1>1. IInv /\ HitsCounted /\ QueryShape => QueryTypeOK
  <2> SUFFICES ASSUME IInv, HitsCounted, QueryShape PROVE QueryTypeOK
    OBVIOUS
  <2>1. counted \in 0 .. MaxHaystack
    BY HitsFinite, SizesAssumption DEF HitsCounted, QueryShape
  <2> QED
    BY <2>1 DEF IInv, QueryShape, QueryTypeOK
<1> QED
  BY <1>1, QueryInvariance, PTL

-----------------------------------------------------------------------------
(* Once there is an answer nothing changes any more, and the answer does   *)
(* not depend on anything that could.                                      *)
LEMMA AnswerStays ==
  ASSUME answer # NoAnswer, [QueryNext]_allVars
  PROVE  UNCHANGED allVars
  BY DEF QueryNext, QuerySearch, Find, Index, CountNext, CountReturn, LoopNext, Endswith,
     Asking, allVars

(* The sets the properties speak of are those of the step before.          *)
LEMMA MatchesStay ==
  ASSUME UNCHANGED allVars
  PROVE  /\ UNCHANGED <<StartsInside, LiesInside, hits, nsize, hsize, answer, query>>
         /\ \A S : Apart(S)' <=> Apart(S)
  BY InputsFixed DEF allVars, queryVars, vars, inputs, Apart

(* A view that stands at its end without a match has none.                 *)
LEMMA NoneAtEnd ==
  ASSUME IInv, pc = "idle", foundAt = Npos, hits = {}
  PROVE  StartsInside = {}
  BY DEF IInv, NoMatchMissed, Frontier, StartsInside, TypeOK

(* A view that has reported one match stands at the leftmost.              *)
LEMMA FirstIsLeftmost ==
  ASSUME IInv, Ahead, hits = {foundAt}
  PROVE  foundAt \in StartsInside /\ \A p \in StartsInside : foundAt <= p
<1>1. foundAt \in StartsInside /\ cur = foundAt + nsize /\ nsize \in Nat /\ foundAt \in Nat
  BY AheadInside
<1>2. Frontier = cur
  BY DEF Ahead, Frontier
<1>3. ASSUME NEW p \in StartsInside, p < foundAt PROVE FALSE
  <2>1. p \in Int /\ p < Frontier
    BY <1>1, <1>2, <1>3 DEF StartsInside, IInv, TypeOK
  <2>2. \E q \in hits : q <= p
    BY <2>1 DEF IInv, NoMatchMissed
  <2> QED
    BY <1>1, <1>3, <2>1, <2>2
<1>4. \A p \in StartsInside : p \in Int
  BY DEF StartsInside, IInv, TypeOK
<1> QED
  BY <1>1, <1>3, <1>4

(* find and index answer with the leftmost match.                          *)
LEMMA LeftmostStep ==
  ASSUME IInv, HitsCounted, FindLeftmost, [QueryNext]_allVars
  PROVE  FindLeftmost'
<1>1. CASE answer # NoAnswer
  <2>1. UNCHANGED allVars
    BY <1>1, AnswerStays
  <2> QED
    BY <2>1, MatchesStay DEF FindLeftmost, Answered
<1>2. CASE answer = NoAnswer /\ (Find \/ Index)
  <2>1. /\ pc = "idle" /\ query \in {"find", "index"} /\ UNCHANGED <<vars, query>>
        /\ answer' = IF foundAt # Npos THEN foundAt
                     ELSE IF query = "find" THEN Npos ELSE Unexpected
    BY <1>2 DEF Find, Index, Asking, Front
  <2>2. StartsInside' = StartsInside
    BY <2>1, InputsFixed DEF vars
  <2>3. CASE foundAt = Npos
    <3>1. StartsInside = {}
      BY <2>1, <2>3, NoneAtEnd DEF HitsCounted, Ahead
    <3> QED
      BY <2>1, <2>2, <2>3, <3>1 DEF FindLeftmost, Answered
  <2>4. CASE foundAt # Npos
    <3>1. Ahead /\ hits = {foundAt}
      BY <2>1, <2>4 DEF HitsCounted, Ahead
    <3>2. foundAt \in StartsInside /\ \A p \in StartsInside : foundAt <= p
      BY <3>1, FirstIsLeftmost
    <3>3. answer' = foundAt
      BY <2>1, <2>4
    <3> QED
      BY <2>2, <3>2, <3>3 DEF FindLeftmost, Answered
  <2> QED
    BY <2>3, <2>4
<1>3. CASE answer' = NoAnswer \/ query' \notin {"find", "index"}
  BY <1>3 DEF FindLeftmost, Answered
<1>4. answer' = NoAnswer \/ query' \notin {"find", "index"} \/ Find \/ Index
        \/ answer # NoAnswer
  BY DEF QueryNext, QuerySearch, CountNext, CountReturn, LoopNext, Endswith, Asking,
     allVars, queryVars
<1> QED
  BY <1>1, <1>2, <1>3, <1>4

(* find and index return the leftmost match, and none only when there is   *)
(* none.                                                                   *)
THEOREM Leftmost == QuerySpec => []FindLeftmost
<1>1. QueryInit => FindLeftmost
  BY DEF QueryInit, FindLeftmost, Answered
<1>2. IInv /\ HitsCounted /\ FindLeftmost /\ [QueryNext]_allVars => FindLeftmost'
  BY LeftmostStep
<1> QED
  BY <1>1, <1>2, QueryInvariance, PTL DEF QuerySpec

-----------------------------------------------------------------------------
(* At the end each match overlaps a hit from behind its begin, and two     *)
(* matches that are apart overlap different ones: no set of matches that   *)
(* are apart is larger than the hits.                                      *)
LEMMA HitsLargest ==
  ASSUME IInv, pc = "idle", foundAt = Npos,
         NEW S \in SUBSET StartsInside, Apart(S)
  PROVE  Cardinality(S) <= Cardinality(hits)
<1> DEFINE Hit(p) == CHOOSE q \in hits : q <= p /\ p < q + nsize
           f == [p \in S |-> Hit(p)]
<1>1. nsize \in Nat /\ hits \subseteq Int /\ S \subseteq Int
  BY DEF IInv, TypeOK, StartsInside
<1>2. ASSUME NEW p \in S
      PROVE  Hit(p) \in hits /\ Hit(p) <= p /\ p < Hit(p) + nsize
  <2>1. p < Frontier
    BY DEF IInv, TypeOK, Frontier, StartsInside
  <2>2. \E q \in hits : q <= p /\ p < q + nsize
    BY <2>1 DEF IInv, NoMatchMissed
  <2> QED
    BY <2>2
<1> HIDE DEF Hit
<1>3. f \in [S -> hits]
  BY <1>2
<1>4. ASSUME NEW p \in S, NEW r \in S, f[p] = f[r] PROVE p = r
  <2>1. Hit(p) = Hit(r) /\ p \in Int /\ r \in Int /\ Hit(p) \in Int
    BY <1>1, <1>2, <1>4
  <2>2. ~(p < r)
    BY <1>1, <1>2, <2>1 DEF Apart
  <2>3. ~(r < p)
    BY <1>1, <1>2, <2>1 DEF Apart
  <2> QED
    BY <2>1, <2>2, <2>3
<1>5. f \in Injection(S, hits)
  BY <1>3, <1>4 DEF Injection, IsInjective
<1> QED
  BY <1>5, HitsFinite, FS_Injection

(* count answers with the number of hits at the end.                       *)
LEMMA MaximalStep ==
  ASSUME IInv, HitsCounted, CountMaximal, [QueryNext]_allVars
  PROVE  CountMaximal'
<1>1. CASE answer # NoAnswer
  <2>1. UNCHANGED allVars
    BY <1>1, AnswerStays
  <2> QED
    BY <1>1, <2>1, MatchesStay DEF CountMaximal, Answered
<1>2. CASE CountReturn
  <2>1. /\ pc = "idle" /\ foundAt = Npos /\ answer' = Cardinality(hits)
        /\ UNCHANGED vars
    BY <1>2 DEF CountReturn, Asking, HitsCounted, Ahead
  <2>2. StartsInside' = StartsInside /\ \A S : Apart(S)' <=> Apart(S)
    BY <2>1, InputsFixed DEF vars, inputs, Apart
  <2>3. hits \in SUBSET StartsInside /\ Apart(hits)
    BY DEF IInv, HitsDisjoint, Apart
  <2>4. \A S \in SUBSET StartsInside : Apart(S) => Cardinality(S) <= Cardinality(hits)
    BY <2>1, HitsLargest
  <2> QED
    BY <2>1, <2>2, <2>3, <2>4 DEF CountMaximal
<1>3. CASE answer' = NoAnswer \/ query' # "count"
  BY <1>3 DEF CountMaximal, Answered
<1>4. answer' = NoAnswer \/ query' # "count" \/ CountReturn \/ answer # NoAnswer
  BY DEF QueryNext, QuerySearch, Find, Index, CountNext, LoopNext, Endswith, Asking,
     allVars, queryVars
<1> QED
  BY <1>1, <1>2, <1>3, <1>4

(* Taking the leftmost match each time is never worse than any other way   *)
(* to choose matches that are apart: count is the largest number of them.  *)
THEOREM Maximal == QuerySpec => []CountMaximal
<1>1. QueryInit => CountMaximal
  BY DEF QueryInit, CountMaximal, Answered
<1>2. IInv /\ HitsCounted /\ CountMaximal /\ [QueryNext]_allVars => CountMaximal'
  BY MaximalStep
<1> QED
  BY <1>1, <1>2, QueryInvariance, PTL DEF QuerySpec

-----------------------------------------------------------------------------
(* What the search knows of the last place where the needle fits, once it  *)
(* is behind it: it is a hit just if the needle occurs there, unless the   *)
(* hit before overlaps it and the needle agrees with itself at the shift.  *)
LEMMA LastPlace ==
  ASSUME IInv, nsize \in 1 .. hsize, hsize - nsize < Frontier
  PROVE  \/ Occurs(hsize - nsize) <=> hsize - nsize \in hits
         \/ /\ Occurs(hsize - nsize)
            /\ \E q \in hits : /\ q < hsize - nsize /\ hsize - nsize < q + nsize
                              /\ AgreesShifted(hsize - nsize - q)
<1> DEFINE last == hsize - nsize
<1>1. hsize \in Nat /\ nsize \in Nat /\ last \in 0 .. hsize - 1
  BY DEF IInv, TypeOK
<1>2. hits \subseteq StartsInside
  BY DEF IInv, HitsDisjoint
<1>3. last \in hits => Occurs(last)
  BY <1>2 DEF StartsInside
<1>4. ASSUME Occurs(last), last \notin hits
      PROVE  \E q \in hits : q < last /\ last < q + nsize /\ AgreesShifted(last - q)
  <2>1. last \in StartsInside
    BY <1>1, <1>4 DEF StartsInside
  <2>2. PICK q \in hits : q <= last /\ last < q + nsize
    BY <2>1 DEF IInv, NoMatchMissed
  <2>3. q \in 0 .. hsize - 1 /\ Occurs(q)
    BY <1>2 DEF StartsInside
  <2>4. q < last
    BY <1>1, <1>4, <2>2, <2>3
  <2>5. AgreesShifted(last - q)
    <3>1. PICK d \in Nat : d = last - q
      BY <1>1, <2>3, <2>4
    <3>2. d \in 1 .. nsize - 1 /\ q + d = last
      BY <1>1, <2>2, <2>3, <2>4, <3>1
    <3>3. ASSUME NEW k \in 0 .. nsize - d - 1 PROVE needle[k + d] = needle[k]
      <4>1. k + d \in 0 .. nsize - 1 /\ k \in 0 .. nsize - 1 /\ q + (k + d) = last + k
        BY <1>1, <2>3, <3>2
      <4>2. text[q + (k + d)] = needle[k + d]
        BY <2>3, <4>1 DEF Occurs
      <4>3. text[last + k] = needle[k]
        BY <1>4, <4>1 DEF Occurs
      <4> QED
        BY <4>1, <4>2, <4>3
    <3> QED
      BY <3>1, <3>3 DEF AgreesShifted
  <2> QED
    BY <2>2, <2>4, <2>5
<1> QED
  BY <1>3, <1>4

(* endswith compares what is at that place, and the loop around it goes on *)
(* without it.                                                             *)
LEMMA EndStep ==
  ASSUME IInv, EndswithAgrees, [QueryNext]_allVars
  PROVE  EndswithAgrees'
<1> DEFINE last == hsize - nsize
<1>1. CASE answer # NoAnswer
  <2>1. UNCHANGED allVars
    BY <1>1, AnswerStays
  <2> QED
    BY <1>1, <2>1 DEF allVars, queryVars, vars, inputs, EndswithAgrees, Answered,
                      Frontier, AgreesShifted
<1>2. CASE Endswith
  <2>1. /\ UNCHANGED vars
        /\ answer' = IF \A k \in 0 .. nsize - 1 : Memory(Tail + k) = needle[k] THEN 1 ELSE 0
    BY <1>2 DEF Endswith
  <2>2. SUFFICES ASSUME nsize \in 1 .. hsize, last < Frontier
                 PROVE  \/ answer' = 1 <=> last \in hits
                        \/ /\ answer' = 1
                           /\ \E q \in hits : q < last /\ last < q + nsize
                                            /\ AgreesShifted(last - q)
    BY <2>1 DEF vars, inputs, EndswithAgrees, Frontier, AgreesShifted
  <2>3. answer' = 1 <=> Occurs(last)
    <3>1. hsize \in Nat /\ nsize \in Nat /\ Tail = last
      BY DEF IInv, TypeOK, Tail
    <3>2. \A k \in 0 .. nsize - 1 : Memory(Tail + k) = text[last + k]
      BY <2>2, <3>1 DEF Memory
    <3> QED
      BY <2>1, <3>2 DEF Occurs
  <2> QED
    BY <2>2, <2>3, LastPlace
<1>3. CASE answer' = NoAnswer \/ query' # "endswith"
  BY <1>3 DEF EndswithAgrees, Answered
<1>4. answer' = NoAnswer \/ query' # "endswith" \/ Endswith \/ answer # NoAnswer
  BY DEF QueryNext, QuerySearch, Find, Index, CountNext, CountReturn, LoopNext, Asking,
     allVars, queryVars
<1> QED
  BY <1>1, <1>2, <1>3, <1>4

(* A loop over finditer and endswith agree on a match at the end unless    *)
(* the match before takes up the begin of that one.                        *)
THEOREM EndAgrees == QuerySpec => []EndswithAgrees
<1>1. QueryInit => EndswithAgrees
  BY DEF QueryInit, EndswithAgrees, Answered
<1>2. IInv /\ EndswithAgrees /\ [QueryNext]_allVars => EndswithAgrees'
  BY EndStep
<1> QED
  BY <1>1, <1>2, QueryInvariance, PTL DEF QuerySpec

-----------------------------------------------------------------------------
(* Each step of a query advances its search or is its last.                *)
THEOREM QueryAdvancing ==
  QuerySpec => [][Further \/ (answer = NoAnswer /\ answer' # NoAnswer)]_allVars
<1>1. ASSUME IInv, QueryTypeOK, QueryTypeOK', [QueryNext]_allVars
      PROVE  [Further \/ (answer = NoAnswer /\ answer' # NoAnswer)]_allVars
  <2>1. CASE QuerySearch /\ allVars' # allVars
    <3>1. Next /\ vars' # vars
      BY <2>1 DEF QuerySearch, Next, allVars
    <3> QED
      BY <1>1, <3>1, AdvanceStep
  <2>2. CASE CountNext \/ LoopNext
    <3>1. Next /\ vars' # vars
      BY <2>2 DEF CountNext, LoopNext, Increment, BeginSearch, Next, vars
    <3> QED
      BY <1>1, <3>1, AdvanceStep
  <2>3. foundAt >= -1 /\ foundAt \in Int /\ counted \in Nat
    BY <1>1 DEF IInv, TypeOK, QueryTypeOK
  <2>4. CASE Find \/ Index \/ CountReturn \/ Endswith
    BY <2>3, <2>4 DEF Find, Index, CountReturn, LoopNext, Endswith, Asking, Front, NoAnswer,
                      Unexpected
  <2> QED
    BY <1>1, <2>1, <2>2, <2>4 DEF QueryNext
<1> QED
  BY <1>1, QueryIInv, QueryTypeCorrect, PTL DEF QuerySpec
=============================================================================
