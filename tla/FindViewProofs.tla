--------------------------- MODULE FindViewProofs ---------------------------
(***************************************************************************)
(* Theorems about FindView, for every set of code units and every size.    *)
(*                                                                         *)
(* The inductive invariant is IInv: the type invariant, what next() relies *)
(* on at each place (SearchInv), and the two properties themselves.  The   *)
(* one step with an argument in it is Disagree: it moves the window by     *)
(* more than one unit, and lemma SkipLosesNothing shows that no match      *)
(* starts in the part it jumps over.                                       *)
(***************************************************************************)
EXTENDS FindView, TLAPS, FiniteSetTheorems, WellFoundedInduction

IInv == TypeOK /\ SearchInv /\ HitsDisjoint /\ NoMatchMissed

(* get_skip always has a result, and it moves the window on.               *)
LEMMA GetSkipIsSkip ==
  ASSUME SearchInv, NEW s \in 0 .. nsize, GetSkip(s)
  PROVE  IsSkip(s)
  BY DEF SearchInv, GetSkip

(* When the last unit of the window agrees, a shift by less than the skip  *)
(* would put another unit of the needle, one different from its last, at   *)
(* that place: no match starts strictly between i and i + s.               *)
LEMMA SkipLosesNothing ==
  ASSUME TypeOK, pc = "compare", i < hsize, nsize \in 1 .. hsize,
         text[i + nsize - 1] = LastNeedle,
         NEW s \in Int, IsSkip(s),
         NEW p \in Int, i < p, p < i + s
  PROVE  ~Occurs(p)
<1> DEFINE t == p - i
<1> DEFINE k == nsize - 1 - t
<1>1. t \in 1 .. s - 1 /\ s \in 1 .. nsize
  BY DEF IsSkip, TypeOK
<1>2. k \in 0 .. nsize - 1 /\ p + k = i + nsize - 1
  BY <1>1 DEF TypeOK
<1>3. needle[k] # LastNeedle
  BY <1>1 DEF IsSkip
<1>4. SUFFICES ASSUME Occurs(p) PROVE FALSE
  OBVIOUS
<1>5. text[p + k] = needle[k]
  BY <1>2, <1>4 DEF Occurs
<1> QED
  BY <1>2, <1>3, <1>5

(* No step writes to the haystack, the needle or the memory behind them.   *)
LEMMA InputsKept == [Next]_vars => UNCHANGED inputs
  BY DEF Next, Search, Construct, Increment, LoopTest, Scan, Agree, Disagree,
         vars

(* Occurs, StartsInside, LiesInside and IsSkip depend on the inputs alone, *)
(* which no step changes.                                                  *)
LEMMA InputsFixed ==
  ASSUME UNCHANGED inputs
  PROVE  /\ StartsInside' = StartsInside
         /\ LiesInside' = LiesInside
         /\ \A s : IsSkip(s)' <=> IsSkip(s)
         /\ \A p : Occurs(p)' <=> Occurs(p)
  BY DEF inputs, StartsInside, LiesInside, IsSkip, LastNeedle, Occurs

(* A view whose constructor has not run yet satisfies the invariant.       *)
LEMMA InitIInv == Init => IInv
  BY DEF Init, IInv, TypeOK, SearchInv, HitsDisjoint, NoMatchMissed, Frontier,
         Npos, StartsInside

(* No step of next() or of the constructor leaves the types: the window    *)
(* starts inside the haystack whenever a unit of it is read.               *)
LEMMA TypeStep ==
  ASSUME IInv, [Next]_vars
  PROVE  TypeOK'
<1> USE DEF IInv, TypeOK, SearchInv, inputs, Npos
<1>1. CASE Construct
  BY <1>1 DEF Construct, Searchable, NotFound, BeginSearch
<1>2. CASE Increment
  BY <1>2 DEF Increment, BeginSearch
<1>3. CASE LoopTest
  BY <1>3 DEF LoopTest, More, NotFound
<1>4. CASE Scan
  BY <1>4 DEF Scan, NotFound
<1>5. CASE Agree
  <2>1. j + 1 \in 0 .. nsize /\ i \in 0 .. hsize - 1 /\ nsize \in Nat
    BY <1>5 DEF Agree, Complete, Report
  <2>2. i + nsize \in 0 .. hsize + nsize /\ i \in -1 .. hsize
    BY <2>1
  <2>3. foundAt' \in -1 .. hsize /\ cur' \in 0 .. hsize + nsize
    BY <1>5, <2>2 DEF Agree, Complete, Report
  <2>4. hits' \subseteq 0 .. hsize - 1
    BY <1>5, <2>1 DEF Agree, Complete, Report
  <2>5. pc' \in {"compare", "idle"} /\ UNCHANGED <<inputs, skip, i>>
        /\ j' = j + 1
    BY <1>5 DEF Agree, Complete, Report
  <2> QED
    BY <2>1, <2>3, <2>4, <2>5
<1>6. CASE Disagree
  BY <1>6 DEF Disagree
<1>7. CASE UNCHANGED vars
  BY <1>7 DEF vars
<1> QED
  BY <1>1, <1>2, <1>3, <1>4, <1>5, <1>6, <1>7 DEF Next, Search

(* An agreement on the last unit compared is a match, and it starts behind *)
(* every match reported before.                                            *)
LEMMA AgreementIsMatch ==
  ASSUME TypeOK, SearchInv, pc = "compare",
         text[i + j] = needle[j], j + 1 = nsize
  PROVE  i \in StartsInside
  BY DEF TypeOK, SearchInv, StartsInside, Occurs

(* Every step hands on what the code behind it relies on.                  *)
LEMMA SearchStep ==
  ASSUME IInv, [Next]_vars
  PROVE  SearchInv'
<1> USE DEF IInv, TypeOK, SearchInv, inputs, Npos
<1>0. UNCHANGED inputs
  BY InputsKept
<1>1. CASE Construct
  BY <1>0, <1>1, InputsFixed DEF Construct, Searchable, NotFound, BeginSearch
<1>2. CASE Increment
  BY <1>0, <1>2, InputsFixed DEF Increment, BeginSearch
<1>3. CASE LoopTest
  BY <1>0, <1>3, InputsFixed DEF LoopTest, More, NotFound
<1>4. CASE Scan
  BY <1>0, <1>4, InputsFixed DEF Scan, NotFound, LastNeedle
<1>5. CASE Agree
  <2>1. LastNeedle' = LastNeedle
    BY <1>0 DEF LastNeedle
  <2>2. skip' # 0 => IsSkip(skip)'
    BY <1>0, <1>5, InputsFixed DEF Agree, Complete, Report, IsSkip, LastNeedle
  <2>3. CASE j + 1 = nsize
    <3>1. \A q \in hits : q + nsize <= i + nsize
      BY <1>5 DEF Agree, Complete, Report
    <3>2. /\ hits' = hits \union {i} /\ cur' = i + nsize
          /\ nsize' = nsize /\ i + nsize \in Int
      BY <1>5, <2>3 DEF Agree, Complete, Report
    <3>3. \A q \in hits' : q + nsize' <= cur'
      BY ONLY <3>1, <3>2
    <3>4. pc' = "idle" /\ foundAt' = i' /\ foundAt' \in hits'
          /\ cur' = foundAt' + nsize'
      BY <1>5, <2>3 DEF Agree, Complete, Report
    <3>5. nsize' \in 1 .. hsize'
      BY <1>5 DEF Agree, Complete, Report
    <3> QED
      BY <2>2, <3>3, <3>4, <3>5
  <2>4. CASE j + 1 # nsize
    <3>1. \A k \in 0 .. j : text[i + k] = needle[k]
      BY <1>5 DEF Agree, Complete, Report
    <3>2. \A k \in 0 .. j' - 1 : text'[i' + k] = needle'[k]
      BY <1>0, <1>5, <3>1 DEF Agree, Complete, Report
    <3>3. j' < nsize' /\ text'[i' + nsize' - 1] = LastNeedle'
      BY <1>0, <1>5, <2>1, <2>4 DEF Agree, Complete, Report
    <3>4. UNCHANGED <<inputs, i, foundAt, cur, hits, pc>> /\ pc = "compare"
      BY <1>5, <2>4 DEF Agree, Complete, Report
    <3> QED
      BY <2>2, <3>2, <3>3, <3>4
  <2> QED
    BY <2>3, <2>4
<1>6. CASE Disagree
  <2>1. PICK s \in 0 .. nsize : GetSkip(s) /\ skip' = s /\ i' = i + s
    BY <1>6 DEF Disagree
  <2>2. IsSkip(s)
    BY <2>1, GetSkipIsSkip
  <2> QED
    BY <1>0, <1>6, <2>1, <2>2, InputsFixed DEF Disagree
<1>7. CASE UNCHANGED vars
  BY <1>0, <1>7, InputsFixed DEF vars, LastNeedle
<1> QED
  BY <1>1, <1>2, <1>3, <1>4, <1>5, <1>6, <1>7 DEF Next, Search

(* A new match starts behind all the earlier ones, so it overlaps none.    *)
LEMMA DisjointStep ==
  ASSUME IInv, [Next]_vars
  PROVE  HitsDisjoint'
<1> USE DEF IInv, HitsDisjoint
<1>0. UNCHANGED inputs
  BY InputsKept
<1>1. CASE Agree
  <2>1. CASE j + 1 = nsize
    <3>1. hits' = hits \union {i}
      BY <1>1, <2>1 DEF Agree, Complete, Report
    <3>2. i \in StartsInside
      BY <1>1, <2>1, AgreementIsMatch DEF Agree, Complete, Report
    <3>3. \A q \in hits : q + nsize <= i /\ q \in Int
      BY <1>1 DEF Agree, Complete, Report, SearchInv, TypeOK
    <3> QED
      BY <1>0, <3>1, <3>2, <3>3, InputsFixed DEF inputs, TypeOK
  <2>2. CASE j + 1 # nsize
    BY <1>0, <1>1, <2>2, InputsFixed DEF Agree, Complete, Report, inputs
  <2> QED
    BY <2>1, <2>2
<1>2. CASE UNCHANGED hits
  BY <1>0, <1>2, InputsFixed DEF inputs
<1> QED
  BY <1>1, <1>2 DEF Next, Search, Construct, Searchable, Increment, LoopTest, More, Scan,
                    Disagree, vars

(* Wherever the frontier moves, it passes no match that is still free: not *)
(* by ++i, not by the skip, and not by the jump behind a match.            *)
LEMMA MissedStep ==
  ASSUME IInv, [Next]_vars
  PROVE  NoMatchMissed'
<1> USE DEF IInv, NoMatchMissed
<1>0. UNCHANGED inputs
  BY InputsKept
<1>a. StartsInside' = StartsInside /\ nsize' = nsize
  BY <1>0, InputsFixed DEF inputs
<1>b. StartsInside \subseteq 0 .. hsize - 1
  BY DEF StartsInside
<1>1. CASE Construct
  <2>1. CASE nsize > hsize \/ nsize = 0
    <3>1. StartsInside = {}
      BY <2>1 DEF StartsInside, TypeOK
    <3> QED
      BY <1>a, <3>1
  <2>2. CASE nsize <= hsize /\ nsize # 0
    <3>1. pc' = "loop" /\ i' = 0 /\ hits' = {}
      BY <1>1, <2>2 DEF Construct, Searchable, BeginSearch, TypeOK, SearchInv
    <3>2. Frontier' = 0
      BY <3>1 DEF Frontier
    <3> QED
      BY <1>a, <1>b, <3>2 DEF TypeOK
  <2> QED
    BY <2>1, <2>2 DEF TypeOK
<1>2. CASE Increment
  <2>1. Frontier' = Frontier
    BY <1>2 DEF Increment, BeginSearch, Frontier, inputs
  <2> QED
    BY <1>2, <1>a, <2>1 DEF Increment
<1>3. CASE LoopTest
  BY <1>3, <1>a, <1>b DEF LoopTest, More, NotFound, Frontier, TypeOK, Npos, SearchInv
<1>4. CASE Scan
  <2>1. CASE text[i + nsize - 1] = LastNeedle
    BY <1>4, <1>a, <2>1 DEF Scan, Frontier, TypeOK
  <2>2. CASE text[i + nsize - 1] # LastNeedle
    <3>1. i \notin StartsInside
      BY <1>4, <2>2 DEF Scan, SearchInv, TypeOK, StartsInside, Occurs, LastNeedle
    <3>2. Frontier = i /\ Frontier' = i + 1
      BY <1>4, <2>2 DEF Scan, NotFound, Frontier, Npos, TypeOK, inputs
    <3> QED
      BY <1>4, <1>a, <1>b, <3>1, <3>2 DEF Scan, TypeOK
  <2> QED
    BY <2>1, <2>2
<1>5. CASE Agree
  <2>1. CASE j + 1 = nsize
    <3>1. /\ pc = "compare" /\ pc' = "idle" /\ hits' = hits \union {i}
          /\ foundAt' = i /\ cur' = i + nsize
      BY <1>5, <2>1 DEF Agree, Complete, Report
    <3>2. foundAt' # Npos
      BY <3>1 DEF TypeOK, Npos
    <3>3. Frontier = i /\ Frontier' = i + nsize
      BY <3>1, <3>2 DEF Frontier
    <3> QED
      BY <1>a, <1>b, <3>1, <3>3 DEF TypeOK
  <2>2. CASE j + 1 # nsize
    BY <1>5, <1>a, <2>2 DEF Agree, Complete, Report, Frontier
  <2> QED
    BY <2>1, <2>2
<1>6. CASE Disagree
  <2>1. PICK s \in 0 .. nsize : GetSkip(s) /\ skip' = s /\ i' = i + s
    BY <1>6 DEF Disagree
  <2>2. IsSkip(s)
    BY <2>1, GetSkipIsSkip
  <2>3. i \notin StartsInside
    BY <1>6 DEF Disagree, SearchInv, TypeOK, StartsInside, Occurs
  <2>4. \A p \in StartsInside : i < p => p >= i + s
    <3> SUFFICES ASSUME NEW p \in StartsInside, i < p, p < i + s
                 PROVE  FALSE
      BY <1>b, <2>1 DEF TypeOK
    <3>a. /\ TypeOK /\ pc = "compare" /\ i < hsize /\ nsize \in 1 .. hsize
          /\ text[i + nsize - 1] = LastNeedle
      BY <1>6 DEF Disagree, SearchInv
    <3>b. s \in Int /\ p \in Int
      BY <1>b, <2>1 DEF TypeOK
    <3>1. ~Occurs(p)
      <4> HIDE DEF IInv, NoMatchMissed
      <4> QED
        BY <2>2, <3>a, <3>b, SkipLosesNothing
    <3> QED
      BY <3>1 DEF StartsInside
  <2>5. Frontier = i /\ Frontier' = i + s
    BY <1>6, <2>1 DEF Disagree, Frontier
  <2> QED
    BY <1>6, <1>a, <1>b, <2>3, <2>4, <2>5 DEF Disagree, TypeOK
<1>7. CASE UNCHANGED vars
  <2>1. Frontier' = Frontier
    BY <1>7 DEF vars, Frontier, inputs
  <2> QED
    BY <1>7, <1>a, <2>1 DEF vars
<1> QED
  BY <1>1, <1>2, <1>3, <1>4, <1>5, <1>6, <1>7 DEF Next, Search

(* The invariant is inductive: one lemma per conjunct.                     *)
LEMMA IInvStep == IInv /\ [Next]_vars => IInv'
  BY TypeStep, SearchStep, DisjointStep, MissedStep DEF IInv

(* Every state of a FindView satisfies the invariant.                      *)
THEOREM Invariance == Spec => []IInv
  BY InitIInv, IInvStep, PTL DEF Spec

(* The search stays within the haystack and the needle's length behind it. *)
THEOREM TypeCorrect == Spec => []TypeOK
  BY Invariance, PTL DEF IInv

(* Wherever next() is, the window, the units compared and the kept skip    *)
(* are what the code that runs next takes them for.                        *)
THEOREM SearchCorrect == Spec => []SearchInv
  BY Invariance, PTL DEF IInv

(* The reported positions are matches, and no two of them share a unit.    *)
THEOREM Disjointness == Spec => []HitsDisjoint
  BY Invariance, PTL DEF IInv

(* The Boyer-Moore skip passes over no match that is still free.           *)
THEOREM Completeness == Spec => []NoMatchMissed
  BY Invariance, PTL DEF IInv

-----------------------------------------------------------------------------
(* A step is as far as it has to be: behind a match the search resumes to  *)
(* the right of it, and the skip is never zero.                            *)
LEMMA AdvanceStep ==
  ASSUME IInv, Next, vars' # vars
  PROVE  Further
<1> USE DEF Further, Place, IInv, TypeOK, SearchInv, Npos
<1>1. CASE Construct
  BY <1>1 DEF Construct, NotFound, BeginSearch
<1>2. CASE LoopTest
  BY <1>2 DEF LoopTest, NotFound
<1>3. CASE Scan
  BY <1>3 DEF Scan, NotFound
<1>4. CASE Agree
  BY <1>4 DEF Agree, Complete, Report
<1>5. CASE Disagree
  <2>1. PICK s \in 0 .. nsize : GetSkip(s) /\ i' = i + s
    BY <1>5 DEF Disagree
  <2>2. s >= 1
    BY <2>1, GetSkipIsSkip DEF IsSkip
  <2> QED
    BY <2>1, <2>2
<1>6. CASE Increment
  <2>1. foundAt # Npos
    BY <1>6 DEF Increment, vars
  <2>2. pc = "idle" /\ i' = cur
    BY <1>6, <2>1 DEF Increment, BeginSearch
  <2>3. cur = i + nsize /\ nsize >= 1
    BY <2>1, <2>2
  <2> QED
    BY <2>2, <2>3
<1> QED
  BY <1>1, <1>2, <1>3, <1>4, <1>5, <1>6 DEF Next, Search

(* The search advances with every step, whatever the haystack and needle.  *)
THEOREM Advancing == Spec => Advances
<1>1. IInv /\ [Next]_vars => [Further]_vars
  BY AdvanceStep
<1> QED
  BY <1>1, Invariance, PTL DEF Spec, Advances

(* How far the search is, as one number.                                   *)
Rank == (i * 5 + Place[pc]) * (nsize + 1) + j
RankBound == ((hsize + nsize) * 5 + 4) * (nsize + 1) + nsize

(* The order of two numbers is that of their first digits, if these are    *)
(* different.                                                              *)
LEMMA FirstDigit ==
  ASSUME NEW a \in Int, NEW b \in Int, a < b,
         NEW n \in Nat, NEW x \in 0 .. n, NEW y \in Nat
  PROVE  a * (n + 1) + x < b * (n + 1) + y
<1>1. PICK d \in Nat : b = a + 1 + d
  <2>1. b - a - 1 \in Nat /\ b = a + 1 + (b - a - 1)
    OBVIOUS
  <2> QED
    BY <2>1
<1>2. b * (n + 1) = a * (n + 1) + (n + 1) + d * (n + 1)
  BY <1>1
<1>3. d * (n + 1) \in Nat /\ a * (n + 1) \in Int
  OBVIOUS
<1> QED
  BY <1>2, <1>3

(* The number of steps of a loop over the range is bounded by the sizes of *)
(* the haystack and of the needle: each step adds to Rank.                 *)
THEOREM StepsBounded == Spec => [](Rank \in 0 .. RankBound) /\ [][Rank' > Rank]_vars
<1>1. ASSUME TypeOK
      PROVE  /\ Rank \in 0 .. RankBound
             /\ i \in Nat /\ j \in 0 .. nsize /\ nsize \in Nat /\ Place[pc] \in 0 .. 4
  <2>1. /\ i \in 0 .. hsize + nsize /\ j \in 0 .. nsize /\ nsize \in Nat /\ hsize \in Nat
        /\ Place[pc] \in 0 .. 4
    BY <1>1 DEF TypeOK, Place
  <2> DEFINE a == i * 5 + Place[pc]
             b == (hsize + nsize) * 5 + 4
  <2>2. a \in Nat /\ b \in Nat /\ a <= b
    BY <2>1
  <2>3. a * (nsize + 1) \in Nat /\ b * (nsize + 1) \in Nat
    <3> HIDE DEF a, b
    <3> QED
      BY <2>1, <2>2
  <2>4. a * (nsize + 1) + j <= b * (nsize + 1) + nsize
    <3> HIDE DEF a, b
    <3>1. CASE a = b
      BY <2>1, <2>3, <3>1
    <3>2. CASE a < b
      <4>1. a \in Int /\ b \in Int
        BY <2>2
      <4>2. a * (nsize + 1) + j < b * (nsize + 1) + nsize
        BY <2>1, <3>2, <4>1, FirstDigit
      <4> QED
        BY <2>1, <2>3, <4>2
    <3> QED
      BY <2>2, <3>1, <3>2
  <2> HIDE DEF a, b
  <2>5. a * (nsize + 1) + j \in 0 .. b * (nsize + 1) + nsize
    BY <2>1, <2>3, <2>4
  <2> QED
    BY <2>1, <2>5 DEF Rank, RankBound, a, b
<1>2. ASSUME IInv, IInv', [Next]_vars
      PROVE  [Rank' > Rank]_vars
  <2> SUFFICES ASSUME Next, vars' # vars PROVE Rank' > Rank
    BY <1>2
  <2>1. /\ i \in Nat /\ j \in 0 .. nsize /\ nsize \in Nat /\ Place[pc] \in 0 .. 4
        /\ i' \in Nat /\ j' \in 0 .. nsize' /\ Place[pc'] \in 0 .. 4 /\ nsize' = nsize
    BY <1>2, InputsKept DEF IInv, TypeOK, Place, inputs
  <2>5. j \in Int /\ j' \in Nat
    BY <2>1
  <2>2. CASE i' * 5 + Place[pc'] > i * 5 + Place[pc]
    <3> DEFINE a == i * 5 + Place[pc]
               b == i' * 5 + Place[pc']
    <3>1. a \in Int /\ b \in Int /\ a < b
      BY <2>1, <2>2
    <3> HIDE DEF a, b
    <3>2. a * (nsize + 1) + j < b * (nsize + 1) + j'
      <4>1. \A y \in Nat : a * (nsize + 1) + j < b * (nsize + 1) + y
        BY <2>1, <3>1, FirstDigit
      <4> QED
        BY <2>5, <4>1
    <3>3. a * (nsize + 1) + j \in Int /\ b * (nsize + 1) + j' \in Int
      BY <2>1, <3>1
    <3>4. b * (nsize + 1) + j' > a * (nsize + 1) + j
      BY <3>2, <3>3
    <3> QED
      BY <2>1, <3>4 DEF Rank, a, b
  <2>3. CASE i' = i /\ pc' = pc /\ j' > j
    <3> DEFINE a == (i * 5 + Place[pc]) * (nsize + 1)
    <3>1. a \in Int
      BY <2>1
    <3>2. Rank = a + j /\ Rank' = a + j'
      BY <2>1, <2>3 DEF Rank
    <3> HIDE DEF a
    <3>3. a + j' > a + j
      <4>1. \A x \in Int, y \in Nat : y > x => a + y > a + x
        BY <3>1
      <4>2. j' > j
        BY <2>3
      <4> QED
        BY <2>5, <4>1, <4>2
    <3> QED
      BY <3>2, <3>3
  <2>4. Further
    BY <1>2, AdvanceStep
  <2> QED
    BY <2>1, <2>2, <2>3, <2>4 DEF Further
<1>3. IInv => Rank \in 0 .. RankBound
  BY <1>1 DEF IInv
<1> QED
  BY <1>2, <1>3, Invariance, PTL DEF Spec

(* Natural numbers up to a bound are well-founded: induction over data     *)
(* without a predicate as a parameter.                                     *)
LEMMA LeastElement ==
  ASSUME NEW h \in Nat, NEW T \in SUBSET (0 .. h), T # {}
  PROVE  \E m \in T : \A t \in T : m <= t
<1> DEFINE S == 0 .. h
           Fam == {0 .. m : m \in T}
<1>1. IsFiniteSet(S)
  BY FS_Interval
<1>2. FiniteSubsetsOf(S) = SUBSET S
  BY <1>1, FS_FiniteSubsetsOfFinite
<1>3. Fam \subseteq FiniteSubsetsOf(S) /\ Fam # {}
  <2>1. ASSUME NEW m \in T PROVE 0 .. m \in SUBSET S
    OBVIOUS
  <2>2. Fam \subseteq SUBSET S
    BY <2>1
  <2>3. Fam # {}
    OBVIOUS
  <2> HIDE DEF Fam, S
  <2> QED
    BY <1>2, <2>2, <2>3
<1>4. IsWellFoundedOn(StrictSubsetOrdering(S), FiniteSubsetsOf(S))
  BY FS_StrictSubsetOrderingWellFounded
<1> HIDE DEF Fam
<1>5. PICK X \in Fam : \A Y \in Fam : ~(<<Y, X>> \in StrictSubsetOrdering(S))
  BY <1>3, <1>4, WFMin
<1> USE DEF Fam
<1>6. PICK m \in T : X = 0 .. m
  BY <1>5
<1>7. ASSUME NEW t \in T, t < m PROVE FALSE
  <2>1. 0 .. t \in Fam /\ 0 .. t \in SUBSET S /\ X \in SUBSET S
    BY <1>6
  <2>2. 0 .. t \subseteq X /\ 0 .. t # X
    BY <1>6, <1>7
  <2> QED
    BY <1>5, <2>1, <2>2 DEF StrictSubsetOrdering
<1> QED
  BY <1>7

(* Strong induction on positions, for a set in place of a predicate.       *)
LEMMA StrongInduction ==
  ASSUME NEW h \in Nat, NEW G,
         \A k \in 0 .. h : (\A l \in 0 .. k - 1 : l \in G) => k \in G
  PROVE  \A k \in 0 .. h : k \in G
<1> DEFINE T == {k \in 0 .. h : k \notin G}
<1>1. SUFFICES ASSUME T # {} PROVE FALSE
  OBVIOUS
<1>2. PICK m \in T : \A t \in T : m <= t
  BY <1>1, LeastElement
<1>3. ASSUME NEW l \in 0 .. m - 1 PROVE l \in G
  <2>1. l \in 0 .. h /\ ~(m <= l)
    BY <1>2
  <2> QED
    BY <1>2, <2>1
<1> QED
  BY <1>2, <1>3

(* get_skip has a result whenever the code asks for one, and only one: the *)
(* distance of the nearest earlier occurrence of the last unit.  Disagree, *)
(* which takes any s that GetSkip accepts, is neither blocked nor free to  *)
(* choose.                                                                 *)
THEOREM SkipDetermined ==
  ASSUME TypeOK, SearchInv, nsize # 0
  PROVE  /\ \E s \in 0 .. nsize : GetSkip(s)
         /\ \A s, t \in 0 .. nsize : GetSkip(s) /\ GetSkip(t) => s = t
<1> DEFINE T == {s \in 0 .. nsize : s \in 1 .. nsize /\
                   (s < nsize => needle[nsize - 1 - s] = LastNeedle)}
<1>1. nsize \in Nat /\ nsize \in T
  BY DEF TypeOK
<1>2. PICK m \in T : \A t \in T : m <= t
  BY <1>1, LeastElement
<1>3. IsSkip(m)
  <2>1. m \in 1 .. nsize /\ (m < nsize => needle[nsize - 1 - m] = LastNeedle)
    OBVIOUS
  <2>2. ASSUME NEW t \in 1 .. m - 1 PROVE needle[nsize - 1 - t] # LastNeedle
    <3>1. t \in 0 .. nsize /\ t \in 1 .. nsize /\ t < nsize /\ ~(m <= t)
      BY <1>1, <1>2, <2>1
    <3> QED
      BY <1>2, <3>1
  <2> QED
    BY <2>1, <2>2 DEF IsSkip
<1>4. ASSUME NEW s \in 0 .. nsize, NEW t \in 0 .. nsize, IsSkip(s), IsSkip(t), s < t
      PROVE  FALSE
  <2>1. s \in 1 .. t - 1 /\ s < nsize
    BY <1>1, <1>4 DEF IsSkip
  <2> QED
    BY <1>4, <2>1 DEF IsSkip
<1>5. \A s, t \in 0 .. nsize : IsSkip(s) /\ IsSkip(t) => s = t
  BY <1>1, <1>4
<1>6. skip \in 0 .. nsize
  BY DEF TypeOK
<1> QED
  BY <1>3, <1>5, <1>6 DEF GetSkip

-----------------------------------------------------------------------------
(* What Chosen chooses.                                                    *)
IsChosen(O, w, G) ==
  G \in SUBSET O /\ \A p \in O : p \in G <=> \A q \in G : q < p => q + w <= p

(* Taking the leftmost each time can be carried on from position to        *)
(* position.                                                               *)
LEMMA ChosenExists ==
  ASSUME NEW h \in Nat, NEW O \in SUBSET (0 .. h), NEW w \in Nat
  PROVE  \E G : IsChosen(O, w, G)
<1> DEFINE Part(k) == {p \in O : p < k}
           Good == {k \in 0 .. h + 1 : \E G : IsChosen(Part(k), w, G)}
<1>0. \A p \in O : p \in 0 .. h /\ p \in Int
  OBVIOUS
<1>1. 0 \in Good
  <2>1. Part(0) = {} /\ 0 \in 0 .. h + 1
    <3>1. \A p \in O : ~(p < 0)
      BY <1>0
    <3>2. 0 \in 0 .. h + 1
      OBVIOUS
    <3>3. Part(0) = {}
      BY <3>1
    <3> QED
      BY <3>2, <3>3
  <2>2. IsChosen(Part(0), w, {})
    BY <2>1 DEF IsChosen
  <2> QED
    BY <2>1, <2>2
<1>2. ASSUME NEW k \in 0 .. h, k \in Good PROVE k + 1 \in Good
  <2>0. \A p \in O : (p < k + 1 <=> p < k \/ p = k) /\ ~(k < k)
    BY <1>0
  <2>1. PICK G : IsChosen(Part(k), w, G)
    BY <1>2
  <2>2. G \subseteq Part(k) /\ \A p \in Part(k) : p \in G <=> \A q \in G : q < p => q + w <= p
    BY <2>1 DEF IsChosen
  <2>3. k + 1 \in 0 .. h + 1 /\ \A p \in Part(k) : p < k /\ p \in Int
    OBVIOUS
  <2>4. CASE k \in O /\ \A q \in G : q + w <= k
    <3>1. Part(k + 1) = Part(k) \union {k}
      BY <2>0, <2>4
    <3>2. IsChosen(Part(k + 1), w, G \union {k})
      <4> HIDE DEF Part
      <4> QED
        BY <2>2, <2>3, <2>4, <3>1 DEF IsChosen
    <3> QED
      BY <2>3, <3>2
  <2>5. CASE k \in O /\ ~(\A q \in G : q + w <= k)
    <3>1. Part(k + 1) = Part(k) \union {k}
      BY <2>0, <2>5
    <3>2. IsChosen(Part(k + 1), w, G)
      <4> HIDE DEF Part
      <4> QED
        BY <2>2, <2>3, <2>5, <3>1 DEF IsChosen
    <3> QED
      BY <2>3, <3>2
  <2>6. CASE k \notin O
    <3>1. Part(k + 1) = Part(k)
      BY <2>0, <2>6
    <3> QED
      BY <2>1, <2>3, <3>1
  <2> QED
    BY <2>4, <2>5, <2>6
<1> HIDE DEF Good
<1>3. ASSUME NEW k \in 0 .. h + 1, \A l \in 0 .. k - 1 : l \in Good PROVE k \in Good
  <2>1. CASE k = 0
    BY <1>1, <2>1
  <2>2. CASE k # 0
    <3>1. k - 1 \in 0 .. h /\ k - 1 \in 0 .. k - 1 /\ k - 1 + 1 = k
      BY <2>2
    <3>2. k - 1 \in Good
      BY <1>3, <3>1
    <3> QED
      BY <1>2, <3>1, <3>2
  <2> QED
    BY <2>1, <2>2
<1>4. \A k \in 0 .. h + 1 : (\A l \in 0 .. k - 1 : l \in Good) => k \in Good
  BY <1>3
<1>5. h + 1 \in Nat /\ h + 1 \in 0 .. h + 1
  OBVIOUS
<1>6. h + 1 \in Good
  BY <1>4, <1>5, StrongInduction
<1>7. Part(h + 1) = O
  <2>1. \A p \in O : p < h + 1
    BY <1>0
  <2> QED
    BY <2>1
<1> QED
  BY <1>6, <1>7 DEF Good

(* Two such sets, or a set and what has been chosen up to a frontier, are  *)
(* the same up to there.                                                   *)
LEMMA ChosenUnique ==
  ASSUME NEW h \in Nat, NEW O \in SUBSET (0 .. h), NEW w \in Nat, NEW f \in Int,
         NEW G, IsChosen(O, w, G), NEW H \in SUBSET O,
         \A p, q \in H : p < q => p + w <= q,
         \A p \in O : p < f => \E q \in H : q <= p /\ p < q + w,
         \A p \in H : p < f
  PROVE  H = {p \in G : p < f}
<1> DEFINE Same == {k \in 0 .. h : k < f => (k \in H <=> k \in G)}
<1>1. G \subseteq O /\ \A p \in O : p \in G <=> \A q \in G : q < p => q + w <= p
  BY DEF IsChosen
<1>2. ASSUME NEW k \in 0 .. h, \A l \in 0 .. k - 1 : l \in Same PROVE k \in Same
  <2> SUFFICES ASSUME k < f PROVE k \in H <=> k \in G
    OBVIOUS
  <2>1. \A l \in O : l < k => (l \in H <=> l \in G)
    BY <1>2
  <2>2. ASSUME k \in H PROVE k \in G
    <3>1. \A q \in G : q < k => q + w <= k
      BY <1>1, <2>1, <2>2
    <3> QED
      BY <1>1, <2>2, <3>1
  <2>3. ASSUME k \in G PROVE k \in H
    <3>1. PICK q \in H : q <= k /\ k < q + w
      BY <1>1, <2>3
    <3>2. q = k \/ q < k
      BY <3>1
    <3>3. ~(q < k)
      BY <1>1, <2>1, <2>3, <3>1
    <3> QED
      BY <3>1, <3>2, <3>3
  <2> QED
    BY <2>2, <2>3
<1> HIDE DEF Same
<1>3. \A k \in 0 .. h : (\A l \in 0 .. k - 1 : l \in Same) => k \in Same
  BY <1>2
<1>4. \A k \in 0 .. h : k \in Same
  BY <1>3, StrongInduction
<1>5. \A k \in 0 .. h : k < f => (k \in H <=> k \in G)
  BY <1>4 DEF Same
<1> QED
  BY <1>1, <1>5

(* Chosen is one.                                                          *)
LEMMA ChosenIs ==
  ASSUME TypeOK
  PROVE  IsChosen(StartsInside, nsize, Chosen)
<1>1. hsize \in Nat /\ nsize \in Nat /\ StartsInside \in SUBSET (0 .. hsize)
  BY DEF TypeOK, StartsInside
<1>2. \E G : IsChosen(StartsInside, nsize, G)
  BY <1>1, ChosenExists
<1> QED
  BY <1>2, Zenon DEF Chosen, IsChosen

(* The hits are what is to be chosen up to the frontier: they are apart,   *)
(* and nothing has been missed.                                            *)
LEMMA HitsAreChosen ==
  ASSUME IInv
  PROVE  HitsChosen
<1>1. hsize \in Nat /\ nsize \in Nat /\ StartsInside \in SUBSET (0 .. hsize)
  BY DEF IInv, TypeOK, StartsInside
<1>2. Frontier \in Int
  BY DEF IInv, TypeOK, Frontier
<1>3. ASSUME NEW q \in hits PROVE q < Frontier
  <2>1. q + nsize <= cur /\ q \in 0 .. hsize - 1 /\ nsize \in Nat /\ nsize > 0
    BY DEF IInv, SearchInv, HitsDisjoint, StartsInside, TypeOK
  <2>2. cur <= Frontier \/ Frontier = hsize
    BY DEF IInv, TypeOK, SearchInv, Frontier
  <2> QED
    BY <1>1, <1>2, <2>1, <2>2 DEF IInv, TypeOK
<1>4. hits \in SUBSET StartsInside /\ \A p, q \in hits : p < q => p + nsize <= q
  BY DEF IInv, HitsDisjoint
<1>5. \A p \in StartsInside : p < Frontier => \E q \in hits : q <= p /\ p < q + nsize
  BY DEF IInv, NoMatchMissed
<1>6. IsChosen(StartsInside, nsize, Chosen)
  BY ChosenIs DEF IInv
<1> QED
  BY <1>1, <1>2, <1>3, <1>4, <1>5, <1>6, ChosenUnique DEF HitsChosen

(* What is reported at any time follows from the haystack and the needle.  *)
THEOREM Determined == Spec => []HitsChosen
  BY HitsAreChosen, Invariance, PTL

(* Until the end, __found_at is the last match reported, whatever next()   *)
(* is doing.                                                               *)
LastInv ==
  foundAt # Npos /\ hits # {} => foundAt \in hits /\ \A q \in hits : q <= foundAt

(* A new match is the last one.                                            *)
LEMMA LastStep ==
  ASSUME IInv, LastInv, [Next]_vars
  PROVE  LastInv'
<1>1. CASE Agree /\ j + 1 = nsize
  <2>1. foundAt' = i /\ hits' = hits \union {i} /\ nsize \in Nat /\ i \in Int
    BY <1>1 DEF Agree, Complete, Report, IInv, TypeOK
  <2>2. \A q \in hits : q + nsize <= i /\ q \in Int
    BY <1>1 DEF Agree, IInv, SearchInv, TypeOK
  <2> QED
    BY <2>1, <2>2 DEF LastInv
<1>2. CASE UNCHANGED <<foundAt, hits>> \/ (foundAt' = Npos /\ UNCHANGED hits)
  BY <1>2 DEF LastInv
<1> QED
  BY <1>1, <1>2 DEF Next, Search, Construct, Increment, LoopTest, NotFound, Scan,
                    Agree, Disagree, vars

(* Between the last match and the next one reported, none is to be chosen. *)
LEMMA ChosenStep ==
  ASSUME IInv, HitsChosen, HitsChosen', LastInv, [Next]_vars, Outcome' # Outcome
  PROVE  NextChosen(Outcome, Outcome')
<1>1. Chosen' = Chosen /\ hsize' = hsize
  BY InputsKept, InputsFixed DEF Chosen, inputs
<1>2. /\ hits = {q \in Chosen : q < Frontier}
      /\ hits' = {q \in Chosen : q < Frontier'}
  BY <1>1 DEF HitsChosen
<1>3. Chosen \subseteq 0 .. hsize - 1 /\ hsize \in Nat /\ nsize \in Nat
  <2>1. StartsInside \subseteq 0 .. hsize - 1 /\ hsize \in Nat /\ nsize \in Nat
    BY DEF StartsInside, IInv, TypeOK
  <2>2. Chosen \subseteq StartsInside
    BY ChosenIs DEF IsChosen, IInv
  <2> QED
    BY <2>1, <2>2
<1>4. CASE Agree /\ j + 1 = nsize
  <2>1. /\ foundAt' = i /\ hits' = hits \union {i} /\ i \in Nat /\ pc = "compare"
        /\ foundAt # Npos /\ nsize > 0
        /\ \A q \in hits : q + nsize <= i
    BY <1>4 DEF Agree, Complete, Report, IInv, TypeOK, SearchInv
  <2>2. Outcome' = i /\ i # Npos /\ i \in Chosen
    BY <1>2, <2>1 DEF Outcome, Searching, Npos
  <2>3. Frontier = i
    BY <2>1 DEF Frontier
  <2>4. CASE hits = {}
    <3>1. Outcome = -2
      BY <2>1, <2>4 DEF Outcome, Searching
    <3> QED
      BY <1>2, <1>3, <2>1, <2>2, <2>3, <2>4, <3>1 DEF NextChosen
  <2>5. CASE hits # {}
    <3>1. Outcome = foundAt /\ foundAt \in hits /\ \A q \in hits : q <= foundAt
      BY <2>1, <2>5 DEF Outcome, Searching, LastInv
    <3>2. foundAt < i
      BY <1>2, <1>3, <2>1, <3>1
    <3>3. ASSUME NEW q \in Chosen, foundAt < q PROVE i <= q
      BY <1>2, <1>3, <2>1, <2>3, <3>1, <3>3
    <3> QED
      BY <2>2, <3>1, <3>2, <3>3 DEF NextChosen
  <2> QED
    BY <2>4, <2>5
<1>5. CASE NotFound /\ foundAt # Npos /\ UNCHANGED hits
  <2>1. Outcome' = Npos /\ Frontier' = hsize
    BY <1>1, <1>5 DEF NotFound, Outcome, Searching, Frontier
  <2>2. Chosen = hits
    <3>1. \A q \in Chosen : q < hsize
      BY <1>3
    <3> QED
      BY <1>2, <1>5, <2>1, <3>1
  <2>3. CASE hits = {}
    BY <2>1, <2>2, <2>3 DEF NextChosen
  <2>4. CASE hits # {}
    <3>1. Outcome = foundAt /\ \A q \in hits : q <= foundAt
      BY <1>5, <2>4 DEF Outcome, Searching, LastInv
    <3> QED
      BY <2>1, <2>2, <3>1 DEF NextChosen
  <2> QED
    BY <2>3, <2>4
<1>6. CASE UNCHANGED <<foundAt, hits>>
  BY <1>6 DEF Outcome, Searching
<1>7. pc \in {"construct", "loop", "scan"} => foundAt # Npos
  BY DEF IInv, SearchInv
<1> QED
  BY <1>4, <1>5, <1>6, <1>7 DEF Next, Search, Construct, Increment, LoopTest, NotFound,
                                Scan, Agree, Disagree, vars

(* Every ++ takes the view to the next chosen position, and to npos when   *)
(* there is none: what SharedCursors takes for a single step.              *)
THEOREM ThroughChosen == Spec => StepsThroughChosen
<1>1. Init => LastInv
  BY DEF Init, LastInv
<1>2. IInv /\ LastInv /\ [Next]_vars => LastInv'
  BY LastStep
<1>3. IInv /\ HitsChosen /\ HitsChosen' /\ LastInv /\ [Next]_vars
        => [Outcome' # Outcome => NextChosen(Outcome, Outcome')]_vars
  BY ChosenStep
<1> QED
  BY <1>1, <1>2, <1>3, Invariance, Determined, PTL DEF Spec, StepsThroughChosen

-----------------------------------------------------------------------------
(* The view stands at a match.                                             *)
Ahead == pc = "idle" /\ foundAt # Npos

(* It starts inside the haystack.                                          *)
LEMMA AheadInside ==
  ASSUME IInv, Ahead
  PROVE  /\ foundAt \in StartsInside /\ foundAt \in hits
         /\ foundAt \in 0 .. hsize - 1 /\ cur = foundAt + nsize
         /\ nsize \in 1 .. hsize /\ hsize \in Nat
<1>1. foundAt \in hits /\ cur = foundAt + nsize /\ nsize \in 1 .. hsize
  BY DEF Ahead, IInv, SearchInv
<1> QED
  BY <1>1 DEF IInv, HitsDisjoint, TypeOK, StartsInside

(* A search either completes a comparison behind the view's position or    *)
(* leaves both the position and the matches alone.                         *)
LEMMA SearchMoves ==
  ASSUME IInv, Search
  PROVE  /\ ~Ahead
         /\ \/ /\ Ahead' /\ foundAt' = i /\ hits' = hits \union {i}
               /\ cur' = i + nsize /\ cur <= i
            \/ ~Ahead' /\ UNCHANGED <<cur, hits>>
<1> USE DEF Ahead, Npos
<1>1. CASE Construct
  BY <1>1 DEF Construct, NotFound, BeginSearch
<1>2. CASE LoopTest
  BY <1>2 DEF LoopTest, NotFound
<1>3. CASE Scan
  BY <1>3 DEF Scan, NotFound
<1>4. CASE Agree
  <2>1. pc = "compare" /\ i # -1 /\ cur <= i
    BY <1>4 DEF Agree, IInv, TypeOK, SearchInv
  <2> QED
    BY <1>4, <2>1 DEF Agree, Complete, Report
<1>5. CASE Disagree
  BY <1>5 DEF Disagree
<1> QED
  BY <1>1, <1>2, <1>3, <1>4, <1>5 DEF Search

-----------------------------------------------------------------------------
(* Refinement: a completed comparison is Report, leaving next() without a  *)
(* match is Finish, and every other step leaves the image alone.           *)

(* An unconstructed view is an enumeration that has not reported yet.      *)
LEMMA StartingInit == Init => Starting!Init
  BY DEF Init, Starting!Init, StartsInside, Outcome, Searching, Npos

(* When a match is reported at i, no free one starts to the left of it.    *)
LEMMA LeftmostFirst ==
  ASSUME IInv, pc \in {"loop", "scan", "compare"}, NEW q \in StartsInside, cur <= q
  PROVE  i <= q
<1> SUFFICES ASSUME q < i PROVE FALSE
  BY DEF IInv, TypeOK, StartsInside
<1>1. PICK r \in hits : r <= q /\ q < r + nsize
  BY DEF IInv, NoMatchMissed, Frontier
<1>2. r + nsize <= cur
  BY DEF IInv, SearchInv
<1> QED
  BY <1>1, <1>2 DEF IInv, TypeOK, StartsInside

(* The step that completes a comparison is a Report.                       *)
LEMMA ReportStep ==
  ASSUME IInv, Agree, j + 1 = nsize
  PROVE  Starting!Report
<1>1. pc = "compare" /\ foundAt # Npos /\ cur <= i /\ i \in StartsInside
  BY AgreementIsMatch DEF Agree, Complete, Report, IInv, SearchInv
<1>2. /\ foundAt' = i /\ cur' = i + nsize /\ hits' = hits \union {i}
      /\ UNCHANGED inputs
  BY DEF Agree, Complete, Report
<1>3. Outcome # Npos
  BY <1>1 DEF Outcome, Npos
<1>4. Outcome' = i
  BY <1>2 DEF Outcome, Searching
<1>5. \A q \in StartsInside : q >= cur => i <= q
  BY <1>1, LeftmostFirst DEF IInv, TypeOK, StartsInside
<1>6. UNCHANGED <<StartsInside, nsize>>
  BY <1>2, InputsFixed DEF inputs
<1>7. i >= cur
  BY <1>1 DEF IInv, TypeOK
<1> QED
  BY <1>1, <1>2, <1>3, <1>4, <1>5, <1>6, <1>7 DEF Starting!Report

(* The search is over when the range ends.                                 *)
LEMMA FinishStep ==
  ASSUME IInv, IInv', NotFound, pc # "idle", UNCHANGED <<inputs, cur, hits>>
  PROVE  Starting!Finish
<1>1. foundAt # Npos
  BY DEF IInv, TypeOK, SearchInv
<1>2. Outcome # Npos /\ Outcome' = Npos
  BY <1>1 DEF Outcome, Searching, NotFound, Npos
<1>3. UNCHANGED <<StartsInside, nsize>>
  BY InputsFixed DEF inputs
<1>4. ASSUME NEW q \in StartsInside PROVE q < cur
  <2>1. q < hsize /\ q \in Int
    BY DEF StartsInside, IInv, TypeOK
  <2>2. Frontier' = hsize
    BY DEF NotFound, Frontier, inputs
  <2>3. PICK r \in hits : r <= q /\ q < r + nsize
    BY <1>3, <2>1, <2>2 DEF IInv, NoMatchMissed
  <2>4. r + nsize <= cur
    BY DEF IInv, SearchInv
  <2> QED
    BY <2>1, <2>3, <2>4 DEF IInv, TypeOK
<1> QED
  BY <1>2, <1>3, <1>4 DEF Starting!Finish

(* Every step of the view is one of the enumeration or leaves it alone.    *)
LEMMA StartingStep ==
  ASSUME IInv, IInv', [Next]_vars
  PROVE  [Starting!Next]_(Starting!vars)
<1>0. UNCHANGED inputs
  BY InputsKept
<1>1. CASE Agree /\ j + 1 = nsize
  BY <1>1, ReportStep DEF Starting!Next
<1>2. CASE NotFound /\ pc # "idle" /\ UNCHANGED <<inputs, cur, hits>>
  BY <1>2, FinishStep DEF Starting!Next
<1>3. CASE UNCHANGED <<inputs, cur, foundAt, hits>>
  <2>1. UNCHANGED <<StartsInside, nsize, cur, Outcome>>
    BY <1>3, InputsFixed DEF inputs, Outcome, Searching
  <2> QED
    BY <2>1 DEF Starting!vars
<1> QED
  BY <1>1, <1>2, <1>3 DEF Next, Search, Construct, Searchable, Increment, LoopTest, More, Scan,
                          Agree, Complete, Report, Disagree, vars

(* The range enumerates the matches that start inside the haystack.        *)
THEOREM Refinement == Spec => ReportsStartsInside
<1>1. Init => Starting!Init
  BY StartingInit
<1>2. IInv /\ IInv' /\ [Next]_vars => [Starting!Next]_(Starting!vars)
  BY StartingStep
<1> QED
  BY <1>1, <1>2, Invariance, PTL DEF Spec, ReportsStartsInside, Starting!Spec

-----------------------------------------------------------------------------
(* For a terminated haystack, a match that starts inside lies inside: the  *)
(* unit behind the haystack would be one of the needle's.                  *)
LEMMA NoneStraddles ==
  ASSUME TypeOK, Terminated
  PROVE  LiesInside = StartsInside
<1> SUFFICES ASSUME NEW p \in StartsInside, p + nsize > hsize
             PROVE  FALSE
  BY DEF LiesInside, StartsInside, TypeOK
<1>1. p \in 0 .. hsize - 1 /\ hsize - p \in 0 .. nsize - 1 /\ Occurs(p)
  BY DEF StartsInside, TypeOK
<1>2. text[p + (hsize - p)] = needle[hsize - p]
  BY <1>1 DEF Occurs
<1>3. p + (hsize - p) = hsize
  BY <1>1 DEF TypeOK
<1> QED
  BY <1>1, <1>2, <1>3 DEF Terminated

(* Nothing writes to the memory the view looks at.                         *)
LEMMA TerminatedStays ==
  ASSUME Terminated, [Next]_vars
  PROVE  Terminated'
  BY DEF Terminated, Next, Search, Construct, Searchable, Increment, LoopTest, More, Scan,
         Agree, Complete, Report, Disagree, vars, inputs

(* A terminated haystack is searched within its bounds: every reported     *)
(* match lies inside.                                                      *)
THEOREM InsideWhenTerminated == TerminatedSpec => []HitsInside
<1>1. TypeOK /\ Terminated /\ HitsDisjoint => HitsInside
  BY NoneStraddles DEF HitsInside, HitsDisjoint
<1>2. TerminatedSpec => [](TypeOK /\ HitsDisjoint)
  BY Invariance, PTL DEF TerminatedSpec, TerminatedInit, Spec, IInv
<1>3. TerminatedSpec => []Terminated
  BY TerminatedStays, PTL DEF TerminatedSpec, TerminatedInit
<1> QED
  BY <1>1, <1>2, <1>3, PTL

(* The same of any view, as a property of its states.                      *)
THEOREM TerminationSuffices == Spec => []TerminatedInside
<1>1. TypeOK /\ HitsDisjoint => TerminatedInside
  BY NoneStraddles DEF TerminatedInside, HitsInside, HitsDisjoint
<1> QED
  BY <1>1, TypeCorrect, Disjointness, PTL

(* ...and the range enumerates the matches that lie inside.                *)
THEOREM TerminatedRefinement == TerminatedSpec => ReportsLiesInside
<1>1. Init /\ Terminated /\ IInv => Lying!Init
  BY StartingInit, NoneStraddles DEF IInv, Starting!Init, Lying!Init
<1>2. IInv /\ IInv' /\ Terminated /\ [Next]_vars => [Lying!Next]_(Lying!vars)
  <2> SUFFICES ASSUME IInv, IInv', Terminated, [Next]_vars
               PROVE  [Lying!Next]_(Lying!vars)
    OBVIOUS
  <2>0. UNCHANGED inputs
    BY InputsKept
  <2>1. LiesInside = StartsInside /\ LiesInside' = StartsInside'
    BY <2>0, NoneStraddles, InputsFixed DEF IInv
  <2>2. [Starting!Next]_(Starting!vars)
    BY StartingStep
  <2> QED
    BY <2>1, <2>2 DEF Starting!Next, Starting!Report, Starting!Finish,
       Starting!vars, Lying!Next, Lying!Report, Lying!Finish, Lying!vars
<1>3. TerminatedSpec => []IInv
  BY Invariance, PTL DEF TerminatedSpec, TerminatedInit, Spec
<1>4. TerminatedSpec => []Terminated
  BY TerminatedStays, PTL DEF TerminatedSpec, TerminatedInit
<1> QED
  BY <1>1, <1>2, <1>3, <1>4, PTL DEF TerminatedSpec, TerminatedInit, ReportsLiesInside, Lying!Spec
=============================================================================
