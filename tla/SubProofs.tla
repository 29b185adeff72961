------------------------------ MODULE SubProofs ------------------------------
(***************************************************************************)
(* Theorems about Sub and ExpandTabs, for every haystack, needle, tab_size *)
(* and width of int.                                                       *)
(*                                                                         *)
(* Sub drives a FindView by steps that are steps of the view, so that the  *)
(* invariant of FindViewProofs holds of it as well.  What is added is how  *)
(* last_pos follows the view: it is the view's own position, except while  *)
(* a match has been found and not yet been replaced.                       *)
(***************************************************************************)
EXTENDS ExpandTabs, FindViewProofs, SequenceTheorems

Origin == {"unit", "repl"} \X Int

(* What a concatenation is made of.                                        *)
LEMMA ElementsConcat ==
  ASSUME NEW s \in Seq(Origin), NEW t \in Seq(Origin)
  PROVE  Elements(s \o t) = Elements(s) \union Elements(t)
<1>1. /\ Len(s) \in Nat /\ Len(t) \in Nat /\ Len(s \o t) = Len(s) + Len(t)
      /\ \A k \in 1 .. Len(s) + Len(t) :
           (s \o t)[k] = IF k <= Len(s) THEN s[k] ELSE t[k - Len(s)]
  BY ConcatProperties, LenProperties
<1>2. ASSUME NEW k \in 1 .. Len(s) + Len(t)
      PROVE  (s \o t)[k] \in Elements(s) \union Elements(t)
  BY <1>1 DEF Elements
<1>3. ASSUME NEW k \in 1 .. Len(s) PROVE s[k] \in Elements(s \o t)
  <2>1. k \in 1 .. Len(s \o t) /\ (s \o t)[k] = s[k]
    BY <1>1
  <2> QED
    BY <2>1 DEF Elements
<1>4. ASSUME NEW k \in 1 .. Len(t) PROVE t[k] \in Elements(s \o t)
  <2>1. /\ Len(s) + k \in 1 .. Len(s \o t) /\ ~(Len(s) + k <= Len(s))
        /\ Len(s) + k - Len(s) = k
    BY <1>1
  <2>2. (s \o t)[Len(s) + k] = t[k]
    BY <1>1, <2>1
  <2> QED
    BY <2>1, <2>2 DEF Elements
<1> QED
  BY <1>1, <1>2, <1>3, <1>4 DEF Elements

(* A concatenation ascends when everything in it comes from behind what is *)
(* in front of it.                                                         *)
LEMMA AscendingConcat ==
  ASSUME NEW s \in Seq(Origin), NEW t \in Seq(Origin), NEW p \in Int,
         Ascending(s), Ascending(t),
         \A e \in Elements(s) : e[2] < p, \A e \in Elements(t) : e[2] >= p
  PROVE  Ascending(s \o t)
<1>1. /\ Len(s) \in Nat /\ Len(t) \in Nat /\ Len(s \o t) = Len(s) + Len(t)
      /\ \A k \in 1 .. Len(s) + Len(t) :
           (s \o t)[k] = IF k <= Len(s) THEN s[k] ELSE t[k - Len(s)]
  BY ConcatProperties, LenProperties
<1>2. SUFFICES ASSUME NEW m \in 1 .. Len(s) + Len(t),
                      NEW n \in 1 .. Len(s) + Len(t), m < n
               PROVE  (s \o t)[m][2] < (s \o t)[n][2]
  BY <1>1 DEF Ascending
<1>3. /\ \A k \in 1 .. Len(s) : s[k][2] < p /\ s[k][2] \in Int
      /\ \A k \in 1 .. Len(t) : t[k][2] >= p /\ t[k][2] \in Int
  BY ElementOfSeq DEF Elements, Origin
<1>4. CASE n <= Len(s)
  BY <1>1, <1>2, <1>4 DEF Ascending
<1>5. CASE m > Len(s)
  <2>1. m - Len(s) \in 1 .. Len(t) /\ n - Len(s) \in 1 .. Len(t)
        /\ m - Len(s) < n - Len(s)
    BY <1>1, <1>2, <1>5
  <2>2. (s \o t)[m] = t[m - Len(s)] /\ (s \o t)[n] = t[n - Len(s)]
    BY <1>1, <1>2, <1>5
  <2>3. t[m - Len(s)][2] < t[n - Len(s)][2]
    BY <2>1 DEF Ascending
  <2> QED
    BY <2>2, <2>3
<1>6. CASE m <= Len(s) /\ n > Len(s)
  <2>1. m \in 1 .. Len(s) /\ n - Len(s) \in 1 .. Len(t)
    BY <1>1, <1>6
  <2>2. (s \o t)[m] = s[m] /\ (s \o t)[n] = t[n - Len(s)]
    BY <1>1, <1>6
  <2>3. s[m][2] < p /\ s[m][2] \in Int
    BY <1>3, <2>1
  <2>4. t[n - Len(s)][2] >= p /\ t[n - Len(s)][2] \in Int
    BY <1>3, <2>1
  <2>5. s[m][2] < t[n - Len(s)][2]
    BY <2>3, <2>4
  <2> QED
    BY <2>2, <2>5
<1> QED
  BY <1>1, <1>4, <1>5, <1>6

(* The units of a part of the haystack, in order.                          *)
LEMMA UnitsContent ==
  ASSUME NEW a \in Int, NEW b \in Int, a <= b
  PROVE  /\ Units(a, b) \in Seq(Origin) /\ Len(Units(a, b)) = b - a
         /\ Ascending(Units(a, b))
         /\ Elements(Units(a, b)) = {Unit(k) : k \in a .. b - 1}
<1> DEFINE u == Units(a, b)
<1>1. b - a \in Nat /\ u = [k \in 1 .. b - a |-> Unit(a + k - 1)]
  BY DEF Units
<1>2. \A k \in 1 .. b - a : Unit(a + k - 1) \in Origin
  BY DEF Unit, Origin
<1>3. u \in Seq(Origin) /\ Len(u) = b - a
      /\ \A k \in 1 .. b - a : u[k] = Unit(a + k - 1)
  BY <1>1, <1>2
<1> HIDE DEF u
<1>4. Ascending(u)
  BY <1>3 DEF Ascending, Unit
<1>5. ASSUME NEW k \in a .. b - 1 PROVE Unit(k) \in Elements(u)
  <2>1. k - a + 1 \in 1 .. Len(u) /\ a + (k - a + 1) - 1 = k
    BY <1>3
  <2>2. u[k - a + 1] = Unit(k)
    BY <1>3, <2>1
  <2> QED
    BY <2>1, <2>2 DEF Elements
<1>6. Elements(u) \subseteq {Unit(k) : k \in a .. b - 1}
  <2> SUFFICES ASSUME NEW n \in 1 .. b - a
               PROVE  u[n] \in {Unit(k) : k \in a .. b - 1}
    BY <1>3 DEF Elements
  <2>1. a + n - 1 \in a .. b - 1
    OBVIOUS
  <2> QED
    BY <1>3, <2>1
<1> QED
  BY <1>3, <1>4, <1>5, <1>6 DEF u

(* What an iteration appends: the units up to the match, and the match     *)
(* replaced.                                                               *)
LEMMA PieceContent ==
  ASSUME NEW p \in Int, lastPos \in Int, lastPos <= p
  PROVE  /\ Piece(p) \in Seq(Origin) /\ Len(Piece(p)) = p - lastPos + 1
         /\ Ascending(Piece(p))
         /\ Elements(Piece(p)) = {Unit(k) : k \in lastPos .. p - 1} \union {Repl(p)}
<1> DEFINE u == Units(lastPos, p)
           r == <<Repl(p)>>
<1>1. /\ u \in Seq(Origin) /\ Len(u) = p - lastPos /\ Ascending(u)
      /\ Elements(u) = {Unit(k) : k \in lastPos .. p - 1}
  BY UnitsContent
<1>2. r \in Seq(Origin) /\ Len(r) = 1 /\ r[1] = Repl(p)
  BY DEF Repl, Origin
<1>3. Piece(p) = u \o r
  BY DEF Piece
<1> HIDE DEF u, r
<1>4. Ascending(r) /\ Elements(r) = {Repl(p)}
  BY <1>2 DEF Ascending, Elements
<1>5. /\ \A e \in Elements(u) : e[2] < p
      /\ \A e \in Elements(r) : e[2] >= p
  BY <1>1, <1>4 DEF Unit, Repl
<1>6. u \o r \in Seq(Origin) /\ Len(u \o r) = p - lastPos + 1
  <2>1. u \o r \in Seq(Origin) /\ Len(u \o r) = Len(u) + Len(r)
    BY <1>1, <1>2, ConcatProperties
  <2> QED
    BY <1>1, <1>2, <2>1
<1>7. Ascending(u \o r)
  BY <1>1, <1>2, <1>4, <1>5, AscendingConcat
<1>8. Elements(u \o r) = Elements(u) \union Elements(r)
  BY <1>1, <1>2, ElementsConcat
<1> QED
  BY <1>1, <1>3, <1>4, <1>6, <1>7, <1>8

-----------------------------------------------------------------------------
(* A step of sub is a step of the view, or none of its business.           *)
LEMMA SubLifts == [SubNext]_allVars => [Next]_vars
  BY DEF SubNext, SubSearch, Replace, Return, Overrun, Next, allVars

(* Hence the invariant of the view holds while sub drives it.              *)
LEMMA SubIInv == SubSpec => []IInv
<1>1. SubInit => IInv
  BY InitIInv DEF SubInit
<1>2. IInv /\ [SubNext]_allVars => IInv'
  BY SubLifts, IInvStep
<1> QED
  BY <1>1, <1>2, PTL DEF SubSpec

(* The conversion to int is the identity where it can be.                  *)
LEMMA ToIntFits ==
  ASSUME NEW n \in Nat
  PROVE  /\ ToInt(n) \in -(IntMax + 1) .. IntMax
         /\ n <= IntMax => ToInt(n) = n
<1> DEFINE w == 2 * (IntMax + 1)
           m == n % w
<1>1. w \in Nat /\ w > 0 /\ IntMax \in Nat
  BY IntMaxAssumption
<1>2. m \in 0 .. w - 1 /\ (n < w => m = n)
  <2> HIDE DEF w
  <2> QED
    BY <1>1
<1>3. ToInt(n) = IF m <= IntMax THEN m ELSE m - w
  BY DEF ToInt
<1>4. n <= IntMax => n < w
  BY <1>1
<1> HIDE DEF m
<1> QED
  BY <1>1, <1>2, <1>3, <1>4

(* The types, for which the view's own are needed: a piece that is copied  *)
(* lies inside the haystack.                                               *)
SubTypes ==
  /\ lastPos \in -(IntMax + 1) .. IntMax
  /\ result \in Seq({"unit", "repl"} \X (0 .. MaxHaystack - 1))
  /\ subPc \in {"loop", "done", "overrun"}

(* The units of a part of the haystack have the type.                      *)
LEMMA UnitsType ==
  ASSUME NEW a \in Nat, NEW b \in Int, a <= b, b <= MaxHaystack
  PROVE  Units(a, b) \in Seq({"unit", "repl"} \X (0 .. MaxHaystack - 1))
<1>1. b - a \in Nat /\ \A k \in 1 .. b - a : a + k - 1 \in 0 .. MaxHaystack - 1
  BY SizesAssumption
<1>2. \A k \in 1 .. b - a :
        Unit(a + k - 1) \in {"unit", "repl"} \X (0 .. MaxHaystack - 1)
  BY <1>1 DEF Unit
<1> QED
  BY <1>1, <1>2 DEF Units

(* Every step keeps the types.                                             *)
LEMMA SubTypeStep ==
  ASSUME IInv, SubTypes, [SubNext]_allVars
  PROVE  SubTypes'
<1> DEFINE S == {"unit", "repl"} \X (0 .. MaxHaystack - 1)
<1>0. hsize \in 0 .. MaxHaystack /\ lastPos \in Int /\ result \in Seq(S)
  BY IntMaxAssumption DEF IInv, TypeOK, SubTypes
<1>1. CASE SubSearch
  BY <1>1 DEF SubSearch, subVars, SubTypes
<1>2. CASE Replace
  <2>1. /\ Copyable(foundAt) /\ result' = result \o Piece(foundAt)
        /\ lastPos' = Behind(foundAt) /\ subPc' = subPc /\ Ahead
    BY <1>2 DEF Replace, Ahead
  <2>2. /\ foundAt \in 0 .. hsize - 1 /\ nsize \in Nat /\ lastPos \in Nat
        /\ lastPos <= foundAt
    BY <1>0, <2>1, AheadInside DEF Copyable
  <2>3. Units(lastPos, foundAt) \in Seq(S) /\ <<Repl(foundAt)>> \in Seq(S)
    BY <1>0, <2>2, UnitsType, SizesAssumption DEF Repl
  <2>4. Piece(foundAt) \in Seq(S)
    BY <2>3, ConcatProperties DEF Piece
  <2>5. result' \in Seq(S)
    BY <1>0, <2>1, <2>4, ConcatProperties
  <2>6. lastPos' \in -(IntMax + 1) .. IntMax
    BY <2>1, <2>2, ToIntFits DEF Behind
  <2> QED
    BY <2>1, <2>5, <2>6 DEF SubTypes
<1>3. CASE Return
  <2>1. /\ Copyable(hsize) /\ result' = result \o Units(lastPos, hsize)
        /\ lastPos' = lastPos /\ subPc' = "done"
    BY <1>3 DEF Return
  <2>2. Units(lastPos, hsize) \in Seq(S)
    BY <1>0, <2>1, UnitsType, SizesAssumption DEF Copyable
  <2>3. result' \in Seq(S)
    BY <1>0, <2>1, <2>2, ConcatProperties
  <2> QED
    BY <2>1, <2>3 DEF SubTypes
<1>4. CASE Overrun
  BY <1>4 DEF Overrun, SubTypes
<1>5. CASE UNCHANGED allVars
  BY <1>5 DEF allVars, subVars, SubTypes
<1> QED
  BY <1>1, <1>2, <1>3, <1>4, <1>5 DEF SubNext

(* sub keeps its types: no piece it copies, and no position it calls the   *)
(* callback with, is outside the haystack, and last_pos is an int.         *)
THEOREM SubTypeCorrect == SubSpec => []SubTypeOK
<1>1. SubInit => SubTypes
  BY IntMaxAssumption DEF SubInit, SubTypes
<1>2. IInv /\ SubTypes /\ [SubNext]_allVars => SubTypes'
  BY SubTypeStep
<1>3. IInv /\ SubTypes => SubTypeOK
  BY DEF IInv, SubTypes, SubTypeOK
<1> QED
  BY <1>1, <1>2, <1>3, SubIInv, PTL DEF SubSpec

-----------------------------------------------------------------------------
(* No match straddles the end of the haystack and its positions are ints:  *)
(* depends on the inputs alone.                                            *)
Fitting == StartsInside = LiesInside /\ hsize <= IntMax

(* Where last_pos is with respect to the view.                             *)
PosInv ==
  /\ subPc # "overrun"
  /\ lastPos \in 0 .. hsize
  /\ subPc = "done" => pc = "idle" /\ foundAt = Npos
  /\ Ahead => /\ lastPos <= foundAt
              /\ \A q \in hits : q # foundAt => q + nsize <= lastPos
  /\ ~Ahead => lastPos = cur

(* How far the haystack has been copied.                                   *)
Copied == IF subPc = "done" THEN hsize ELSE lastPos

OriginsInv == Ascending(result) /\ Elements(result) = Origins(Copied)

SubInv == Fitting => PosInv /\ OriginsInv

(* A match that starts at or behind the end of a part changes nothing of   *)
(* what that part is made of.                                              *)
LEMMA OriginsStay ==
  ASSUME NEW end \in Int, NEW p \in Int, end <= p, nsize' = nsize,
         hits' = hits \/ hits' = hits \union {p}
  PROVE  Origins(end)' = Origins(end)
<1>1. ASSUME NEW k \in 0 .. end - 1 PROVE Taken(k)' <=> Taken(k)
  BY DEF Taken
<1>2. {q \in hits' : q < end} = {q \in hits : q < end}
  OBVIOUS
<1>3. {k \in 0 .. end - 1 : ~Taken(k)'} = {k \in 0 .. end - 1 : ~Taken(k)}
  BY <1>1
<1> QED
  BY <1>2, <1>3 DEF Origins, Unit, Repl

(* When no match behind the part copied starts before the position b, the  *)
(* part grows by units up to there.                                        *)
LEMMA OriginsGrow ==
  ASSUME NEW a \in Nat, NEW b \in Int, a <= b, nsize \in Nat, hits \subseteq Nat,
         \A q \in hits : q + nsize <= a \/ q >= b
  PROVE  Origins(b) = Origins(a) \union {Unit(k) : k \in a .. b - 1}
                        \union {Repl(q) : q \in {q \in hits : a <= q /\ q < b}}
<1>1. ASSUME NEW k \in a .. b - 1 PROVE ~Taken(k)
  BY DEF Taken
<1>2. {k \in 0 .. b - 1 : ~Taken(k)}
        = {k \in 0 .. a - 1 : ~Taken(k)} \union (a .. b - 1)
  BY <1>1
<1>3. {q \in hits : q < b}
        = {q \in hits : q < a} \union {q \in hits : a <= q /\ q < b}
  <2>1. \A q \in hits : q < b <=> (q < a \/ (a <= q /\ q < b))
    OBVIOUS
  <2> QED
    BY <2>1, Zenon
<1> HIDE DEF Taken
<1> QED
  BY <1>2, <1>3 DEF Origins

(* Behind the last match the part grows by that match.                     *)
LEMMA OriginsMatch ==
  ASSUME NEW p \in hits, hits \subseteq Nat, nsize \in Nat, nsize > 0,
         \A q \in hits : q <= p
  PROVE  Origins(p + nsize) = Origins(p) \union {Repl(p)}
<1>0. p \in Nat
  OBVIOUS
<1>1. ASSUME NEW k \in p .. p + nsize - 1 PROVE Taken(k)
  BY <1>0 DEF Taken
<1>2. {k \in 0 .. p + nsize - 1 : ~Taken(k)} = {k \in 0 .. p - 1 : ~Taken(k)}
  <2>1. ASSUME NEW k \in 0 .. p + nsize - 1, ~Taken(k) PROVE k \in 0 .. p - 1
    BY <1>0, <1>1, <2>1
  <2>2. 0 .. p - 1 \subseteq 0 .. p + nsize - 1
    BY <1>0
  <2> QED
    BY <2>1, <2>2
<1>3. {q \in hits : q < p + nsize} = {q \in hits : q < p} \union {p}
  <2>1. \A q \in hits : q < p + nsize /\ (q < p \/ q = p)
    BY <1>0
  <2> QED
    BY <2>1
<1> HIDE DEF Taken
<1> QED
  BY <1>2, <1>3 DEF Origins

(* Everything a part is made of comes from in front of its end.            *)
LEMMA OriginsInFront ==
  ASSUME NEW end \in Int
  PROVE  \A e \in Origins(end) : e[2] < end
  BY DEF Origins, Unit, Repl

(* Nothing writes to the haystack.                                         *)
LEMMA FittingStays ==
  ASSUME [SubNext]_allVars
  PROVE  Fitting' <=> Fitting
  BY SubLifts, InputsKept, InputsFixed DEF Fitting, inputs

(* A search moves the view away from last_pos, and sub waits for it.       *)
LEMMA SubSearchStep ==
  ASSUME IInv, PosInv, OriginsInv, SubSearch
  PROVE  PosInv' /\ OriginsInv'
<1>1. /\ subPc = "loop" /\ Search /\ UNCHANGED <<lastPos, result, subPc>>
  BY DEF SubSearch, subVars
<1>2. UNCHANGED <<hsize, nsize>>
  BY <1>1, InputsKept DEF Next, inputs
<1>3. ~Ahead /\ lastPos = cur /\ lastPos \in 0 .. hsize
  BY <1>1, SearchMoves DEF PosInv
<1>4. \A q \in hits : q + nsize <= lastPos
  BY <1>3 DEF IInv, SearchInv
<1>5. CASE /\ Ahead' /\ foundAt' = i /\ hits' = hits \union {i} /\ cur <= i
  <2>1. PosInv'
    BY <1>1, <1>2, <1>3, <1>4, <1>5 DEF PosInv
  <2>2. Origins(lastPos)' = Origins(lastPos)
    <3>1. i \in Int /\ lastPos \in Int /\ lastPos <= i
      BY <1>3, <1>5 DEF IInv, TypeOK
    <3>2. PICK a \in Int : a = lastPos
      BY <3>1
    <3>3. Origins(a)' = Origins(a)
      BY <1>2, <1>5, <3>1, <3>2, OriginsStay
    <3> QED
      BY <1>1, <3>2, <3>3
  <2> QED
    BY <1>1, <2>1, <2>2 DEF OriginsInv, Copied
<1>6. CASE ~Ahead' /\ UNCHANGED <<cur, hits>>
  <2>1. PosInv'
    BY <1>1, <1>2, <1>3, <1>6 DEF PosInv
  <2>2. Origins(lastPos)' = Origins(lastPos)
    BY <1>1, <1>2, <1>6 DEF Origins, Taken, Unit, Repl
  <2> QED
    BY <1>1, <2>1, <2>2 DEF OriginsInv, Copied
<1> QED
  BY <1>1, <1>5, <1>6, SearchMoves

(* An iteration copies up to the match and puts last_pos where the view    *)
(* already is.                                                             *)
LEMMA ReplaceStep ==
  ASSUME IInv, SubTypes, Fitting, PosInv, OriginsInv, Replace
  PROVE  PosInv' /\ OriginsInv'
<1>1. /\ subPc = "loop" /\ Ahead /\ result' = result \o Piece(foundAt)
      /\ lastPos' = Behind(foundAt) /\ UNCHANGED subPc
  BY DEF Replace, Ahead
<1>2. /\ UNCHANGED <<inputs, cur, hits, foundAt>> /\ pc' = "loop"
  BY DEF Replace, Increment, BeginSearch
<1>3. /\ foundAt \in hits /\ foundAt \in 0 .. hsize - 1 /\ cur = foundAt + nsize
      /\ nsize \in 1 .. hsize /\ hsize \in Nat
  BY <1>1, AheadInside
<1>4. cur <= hsize
  BY <1>1, <1>3, AheadInside DEF Fitting, LiesInside
<1>5. lastPos' = cur
  <2>1. foundAt + nsize \in Nat /\ foundAt + nsize <= IntMax
    BY <1>3, <1>4, IntMaxAssumption DEF Fitting
  <2> QED
    BY <1>1, <1>3, <2>1, ToIntFits DEF Behind
<1>6. /\ lastPos \in Nat /\ lastPos <= foundAt /\ hits \subseteq Nat
      /\ \A q \in hits : q # foundAt => q + nsize <= lastPos
  BY <1>1 DEF PosInv, IInv, TypeOK
<1>7. /\ Piece(foundAt) \in Seq(Origin) /\ Ascending(Piece(foundAt))
       /\ Elements(Piece(foundAt))
            = {Unit(k) : k \in lastPos .. foundAt - 1} \union {Repl(foundAt)}
  <2>1. foundAt \in Int /\ lastPos \in Int /\ lastPos <= foundAt
    BY <1>3, <1>6
  <2> QED
    BY <2>1, PieceContent
<1>8. PosInv'
  <2>1. ~Ahead'
    BY <1>2 DEF Ahead
  <2>2. cur \in 0 .. hsize /\ hsize' = hsize
    BY <1>2, <1>3, <1>4 DEF inputs
  <2> QED
    BY <1>1, <1>2, <1>5, <2>1, <2>2 DEF PosInv
<1>9. Elements(result') = Elements(result) \union Elements(Piece(foundAt))
      /\ Ascending(result')
  <2>1. result \in Seq(Origin)
    BY SeqMonotonic DEF SubTypes, Origin
  <2>3. Ascending(result) /\ Elements(result) = Origins(lastPos)
    BY <1>1 DEF OriginsInv, Copied
  <2>4. \A e \in Elements(result) : e[2] < lastPos
    BY <1>6, <2>3, OriginsInFront
  <2>5. \A e \in Elements(Piece(foundAt)) : e[2] >= lastPos
    BY <1>3, <1>6, <1>7 DEF Unit, Repl
  <2>6. lastPos \in Int
    BY <1>6
  <2> QED
    BY <1>1, <1>7, <2>1, <2>3, <2>4, <2>5, <2>6, ElementsConcat, AscendingConcat
<1>10. Elements(result') = Origins(cur)
  <2>1. \A q \in hits : q + nsize <= lastPos \/ q >= foundAt
    BY <1>3, <1>6
  <2>2. \A q \in hits : q <= foundAt /\ ~(lastPos <= q /\ q < foundAt)
    BY <1>3, <1>6
  <2>3. Origins(foundAt) = Origins(lastPos) \union {Unit(k) : k \in lastPos .. foundAt - 1}
    <3>1. foundAt \in Int /\ nsize \in Nat
      BY <1>3
    <3>2. {q \in hits : lastPos <= q /\ q < foundAt} = {}
      BY <2>2
    <3>3. Origins(foundAt) = Origins(lastPos)
            \union {Unit(k) : k \in lastPos .. foundAt - 1}
            \union {Repl(q) : q \in {q \in hits : lastPos <= q /\ q < foundAt}}
      BY <1>6, <2>1, <3>1, OriginsGrow
    <3> QED
      BY <3>2, <3>3
  <2>4. Origins(foundAt + nsize) = Origins(foundAt) \union {Repl(foundAt)}
    BY <1>3, <1>6, <2>2, OriginsMatch
  <2>6. Elements(result) = Origins(lastPos)
    BY <1>1 DEF OriginsInv, Copied
  <2> QED
    BY <1>3, <1>9, <1>7, <2>3, <2>4, <2>6
<1>11. Origins(cur)' = Origins(cur)
  BY <1>2 DEF Origins, Taken, Unit, Repl, inputs
<1>12. Copied' = cur'
  BY <1>1, <1>2, <1>5 DEF Copied
<1> QED
  BY <1>8, <1>9, <1>10, <1>11, <1>12 DEF OriginsInv

(* The rest behind the last match is copied.                               *)
LEMMA ReturnStep ==
  ASSUME IInv, SubTypes, PosInv, OriginsInv, Return
  PROVE  PosInv' /\ OriginsInv'
<1>1. /\ subPc = "loop" /\ pc = "idle" /\ foundAt = Npos /\ subPc' = "done"
      /\ result' = result \o Units(lastPos, hsize) /\ UNCHANGED <<lastPos, vars>>
  BY DEF Return
<1>2. ~Ahead /\ lastPos = cur /\ lastPos \in 0 .. hsize
  BY <1>1 DEF PosInv, Ahead
<1>3. UNCHANGED <<hsize, nsize, hits, pc, foundAt, cur>>
  BY <1>1 DEF vars, inputs
<1>4. PosInv'
  BY <1>1, <1>2, <1>3 DEF PosInv, Ahead
<1>5. /\ lastPos \in Nat /\ lastPos \in Int /\ hsize \in Int /\ lastPos <= hsize
      /\ nsize \in Nat /\ hits \subseteq Nat
      /\ \A q \in hits : q + nsize <= lastPos /\ ~(lastPos <= q /\ q < hsize)
  <2>1. hsize \in Nat /\ nsize \in Nat /\ hits \subseteq 0 .. hsize - 1
    BY DEF IInv, TypeOK
  <2>2. \A q \in hits : q + nsize <= lastPos /\ nsize > 0
    BY <1>2 DEF IInv, SearchInv, HitsDisjoint, StartsInside
  <2> QED
    BY <1>2, <2>1, <2>2
<1>6. result \in Seq(Origin)
  BY SeqMonotonic DEF SubTypes, Origin
<1>7. /\ Units(lastPos, hsize) \in Seq(Origin) /\ Ascending(Units(lastPos, hsize))
      /\ Elements(Units(lastPos, hsize)) = {Unit(k) : k \in lastPos .. hsize - 1}
  BY <1>5, UnitsContent
<1>8. Ascending(result) /\ Elements(result) = Origins(lastPos)
  BY <1>1 DEF OriginsInv, Copied
<1>9. /\ \A e \in Elements(result) : e[2] < lastPos
      /\ \A e \in Elements(Units(lastPos, hsize)) : e[2] >= lastPos
  BY <1>5, <1>7, <1>8, OriginsInFront DEF Unit
<1>10. Ascending(result')
  BY <1>1, <1>5, <1>6, <1>7, <1>8, <1>9, AscendingConcat
<1>11. Elements(result') = Origins(lastPos) \union {Unit(k) : k \in lastPos .. hsize - 1}
  BY <1>1, <1>6, <1>7, <1>8, ElementsConcat
<1>12. Elements(result') = Origins(hsize)
  <2>1. {q \in hits : lastPos <= q /\ q < hsize} = {}
    BY <1>5
  <2>2. Origins(hsize) = Origins(lastPos) \union {Unit(k) : k \in lastPos .. hsize - 1}
          \union {Repl(q) : q \in {q \in hits : lastPos <= q /\ q < hsize}}
    BY <1>5, OriginsGrow
  <2> QED
    BY <1>11, <2>1, <2>2
<1>13. Origins(hsize)' = Origins(hsize) /\ Copied' = hsize'
  BY <1>1, <1>3 DEF Origins, Taken, Unit, Repl, Copied
<1> QED
  BY <1>4, <1>10, <1>12, <1>13 DEF OriginsInv

(* An append never reaches outside the haystack.                           *)
LEMMA NeverOverruns ==
  ASSUME IInv, PosInv
  PROVE  ~Overrun
<1> SUFFICES ASSUME Overrun PROVE FALSE
  OBVIOUS
<1>1. lastPos \in 0 .. hsize /\ pc = "idle" /\ hsize \in Nat
  BY DEF PosInv, Overrun, IInv, TypeOK
<1>2. CASE foundAt = Npos
  BY <1>1, <1>2 DEF Overrun, Copyable
<1>3. CASE foundAt # Npos
  <2>1. Ahead /\ lastPos <= foundAt
    BY <1>1, <1>3 DEF Ahead, PosInv
  <2> QED
    BY <1>1, <1>3, <2>1, AheadInside DEF Overrun, Copyable
<1> QED
  BY <1>2, <1>3

(* What sub has copied, and where it is, follows the view at every step.   *)
LEMMA SubInvStep ==
  ASSUME IInv, SubTypes, SubInv, [SubNext]_allVars
  PROVE  SubInv'
<1> SUFFICES ASSUME Fitting, PosInv, OriginsInv PROVE PosInv' /\ OriginsInv'
  BY FittingStays DEF SubInv
<1>1. CASE UNCHANGED allVars
  BY <1>1 DEF allVars, subVars, vars, inputs, PosInv, OriginsInv, Ahead, Copied,
     Origins, Taken, Unit, Repl, Ascending, Elements
<1> QED
  BY <1>1, SubSearchStep, ReplaceStep, ReturnStep, NeverOverruns DEF SubNext

(* The invariant holds of every state of sub.                              *)
LEMMA SubInvariance == SubSpec => []SubInv
<1>1. SubInit => SubInv
  <2> SUFFICES ASSUME SubInit, Fitting PROVE PosInv /\ OriginsInv
    BY DEF SubInv
  <2>1. /\ result = <<>> /\ lastPos = 0 /\ subPc = "loop" /\ pc = "construct"
        /\ cur = 0 /\ hits = {} /\ hsize \in Nat
    BY DEF SubInit, Init
  <2>2. Elements(result) = {} /\ Ascending(result) /\ Origins(Copied) = {}
    BY <2>1 DEF Elements, Ascending, Origins, Copied
  <2> QED
    BY <2>1, <2>2 DEF PosInv, OriginsInv, Ahead
<1>2. SubInit => SubTypes
  BY IntMaxAssumption DEF SubInit, SubTypes
<1>3. IInv /\ SubTypes /\ [SubNext]_allVars => SubTypes'
  BY SubTypeStep
<1>4. IInv /\ SubTypes /\ SubInv /\ [SubNext]_allVars => SubInv'
  BY SubInvStep
<1> QED
  BY <1>1, <1>2, <1>3, <1>4, SubIInv, PTL DEF SubSpec

(* At any time, and when sub returns, the result is made of each unit that *)
(* no match takes up and each match, in the order of the haystack.         *)
THEOREM SubExact == SubSpec => []SubOrigins
<1>1. IInv /\ SubInv => SubOrigins
  BY NoneStraddles DEF IInv, SubInv, SubOrigins, OriginsInv, Copied, Fitting
<1> QED
  BY <1>1, SubIInv, SubInvariance, PTL

(* Each step of sub advances the search or is its last: between two        *)
(* iterations it waits for nothing else.                                   *)
THEOREM SubAdvancing ==
  SubSpec => [][Further \/ (subPc = "loop" /\ subPc' # "loop")]_allVars
<1>1. ASSUME IInv, [SubNext]_allVars
      PROVE  [Further \/ (subPc = "loop" /\ subPc' # "loop")]_allVars
  <2>1. CASE SubSearch /\ allVars' # allVars
    <3>1. Next /\ vars' # vars
      BY <2>1 DEF SubSearch, Next, allVars
    <3> QED
      BY <1>1, <3>1, AdvanceStep
  <2>2. CASE Replace
    <3>1. Next /\ vars' # vars
      BY <2>2 DEF Replace, Increment, BeginSearch, Next, vars
    <3> QED
      BY <1>1, <3>1, AdvanceStep
  <2>3. CASE Return \/ Overrun
    BY <2>3 DEF Return, Overrun
  <2> QED
    BY <1>1, <2>1, <2>2, <2>3 DEF SubNext
<1> QED
  BY <1>1, SubIInv, PTL DEF SubSpec

-----------------------------------------------------------------------------
(* Sub against its recursive reference.  Rewritten is a recursive function *)
(* over positions; that it exists, and what it is made of, is shown by     *)
(* induction from the right.  Unlike SubInv, the invariant also covers a   *)
(* match that straddles the end: last_pos may then be anything an int can  *)
(* be, but no such position is taken for one of the haystack.              *)

(* What follows from its truth at all later positions is true everywhere:  *)
(* induction over the positions of a part, for a set in place of a         *)
(* predicate.                                                              *)
LEMMA DownwardInduction ==
  ASSUME NEW a \in Int, NEW b \in Int, NEW G,
         \A c \in a .. b : (\A d \in c + 1 .. b : d \in G) => c \in G
  PROVE  \A c \in a .. b : c \in G
<1> SUFFICES ASSUME NEW c \in a .. b, c \notin G PROVE FALSE
  OBVIOUS
<1> DEFINE T == {m \in 0 .. b - a : b - m \notin G}
<1>1. b - a \in Nat /\ b - c \in 0 .. b - a /\ b - (b - c) = c
  OBVIOUS
<1>2. b - c \in T
  BY <1>1
<1>3. PICK m \in T : \A t \in T : m <= t
  BY <1>1, <1>2, LeastElement
<1>4. m \in 0 .. b - a /\ b - m \notin G
  OBVIOUS
<1>5. ASSUME NEW d \in b - m + 1 .. b PROVE d \in G
  <2>1. b - d \in 0 .. b - a /\ ~(m <= b - d) /\ b - (b - d) = d
    BY <1>4
  <2>2. b - d \notin T
    BY <1>3, <2>1
  <2> QED
    BY <2>1, <2>2
<1>6. b - m \in a .. b
  BY <1>4
<1> QED
  BY <1>4, <1>5, <1>6

(* The body of Rewritten, for a haystack of size h whose matches, each n   *)
(* units long, are at the positions L.                                     *)
Line(f, p, h, L, n) ==
  IF p = h THEN <<>>
  ELSE IF p \in L THEN <<Repl(p)>> \o f[p + n]
  ELSE <<Unit(p)>> \o f[p + 1]

(* A function of positions that satisfies the equation of Rewritten.       *)
IsRewriting(f, h, L, n) == f = [p \in 0 .. h |-> Line(f, p, h, L, n)]

Rewriting(h, L, n) == CHOOSE f : IsRewriting(f, h, L, n)

(* Rewritten is such a function, if there is one.                          *)
LEMMA RewrittenIs == Rewritten = Rewriting(hsize, LiesInside, nsize)
  BY Zenon DEF Rewritten, Rewriting, IsRewriting, Line

(* There is one: it can be extended to the left, a position at a time,     *)
(* because the body only asks for positions further to the right.          *)
LEMMA RewritingExists ==
  ASSUME NEW h \in Nat, NEW L, NEW n \in Nat, \A p \in L : n > 0 /\ p + n <= h
  PROVE  \E f : IsRewriting(f, h, L, n)
<1> DEFINE Good(a) == \E f : f = [p \in a .. h |-> Line(f, p, h, L, n)]
           G == {a \in 0 .. h : Good(a)}
<1>1. Good(h)
  <2> DEFINE f == [p \in h .. h |-> <<>>]
  <2>1. f = [p \in h .. h |-> Line(f, p, h, L, n)]
    BY DEF Line
  <2> QED
    BY <2>1, Zenon
<1>2. ASSUME NEW a \in 0 .. h - 1, Good(a + 1) PROVE Good(a)
  <2>1. PICK f : f = [p \in a + 1 .. h |-> Line(f, p, h, L, n)]
    BY <1>2, Zenon
  <2>2. \A p \in a + 1 .. h : f[p] = Line(f, p, h, L, n)
    <3> DEFINE ff == [p \in a + 1 .. h |-> Line(f, p, h, L, n)]
    <3>1. \A p \in a + 1 .. h : ff[p] = Line(f, p, h, L, n)
      OBVIOUS
    <3>2. f = ff
      BY <2>1, Zenon
    <3> QED
      BY <3>1, <3>2, Zenon
  <2> DEFINE g == [p \in a .. h |-> IF p = a THEN Line(f, a, h, L, n) ELSE f[p]]
  <2>3. g = [p \in a .. h |-> g[p]]
    OBVIOUS
  <2>4. g[a] = Line(f, a, h, L, n)
    OBVIOUS
  <2>5. \A p \in a + 1 .. h : g[p] = f[p]
    OBVIOUS
  <2> HIDE DEF g
  <2>6. \A p \in a .. h : Line(g, p, h, L, n) = Line(f, p, h, L, n)
    BY <2>5 DEF Line
  <2>7. \A p \in a .. h : g[p] = Line(g, p, h, L, n)
    BY <2>2, <2>4, <2>5, <2>6
  <2>8. g = [p \in a .. h |-> Line(g, p, h, L, n)]
    BY <2>3, <2>7, Zenon
  <2> QED
    BY <2>8, Zenon
<1> HIDE DEF Good
<1>3. ASSUME NEW a \in 0 .. h, \A d \in a + 1 .. h : d \in G PROVE a \in G
  <2>1. CASE a = h
    BY <1>1, <2>1
  <2>2. CASE a # h
    BY <1>2, <1>3, <2>2
  <2> QED
    BY <2>1, <2>2
<1> HIDE DEF G
<1>4. \A a \in 0 .. h : (\A d \in a + 1 .. h : d \in G) => a \in G
  BY <1>3
<1>5. 0 \in Int /\ h \in Int /\ 0 \in 0 .. h
  OBVIOUS
<1>6. \A a \in 0 .. h : a \in G
  BY <1>4, <1>5, DownwardInduction, Zenon
<1> QED
  BY <1>5, <1>6, Zenon DEF Good, G, IsRewriting

(* Hence it can be unrolled.                                               *)
LEMMA RewritingLine ==
  ASSUME NEW h \in Nat, NEW L, NEW n \in Nat, \A p \in L : n > 0 /\ p + n <= h,
         NEW p \in 0 .. h
  PROVE  Rewriting(h, L, n)[p] = Line(Rewriting(h, L, n), p, h, L, n)
<1> DEFINE f == Rewriting(h, L, n)
           ff == [q \in 0 .. h |-> Line(f, q, h, L, n)]
<1>1. \E g : IsRewriting(g, h, L, n)
  BY RewritingExists
<1>2. f = ff
  BY <1>1, Zenon DEF Rewriting, IsRewriting
<1>3. ff[p] = Line(f, p, h, L, n)
  OBVIOUS
<1> QED
  BY <1>2, <1>3, Zenon

(* Its values are sequences of units and replacements.                     *)
LEMMA RewritingType ==
  ASSUME NEW h \in Nat, NEW L, NEW n \in Nat, \A p \in L : n > 0 /\ p + n <= h
  PROVE  \A p \in 0 .. h : Rewriting(h, L, n)[p] \in Seq(Origin)
<1> DEFINE f == Rewriting(h, L, n)
           G == {p \in 0 .. h : f[p] \in Seq(Origin)}
<1>1. \A p \in 0 .. h : f[p] = Line(f, p, h, L, n)
  BY RewritingLine
<1> HIDE DEF f, G
<1>2. ASSUME NEW p \in 0 .. h, \A r \in p + 1 .. h : r \in G PROVE p \in G
  <2>1. <<Repl(p)>> \in Seq(Origin) /\ <<Unit(p)>> \in Seq(Origin)
    BY DEF Repl, Unit, Origin
  <2>0. f[p] = Line(f, p, h, L, n)
    BY <1>1
  <2>2. CASE p = h
    BY <2>0, <2>2, EmptySeq DEF Line, G
  <2>3. CASE p # h /\ p \in L
    <3>1. f[p] = <<Repl(p)>> \o f[p + n]
      BY <2>0, <2>3, Zenon DEF Line
    <3>2. p + n \in p + 1 .. h
      BY <2>3
    <3>3. f[p + n] \in Seq(Origin)
      BY <1>2, <3>2 DEF G
    <3> QED
      BY <2>1, <3>1, <3>3, ConcatProperties DEF G
  <2>4. CASE p # h /\ p \notin L
    <3>1. f[p] = <<Unit(p)>> \o f[p + 1]
      BY <2>0, <2>4, Zenon DEF Line
    <3>2. p + 1 \in p + 1 .. h
      BY <2>4
    <3>3. f[p + 1] \in Seq(Origin)
      BY <1>2, <3>2 DEF G
    <3> QED
      BY <2>1, <3>1, <3>3, ConcatProperties DEF G
  <2> QED
    BY <2>2, <2>3, <2>4
<1>3. \A p \in 0 .. h : (\A r \in p + 1 .. h : r \in G) => p \in G
  BY <1>2
<1>4. 0 \in Int /\ h \in Int
  OBVIOUS
<1>5. \A p \in 0 .. h : p \in G
  BY <1>3, <1>4, DownwardInduction, Zenon
<1> QED
  BY <1>5 DEF G, f

(* A part is its first unit and the rest.                                  *)
LEMMA UnitsCons ==
  ASSUME NEW a \in Int, NEW b \in Int, a < b
  PROVE  Units(a, b) = <<Unit(a)>> \o Units(a + 1, b)
<1> DEFINE s == <<Unit(a)>>
           t == Units(a + 1, b)
           u == Units(a, b)
<1>1. s \in Seq(Origin) /\ Len(s) = 1 /\ s[1] = Unit(a)
  BY DEF Unit, Origin
<1>2. t \in Seq(Origin) /\ Len(t) = b - a - 1
  BY UnitsContent
<1>3. u \in Seq(Origin) /\ Len(u) = b - a
  BY UnitsContent
<1>4. \A k \in 1 .. b - a - 1 : t[k] = Unit(a + k)
  <2>1. \A k \in 1 .. b - (a + 1) : t[k] = Unit(a + 1 + k - 1)
    BY DEF Units
  <2>2. \A k \in 1 .. b - a - 1 : k \in 1 .. b - (a + 1) /\ a + 1 + k - 1 = a + k
    OBVIOUS
  <2> HIDE DEF t
  <2> QED
    BY <2>1, <2>2
<1>5. \A k \in 1 .. b - a : u[k] = Unit(a + k - 1)
  BY DEF Units
<1> HIDE DEF s, t, u
<1>6. /\ s \o t \in Seq(Origin) /\ Len(s \o t) = Len(s) + Len(t)
      /\ \A k \in 1 .. Len(s) + Len(t) :
           (s \o t)[k] = IF k <= Len(s) THEN s[k] ELSE t[k - Len(s)]
  BY <1>1, <1>2, ConcatProperties
<1>7. ASSUME NEW k \in 1 .. b - a PROVE (s \o t)[k] = u[k]
  <2>1. (s \o t)[k] = IF k <= 1 THEN s[k] ELSE t[k - 1]
    BY <1>1, <1>2, <1>6
  <2>2. CASE k = 1
    <3>1. a + 1 - 1 = a
      OBVIOUS
    <3> QED
      BY <1>1, <1>5, <2>1, <2>2, <3>1
  <2>3. CASE k > 1
    <3>1. k - 1 \in 1 .. b - a - 1 /\ a + (k - 1) = a + k - 1 /\ ~(k <= 1)
      BY <2>3
    <3>2. t[k - 1] = Unit(a + (k - 1))
      BY <1>4, <3>1
    <3> QED
      BY <1>5, <2>1, <3>1, <3>2, Zenon
  <2>4. k = 1 \/ k > 1
    OBVIOUS
  <2> QED
    BY <2>2, <2>3, <2>4, Zenon
<1>8. Len(s \o t) = Len(u) /\ Len(u) = b - a
  BY <1>1, <1>2, <1>3, <1>6
<1>9. s \o t = u
  BY <1>3, <1>6, <1>7, <1>8, SeqEqual
<1> QED
  BY <1>9 DEF s, t, u

(* As long as no match starts, the haystack is rewritten to itself.        *)
LEMMA RewritingUnits ==
  ASSUME NEW h \in Nat, NEW L, NEW n \in Nat, \A p \in L : n > 0 /\ p + n <= h,
         NEW a \in 0 .. h, NEW b \in a .. h, \A p \in L : ~(a <= p /\ p < b)
  PROVE  Rewriting(h, L, n)[a] = Units(a, b) \o Rewriting(h, L, n)[b]
<1> DEFINE f == Rewriting(h, L, n)
           G == {c \in a .. b : f[c] = Units(c, b) \o f[b]}
<1>1. \A q \in 0 .. h : f[q] = Line(f, q, h, L, n) /\ f[q] \in Seq(Origin)
  BY RewritingLine, RewritingType
<1> HIDE DEF f, G
<1>2. f[b] = Units(b, b) \o f[b]
  <2>1. Units(b, b) = <<>>
    BY UnitsContent, EmptySeq
  <2> QED
    BY <1>1, <2>1, ConcatEmptySeq
<1>3. ASSUME NEW c \in a .. b - 1, f[c + 1] = Units(c + 1, b) \o f[b]
      PROVE  f[c] = Units(c, b) \o f[b]
  <2>1. f[c] = <<Unit(c)>> \o f[c + 1]
    <3>1. c \in 0 .. h /\ c # h /\ c \notin L
      OBVIOUS
    <3>2. f[c] = Line(f, c, h, L, n)
      BY <1>1, <3>1
    <3> QED
      BY <3>1, <3>2, Zenon DEF Line
  <2>2. <<Unit(c)>> \in Seq(Origin)
    BY DEF Unit, Origin
  <2>3. Units(c + 1, b) \in Seq(Origin)
    <3>1. c + 1 \in Int /\ b \in Int /\ c + 1 <= b
      OBVIOUS
    <3> QED
      BY <3>1, UnitsContent
  <2>3a. f[b] \in Seq(Origin)
    BY <1>1
  <2>4. (<<Unit(c)>> \o Units(c + 1, b)) \o f[b] = <<Unit(c)>> \o (Units(c + 1, b) \o f[b])
    <3> DEFINE x == <<Unit(c)>>
               y == Units(c + 1, b)
               z == f[b]
    <3>1. x \in Seq(Origin) /\ y \in Seq(Origin) /\ z \in Seq(Origin)
      BY <2>2, <2>3, <2>3a
    <3> HIDE DEF x, y, z
    <3>2. (x \o y) \o z = x \o (y \o z)
      BY <3>1, ConcatAssociative
    <3> QED
      BY <3>2 DEF x, y, z
  <2>5. Units(c, b) = <<Unit(c)>> \o Units(c + 1, b)
    BY UnitsCons
  <2> QED
    BY <1>3, <2>1, <2>4, <2>5
<1>4. ASSUME NEW c \in a .. b, \A d \in c + 1 .. b : d \in G PROVE c \in G
  <2>1. CASE c = b
    BY <1>2, <2>1 DEF G
  <2>2. CASE c # b
    <3>1. c \in a .. b - 1 /\ c + 1 \in G
      BY <1>4, <2>2
    <3>2. f[c + 1] = Units(c + 1, b) \o f[b]
      BY <3>1 DEF G
    <3> QED
      BY <1>3, <3>1, <3>2 DEF G
  <2> QED
    BY <2>1, <2>2
<1>5. \A c \in a .. b : (\A d \in c + 1 .. b : d \in G) => c \in G
  BY <1>4
<1>6. a \in Int /\ b \in Int /\ a \in a .. b
  OBVIOUS
<1>7. \A c \in a .. b : c \in G
  BY <1>5, <1>6, DownwardInduction, Zenon
<1> QED
  BY <1>6, <1>7 DEF G, f

(* The four facts above about Rewritten itself: every match is replaced,   *)
(* and what is in front of the next match is copied.                       *)
LEMMA RewrittenHere ==
  ASSUME TypeOK
  PROVE  /\ Rewritten[hsize] = <<>>
         /\ \A p \in 0 .. hsize : Rewritten[p] \in Seq(Origin)
         /\ \A p \in LiesInside :
              /\ p \in 0 .. hsize - 1 /\ p + nsize \in 0 .. hsize
              /\ Rewritten[p] = <<Repl(p)>> \o Rewritten[p + nsize]
         /\ \A a \in 0 .. hsize : \A b \in a .. hsize :
              (\A p \in LiesInside : ~(a <= p /\ p < b)) =>
                Rewritten[a] = Units(a, b) \o Rewritten[b]
<1> DEFINE h == hsize
           L == LiesInside
           n == nsize
           f == Rewriting(h, L, n)
<1>1. h \in Nat /\ n \in Nat
  BY DEF TypeOK
<1>2. \A p \in L : n > 0 /\ p + n <= h /\ p \in 0 .. h - 1
  BY <1>1 DEF LiesInside, StartsInside
<1>3. Rewritten = f
  BY RewrittenIs
<1> HIDE DEF h, L, n
<1>4. \A p \in 0 .. h : f[p] = Line(f, p, h, L, n)
  BY <1>1, <1>2, RewritingLine
<1>5. \A p \in 0 .. h : f[p] \in Seq(Origin)
  BY <1>1, <1>2, RewritingType
<1>6. f[h] = <<>>
  <2>1. f[h] = Line(f, h, h, L, n)
    BY <1>1, <1>4
  <2> HIDE DEF f
  <2> QED
    BY <2>1, Zenon DEF Line
<1>7. ASSUME NEW p \in L
      PROVE  p \in 0 .. h - 1 /\ p + n \in 0 .. h /\ f[p] = <<Repl(p)>> \o f[p + n]
  <2>1. p \in 0 .. h - 1 /\ p + n \in 0 .. h /\ p # h
    BY <1>1, <1>2
  <2>2. f[p] = Line(f, p, h, L, n)
    BY <1>1, <1>4, <2>1
  <2> HIDE DEF f
  <2>3. f[p] = <<Repl(p)>> \o f[p + n]
    BY <2>1, <2>2, <1>7, Zenon DEF Line
  <2> QED
    BY <2>1, <2>3
<1>8. ASSUME NEW a \in 0 .. h, NEW b \in a .. h,
             \A p \in L : ~(a <= p /\ p < b)
      PROVE  f[a] = Units(a, b) \o f[b]
  BY <1>1, <1>2, <1>8, RewritingUnits
<1> HIDE DEF f
<1> QED
  BY <1>3, <1>5, <1>6, <1>7, <1>8 DEF h, L, n

(* A match just found is a position of the haystack.                       *)
LEMMA AheadAfter ==
  ASSUME IInv', Ahead'
  PROVE  foundAt' \in 0 .. hsize' - 1
<1>1. foundAt' \in hits'
  BY DEF Ahead, IInv, SearchInv
<1> QED
  BY <1>1 DEF IInv, HitsDisjoint, TypeOK, StartsInside

(* Rewritten depends on the inputs alone.                                  *)
LEMMA RewrittenStays ==
  ASSUME [SubNext]_allVars
  PROVE  Rewritten' = Rewritten /\ hsize' = hsize
<1>1. LiesInside' = LiesInside /\ hsize' = hsize /\ nsize' = nsize
  BY SubLifts, InputsKept, InputsFixed DEF inputs
<1>2. Rewritten = Rewriting(hsize, LiesInside, nsize)
  BY RewrittenIs
<1>3. Rewritten' = Rewriting(hsize', LiesInside', nsize')
  BY Zenon DEF Rewritten, Rewriting, IsRewriting, Line
<1> QED
  BY <1>1, <1>2, <1>3

(* A place the copying can have come to: the begin, or behind a match.     *)
Stop(c) == c = 0 \/ \E q \in hits : c = q + nsize

(* Where last_pos is, as an int: at the view's position, and while a match *)
(* has been found and not yet replaced, behind the last one but it.        *)
FollowInv ==
  /\ Stop(cur)
  /\ subPc = "loop" /\ Ahead =>
       \E c \in 0 .. foundAt :
         /\ lastPos = ToInt(c) /\ Stop(c)
         /\ \A q \in hits : q # foundAt => q + nsize <= c
  /\ subPc = "loop" /\ ~Ahead => lastPos = ToInt(cur)

(* What has been appended, followed by what is to become of the rest, is   *)
(* the whole haystack rewritten.                                           *)
RewrittenInv ==
  /\ subPc = "loop" /\ lastPos \in 0 .. hsize =>
       result \o Rewritten[lastPos] = Rewritten[0]
  /\ subPc = "done" => result = Rewritten[0]

(* The position is handed on by every step, straddling matches included.   *)
LEMMA FollowStep ==
  ASSUME IInv, FollowInv, [SubNext]_allVars
  PROVE  FollowInv'
<1>0. IInv' /\ hsize' = hsize /\ nsize' = nsize
  BY SubLifts, IInvStep, InputsKept DEF inputs
<1>1. CASE SubSearch
  <2>1. subPc = "loop" /\ Search /\ UNCHANGED <<lastPos, subPc>>
    BY <1>1 DEF SubSearch, subVars
  <2>2. ~Ahead /\ lastPos = ToInt(cur) /\ cur \in Nat
    BY <2>1, SearchMoves DEF FollowInv, IInv, TypeOK
  <2>3. CASE Ahead' /\ foundAt' = i /\ hits' = hits \union {i} /\ cur' = i + nsize /\ cur <= i
    <3>1. i \in 0 .. hsize - 1 /\ cur \in 0 .. i
      BY <1>0, <2>2, <2>3, AheadAfter
    <3>2. \A q \in hits : q + nsize <= cur
      BY DEF IInv, SearchInv
    <3>3. Stop(cur)' /\ (cur = 0 \/ \E q \in hits' : cur = q + nsize')
      <4>1. i \in hits' /\ cur' = i + nsize'
        BY <1>0, <2>3
      <4> QED
        BY <1>0, <2>3, <4>1 DEF FollowInv, Stop
    <3>4. \A q \in hits' : q # foundAt' => q + nsize' <= cur
      BY <1>0, <2>3, <3>2
    <3>5. cur \in 0 .. foundAt' /\ lastPos' = ToInt(cur) /\ \E c : c = cur
      BY <2>1, <2>2, <2>3, <3>1
    <3> QED
      BY <1>0, <2>1, <2>2, <2>3, <3>3, <3>4, <3>5 DEF FollowInv, Stop
  <2>4. CASE ~Ahead' /\ UNCHANGED <<cur, hits>>
    BY <1>0, <2>1, <2>2, <2>4 DEF FollowInv, Stop
  <2> QED
    BY <2>1, <2>3, <2>4, SearchMoves
<1>2. CASE Replace
  <2>1. /\ subPc = "loop" /\ subPc' = "loop" /\ Ahead /\ lastPos' = ToInt(foundAt + nsize)
        /\ pc' = "loop" /\ UNCHANGED <<cur, hits>>
    BY <1>2 DEF Replace, Increment, BeginSearch, Behind, Ahead
  <2>2. cur = foundAt + nsize
    BY <2>1, AheadInside
  <2>3. ~Ahead'
    BY <2>1 DEF Ahead
  <2> QED
    BY <1>0, <2>1, <2>2, <2>3 DEF FollowInv, Stop
<1>3. CASE Return
  BY <1>0, <1>3 DEF Return, FollowInv, Stop, vars
<1>4. CASE Overrun
  BY <1>0, <1>4 DEF Overrun, FollowInv, Stop, vars
<1>5. CASE UNCHANGED allVars
  BY <1>0, <1>5 DEF allVars, subVars, vars, FollowInv, Stop, Ahead
<1> QED
  BY <1>1, <1>2, <1>3, <1>4, <1>5 DEF SubNext

(* Of the positions less than the width of an int apart, one that has      *)
(* wrapped around is negative.                                             *)
LEMMA ToIntInside ==
  ASSUME NEW n \in Nat, n < 2 * (IntMax + 1), 0 <= ToInt(n)
  PROVE  n = ToInt(n) /\ n <= IntMax
<1>1. IntMax \in Nat
  BY IntMaxAssumption
<1> DEFINE w == 2 * (IntMax + 1)
<1>2. n < w /\ w \in Nat
  BY <1>1
<1>3. n % w = n
  <2> HIDE DEF w
  <2> QED
    BY <1>2
<1>4. ToInt(n) = IF n <= IntMax THEN n ELSE n - w
  BY <1>3 DEF ToInt
<1> QED
  BY <1>1, <1>2, <1>4

(* No position the copying can have come to is that far away.              *)
LEMMA StopBound ==
  ASSUME IInv, Distinct, NEW c, Stop(c)
  PROVE  c \in Nat /\ c < 2 * (IntMax + 1)
<1>1. hsize \in Nat /\ nsize \in Nat /\ IntMax \in Nat
  BY IntMaxAssumption DEF IInv, TypeOK
<1>2. ASSUME NEW q \in hits PROVE q \in 0 .. hsize - 1
  BY <1>1 DEF IInv, HitsDisjoint, StartsInside
<1> QED
  BY <1>1, <1>2 DEF Stop, Distinct

(* What is copied in front of a match begins behind all matches before it, *)
(* where this is memory of the haystack at all.                            *)
LEMMA PlaceKept ==
  ASSUME IInv, Distinct, FollowInv, subPc = "loop", Ahead, Copyable(foundAt)
  PROVE  lastPos \in 0 .. foundAt /\ \A q \in hits : q # foundAt => q + nsize <= lastPos
<1>1. PICK c \in 0 .. foundAt :
        /\ lastPos = ToInt(c) /\ Stop(c)
        /\ \A q \in hits : q # foundAt => q + nsize <= c
  BY DEF FollowInv
<1>2. c \in Nat /\ c < 2 * (IntMax + 1)
  BY <1>1, StopBound
<1>3. lastPos = c
  BY <1>1, <1>2, ToIntInside DEF Copyable
<1> QED
  BY <1>1, <1>3

(* An iteration replaces the match that Rewritten would replace next: none *)
(* lies between the last one and it, since the search misses none.         *)
LEMMA RewrittenStep ==
  ASSUME IInv, SubTypes, Distinct, FollowInv, RewrittenInv, [SubNext]_allVars
  PROVE  RewrittenInv'
<1>0. Rewritten' = Rewritten /\ hsize' = hsize /\ hsize \in Nat /\ TypeOK
  BY RewrittenStays DEF IInv, TypeOK
<1>1. CASE SubSearch
  BY <1>0, <1>1 DEF SubSearch, subVars, RewrittenInv
<1>2. CASE Replace
  <2> SUFFICES ASSUME lastPos' \in 0 .. hsize
               PROVE  result' \o Rewritten[lastPos'] = Rewritten[0]
    BY <1>0, <1>2 DEF Replace, RewrittenInv
  <2> DEFINE u == Units(lastPos, foundAt)
             r == <<Repl(foundAt)>>
             t == Rewritten[foundAt + nsize]
  <2>1. /\ subPc = "loop" /\ Ahead /\ Copyable(foundAt)
        /\ result' = result \o (u \o r) /\ lastPos' = ToInt(foundAt + nsize)
    BY <1>2 DEF Replace, Ahead, Piece, Behind
  <2>2. /\ foundAt \in StartsInside /\ cur = foundAt + nsize
        /\ foundAt \in 0 .. hsize - 1
    BY <2>1, AheadInside
  <2>3. lastPos' = foundAt + nsize
    <3>1. cur \in Nat /\ cur < 2 * (IntMax + 1)
      BY StopBound DEF FollowInv
    <3>2. 0 <= ToInt(cur)
      BY <1>0, <2>1, <2>2
    <3> QED
      BY <2>1, <2>2, <3>1, <3>2, ToIntInside
  <2>4. foundAt \in LiesInside
    BY <2>2, <2>3 DEF LiesInside
  <2>5. lastPos \in 0 .. foundAt /\ \A q \in hits : q # foundAt => q + nsize <= lastPos
    BY <2>1, PlaceKept
  <2>6. ASSUME NEW p \in LiesInside, lastPos <= p, p < foundAt PROVE FALSE
    <3>1. p \in StartsInside /\ p < Frontier /\ p \in Nat
      BY <1>0, <2>1, <2>2, <2>6 DEF LiesInside, StartsInside, Frontier, Ahead, IInv, TypeOK
    <3>2. PICK q \in hits : q <= p /\ p < q + nsize
      BY <3>1 DEF IInv, NoMatchMissed
    <3> QED
      BY <1>0, <2>2, <2>5, <2>6, <3>1, <3>2 DEF TypeOK
  <2>7. Rewritten[lastPos] = u \o Rewritten[foundAt]
    <3>1. lastPos \in 0 .. hsize /\ foundAt \in lastPos .. hsize
      BY <1>0, <2>2, <2>5
    <3> QED
      BY <1>0, <2>6, <3>1, RewrittenHere
  <2>8. Rewritten[foundAt] = r \o t /\ t \in Seq(Origin)
    BY <1>0, <2>4, RewrittenHere
  <2>9. result \o Rewritten[lastPos] = Rewritten[0]
    <3>1. lastPos \in 0 .. hsize
      BY <1>0, <2>2, <2>5
    <3> QED
      BY <2>1, <3>1 DEF RewrittenInv
  <2>10. result \in Seq(Origin) /\ u \in Seq(Origin) /\ r \in Seq(Origin)
    <3>1. result \in Seq(Origin)
      BY SeqMonotonic DEF SubTypes, Origin
    <3>2. lastPos \in Int /\ foundAt \in Int /\ lastPos <= foundAt
      BY <2>2, <2>5
    <3>3. u \in Seq(Origin)
      BY <3>2, UnitsContent
    <3>4. r \in Seq(Origin)
      BY <2>2 DEF Repl, Origin
    <3> QED
      BY <3>1, <3>3, <3>4
  <2> HIDE DEF u, r, t
  <2>11. PICK v, w : v = u \o r /\ w = r \o t
    OBVIOUS
  <2>12. v \in Seq(Origin)
    BY <2>10, <2>11, ConcatProperties
  <2>13. (result \o v) \o t = result \o (v \o t)
    <3>1. result \in Seq(Origin) /\ v \in Seq(Origin) /\ t \in Seq(Origin)
      BY <2>8, <2>10, <2>12
    <3> QED
      BY <3>1, ConcatAssociative
  <2>14. (u \o r) \o t = u \o (r \o t)
    BY <2>8, <2>10, ConcatAssociative
  <2>15. v \o t = u \o w
    BY <2>11, <2>14, Zenon
  <2>16. (result \o v) \o t = result \o (u \o w)
    BY <2>13, <2>15, Zenon
  <2> QED
    BY <2>1, <2>3, <2>7, <2>8, <2>9, <2>11, <2>16 DEF t
<1>3. CASE Return
  <2>1. /\ subPc = "loop" /\ pc = "idle" /\ foundAt = Npos /\ Copyable(hsize)
        /\ result' = result \o Units(lastPos, hsize) /\ subPc' = "done"
    BY <1>3 DEF Return
  <2>2. lastPos \in 0 .. hsize /\ lastPos = ToInt(cur)
    BY <1>0, <2>1 DEF Copyable, FollowInv, Ahead, SubTypes
  <2>3. lastPos = cur
    <3>1. cur \in Nat /\ cur < 2 * (IntMax + 1)
      BY StopBound DEF FollowInv
    <3> QED
      BY <1>0, <2>2, <3>1, ToIntInside
  <2>4. ASSUME NEW p \in LiesInside, lastPos <= p, p < hsize PROVE FALSE
    <3>1. p \in StartsInside /\ p < Frontier /\ p \in Nat
      BY <1>0, <2>1, <2>4 DEF LiesInside, StartsInside, Frontier
    <3>2. PICK q \in hits : q <= p /\ p < q + nsize
      BY <3>1 DEF IInv, NoMatchMissed
    <3>3. q + nsize <= cur
      BY DEF IInv, SearchInv
    <3> QED
      BY <1>0, <2>3, <2>4, <3>1, <3>2, <3>3 DEF TypeOK
  <2>5. Rewritten[lastPos] = Units(lastPos, hsize) \o Rewritten[hsize]
    <3>1. hsize \in lastPos .. hsize
      BY <1>0, <2>2
    <3> QED
      BY <1>0, <2>2, <2>4, <3>1, RewrittenHere
  <2>6. Units(lastPos, hsize) \in Seq(Origin)
    BY <1>0, <2>2, UnitsContent
  <2>7. Rewritten[lastPos] = Units(lastPos, hsize)
    BY <1>0, <2>5, <2>6, RewrittenHere, ConcatEmptySeq
  <2>8. result \o Rewritten[lastPos] = Rewritten[0]
    BY <2>1, <2>2 DEF RewrittenInv
  <2> QED
    BY <1>0, <2>1, <2>7, <2>8 DEF RewrittenInv
<1>4. CASE Overrun
  BY <1>0, <1>4 DEF Overrun, RewrittenInv
<1>5. CASE UNCHANGED allVars
  BY <1>0, <1>5 DEF allVars, subVars, RewrittenInv
<1> QED
  BY <1>1, <1>2, <1>3, <1>4, <1>5 DEF SubNext

(* An append leaves the haystack only where last_pos is that of a match    *)
(* which straddles the end or wraps around, and then one does.             *)
LEMMA ExplainedStep ==
  ASSUME IInv, FollowInv, OverrunExplained, [SubNext]_allVars
  PROVE  OverrunExplained'
<1>0. UNCHANGED <<hsize, nsize>> /\ hsize \in Nat /\ nsize \in Nat /\ IntMax \in Nat
  BY SubLifts, InputsKept, IntMaxAssumption DEF inputs, IInv, TypeOK
<1>1. CASE Overrun
  <2>1. /\ subPc = "loop" /\ pc = "idle" /\ subPc' = "overrun" /\ UNCHANGED <<hits, foundAt>>
        /\ ~Copyable(IF foundAt = Npos THEN hsize ELSE foundAt)
    BY <1>1 DEF Overrun, vars
  <2>2. SUFFICES ASSUME \A q \in hits : ~Excessive(q) PROVE FALSE
    BY <1>0, <2>1 DEF OverrunExplained, Excessive
  <2>3. ASSUME NEW c, Stop(c)
        PROVE  c \in Nat /\ c <= hsize /\ ToInt(c) = c
    <3>1. \A q \in hits : q \in Nat /\ q + nsize <= hsize /\ q + nsize <= IntMax
      BY <1>0, <2>2 DEF Excessive, IInv, HitsDisjoint, StartsInside
    <3>2. c \in Nat /\ c <= hsize /\ c <= IntMax
      BY <1>0, <2>3, <3>1 DEF Stop
    <3> QED
      BY <3>2, ToIntFits
  <2>4. CASE foundAt = Npos
    BY <1>0, <2>1, <2>3, <2>4 DEF FollowInv, Ahead, Copyable
  <2>5. CASE foundAt # Npos
    <3>1. Ahead
      BY <2>1, <2>5 DEF Ahead
    <3>2. PICK c \in 0 .. foundAt : lastPos = ToInt(c) /\ Stop(c)
      BY <2>1, <3>1 DEF FollowInv
    <3>3. lastPos = c /\ c \in Nat
      BY <2>3, <3>2
    <3> QED
      BY <1>0, <2>1, <2>5, <3>1, <3>2, <3>3, AheadInside DEF Copyable
  <2> QED
    BY <2>4, <2>5
<1>2. CASE Return
  <2>1. /\ subPc = "loop" /\ pc = "idle" /\ foundAt = Npos /\ Copyable(hsize)
        /\ subPc' = "done" /\ UNCHANGED hits
    BY <1>2 DEF Return, vars
  <2>2. SUFFICES ASSUME Distinct PROVE \A q \in hits : ~Excessive(q)
    BY <1>0, <2>1 DEF OverrunExplained, Excessive, Distinct
  <2>3. lastPos = ToInt(cur) /\ Stop(cur)
    BY <2>1 DEF FollowInv, Ahead
  <2>4. cur \in Nat /\ cur < 2 * (IntMax + 1)
    BY <2>2, <2>3, StopBound
  <2>5. cur <= hsize /\ cur <= IntMax
    BY <2>1, <2>3, <2>4, ToIntInside DEF Copyable
  <2>6. \A q \in hits : q \in Nat /\ q + nsize <= cur
    BY <1>0 DEF IInv, SearchInv, HitsDisjoint, StartsInside
  <2> QED
    BY <1>0, <2>4, <2>5, <2>6 DEF Excessive
<1>3. CASE SubSearch \/ Replace
  BY <1>3 DEF SubSearch, Replace, subVars, OverrunExplained
<1>4. CASE UNCHANGED allVars
  BY <1>4 DEF allVars, subVars, vars, inputs, OverrunExplained, Excessive, Distinct
<1> QED
  BY <1>1, <1>2, <1>3, <1>4 DEF SubNext

(* Together; only what the result is needs positions that are Distinct.    *)
RewriteInv == FollowInv /\ OverrunExplained /\ (Distinct => RewrittenInv)

(* The invariant holds of every state of sub.                              *)
LEMMA RewriteInvariance == SubSpec => []RewriteInv
<1>1. SubInit => RewriteInv
  <2> SUFFICES ASSUME SubInit PROVE FollowInv /\ OverrunExplained /\ RewrittenInv
    BY DEF RewriteInv
  <2>1. /\ IInv /\ cur = 0 /\ pc = "construct" /\ subPc = "loop" /\ lastPos = 0
        /\ result = <<>>
    BY InitIInv DEF SubInit, Init
  <2>2. FollowInv /\ OverrunExplained
    BY <2>1, ToIntFits, IntMaxAssumption DEF FollowInv, Stop, Ahead, OverrunExplained
  <2>3. Rewritten[0] \in Seq(Origin)
    BY <2>1, RewrittenHere DEF IInv, TypeOK
  <2>4. RewrittenInv
    BY <2>1, <2>3, ConcatEmptySeq DEF RewrittenInv
  <2> QED
    BY <2>2, <2>4
<1>2. IInv /\ SubTypes /\ RewriteInv /\ [SubNext]_allVars => RewriteInv'
  <2> SUFFICES ASSUME IInv, SubTypes, RewriteInv, [SubNext]_allVars PROVE RewriteInv'
    OBVIOUS
  <2>1. Distinct' <=> Distinct
    BY SubLifts, InputsKept DEF inputs, Distinct
  <2> QED
    BY <2>1, FollowStep, ExplainedStep, RewrittenStep DEF RewriteInv
<1>3. SubInit => SubTypes
  BY IntMaxAssumption DEF SubInit, SubTypes
<1>4. IInv /\ SubTypes /\ [SubNext]_allVars => SubTypes'
  BY SubTypeStep
<1> QED
  BY <1>1, <1>2, <1>3, <1>4, SubIInv, PTL DEF SubSpec

(* When sub returns, its result is the haystack with every leftmost match  *)
(* replaced once, terminated or not, larger than an int or not: sub cannot *)
(* return with a wrong one unless two positions are the same int.          *)
THEOREM SubRewrites == SubSpec => []SubReplaces
<1>1. RewriteInv => SubReplaces
  BY DEF RewriteInv, RewrittenInv, SubReplaces
<1> QED
  BY <1>1, RewriteInvariance, PTL

(* sub reads outside the haystack just if the search reports a match that  *)
(* straddles the end, or whose end is larger than an int.                  *)
THEOREM Overruns == SubSpec => []OverrunExplained
  BY RewriteInvariance, PTL DEF RewriteInv

(* A terminated haystack that an int can hold has no such match: no append *)
(* is given memory outside of it.                                          *)
THEOREM SubInBounds ==
  SubSpec => [](Terminated /\ hsize <= IntMax => subPc # "overrun")
<1>1. IInv /\ OverrunExplained =>
        (Terminated /\ hsize <= IntMax => subPc # "overrun")
  <2> SUFFICES ASSUME IInv, OverrunExplained, Terminated, hsize <= IntMax,
                      NEW q \in hits, Excessive(q)
               PROVE  FALSE
    BY DEF OverrunExplained
  <2>1. q \in LiesInside /\ hsize \in Nat /\ nsize \in Nat /\ IntMax \in Nat
    BY NoneStraddles, IntMaxAssumption DEF IInv, HitsDisjoint, TypeOK
  <2>2. q \in Nat
    BY <2>1 DEF LiesInside, StartsInside
  <2> QED
    BY <2>1, <2>2 DEF Excessive, LiesInside
<1> QED
  BY <1>1, SubIInv, Overruns, PTL

-----------------------------------------------------------------------------
(* ExpandTabs: a tab is one unit, and so is what an append brings for each *)
(* unit, so that the n-th element of the result stems from position n - 1. *)
(* The rest is the arithmetic of a quotient.                               *)

(* A step of expandtabs is one of sub.                                     *)
LEMMA TabLifts == [TabNext]_tabVars => [SubNext]_allVars
  BY DEF TabNext, tabVars

(* Hence everything that holds of sub holds of expandtabs.                 *)
LEMMA TabIsSub == TabSpec => SubSpec
<1>1. TabInit => SubInit
  BY DEF TabInit
<1> QED
  BY <1>1, TabLifts, PTL DEF TabSpec, SubSpec

(* The types of what is not sub's, and that a tab is one unit.             *)
TabOK == nsize = 1 /\ tabSize \in Nat \ {0}

(* Each element of the result stems from the position it stands at.        *)
InPlace ==
  /\ Len(result) = Copied
  /\ \A n \in 1 .. Len(result) : result[n][2] = n - 1

(* A match of one unit lies inside when it starts inside.                  *)
LEMMA OneUnitFits ==
  ASSUME IInv, TabOK, hsize <= IntMax
  PROVE  Fitting
<1>1. ASSUME NEW p \in StartsInside PROVE p + nsize <= hsize
  BY DEF StartsInside, IInv, TypeOK, TabOK
<1> QED
  BY <1>1 DEF Fitting, LiesInside, StartsInside

(* What is copied comes from the positions behind the last copied one, in  *)
(* order.                                                                  *)
LEMMA InPlaceConcat ==
  ASSUME NEW s \in Seq(Origin), NEW t \in Seq(Origin),
         \A n \in 1 .. Len(s) : s[n][2] = n - 1,
         \A n \in 1 .. Len(t) : t[n][2] = Len(s) + n - 1
  PROVE  /\ Len(s \o t) = Len(s) + Len(t)
         /\ \A n \in 1 .. Len(s \o t) : (s \o t)[n][2] = n - 1
<1>1. /\ Len(s) \in Nat /\ Len(t) \in Nat /\ Len(s \o t) = Len(s) + Len(t)
      /\ \A k \in 1 .. Len(s) + Len(t) :
           (s \o t)[k] = IF k <= Len(s) THEN s[k] ELSE t[k - Len(s)]
  BY ConcatProperties, LenProperties
<1>2. ASSUME NEW n \in 1 .. Len(s) + Len(t) PROVE (s \o t)[n][2] = n - 1
  <2>1. CASE n <= Len(s)
    BY <1>1, <2>1
  <2>2. CASE n > Len(s)
    <3>1. n - Len(s) \in 1 .. Len(t) /\ Len(s) + (n - Len(s)) - 1 = n - 1
      BY <1>1, <2>2
    <3>2. (s \o t)[n] = t[n - Len(s)]
      BY <1>1, <2>2
    <3> QED
      BY <3>1, <3>2
  <2> QED
    BY <1>1, <2>1, <2>2
<1> QED
  BY <1>1, <1>2

(* The units of a part stand in its order.                                 *)
LEMMA UnitsPlaces ==
  ASSUME NEW a \in Int, NEW b \in Int, a <= b
  PROVE  /\ Len(Units(a, b)) = b - a
         /\ \A n \in 1 .. Len(Units(a, b)) : Units(a, b)[n][2] = a + n - 1
<1>1. Len(Units(a, b)) = b - a
  BY UnitsContent
<1> QED
  BY <1>1 DEF Units, Unit

(* ...and so do the units in front of a match and the match.               *)
LEMMA PiecePlaces ==
  ASSUME NEW p \in Int, lastPos \in Int, lastPos <= p
  PROVE  \A n \in 1 .. Len(Piece(p)) : Piece(p)[n][2] = lastPos + n - 1
<1> DEFINE u == Units(lastPos, p)
           r == <<Repl(p)>>
<1>1. /\ u \in Seq(Origin) /\ Len(u) = p - lastPos
      /\ \A n \in 1 .. Len(u) : u[n][2] = lastPos + n - 1
  BY UnitsContent, UnitsPlaces
<1>2. r \in Seq(Origin) /\ Len(r) = 1 /\ r[1][2] = p
  BY DEF Repl, Origin
<1>3. Piece(p) = u \o r
  BY DEF Piece
<1> HIDE DEF u, r
<1>4. /\ Len(u \o r) = p - lastPos + 1
      /\ \A k \in 1 .. Len(u) + Len(r) :
           (u \o r)[k] = IF k <= Len(u) THEN u[k] ELSE r[k - Len(u)]
  <2>1. /\ Len(u \o r) = Len(u) + Len(r)
        /\ \A k \in 1 .. Len(u) + Len(r) :
             (u \o r)[k] = IF k <= Len(u) THEN u[k] ELSE r[k - Len(u)]
    BY <1>1, <1>2, ConcatProperties
  <2> QED
    BY <1>1, <1>2, <2>1
<1>5. ASSUME NEW n \in 1 .. p - lastPos + 1 PROVE (u \o r)[n][2] = lastPos + n - 1
  <2>0. n \in 1 .. Len(u) + Len(r) /\ Len(u) \in Int
    BY <1>1, <1>2
  <2>1. CASE n <= p - lastPos
    <3>1. (u \o r)[n] = u[n] /\ n \in 1 .. Len(u)
      BY <1>1, <1>4, <2>0, <2>1
    <3> QED
      BY <1>1, <3>1
  <2>2. CASE ~(n <= p - lastPos)
    <3>1. n - Len(u) = 1 /\ ~(n <= Len(u)) /\ lastPos + n - 1 = p
      BY <1>1, <2>2
    <3>2. (u \o r)[n] = r[1]
      BY <1>4, <2>0, <3>1
    <3> QED
      BY <1>2, <3>1, <3>2
  <2> QED
    BY <2>1, <2>2
<1> QED
  BY <1>3, <1>4, <1>5

(* Every step keeps the elements of the result in their places.            *)
LEMMA InPlaceStep ==
  ASSUME IInv, SubTypes, PosInv, Fitting, TabOK, InPlace, [SubNext]_allVars
  PROVE  InPlace'
<1>0. result \in Seq(Origin)
  BY SeqMonotonic DEF SubTypes, Origin
<1>1. CASE SubSearch
  BY <1>1 DEF SubSearch, subVars, InPlace, Copied
<1>2. CASE Replace
  <2>1. /\ subPc = "loop" /\ Ahead /\ result' = result \o Piece(foundAt)
        /\ lastPos' = Behind(foundAt) /\ UNCHANGED subPc
    BY <1>2 DEF Replace, Ahead
  <2>2. /\ foundAt \in Int /\ lastPos \in Int /\ lastPos <= foundAt
        /\ foundAt + 1 \in Nat /\ foundAt + 1 <= IntMax
    BY <2>1, AheadInside, IntMaxAssumption DEF PosInv, Fitting
  <2>3. lastPos' = foundAt + 1
    BY <2>1, <2>2, ToIntFits DEF Behind, TabOK
  <2>4. Piece(foundAt) \in Seq(Origin) /\ Len(Piece(foundAt)) = foundAt - lastPos + 1
    BY <2>2, PieceContent
  <2>5. Len(result) = lastPos /\ \A n \in 1 .. Len(result) : result[n][2] = n - 1
    BY <2>1 DEF InPlace, Copied
  <2>6. \A n \in 1 .. Len(Piece(foundAt)) : Piece(foundAt)[n][2] = Len(result) + n - 1
    BY <2>2, <2>5, PiecePlaces
  <2>7. /\ Len(result') = Len(result) + Len(Piece(foundAt))
        /\ \A n \in 1 .. Len(result') : result'[n][2] = n - 1
    BY <1>0, <2>1, <2>4, <2>5, <2>6, InPlaceConcat
  <2>8. Len(result') = lastPos'
    BY <2>2, <2>3, <2>4, <2>5, <2>7
  <2> QED
    BY <2>1, <2>7, <2>8 DEF InPlace, Copied
<1>3. CASE Return
  <2>1. /\ subPc = "loop" /\ result' = result \o Units(lastPos, hsize)
        /\ subPc' = "done" /\ UNCHANGED <<hsize, lastPos>>
    BY <1>3 DEF Return, vars, inputs
  <2>2. lastPos \in Int /\ hsize \in Int /\ lastPos <= hsize
    BY DEF PosInv, IInv, TypeOK
  <2>3. Units(lastPos, hsize) \in Seq(Origin) /\ Len(Units(lastPos, hsize)) = hsize - lastPos
    BY <2>2, UnitsContent
  <2>4. Len(result) = lastPos /\ \A n \in 1 .. Len(result) : result[n][2] = n - 1
    BY <2>1 DEF InPlace, Copied
  <2>5. \A n \in 1 .. Len(Units(lastPos, hsize)) :
          Units(lastPos, hsize)[n][2] = Len(result) + n - 1
    BY <2>2, <2>4, UnitsPlaces
  <2>6. /\ Len(result') = Len(result) + Len(Units(lastPos, hsize))
        /\ \A n \in 1 .. Len(result') : result'[n][2] = n - 1
    BY <1>0, <2>1, <2>3, <2>4, <2>5, InPlaceConcat
  <2> QED
    BY <2>1, <2>2, <2>3, <2>4, <2>6 DEF InPlace, Copied
<1>4. CASE Overrun
  BY <1>4, NeverOverruns
<1>5. CASE UNCHANGED allVars
  BY <1>5 DEF allVars, subVars, vars, inputs, InPlace, Copied
<1> QED
  BY <1>1, <1>2, <1>3, <1>4, <1>5 DEF SubNext

-----------------------------------------------------------------------------
TabInv == TabOK /\ (hsize <= IntMax => InPlace)

(* The invariant holds of every state of expandtabs.                       *)
LEMMA TabInvariance == TabSpec => [](IInv /\ SubTypes /\ SubInv /\ TabInv)
<1>1. TabInit => TabInv
  <2> SUFFICES ASSUME TabInit PROVE TabOK /\ InPlace
    BY DEF TabInv
  <2>1. TabOK
    BY TabAssumption DEF TabInit, TabOK
  <2>2. result = <<>> /\ lastPos = 0 /\ subPc = "loop"
    BY DEF TabInit, SubInit
  <2>3. Len(result) = 0
    BY <2>2
  <2> QED
    BY <2>1, <2>2, <2>3 DEF InPlace, Copied
<1>2. ASSUME IInv, SubTypes, SubInv, TabInv, [TabNext]_tabVars PROVE TabInv'
  <2>1. [SubNext]_allVars /\ UNCHANGED tabSize
    BY <1>2, TabLifts DEF TabNext, tabVars
  <2>2. UNCHANGED <<hsize, nsize>>
    BY <2>1, SubLifts, InputsKept DEF inputs
  <2>3. TabOK'
    BY <1>2, <2>1, <2>2 DEF TabInv, TabOK
  <2>4. ASSUME hsize <= IntMax PROVE InPlace'
    <3>1. TabOK /\ InPlace /\ Fitting
      BY <1>2, <2>4, OneUnitFits DEF TabInv
    <3>2. PosInv
      BY <1>2, <3>1 DEF SubInv
    <3> QED
      BY <1>2, <2>1, <3>1, <3>2, InPlaceStep
  <2> QED
    BY <2>2, <2>3, <2>4 DEF TabInv
<1>3. SubSpec => []SubTypes
  <2>1. SubInit => SubTypes
    BY IntMaxAssumption DEF SubInit, SubTypes
  <2>2. IInv /\ SubTypes /\ [SubNext]_allVars => SubTypes'
    BY SubTypeStep
  <2> QED
    BY <2>1, <2>2, SubIInv, PTL DEF SubSpec
<1>4. TabSpec => [](IInv /\ SubTypes /\ SubInv)
  BY <1>3, TabIsSub, SubIInv, SubInvariance, PTL
<1> QED
  BY <1>1, <1>2, <1>4, PTL DEF TabSpec

(* A quotient is what the divisor fits into, with less than one divisor    *)
(* left over.                                                              *)
LEMMA TabQuotient ==
  ASSUME NEW a \in Nat, NEW p \in Nat, p > 0
  PROVE  /\ a \div p \in Nat /\ a \div p <= a
         /\ (a \div p) * p \in Nat
         /\ (a \div p) * p <= a /\ a < (a \div p) * p + p
  OBVIOUS

(* A multiple leaves nothing over.                                         *)
LEMMA Multiple ==
  ASSUME NEW k \in Nat, NEW p \in Nat, p > 0
  PROVE  (k * p) % p = 0
  OBVIOUS

(* The spaces for a tab at p fill up to the next multiple of tab_size.     *)
LEMMA SpacesFill ==
  ASSUME NEW p \in Nat, p <= IntMax, tabSize \in Nat \ {0}
  PROVE  /\ SpacesCount(p) \in 1 .. tabSize
         /\ (p + SpacesCount(p)) % tabSize = 0
<1> DEFINE q == p \div tabSize
<1>1. q \in Nat /\ q <= p /\ q * tabSize \in Nat
      /\ q * tabSize <= p /\ p < q * tabSize + tabSize
  BY TabQuotient
<1>2. ToInt(q) = q
  BY <1>1, ToIntFits, IntMaxAssumption
<1>3. SpacesCount(p) = (q + 1) * tabSize - p
  BY <1>2 DEF SpacesCount
<1> HIDE DEF q
<1>4. (q + 1) * tabSize = q * tabSize + tabSize
  BY <1>1
<1>5. SpacesCount(p) \in 1 .. tabSize /\ p + SpacesCount(p) = (q + 1) * tabSize
  BY <1>1, <1>3, <1>4
<1>6. ((q + 1) * tabSize) % tabSize = 0
  <2>1. q + 1 \in Nat
    BY <1>1
  <2> QED
    BY <2>1, Multiple
<1> QED
  BY <1>5, <1>6

(* What a tab of the result became.                                        *)
LEMMA TabWidth ==
  ASSUME IInv, PosInv, TabOK, InPlace, hsize <= IntMax,
         NEW n \in 1 .. Len(result), result[n][1] = "repl"
  PROVE  Width(n) \in 1 .. tabSize /\ (n - 1 + Width(n)) % tabSize = 0
<1>1. hsize \in Nat /\ Len(result) \in Int /\ Len(result) <= hsize
  BY DEF IInv, TypeOK, PosInv, InPlace, Copied
<1>2. n - 1 \in Nat /\ n - 1 <= IntMax
  BY <1>1, IntMaxAssumption
<1>3. Width(n) = SpacesCount(n - 1)
  BY DEF Width, InPlace
<1> QED
  BY <1>2, <1>3, SpacesFill DEF TabOK

(* The view the callback returns is never empty and never reaches behind   *)
(* the tab_size spaces it is a view of.                                    *)
THEOREM SpacesWithin == TabSpec => []SpacesFit
<1>1. IInv /\ SubInv /\ TabInv => SpacesFit
  <2> SUFFICES ASSUME IInv, SubInv, TabInv, hsize <= IntMax,
                      NEW n \in TabsIn(Len(result))
               PROVE  Width(n) \in 1 .. tabSize
    BY DEF SpacesFit
  <2>1. TabOK /\ InPlace /\ PosInv
    BY OneUnitFits DEF TabInv, SubInv
  <2> QED
    BY <2>1, TabWidth DEF TabsIn
<1> QED
  BY <1>1, TabInvariance, PTL

(* What is left of a multiple is one just if what is taken away is.        *)
LEMMA MultipleLeft ==
  ASSUME NEW a \in Nat, NEW m \in 0 .. a, NEW p \in Nat \ {0}, a % p = 0
  PROVE  (a - m) % p = 0 <=> m % p = 0
<1>1. ASSUME NEW n \in Nat, n % p = 0 PROVE \E k \in Nat : n = k * p
  <2>1. n = (n \div p) * p /\ n \div p \in Nat
    BY <1>1
  <2> QED
    BY <2>1
<1>2. ASSUME NEW x \in Nat, NEW y \in Nat, x * p <= y * p
      PROVE  (y * p - x * p) % p = 0
  <2>1. x <= y
    <3>1. SUFFICES ASSUME y < x PROVE FALSE
      OBVIOUS
    <3>2. PICK d \in Nat : x = y + 1 + d
      <4>1. x - y - 1 \in Nat /\ x = y + 1 + (x - y - 1)
        BY <3>1
      <4> QED
        BY <4>1
    <3>3. x * p = y * p + p + d * p /\ d * p \in Nat /\ y * p \in Nat
      BY <3>2
    <3> QED
      BY <1>2, <3>3
  <2>2. PICK d \in Nat : y = x + d
    <3>1. y - x \in Nat /\ y = x + (y - x)
      BY <2>1
    <3> QED
      BY <3>1
  <2>3. y * p - x * p = d * p
    <3>1. y * p = x * p + d * p /\ x * p \in Nat /\ d * p \in Nat
      BY <2>2
    <3> QED
      BY <3>1
  <2> QED
    BY <2>3, Multiple
<1>3. PICK ka \in Nat : a = ka * p
  BY <1>1
<1>4. ASSUME NEW n \in 0 .. a, n % p = 0 PROVE (a - n) % p = 0
  <2>1. PICK kn \in Nat : n = kn * p
    BY <1>1, <1>4
  <2> QED
    BY <1>2, <1>3, <2>1
<1>5. a - m \in 0 .. a /\ a - (a - m) = m
  OBVIOUS
<1> QED
  BY <1>4, <1>5

(* The text behind a tab begins at a multiple of tab_size if it is the     *)
(* first; behind a later one its distance to the text behind the tab       *)
(* before is a multiple just if the position of that one is.               *)
THEOREM TabsAligned == TabSpec => []TabsDrift
<1>1. IInv /\ SubInv /\ TabInv => TabsDrift
  <2> SUFFICES ASSUME IInv, SubInv, TabInv, hsize <= IntMax,
                      NEW n \in TabsIn(Len(result))
               PROVE  /\ (n - 1 + Width(n)) % tabSize = 0
                      /\ \A m \in TabsIn(n - 1) :
                           (n - m - 1 + Width(n)) % tabSize = 0
                             <=> (result[m][2] + nsize) % tabSize = 0
    BY DEF TabsDrift
  <2>1. TabOK /\ InPlace /\ PosInv
    BY OneUnitFits DEF TabInv, SubInv
  <2>2. n \in 1 .. Len(result) /\ result[n][1] = "repl" /\ Len(result) \in Int
    BY <2>1 DEF TabsIn, InPlace, Copied, PosInv, IInv, TypeOK
  <2>3. Width(n) \in 1 .. tabSize /\ (n - 1 + Width(n)) % tabSize = 0
    BY <2>1, <2>2, TabWidth
  <2>4. tabSize \in Nat \ {0} /\ nsize = 1
    BY <2>1 DEF TabOK
  <2>5. ASSUME NEW m \in TabsIn(n - 1)
        PROVE  (n - m - 1 + Width(n)) % tabSize = 0
                 <=> (result[m][2] + nsize) % tabSize = 0
    <3>1. m \in 1 .. n - 1 /\ result[m][2] = m - 1
      BY <2>1, <2>2 DEF TabsIn, InPlace
    <3>2. PICK a : a = n - 1 + Width(n)
      OBVIOUS
    <3>3. a \in Nat /\ m \in 0 .. a /\ a % tabSize = 0
      BY <2>2, <2>3, <2>4, <3>1, <3>2
    <3>4. (a - m) % tabSize = 0 <=> m % tabSize = 0
      BY <2>4, <3>3, MultipleLeft
    <3>5. n - m - 1 + Width(n) = a - m /\ result[m][2] + nsize = m
      BY <2>2, <2>3, <2>4, <3>1, <3>2
    <3> QED
      BY <3>4, <3>5
  <2> QED
    BY <2>3, <2>5
<1> QED
  BY <1>1, TabInvariance, PTL
=============================================================================
