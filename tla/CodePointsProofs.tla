-------------------------- MODULE CodePointsProofs --------------------------
(***************************************************************************)
(* Theorems about CodePoints, for every set of bytes and every size.       *)
(*                                                                         *)
(* SplitsAtStarts is inductive together with two facts about the position: *)
(* on a decodable text the range always stands at the end or at a byte     *)
(* that is no continuation byte, and an empty code point is only ever      *)
(* produced at the end.                                                    *)
(***************************************************************************)
EXTENDS CodePoints, FiniteSetTheorems, TLAPS

(* Where the range can stand.                                              *)
PositionInv ==
  /\ Decodable /\ cur < size => IsStart(text[cur])
  /\ pc = "ready" /\ Done => cur = size

IInv == TypeOK /\ PositionInv /\ Partition /\ SplitsAtStarts

(* A step is one byte or more, and three more at most.                     *)
LEMMA StepWidth ==
  ASSUME TypeOK, NEW k \in 0 .. size - 1
  PROVE  Step(text[k]) \in 1 .. 4
<1>1. text[k] \in Byte
  BY DEF TypeOK
<1>2. \A code \in 0 .. 255 : Step(code) \in 1 .. 4
  BY DEF Step
<1>3. text[k] \in 0 .. 255
  BY <1>1, ByteAssumption
<1> QED
  BY <1>2, <1>3

(* No step changes the text, so what is decodable stays so.                *)
LEMMA TextFixed ==
  ASSUME UNCHANGED <<text, size>>
  PROVE  Starts' = Starts /\ (Decodable' <=> Decodable)
  BY DEF Starts, Decodable, IsStart

(* On the lead bytes of UTF-8 the table of next() is the standard's.       *)
LEMMA LeadStep ==
  ASSUME NEW code, NEW n \in 1 .. 4, code \in Leads[n]
  PROVE  Step(code) = n
  BY DEF Leads, Step

(* A next code point begins at the position and ends behind it, inside the *)
(* text.                                                                   *)
LEMMA TakeForward ==
  ASSUME TypeOK, Take, cur # size
  PROVE  /\ codePoint' = [from |-> cur, to |-> cur']
         /\ cur' \in cur + 1 .. size
         /\ cur' = BoundedNext(Step(text[cur]))
         /\ seen' = seen \union {codePoint'}
<1>1. cur \in 0 .. size - 1
  BY DEF TypeOK
<1>2. Step(text[cur]) \in 1 .. 4
  BY <1>1, StepWidth
<1>3. BoundedNext(Step(text[cur])) \in cur + 1 .. size
  BY <1>2 DEF BoundedNext, TypeOK
<1> QED
  BY <1>3 DEF Take

(* On a decodable text no byte that len counts lies inside a code point,   *)
(* and the position behind it is again one that len counts, or the end.    *)
LEMMA TakeWhole ==
  ASSUME TypeOK, PositionInv, Decodable, Take, cur # size
  PROVE  /\ cur \in Starts
         /\ \A k \in cur + 1 .. cur' - 1 : k \notin Starts
         /\ cur' < size => IsStart(text[cur'])
<1>1. cur \in Starts
  BY DEF TypeOK, PositionInv, Starts
<1>2. PICK n \in 1 .. 4 :
        /\ text[cur] \in Leads[n]
        /\ \A l \in cur + 1 .. cur + n - 1 : l < size => ~IsStart(text[l])
        /\ cur + n < size => IsStart(text[cur + n])
  BY <1>1 DEF Decodable
<1>3. Step(text[cur]) = n
  BY <1>2, LeadStep
<1>4. cur' \in cur + 1 .. size /\ cur' = BoundedNext(n)
  BY <1>3, TakeForward
<1>5. cur' <= cur + n /\ (cur' < size => cur' = cur + n)
  BY <1>4 DEF BoundedNext, TypeOK
<1>6. \A k \in cur + 1 .. cur' - 1 : k \notin Starts
  BY <1>2, <1>4, <1>5 DEF TypeOK, Starts
<1>7. cur' < size => IsStart(text[cur'])
  BY <1>2, <1>5
<1> QED
  BY <1>1, <1>6, <1>7

(* A range whose constructor has not run yet satisfies the invariant.      *)
LEMMA InitIInv == Init => IInv
  BY DEF Init, IInv, TypeOK, PositionInv, Partition, SplitsAtStarts, NoText,
         Decodable, Starts, Done

(* At the end ++ changes nothing but the code point, which becomes empty.  *)
LEMMA TakeAtEnd ==
  ASSUME IInv, cur = size, Take, UNCHANGED <<text, size>>, pc' = "ready"
  PROVE  IInv'
<1>1. codePoint' = NoText /\ cur' = cur /\ seen' = seen
  BY DEF Take
<1>2. TypeOK'
  BY <1>1 DEF IInv, TypeOK, NoText
<1>3. PositionInv'
  BY <1>1 DEF IInv, TypeOK, PositionInv
<1>4. Partition'
  BY <1>1 DEF IInv, Partition
<1>5. SplitsAtStarts'
  BY <1>1, TextFixed DEF IInv, SplitsAtStarts
<1> QED
  BY <1>2, <1>3, <1>4, <1>5 DEF IInv

(* Before the end ++ adds one code point, which begins where the last one  *)
(* ended.                                                                  *)
LEMMA TakeBefore ==
  ASSUME IInv, cur # size, Take, UNCHANGED <<text, size>>, pc' = "ready"
  PROVE  IInv'
<1>1. TypeOK /\ cur \in Int /\ size \in Int
  BY DEF IInv, TypeOK
<1>2. PICK end \in cur + 1 .. size :
        /\ cur' = end
        /\ codePoint' = [from |-> cur, to |-> end]
        /\ seen' = seen \union {codePoint'}
  BY <1>1, TakeForward
<1>3. end \in Int /\ cur < end
  BY <1>1, <1>2
<1>4. PICK new : /\ new = codePoint' /\ new.from = cur /\ new.to = end
                 /\ seen' = seen \union {new}
  BY <1>2
<1>5. \A c \in seen : c.from \in Int /\ c.to \in Int
  BY <1>1 DEF TypeOK
<1>6. TypeOK'
  BY <1>1, <1>2 DEF TypeOK
<1>7. PositionInv'
  <2>1. ~Done'
    BY <1>3, <1>4 DEF Done
  <2>2. ASSUME Decodable', cur' < size' PROVE IsStart(text'[cur'])
    BY <2>2, TextFixed, TakeWhole DEF IInv
  <2> QED
    BY <2>1, <2>2 DEF PositionInv, IsStart
<1>8. Partition'
  <2>1. \A k \in 0 .. end - 1 : \E c \in seen' : c.from <= k /\ k < c.to
    <3> SUFFICES ASSUME NEW k \in 0 .. end - 1
                 PROVE  \E c \in seen' : c.from <= k /\ k < c.to
      OBVIOUS
    <3>1. CASE k < cur
      BY <1>1, <1>4, <3>1 DEF IInv, Partition
    <3>2. CASE k >= cur
      <4>1. new.from <= k /\ k < new.to
        BY <1>3, <1>4, <3>2
      <4> QED
        BY <1>4, <4>1
    <3> QED
      BY <1>1, <1>3, <3>1, <3>2
  <2>2. \A c \in seen : c.from < c.to /\ c.to <= cur
    BY DEF IInv, Partition
  <2>3. \A c \in seen : c.to <= new.from
    BY <1>4, <2>2
  <2>4. \A c \in seen' : c.from < c.to /\ c.to <= end
    BY <1>1, <1>3, <1>4, <1>5, <2>2
  <2>5. \A c, d \in seen' : c # d => c.to <= d.from \/ d.to <= c.from
    BY <1>4, <2>3 DEF IInv, Partition
  <2> QED
    BY <1>2, <2>1, <2>4, <2>5 DEF Partition
<1>9. SplitsAtStarts'
  <2> SUFFICES ASSUME Decodable
               PROVE  {c.from : c \in seen'} = {k \in Starts : k < end}
    BY <1>2, TextFixed DEF SplitsAtStarts
  <2>1. {c.from : c \in seen'} = {c.from : c \in seen} \union {cur}
    BY <1>4
  <2>2. {c.from : c \in seen} = {k \in Starts : k < cur}
    BY DEF IInv, SplitsAtStarts
  <2>3. cur \in Starts /\ \A k \in cur + 1 .. end - 1 : k \notin Starts
    BY <1>2, TakeWhole DEF IInv
  <2>4. ASSUME NEW k \in Starts
        PROVE  k < end <=> k < cur \/ k = cur
    <3>1. k \in Int
      BY DEF Starts
    <3>2. k < end /\ k > cur => k \in cur + 1 .. end - 1
      BY <1>1, <1>3, <3>1
    <3>3. ~(k < end /\ k > cur)
      BY <2>3, <3>2
    <3> QED
      BY <1>1, <1>3, <3>1, <3>3
  <2>5. {k \in Starts : k < end} = {k \in Starts : k < cur} \union {cur}
    BY <2>3, <2>4
  <2> QED
    BY <2>1, <2>2, <2>5
<1> QED
  BY <1>6, <1>7, <1>8, <1>9 DEF IInv

(* The invariant is inductive: the constructor and ++ both take one step   *)
(* of next().                                                              *)
LEMMA IInvStep == IInv /\ [Next]_vars => IInv'
<1> SUFFICES ASSUME IInv, [Next]_vars PROVE IInv'
  OBVIOUS
<1>1. CASE Construct
  BY <1>1, TakeAtEnd, TakeBefore DEF Construct
<1>2. CASE Increment
  BY <1>2, TakeAtEnd, TakeBefore DEF Increment
<1>3. CASE UNCHANGED vars
  <2>1. TypeOK'
    BY <1>3 DEF vars, IInv, TypeOK
  <2>2. PositionInv'
    BY <1>3, TextFixed DEF vars, IInv, PositionInv, Done, IsStart
  <2>3. Partition'
    BY <1>3 DEF vars, IInv, Partition
  <2>4. SplitsAtStarts'
    BY <1>3, TextFixed DEF vars, IInv, SplitsAtStarts
  <2> QED
    BY <2>1, <2>2, <2>3, <2>4 DEF IInv
<1> QED
  BY <1>1, <1>2, <1>3 DEF Next

(* Every state of a code point range satisfies the invariant.              *)
THEOREM Invariance == Spec => []IInv
  BY InitIInv, IInvStep, PTL DEF Spec

(* The range never leaves the text.                                        *)
THEOREM TypeCorrect == Spec => []TypeOK
  BY Invariance, PTL DEF IInv

(* No byte is dropped and none is repeated, whatever the text.             *)
THEOREM Partitioned == Spec => []Partition
  BY Invariance, PTL DEF IInv

(* On a decodable text code points begin where len counts.                 *)
THEOREM SplitAtStarts == Spec => []SplitsAtStarts
  BY Invariance, PTL DEF IInv

(* No two code points begin at the same place, so that at the end the code *)
(* points and the bytes len counts correspond one to one.                  *)
LEMMA EqualCounts == IInv => LenAgrees
<1> SUFFICES ASSUME IInv, pc = "ready", Done, Decodable
             PROVE  Cardinality(seen) = Cardinality(Starts)
  BY DEF LenAgrees, Len
<1> DEFINE begin == [c \in seen |-> c.from]
<1>1. {c.from : c \in seen} = Starts
  <2>1. cur = size
    BY DEF IInv, PositionInv
  <2>2. \A k \in Starts : k < cur
    BY <2>1 DEF IInv, TypeOK, Starts
  <2> QED
    BY <2>2 DEF IInv, SplitsAtStarts
<1>2. ASSUME NEW c \in seen, NEW d \in seen, c.from = d.from
      PROVE  c = d
  <2>1. c.from \in Int /\ c.to \in Int /\ d.to \in Int
    BY DEF IInv, TypeOK
  <2>2. c.from < c.to /\ d.from < d.to
    BY DEF IInv, Partition
  <2>3. ~(c.to <= d.from \/ d.to <= c.from)
    BY <1>2, <2>1, <2>2
  <2> QED
    BY <2>3 DEF IInv, Partition
<1>3. begin \in Injection(seen, Starts)
  BY <1>1, <1>2 DEF Injection, IsInjective
<1>4. begin \in Surjection(seen, Starts)
  BY <1>1 DEF Surjection
<1>5. IsFiniteSet(Starts)
  <2>1. IsFiniteSet(0 .. size - 1)
    BY FS_Interval DEF IInv, TypeOK
  <2>2. Starts \in SUBSET (0 .. size - 1)
    BY DEF Starts
  <2> QED
    BY <2>1, <2>2, FS_Subset
<1> QED
  BY <1>3, <1>4, <1>5, FS_Injection

(* len is the number of code points of a decodable text.                   *)
THEOREM LenIsCount == Spec => []LenAgrees
  BY Invariance, EqualCounts, PTL

-----------------------------------------------------------------------------
(* Each step of a code point range moves it forward, stray bytes included, *)
(* or finds it at the end, where the code point becomes the empty one.     *)
THEOREM Forward == Spec => [][cur' > cur \/ (cur = size /\ codePoint' = NoText)]_vars
<1>1. ASSUME IInv, [Next]_vars
      PROVE  [cur' > cur \/ (cur = size /\ codePoint' = NoText)]_vars
  <2>1. CASE Take /\ cur # size
    BY <1>1, <2>1, TakeForward DEF IInv, TypeOK
  <2>2. CASE Take /\ cur = size
    BY <2>2 DEF Take
  <2> QED
    BY <1>1, <2>1, <2>2 DEF Next, Construct, Increment
<1> QED
  BY <1>1, Invariance, PTL DEF Spec
=============================================================================
