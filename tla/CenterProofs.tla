---------------------------- MODULE CenterProofs ----------------------------
(***************************************************************************)
(* Theorems about Center, for every width of size_t and int, every size of *)
(* memory, and all texts and paddings that fit it.                         *)
(*                                                                         *)
(* The length of the result at each statement follows from the counts, and *)
(* the counts add up to the gap whatever the divisions round off.          *)
(***************************************************************************)
EXTENDS Center, SequenceTheorems, TLAPS

(* A quotient is what the divisor fits into, with less than one divisor    *)
(* left over.                                                              *)
LEMMA Quotient ==
  ASSUME NEW a \in Nat, NEW p \in Nat, p > 0
  PROVE  /\ a \div p \in Nat
         /\ (a \div p) * p <= a
         /\ a < (a \div p) * p + p
  OBVIOUS

(* What a loop of count rounds of size units appends.                      *)
Appended(count) == count * paddingSize

(* The gap is filled by the whole paddings of both sides and a tail that   *)
(* is shorter than a padding.                                              *)
LEMMA GapFilled ==
  ASSUME TypeOK
  PROVE  /\ Gap \in Nat /\ LeftCount \in Nat /\ RightCount \in Nat
         /\ TailCount \in 0 .. paddingSize - 1
         /\ Gap = Appended(LeftCount) + Appended(RightCount) + TailCount
<1> DEFINE half == Gap \div 2
           rest == Gap - Appended(LeftCount)
<1>1. paddingSize \in Nat /\ paddingSize > 0
  BY SizesAssumption DEF TypeOK
<1>2. Gap \in Nat
  BY SizesAssumption DEF Gap, TypeOK
<1>3. half \in Nat /\ half <= Gap
  BY <1>2
<1>4. LeftCount = half \div paddingSize
  BY DEF LeftCount
<1> HIDE DEF half
<1>5. LeftCount \in Nat /\ Appended(LeftCount) <= half
  BY <1>1, <1>3, <1>4, Quotient DEF Appended
<1>6. Appended(LeftCount) \in Int
  BY <1>1, <1>5 DEF Appended
<1>7. rest \in Nat
  BY <1>2, <1>3, <1>5, <1>6
<1>8. RightCount = rest \div paddingSize
  BY DEF RightCount, Appended
<1>9. TailCount = rest - Appended(RightCount)
  BY DEF TailCount, Appended
<1> HIDE DEF rest
<1>10. /\ RightCount \in Nat
       /\ Appended(RightCount) <= rest
       /\ rest < Appended(RightCount) + paddingSize
  BY <1>1, <1>7, <1>8, Quotient DEF Appended
<1>11. Appended(RightCount) \in Int
  BY <1>1, <1>10 DEF Appended
<1>12. TailCount \in 0 .. paddingSize - 1
  BY <1>1, <1>7, <1>9, <1>10, <1>11
<1>13. Gap = Appended(LeftCount) + Appended(RightCount) + TailCount
  BY <1>2, <1>6, <1>7, <1>9, <1>11 DEF rest
<1> QED
  BY <1>2, <1>5, <1>10, <1>12, <1>13

(* The gap and the text are as wide as asked for, or too wide by the whole *)
(* range of size_t.                                                        *)
LEMMA GapWraps ==
  ASSUME TypeOK
  PROVE  Gap + rngSize = IF rngSize <= width THEN width ELSE width + SizeMax + 1
<1>1. width \in 0 .. SizeMax /\ rngSize \in 0 .. SizeMax /\ SizeMax \in Nat
  BY SizesAssumption DEF TypeOK
<1>2. CASE rngSize <= width
  <2>1. width - rngSize \in 0 .. SizeMax
    BY <1>1, <1>2
  <2> QED
    BY <1>1, <1>2, <2>1 DEF Gap
<1>3. CASE rngSize > width
  <2>1. width - rngSize + (SizeMax + 1) \in 0 .. SizeMax
    BY <1>1, <1>3
  <2>2. (width - rngSize) % (SizeMax + 1) = width - rngSize + (SizeMax + 1)
    BY <1>1, <2>1
  <2> QED
    BY <1>1, <1>3, <2>2 DEF Gap
<1> QED
  BY <1>1, <1>2, <1>3

-----------------------------------------------------------------------------
Unit == {"text", "padding", "tail"}

(* Units are a sequence of the length asked for.                           *)
LEMMA UnitsLength ==
  ASSUME NEW kind \in Unit, NEW n \in Nat
  PROVE  Units(kind, n) \in Seq(Unit) /\ Len(Units(kind, n)) = n
  BY DEF Units

(* Units of a kind in two appends are the units of one.                    *)
LEMMA UnitsGrow ==
  ASSUME NEW s \in Seq(Unit), NEW kind \in Unit, NEW m \in Nat, NEW n \in Nat
  PROVE  (s \o Units(kind, m)) \o Units(kind, n) = s \o Units(kind, m + n)
<1> DEFINE um == Units(kind, m)
           un == Units(kind, n)
           u  == Units(kind, m + n)
<1>1. um \in Seq(Unit) /\ un \in Seq(Unit) /\ u \in Seq(Unit)
      /\ Len(um) = m /\ Len(un) = n /\ Len(u) = m + n
  BY UnitsLength
<1>2. \A k \in 1 .. m : um[k] = kind
  BY DEF Units
<1>3. \A k \in 1 .. n : un[k] = kind
  BY DEF Units
<1>4. \A k \in 1 .. m + n : u[k] = kind
  BY DEF Units
<1> HIDE DEF um, un, u
<1>5. um \o un = u
  <2>1. um \o un \in Seq(Unit) /\ Len(um \o un) = m + n
    BY <1>1, ConcatProperties
  <2>2. \A k \in 1 .. m + n : (um \o un)[k] = u[k]
    <3> SUFFICES ASSUME NEW k \in 1 .. m + n PROVE (um \o un)[k] = u[k]
      BY <1>1
    <3>1. (um \o un)[k] = IF k <= m THEN um[k] ELSE un[k - m]
      BY <1>1, ConcatProperties
    <3>2. k > m => k - m \in 1 .. n
      OBVIOUS
    <3>3. (um \o un)[k] = kind
      BY <1>2, <1>3, <3>1, <3>2
    <3> QED
      BY <1>4, <3>3
  <2> QED
    BY <1>1, <2>1, <2>2, SeqEqual
<1>6. um \in Seq(Unit) /\ un \in Seq(Unit)
  BY <1>1
<1>7. (s \o um) \o un = s \o (um \o un)
  BY <1>6, ConcatAssociative, SMTT(30)
<1> QED
  BY <1>5, <1>7 DEF um, un, u

-----------------------------------------------------------------------------
(* What stands in the result behind each of the four appending statements. *)
Left == Units("padding", Appended(LeftCount))
LeftText == Left \o Units("text", rngSize)
LeftTextRight == LeftText \o Units("padding", Appended(RightCount))

(* The result at each statement.                                           *)
ContentInv ==
  /\ pc = "reserve" => i = 0 /\ result = <<>>
  /\ pc = "left" => i <= LeftCount /\ result = Units("padding", Appended(i))
  /\ pc = "text" => i = 0 /\ result = Left
  /\ pc = "right" => /\ i <= RightCount
                    /\ result = LeftText \o Units("padding", Appended(i))
  /\ pc = "tail" => /\ i <= TailCount
                   /\ result = LeftTextRight \o Units("tail", i)
  /\ pc = "done" => result = LeftTextRight \o Units("tail", TailCount)

IInv == TypeOK /\ ContentInv

(* No step changes what the counts are computed from.                      *)
LEMMA InputsFixed ==
  ASSUME [Next]_vars
  PROVE  /\ UNCHANGED inputs
         /\ Gap' = Gap /\ LeftCount' = LeftCount /\ RightCount' = RightCount
         /\ TailCount' = TailCount
<1>1. UNCHANGED inputs
  BY DEF Next, Reserve, Throw, LeftPadding, AppendText, Fits, RightPadding, TailUnits,
         Loop, Fits, vars
<1> QED
  BY <1>1 DEF inputs, Gap, LeftCount, RightCount, TailCount

(* Nothing is appended in no rounds.                                       *)
LEMMA NoRounds == TypeOK => Appended(0) = 0
  BY SizesAssumption DEF TypeOK, Appended

(* One more round appends one more time the size.                          *)
LEMMA OneRound ==
  ASSUME TypeOK
  PROVE  \A n \in Nat : /\ Appended(n) \in Nat
                        /\ Appended(n + 1) = Appended(n) + paddingSize
<1>1. paddingSize \in Nat
  BY DEF TypeOK
<1> QED
  BY <1>1 DEF Appended

(* No units are the empty sequence.                                        *)
LEMMA NoUnits == ASSUME NEW kind \in Unit PROVE Units(kind, 0) = <<>>
<1>1. 0 \in Nat
  OBVIOUS
<1>2. Units(kind, 0) \in Seq(Unit) /\ Len(Units(kind, 0)) = 0
  BY <1>1, UnitsLength
<1> QED
  BY <1>2, EmptySeq

(* Before the first statement nothing has been appended.                   *)
LEMMA InitIInv == Init => IInv
<1> SUFFICES ASSUME Init PROVE IInv
  OBVIOUS
<1>1. <<>> \in Seq(Unit) /\ Len(<<>>) = 0
  BY EmptySeq
<1>2. TypeOK
  BY <1>1, SizesAssumption DEF Init, TypeOK, Unit
<1>3. ContentInv
  BY DEF Init, ContentInv
<1> QED
  BY <1>2, <1>3 DEF IInv

(* The pieces are sequences.                                               *)
LEMMA Pieces ==
  ASSUME TypeOK
  PROVE  /\ Left \in Seq(Unit) /\ Len(Left) = Appended(LeftCount)
         /\ LeftText \in Seq(Unit) /\ Len(LeftText) = Appended(LeftCount) + rngSize
         /\ LeftTextRight \in Seq(Unit)
         /\ Len(LeftTextRight) =
              Appended(LeftCount) + rngSize + Appended(RightCount)
<1>1. /\ rngSize \in Nat /\ LeftCount \in Nat /\ RightCount \in Nat
      /\ Appended(LeftCount) \in Nat /\ Appended(RightCount) \in Nat
  <2>1. rngSize \in Nat /\ LeftCount \in Nat /\ RightCount \in Nat
    BY GapFilled DEF TypeOK
  <2> QED
    BY <2>1, OneRound
<1>2. "padding" \in Unit /\ "text" \in Unit
  BY DEF Unit
<1>3. Left \in Seq(Unit) /\ Len(Left) = Appended(LeftCount)
  BY <1>1, <1>2, UnitsLength DEF Left
<1>4. /\ Units("text", rngSize) \in Seq(Unit)
      /\ Len(Units("text", rngSize)) = rngSize
  BY <1>1, <1>2, UnitsLength
<1>5. LeftText \in Seq(Unit) /\ Len(LeftText) = Appended(LeftCount) + rngSize
  BY <1>3, <1>4, ConcatProperties DEF LeftText
<1>6. /\ Units("padding", Appended(RightCount)) \in Seq(Unit)
      /\ Len(Units("padding", Appended(RightCount))) = Appended(RightCount)
  BY <1>1, <1>2, UnitsLength
<1>7. /\ LeftTextRight \in Seq(Unit)
      /\ Len(LeftTextRight) =
           Appended(LeftCount) + rngSize + Appended(RightCount)
  BY <1>5, <1>6, ConcatProperties DEF LeftTextRight
<1> QED
  BY <1>3, <1>5, <1>7

(* A round of a loop or the append of the text leaves a sequence that fits *)
(* the memory: each of them is guarded by the string's growth.             *)
LEMMA TypeStep ==
  ASSUME TypeOK, [Next]_vars
  PROVE  TypeOK'
<1>1. ASSUME NEW at, NEW kind \in Unit, NEW count, NEW size \in Nat, NEW next,
             next \in {"text", "tail", "done"},
             Loop(at, kind, count, size, next)
      PROVE  TypeOK'
  <2>1. Units(kind, size) \in Seq(Unit) /\ Len(Units(kind, size)) = size
    BY <1>1, UnitsLength
  <2>2. Len(result) + size <= Memory => /\ result \o Units(kind, size) \in Seq(Unit)
                                        /\ Len(result \o Units(kind, size)) <= Memory
    BY <2>1, ConcatProperties DEF TypeOK, Unit
  <2>3. result' \in Seq(Unit) /\ Len(result') <= Memory
    BY <1>1, <2>2 DEF Loop, Fits, Throw, TypeOK, Unit
  <2>4. i' \in 0 .. IntMax
    BY <1>1, SizesAssumption DEF Loop, Fits, Throw, TypeOK
  <2>5. pc' \in {"reserve", "left", "text", "right", "tail", "done", "threw",
                "undefined"}
    BY <1>1 DEF Loop, Fits, Throw, TypeOK
  <2> QED
    BY <1>1, <2>3, <2>4, <2>5 DEF Loop, Fits, TypeOK, inputs, Unit
<1>2. paddingSize \in Nat /\ rngSize \in Nat /\ 1 \in Nat
  BY DEF TypeOK
<1>3. CASE LeftPadding
  BY <1>1, <1>2, <1>3 DEF LeftPadding, Unit
<1>4. CASE RightPadding
  BY <1>1, <1>2, <1>4 DEF RightPadding, Unit
<1>5. CASE TailUnits
  BY <1>1, <1>2, <1>5 DEF TailUnits, Unit
<1>6. CASE AppendText
  <2>1. /\ Units("text", rngSize) \in Seq(Unit)
        /\ Len(Units("text", rngSize)) = rngSize
    BY <1>2, UnitsLength DEF Unit
  <2>2. result' \in Seq(Unit) /\ Len(result') <= Memory
    BY <1>6, <2>1, ConcatProperties DEF AppendText, Fits, Throw, TypeOK, Unit
  <2> QED
    BY <1>6, <2>2 DEF AppendText, Fits, Throw, TypeOK, inputs, Unit
<1>7. CASE Reserve \/ UNCHANGED vars
  BY <1>7 DEF Reserve, Throw, TypeOK, inputs, vars
<1> QED
  BY <1>3, <1>4, <1>5, <1>6, <1>7 DEF Next

(* A step of a loop that has appended i times size units of a kind: one    *)
(* more round, or the next statement after count of them, or no return.    *)
LEMMA LoopStep ==
  ASSUME TypeOK, NEW at, NEW kind \in Unit, NEW count \in Nat, NEW size \in Nat,
         NEW next, Loop(at, kind, count, size, next), i <= count,
         NEW s \in Seq(Unit), result = s \o Units(kind, i * size)
  PROVE  \/ /\ pc' = at /\ i' <= count
            /\ result' = s \o Units(kind, i' * size)
         \/ /\ pc' = next /\ i' = 0
            /\ result' = s \o Units(kind, count * size)
         \/ pc' \in {"threw", "undefined"}
<1>1. i \in Nat
  BY DEF TypeOK
<1>2. CASE i >= count /\ pc' = next /\ i' = 0 /\ UNCHANGED result
  <2>1. i = count
    BY <1>1, <1>2
  <2> QED
    BY <1>2, <2>1
<1>3. CASE /\ i < count /\ result' = result \o Units(kind, size)
           /\ i' = i + 1 /\ UNCHANGED pc
  <2>1. i * size \in Nat /\ (i + 1) * size = i * size + size
    BY <1>1
  <2>2. result' = s \o Units(kind, i * size + size)
    BY <1>3, <2>1, UnitsGrow
  <2>3. i' <= count
    BY <1>1, <1>3
  <2> QED
    BY <1>3, <2>1, <2>2, <2>3 DEF Loop, Fits
<1>4. CASE pc' \in {"threw", "undefined"}
  BY <1>4
<1> QED
  BY <1>2, <1>3, <1>4 DEF Loop, Fits, Throw

(* The result stays what ContentInv says.                                  *)
LEMMA ContentStep ==
  ASSUME IInv, [Next]_vars
  PROVE  ContentInv'
<1> USE DEF IInv
<1>0. /\ paddingSize \in Nat /\ rngSize \in Nat /\ i \in Nat
      /\ LeftCount \in Nat /\ RightCount \in Nat /\ TailCount \in Nat
  BY GapFilled DEF TypeOK
<1>t. TypeOK /\ 1 \in Nat
  OBVIOUS
<1>a. /\ Left \in Seq(Unit) /\ LeftText \in Seq(Unit)
      /\ LeftTextRight \in Seq(Unit) /\ <<>> \in Seq(Unit)
  BY Pieces, EmptySeq
<1>b. "padding" \in Unit /\ "text" \in Unit /\ "tail" \in Unit
  BY DEF Unit
<1>c. /\ LeftCount' = LeftCount /\ RightCount' = RightCount /\ TailCount' = TailCount
      /\ rngSize' = rngSize /\ paddingSize' = paddingSize
  BY InputsFixed DEF inputs
<1>d. /\ Left' = Left /\ LeftText' = LeftText /\ LeftTextRight' = LeftTextRight
      /\ \A n : Appended(n)' = Appended(n)
  BY <1>c DEF Left, LeftText, LeftTextRight, Appended
<1>e. \A s \in Seq(Unit), kind \in Unit : s \o Units(kind, 0) = s
  BY NoUnits, ConcatEmptySeq
<1>f. \A kind \in Unit, n \in Nat : <<>> \o Units(kind, n) = Units(kind, n)
  BY UnitsLength, ConcatEmptySeq
<1>1. CASE Reserve
  <2>1. pc' \in {"left", "threw"} /\ i' = 0 /\ result' = <<>>
    BY <1>1 DEF Reserve, Throw, ContentInv
  <2>2. Appended(0) = 0 /\ Units("padding", 0) = <<>>
    BY <1>b, NoRounds, NoUnits
  <2> QED
    BY <1>0, <1>c, <1>d, <2>1, <2>2 DEF ContentInv
<1>2. CASE LeftPadding
  <2>l. Loop("left", "padding", LeftCount, paddingSize, "text")
    BY <1>2 DEF LeftPadding
  <2>1. pc = "left" /\ i <= LeftCount
    BY <1>2 DEF LeftPadding, Loop, Fits, ContentInv
  <2>2. i * paddingSize \in Nat /\ result = <<>> \o Units("padding", i * paddingSize)
    BY <1>0, <1>b, <1>f, <2>1 DEF ContentInv, Appended
  <2>3. \/ /\ pc' = "left" /\ i' <= LeftCount
           /\ result' = <<>> \o Units("padding", i' * paddingSize)
        \/ /\ pc' = "text" /\ i' = 0
           /\ result' = <<>> \o Units("padding", LeftCount * paddingSize)
        \/ pc' \in {"threw", "undefined"}
    <3>1. /\ TypeOK /\ "padding" \in Unit /\ LeftCount \in Nat /\ paddingSize \in Nat
          /\ i <= LeftCount /\ <<>> \in Seq(Unit)
          /\ result = <<>> \o Units("padding", i * paddingSize)
          /\ Loop("left", "padding", LeftCount, paddingSize, "text")
      BY <1>t, <2>l, <1>0, <1>a, <1>b, <2>1, <2>2
    <3> HIDE DEF IInv
    <3> QED
      BY <3>1, LoopStep
  <2>4. i' \in Nat
    BY TypeStep DEF TypeOK
  <2>5. i' * paddingSize \in Nat /\ LeftCount * paddingSize \in Nat
    <3>1. \A m, n \in Nat : m * n \in Nat
      OBVIOUS
    <3> QED
      BY <1>0, <2>4, <3>1
  <2>6. \/ /\ pc' = "left" /\ i' <= LeftCount
           /\ result' = Units("padding", i' * paddingSize)
        \/ pc' = "text" /\ i' = 0 /\ result' = Left
        \/ pc' \in {"threw", "undefined"}
    BY <1>b, <1>f, <2>3, <2>5 DEF Left, Appended
  <2> QED
    BY <1>c, <1>d, <2>6 DEF ContentInv, Appended
<1>3. CASE AppendText
  <2>1. pc = "text" /\ i = 0 /\ result = Left
    BY <1>3 DEF AppendText, Fits, ContentInv
  <2>2. \/ pc' = "right" /\ i' = 0 /\ result' = LeftText
        \/ pc' = "threw"
    BY <1>3, <2>1 DEF AppendText, Fits, Throw, LeftText
  <2>3. Appended(0) = 0 /\ LeftText \o Units("padding", 0) = LeftText
    BY <1>a, <1>b, <1>e, NoRounds
  <2> QED
    BY <1>0, <1>c, <1>d, <2>2, <2>3 DEF ContentInv
<1>4. CASE RightPadding
  <2>l. Loop("right", "padding", RightCount, paddingSize, "tail")
    BY <1>4 DEF RightPadding
  <2>1. /\ pc = "right" /\ i <= RightCount
        /\ result = LeftText \o Units("padding", i * paddingSize)
    BY <1>4 DEF RightPadding, Loop, Fits, ContentInv, Appended
  <2>2. \/ /\ pc' = "right" /\ i' <= RightCount
           /\ result' = LeftText \o Units("padding", i' * paddingSize)
        \/ /\ pc' = "tail" /\ i' = 0
           /\ result' = LeftText \o Units("padding", RightCount * paddingSize)
        \/ pc' \in {"threw", "undefined"}
    <3>1. /\ TypeOK /\ "padding" \in Unit /\ RightCount \in Nat /\ paddingSize \in Nat
          /\ i <= RightCount /\ LeftText \in Seq(Unit)
          /\ result = LeftText \o Units("padding", i * paddingSize)
          /\ Loop("right", "padding", RightCount, paddingSize, "tail")
      BY <1>t, <2>l, <1>0, <1>a, <1>b, <2>1
    <3> HIDE DEF IInv
    <3> QED
      BY <3>1, LoopStep
  <2>3. \/ /\ pc' = "right" /\ i' <= RightCount
           /\ result' = LeftText \o Units("padding", i' * paddingSize)
        \/ pc' = "tail" /\ i' = 0 /\ result' = LeftTextRight
        \/ pc' \in {"threw", "undefined"}
    BY <2>2 DEF LeftTextRight, Appended
  <2>4. LeftTextRight \o Units("tail", 0) = LeftTextRight
    BY <1>a, <1>b, <1>e
  <2> QED
    BY <1>0, <1>c, <1>d, <2>3, <2>4 DEF ContentInv, Appended
<1>5. CASE TailUnits
  <2>l. Loop("tail", "tail", TailCount, 1, "done")
    BY <1>5 DEF TailUnits
  <2>1. /\ pc = "tail" /\ i <= TailCount
        /\ result = LeftTextRight \o Units("tail", i)
    BY <1>5 DEF TailUnits, Loop, Fits, ContentInv
  <2>2. \A n \in Nat : n * 1 = n
    OBVIOUS
  <2>3. result = LeftTextRight \o Units("tail", i * 1)
    BY <1>0, <2>1, <2>2
  <2>4. \/ /\ pc' = "tail" /\ i' <= TailCount
           /\ result' = LeftTextRight \o Units("tail", i' * 1)
        \/ /\ pc' = "done" /\ i' = 0
           /\ result' = LeftTextRight \o Units("tail", TailCount * 1)
        \/ pc' \in {"threw", "undefined"}
    <3>1. /\ TypeOK /\ "tail" \in Unit /\ TailCount \in Nat /\ 1 \in Nat
          /\ i <= TailCount /\ LeftTextRight \in Seq(Unit)
          /\ result = LeftTextRight \o Units("tail", i * 1)
          /\ Loop("tail", "tail", TailCount, 1, "done")
      BY <1>t, <2>l, <1>0, <1>a, <1>b, <2>1, <2>3
    <3> HIDE DEF IInv
    <3> QED
      BY <3>1, LoopStep
  <2>5. i' \in Nat
    BY TypeStep DEF TypeOK
  <2>6. \/ /\ pc' = "tail" /\ i' <= TailCount
           /\ result' = LeftTextRight \o Units("tail", i')
        \/ /\ pc' = "done"
           /\ result' = LeftTextRight \o Units("tail", TailCount)
        \/ pc' \in {"threw", "undefined"}
    BY <1>0, <2>2, <2>4, <2>5
  <2> QED
    BY <1>c, <1>d, <2>6 DEF ContentInv
<1>6. CASE UNCHANGED vars
  BY <1>6, <1>c, <1>d DEF vars, ContentInv
<1> QED
  BY <1>1, <1>2, <1>3, <1>4, <1>5, <1>6 DEF Next

(* The result and the counters of every state are what the counts say.     *)
LEMMA IInvStep == IInv /\ [Next]_vars => IInv'
  BY TypeStep, ContentStep DEF IInv

(* Every state of center satisfies the invariant.                          *)
THEOREM Invariance == Spec => []IInv
  BY InitIInv, IInvStep, PTL DEF Spec

(* center never builds a string larger than the memory, and its counters   *)
(* stay within an int or the run is undefined.                             *)
THEOREM TypeCorrect == Spec => []TypeOK
  BY Invariance, PTL DEF IInv

-----------------------------------------------------------------------------
(* A finished result is as long as the gap and the text together.          *)
LEMMA DoneLength == IInv /\ pc = "done" => Len(result) = Gap + rngSize
<1> SUFFICES ASSUME IInv, pc = "done" PROVE Len(result) = Gap + rngSize
  OBVIOUS
<1>1. TypeOK /\ result = LeftTextRight \o Units("tail", TailCount)
  BY DEF IInv, ContentInv
<1>2. TailCount \in Nat /\ "tail" \in Unit
  BY <1>1, GapFilled DEF Unit, TypeOK
<1>3. /\ Units("tail", TailCount) \in Seq(Unit)
      /\ Len(Units("tail", TailCount)) = TailCount
  BY <1>2, UnitsLength
<1>4. /\ LeftTextRight \in Seq(Unit)
      /\ Len(LeftTextRight) = Appended(LeftCount) + rngSize + Appended(RightCount)
  BY <1>1, Pieces
<1>5. Len(result) = Appended(LeftCount) + rngSize + Appended(RightCount) + TailCount
  BY <1>1, <1>3, <1>4, ConcatProperties
<1>6. /\ Gap = Appended(LeftCount) + Appended(RightCount) + TailCount
      /\ LeftCount \in Nat /\ RightCount \in Nat /\ rngSize \in Nat
  BY <1>1, GapFilled DEF TypeOK
<1>7. Appended(LeftCount) \in Nat /\ Appended(RightCount) \in Nat
  BY <1>1, <1>6, OneRound
<1> QED
  BY <1>2, <1>5, <1>6, <1>7

(* A text that is too wide would need a result longer than the memory.     *)
LEMMA TooWide == IInv => WideNeverReturns
<1> SUFFICES ASSUME IInv, rngSize > width, pc = "done" PROVE FALSE
  BY DEF WideNeverReturns
<1>1. TypeOK /\ width \in Nat /\ rngSize \in Nat /\ Len(result) <= Memory
  BY DEF IInv, TypeOK
<1>2. Len(result) = width + SizeMax + 1
  BY <1>1, DoneLength, GapWraps
<1> QED
  BY <1>1, <1>2, SizesAssumption

(* A text wider than asked for is never returned.                          *)
THEOREM WideNever == Spec => []WideNeverReturns
  BY Invariance, TooWide, PTL

(* A finished result is as wide as asked for.                              *)
LEMMA ExactWidth == IInv => CenterWidth
<1> SUFFICES ASSUME IInv, pc = "done" PROVE Len(result) = width
  BY DEF CenterWidth
<1>1. TypeOK /\ width \in Nat /\ rngSize \in Nat
  BY DEF IInv, TypeOK
<1>2. rngSize <= width
  BY <1>1, TooWide DEF WideNeverReturns
<1> QED
  BY <1>1, <1>2, DoneLength, GapWraps

(* Whatever center returns is as wide as asked for.                        *)
THEOREM WidthExact == Spec => []CenterWidth
  BY Invariance, ExactWidth, PTL

-----------------------------------------------------------------------------
(* The right side gets as many paddings as the left, or one more.          *)
LEMMA Balance ==
  ASSUME TypeOK
  PROVE  RightCount = LeftCount \/ RightCount = LeftCount + 1
<1> DEFINE half == Gap \div 2
           rest == Gap - Appended(LeftCount)
<1>1. paddingSize \in Nat /\ paddingSize > 0
  BY SizesAssumption DEF TypeOK
<1>2. Gap \in Nat /\ LeftCount \in Nat /\ RightCount \in Nat
  BY GapFilled
<1>3. half \in Nat /\ 2 * half <= Gap /\ Gap <= 2 * half + 1
  BY <1>2
<1>4. LeftCount = half \div paddingSize
  BY DEF LeftCount
<1> HIDE DEF half
<1>5. Appended(LeftCount) <= half /\ half < Appended(LeftCount) + paddingSize
  BY <1>1, <1>3, <1>4, Quotient DEF Appended
<1>6. Appended(LeftCount) \in Nat /\ Appended(RightCount) \in Nat
  BY <1>2, OneRound
<1>7. RightCount = rest \div paddingSize /\ rest \in Nat
  BY <1>2, <1>3, <1>5, <1>6 DEF RightCount, Appended
<1> HIDE DEF rest
<1>8. Appended(RightCount) <= rest /\ rest < Appended(RightCount) + paddingSize
  BY <1>1, <1>7, Quotient DEF Appended
<1>9. /\ Appended(LeftCount) < Appended(RightCount) + paddingSize
      /\ Appended(RightCount) < Appended(LeftCount) + 2 * paddingSize
  BY <1>1, <1>2, <1>3, <1>5, <1>6, <1>8 DEF rest
<1>10. \A m, n, p \in Nat : m * p < (n * p) + p => m <= n
  <2> SUFFICES ASSUME NEW m \in Nat, NEW n \in Nat, NEW p \in Nat,
                      m >= n + 1
               PROVE  m * p >= n * p + p
    OBVIOUS
  <2>1. PICK d \in Nat : m = n + 1 + d
    BY m - n - 1 \in Nat
  <2>2. m * p = n * p + p + d * p /\ d * p >= 0 /\ n * p \in Nat
    BY <2>1
  <2> QED
    BY <2>2
<1>11. LeftCount <= RightCount
  BY <1>1, <1>2, <1>9, <1>10 DEF Appended
<1>12. (LeftCount + 1) * paddingSize = Appended(LeftCount) + paddingSize
       /\ LeftCount + 1 \in Nat
  BY <1>1, <1>2 DEF Appended
<1>13. RightCount * paddingSize < (LeftCount + 1) * paddingSize + paddingSize
  BY <1>1, <1>6, <1>9, <1>12 DEF Appended
<1>14. RightCount <= LeftCount + 1
  BY <1>1, <1>2, <1>10, <1>12, <1>13
<1> QED
  BY <1>2, <1>11, <1>14

(* A side needs no more rounds than it appends units, and before its last  *)
(* round there is room for one more.                                       *)
LEMMA RoomForRound ==
  ASSUME TypeOK, NEW count \in Nat, NEW n \in Nat, n < count
  PROVE  Appended(n) + paddingSize <= Appended(count) /\ count <= Appended(count)
<1>1. paddingSize \in Nat /\ paddingSize > 0
  BY SizesAssumption DEF TypeOK
<1>2. PICK d \in Nat : count = n + 1 + d
  BY count - n - 1 \in Nat
<1>3. Appended(count) = Appended(n) + paddingSize + d * paddingSize
      /\ d * paddingSize >= 0 /\ Appended(n) \in Nat
  BY <1>1, <1>2 DEF Appended
<1>4. count <= Appended(count)
  BY <1>1 DEF Appended
<1> QED
  BY <1>1, <1>3, <1>4

(* The finished result is laid out evenly.                                 *)
LEMMA EvenLayout == IInv => CenterBalanced
<1> SUFFICES ASSUME IInv, pc = "done"
             PROVE  \E l, t \in 0 .. width, extra \in {0, 1} :
                      /\ t < paddingSize
                      /\ result = Units("padding", l * paddingSize)
                                  \o Units("text", rngSize)
                                  \o Units("padding", (l + extra) * paddingSize)
                                  \o Units("tail", t)
  BY DEF CenterBalanced
<1>1. /\ TypeOK /\ width \in Nat /\ rngSize \in Nat /\ paddingSize \in Nat
      /\ rngSize <= width
  BY TooWide DEF IInv, TypeOK, WideNeverReturns
<1>2. /\ LeftCount \in Nat /\ RightCount \in Nat
      /\ TailCount \in 0 .. paddingSize - 1
      /\ Gap = Appended(LeftCount) + Appended(RightCount) + TailCount
      /\ Gap = width - rngSize
  BY <1>1, GapFilled, GapWraps
<1>3. Appended(LeftCount) \in Nat /\ Appended(RightCount) \in Nat
  BY <1>1, <1>2, OneRound
<1>4. LeftCount <= Appended(LeftCount)
  BY <1>1, <1>2, SizesAssumption DEF TypeOK, Appended
<1>5. LeftCount \in 0 .. width /\ TailCount \in 0 .. width
  BY <1>1, <1>2, <1>3, <1>4
<1>6. PICK extra \in {0, 1} : RightCount = LeftCount + extra
  BY <1>1, <1>2, Balance
<1>7. result = Units("padding", LeftCount * paddingSize)
               \o Units("text", rngSize)
               \o Units("padding", (LeftCount + extra) * paddingSize)
               \o Units("tail", TailCount)
  BY <1>6 DEF IInv, ContentInv, LeftTextRight, LeftText, Left, Appended
<1>8. TailCount < paddingSize
  BY <1>1, <1>2
<1> QED
  BY <1>5, <1>7, <1>8

(* The text stands between paddings that are balanced.                     *)
THEOREM Balanced == Spec => []CenterBalanced
  BY Invariance, EvenLayout, PTL

-----------------------------------------------------------------------------
(* A text that fits makes every append fit and every counter end in time.  *)
LEMMA ReturnsStep ==
  ASSUME IInv, CenterReturns, [Next]_vars
  PROVE  CenterReturns'
<1> SUFFICES ASSUME rngSize <= width, width <= Memory, width <= IntMax
             PROVE  pc' \notin {"threw", "undefined"}
  <2>1. width' = width /\ rngSize' = rngSize
    BY InputsFixed DEF inputs
  <2> QED
    BY <2>1 DEF CenterReturns
<1>0. pc \notin {"threw", "undefined"}
  BY DEF CenterReturns
<1>1. /\ TypeOK /\ width \in Nat /\ rngSize \in Nat /\ paddingSize \in Nat
      /\ i \in Nat /\ IntMax \in Nat /\ Memory \in Nat
  BY SizesAssumption DEF IInv, TypeOK
<1>2. /\ LeftCount \in Nat /\ RightCount \in Nat /\ TailCount \in Nat
      /\ Gap = Appended(LeftCount) + Appended(RightCount) + TailCount
      /\ Gap + rngSize = width
  BY <1>1, GapFilled, GapWraps
<1>3. /\ Appended(LeftCount) \in Nat /\ Appended(RightCount) \in Nat
      /\ Appended(i) \in Nat
  BY <1>1, <1>2, OneRound
<1>4. /\ Left \in Seq(Unit) /\ Len(Left) = Appended(LeftCount)
      /\ LeftText \in Seq(Unit) /\ Len(LeftText) = Appended(LeftCount) + rngSize
      /\ LeftTextRight \in Seq(Unit)
      /\ Len(LeftTextRight) = Appended(LeftCount) + rngSize + Appended(RightCount)
  BY <1>1, Pieces
<1>5. \A kind \in Unit, n \in Nat :
        Units(kind, n) \in Seq(Unit) /\ Len(Units(kind, n)) = n
  BY UnitsLength
<1>6. "padding" \in Unit /\ "text" \in Unit /\ "tail" \in Unit
  BY DEF Unit
<1>7. CASE LeftPadding
  <2>1. pc = "left" /\ Len(result) = Appended(i)
    BY <1>3, <1>5, <1>6, <1>7 DEF LeftPadding, Loop, Fits, IInv, ContentInv
  <2>2. i < LeftCount => /\ Appended(i) + paddingSize <= Appended(LeftCount)
                         /\ LeftCount <= Appended(LeftCount)
    BY <1>1, <1>2, RoomForRound
  <2>3. i < LeftCount => Len(result) + paddingSize <= Memory /\ i < IntMax
    BY <1>1, <1>2, <1>3, <2>1, <2>2
  <2> QED
    BY <1>1, <1>2, <1>7, <2>1, <2>3 DEF LeftPadding, Loop, Fits
<1>8. CASE AppendText
  <2>1. result = Left
    BY <1>8 DEF AppendText, Fits, IInv, ContentInv
  <2>2. Len(result) + rngSize <= Memory
    <3>1. Len(result) = Appended(LeftCount)
      BY <1>4, <2>1
    <3>2. Appended(LeftCount) + rngSize <= width
      BY <1>1, <1>2, <1>3
    <3> QED
      BY <1>1, <1>3, <3>1, <3>2
  <2> QED
    BY <1>1, <1>8, <2>2 DEF AppendText, Fits, TypeOK
<1>9. CASE RightPadding
  <2>1. /\ pc = "right"
        /\ Len(result) = Appended(LeftCount) + rngSize + Appended(i)
    <3>1. pc = "right" /\ result = LeftText \o Units("padding", Appended(i))
      BY <1>9 DEF RightPadding, Loop, Fits, IInv, ContentInv
    <3>2. /\ Units("padding", Appended(i)) \in Seq(Unit)
          /\ Len(Units("padding", Appended(i))) = Appended(i)
      BY <1>3, <1>5, <1>6
    <3>3. LeftText \in Seq(Unit) /\ Len(LeftText) = Appended(LeftCount) + rngSize
      BY <1>4
    <3>4. Len(result) = Len(LeftText) + Len(Units("padding", Appended(i)))
      BY <3>1, <3>2, <3>3, ConcatProperties
    <3> QED
      BY <3>1, <3>2, <3>3, <3>4
  <2>2. i < RightCount => /\ Appended(i) + paddingSize <= Appended(RightCount)
                          /\ RightCount <= Appended(RightCount)
    BY <1>1, <1>2, RoomForRound
  <2>3. ASSUME i < RightCount
        PROVE  Len(result) + paddingSize <= Memory /\ i < IntMax
    <3>1. Appended(LeftCount) + rngSize + Appended(RightCount) <= width
      BY <1>1, <1>2, <1>3
    <3>2. Len(result) + paddingSize <= width
      BY <1>1, <1>3, <2>1, <2>2, <2>3, <3>1
    <3>3. Len(result) \in Nat
      BY <1>1, <1>3, <2>1
    <3>4. i < width
      BY <1>1, <1>2, <1>3, <2>2, <2>3, <3>1
    <3> QED
      BY <1>1, <3>2, <3>3, <3>4
  <2> QED
    BY <1>1, <1>2, <1>9, <2>1, <2>3 DEF RightPadding, Loop, Fits
<1>10. CASE TailUnits
  <2>1. /\ pc = "tail"
        /\ Len(result) = Appended(LeftCount) + rngSize + Appended(RightCount) + i
    <3>1. pc = "tail" /\ result = LeftTextRight \o Units("tail", i)
      BY <1>10 DEF TailUnits, Loop, Fits, IInv, ContentInv
    <3>2. Units("tail", i) \in Seq(Unit) /\ Len(Units("tail", i)) = i
      BY <1>1, <1>5, <1>6
    <3>3. /\ LeftTextRight \in Seq(Unit)
          /\ Len(LeftTextRight) =
               Appended(LeftCount) + rngSize + Appended(RightCount)
      BY <1>4
    <3>4. Len(result) = Len(LeftTextRight) + Len(Units("tail", i))
      BY <3>1, <3>2, <3>3, ConcatProperties
    <3> QED
      BY <3>1, <3>2, <3>3, <3>4
  <2>2. ASSUME i < TailCount
        PROVE  Len(result) + 1 <= Memory /\ i < IntMax
    <3>1. Len(result) + 1 <= width /\ i < width /\ Len(result) \in Nat
      BY <1>1, <1>2, <1>3, <2>1, <2>2
    <3> QED
      BY <1>1, <3>1
  <2> QED
    BY <1>1, <1>2, <1>10, <2>1, <2>2 DEF TailUnits, Loop, Fits
<1>11. CASE Reserve
  BY <1>1, <1>11 DEF Reserve
<1>12. CASE UNCHANGED vars
  BY <1>0, <1>12 DEF vars
<1> QED
  BY <1>7, <1>8, <1>9, <1>10, <1>11, <1>12 DEF Next

(* A text that fits is centered: no throw and no overflow.                 *)
THEOREM Returns == Spec => []CenterReturns
<1>1. Init => CenterReturns
  BY DEF Init, CenterReturns
<1> QED
  BY <1>1, Invariance, ReturnsStep, PTL DEF Spec
=============================================================================
