--------------------------- MODULE CapitalizeProofs ---------------------------
(***************************************************************************)
(* Theorems about Capitalize, for every set of bytes, every size of a text *)
(* and every width of size_t.                                              *)
(*                                                                         *)
(* What the result is made of, byte by byte, is the invariant (CapInv).    *)
(* That the text is cut at the same places follows from what std::toupper  *)
(* does to a single byte: it stays where it is in the table of lead bytes. *)
(***************************************************************************)
EXTENDS Capitalize, SequenceTheorems, TLAPS

(* The size of the rest: of an empty text, the largest size_t.             *)
LEMMA RestSize ==
  ASSUME text \in Seq(Byte), Len(text) <= MaxSize
  PROVE  /\ text # <<>> => Len(text) \in Nat \ {0} /\ Rest = Len(text) - 1
         /\ text = <<>> => Len(text) = 0 /\ Rest = SizeMax /\ SizeMax > 0
<1>1. SizeMax \in Nat /\ SizeMax > 0 /\ MaxSize \in Nat /\ MaxSize <= SizeMax
  BY CapitalizeAssumption
<1>2. text # <<>> => Len(text) \in Nat \ {0}
  BY EmptySeq
<1>3. text = <<>> => Len(text) = 0
  BY EmptySeq
<1>4. ASSUME NEW m \in Nat, m > 0, NEW n \in 0 .. m
      PROVE  (n - 1) % (m + 1) = IF n = 0 THEN m ELSE n - 1
  OBVIOUS
<1>5. Len(text) \in 0 .. SizeMax
  BY <1>1, <1>2, <1>3
<1>6. Rest = IF Len(text) = 0 THEN SizeMax ELSE Len(text) - 1
  BY <1>1, <1>4, <1>5 DEF Rest
<1> QED
  BY <1>1, <1>2, <1>3, <1>6

(* The upper case of a byte is a byte, in the same range of code_points'   *)
(* table and with the same top bits.                                       *)
LEMMA UpperKeeps ==
  ASSUME NEW code \in 0 .. 255, NEW s
  PROVE  /\ Upper(code) \in 0 .. 255
         /\ Cut(s)!Step(Upper(code)) = Cut(s)!Step(code)
         /\ Cut(s)!IsStart(Upper(code)) <=> Cut(s)!IsStart(code)
  BY DEF Upper, Cut!Step, Cut!IsStart

(* What the result is made of, and that there is none for an empty text.   *)
CapInv ==
  /\ TypeOK
  /\ behind \in Byte \union {0}
  /\ pc = "append" => Len(result) = 1 /\ (text # <<>> => result[1] = Upper(text[1]))
  /\ pc = "return" =>
       /\ text # <<>> /\ Len(result) = Len(text)
       /\ result[1] = Upper(text[1])
       /\ \A k \in 2 .. Len(text) : result[k] = text[k]

(* The first byte.                                                         *)
LEMMA PushStep ==
  ASSUME CapInv, PushHead
  PROVE  CapInv'
<1>1. UNCHANGED <<text, behind>> /\ pc' = "append" /\ pc = "push"
  BY DEF PushHead
<1>2. text # <<>> => Len(text) \in Nat \ {0} /\ text[1] \in Byte
  BY EmptySeq, ElementOfSeq DEF CapInv, TypeOK
<1> DEFINE head == IF text = <<>> THEN behind ELSE text[1]
<1>3. head \in 0 .. 255
  <2>1. behind \in 0 .. 255
    BY CapitalizeAssumption DEF CapInv
  <2>2. text # <<>> => text[1] \in 0 .. 255
    BY <1>2, CapitalizeAssumption
  <2> QED
    BY <2>1, <2>2
<1>4. Upper(head) \in 0 .. 255 /\ result' = <<Upper(head)>>
  BY <1>3, UpperKeeps DEF PushHead
<1>5. /\ result' \in Seq(0 .. 255) /\ Len(result') = 1
      /\ text # <<>> => result'[1] = Upper(text[1])
  BY <1>4
<1> HIDE DEF head
<1> QED
  BY <1>1, <1>2, <1>5 DEF CapInv, TypeOK

(* The rest, which is what the text has behind its first byte.             *)
LEMMA AppendStep ==
  ASSUME CapInv, AppendRest
  PROVE  CapInv'
<1>1. UNCHANGED <<text, behind>> /\ pc = "append" /\ Len(result) = 1
  BY DEF AppendRest, CapInv
<1>2. text \in Seq(Byte) /\ Len(text) <= MaxSize /\ result \in Seq(0 .. 255)
  BY DEF CapInv, TypeOK
<1>3. CASE text = <<>>
  <2>1. pc' = "undefined" /\ UNCHANGED result
    <3>1. Len(text) = 0 /\ Rest = SizeMax /\ SizeMax > 0 /\ SizeMax \in Nat
      BY <1>2, <1>3, RestSize, CapitalizeAssumption
    <3> QED
      BY <3>1 DEF AppendRest
  <2> QED
    BY <1>1, <1>3, <2>1 DEF CapInv, TypeOK
<1>4. CASE text # <<>>
  <2> DEFINE rest == SubSeq(text, 2, Len(text))
  <2>1. Len(text) \in Nat \ {0} /\ Rest = Len(text) - 1
    BY <1>2, <1>4, RestSize
  <2>2. pc' = "return" /\ result' = result \o rest
    BY <2>1 DEF AppendRest
  <2>3. \A k \in 2 .. Len(text) : text[k] \in 0 .. 255
    <3>1. \A k \in 1 .. Len(text) : text[k] \in Byte
      BY <1>2, ElementOfSeq
    <3>2. \A k \in 1 .. Len(text) : text[k] \in 0 .. 255
      BY <3>1, CapitalizeAssumption
    <3> QED
      BY <2>1, <3>2
  <2>4. /\ rest \in Seq(0 .. 255) /\ Len(rest) = Len(text) - 1
        /\ \A k \in 1 .. Len(text) - 1 : rest[k] = text[k + 1]
    <3>1. 2 \in Int /\ Len(text) \in Int
      BY <2>1
    <3>2. /\ rest \in Seq(0 .. 255)
          /\ Len(rest) = IF 2 <= Len(text) THEN Len(text) - 2 + 1 ELSE 0
          /\ \A k \in 1 .. Len(text) - 2 + 1 : rest[k] = text[2 + k - 1]
      BY <2>3, <3>1, SubSeqProperties
    <3> HIDE DEF rest
    <3> QED
      BY <2>1, <3>2
  <2> HIDE DEF rest
  <2>5. /\ result' \in Seq(0 .. 255) /\ Len(result') = Len(result) + Len(rest)
        /\ \A k \in 1 .. Len(result) + Len(rest) :
             result'[k] = IF k <= Len(result) THEN result[k] ELSE rest[k - Len(result)]
    BY <1>2, <2>2, <2>4, ConcatProperties
  <2>6. Len(result') = Len(text) /\ result'[1] = result[1]
    BY <1>1, <2>1, <2>4, <2>5
  <2>7. ASSUME NEW k \in 2 .. Len(text) PROVE result'[k] = text[k]
    <3>1. k \in 1 .. Len(result) + Len(rest) /\ ~(k <= 1)
      BY <1>1, <2>1, <2>4
    <3>2. k - 1 \in 1 .. Len(text) - 1 /\ k - 1 + 1 = k
      BY <2>1
    <3> QED
      BY <1>1, <2>4, <2>5, <3>1, <3>2
  <2> QED
    BY <1>1, <1>4, <2>1, <2>2, <2>5, <2>6, <2>7 DEF CapInv, TypeOK
<1> QED
  BY <1>3, <1>4

(* The invariant holds of every state of capitalize.                       *)
LEMMA CapInvariance == Spec => []CapInv
<1>1. Init => CapInv
  <2> SUFFICES ASSUME Init PROVE CapInv
    OBVIOUS
  <2>1. PICK n \in 0 .. MaxSize : text \in [1 .. n -> Byte]
    BY DEF Init
  <2>2. text \in Seq(Byte) /\ Len(text) <= MaxSize
    BY <2>1, CapitalizeAssumption
  <2> QED
    BY <2>2 DEF Init, CapInv, TypeOK
<1>2. CapInv /\ [Next]_vars => CapInv'
  <2>1. CapInv /\ UNCHANGED vars => CapInv'
    BY DEF CapInv, TypeOK, vars
  <2> QED
    BY <2>1, PushStep, AppendStep DEF Next
<1> QED
  BY <1>1, <1>2, PTL DEF Spec

(* Every byte of the result is one, and it has no more than the text.      *)
THEOREM CapitalizeTypeCorrect == Spec => []TypeOK
  BY CapInvariance, PTL DEF CapInv

(* There is never a result for an empty text.                              *)
THEOREM EmptyUndefined == Spec => []EmptyNeverReturns
<1>1. CapInv => EmptyNeverReturns
  BY DEF CapInv, EmptyNeverReturns
<1> QED
  BY <1>1, CapInvariance, PTL

(* A result that differs from the text in the case of its first byte is    *)
(* cut at the same places, and len counts the same bytes.                  *)
LEMMA SameCuts ==
  ASSUME CapInv, pc = "return"
  PROVE  /\ \A k \in 1 .. Len(text) : Cut(result)!Step(result[k]) = Cut(text)!Step(text[k])
         /\ Cut(result)!Starts = Cut(text)!Starts
<1>1. Len(text) \in Nat /\ Len(result) = Len(text) /\ result[1] = Upper(text[1])
      /\ \A k \in 2 .. Len(text) : result[k] = text[k]
  BY LenProperties DEF CapInv, TypeOK
<1>2. \A k \in 1 .. Len(text) : text[k] \in 0 .. 255
  BY <1>1, ElementOfSeq, CapitalizeAssumption DEF CapInv, TypeOK
<1>3. ASSUME NEW k \in 1 .. Len(text)
      PROVE  result[k] = text[k] \/ result[k] = Upper(text[k])
  <2>1. k = 1 \/ k \in 2 .. Len(text)
    BY <1>1
  <2> QED
    BY <1>1, <2>1
<1>4. \A s, t, code : Cut(s)!Step(code) = Cut(t)!Step(code)
  BY DEF Cut!Step
<1>5. \A s, t, code : Cut(s)!IsStart(code) <=> Cut(t)!IsStart(code)
  BY DEF Cut!IsStart
<1>6. ASSUME NEW k \in 1 .. Len(text)
      PROVE  /\ Cut(result)!Step(result[k]) = Cut(text)!Step(text[k])
             /\ Cut(result)!IsStart(result[k]) <=> Cut(text)!IsStart(text[k])
  <2>1. PICK c \in 0 .. 255 : c = text[k]
    BY <1>2
  <2>2. result[k] = c \/ result[k] = Upper(c)
    BY <1>3, <2>1
  <2>3. /\ Cut(result)!Step(result[k]) = Cut(result)!Step(c)
        /\ Cut(result)!IsStart(result[k]) <=> Cut(result)!IsStart(c)
    BY <2>2, UpperKeeps
  <2> QED
    BY <1>4, <1>5, <2>1, <2>3
<1>7. Cut(result)!Starts = Cut(text)!Starts
  <2>1. ASSUME NEW s
        PROVE  Cut(s)!Starts = {k \in 0 .. Len(s) - 1 :
                 Cut(s)!IsStart([m \in 0 .. Len(s) - 1 |-> s[m + 1]][k])}
    BY DEF Cut!Starts
  <2>2. ASSUME NEW k \in 0 .. Len(text) - 1
        PROVE  /\ [m \in 0 .. Len(text) - 1 |-> text[m + 1]][k] = text[k + 1]
               /\ [m \in 0 .. Len(result) - 1 |-> result[m + 1]][k] = result[k + 1]
               /\ k + 1 \in 1 .. Len(text)
    BY <1>1
  <2> QED
    BY <1>1, <1>6, <2>1, <2>2
<1> QED
  BY <1>6, <1>7

(* capitalize changes no byte that has a part in how a text is cut into    *)
(* code points.                                                            *)
THEOREM CutsAgree == Spec => []CutsKept
<1>1. CapInv => CutsKept
  BY SameCuts DEF CapInv, CutsKept
<1> QED
  BY <1>1, CapInvariance, PTL
===============================================================================
