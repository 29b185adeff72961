----------------------------- MODULE Capitalize -----------------------------
(***************************************************************************)
(* capitalize of pythonic/utf8/capitalize.hpp: the first byte goes through *)
(* std::toupper, the rest is appended as it is.  Nothing looks at what the *)
(* first byte begins, and nothing asks whether there is one.               *)
(*                                                                         *)
(* The result is the local string at the return statement; what the caller *)
(* gets of it is the subject of Ownership.                                 *)
(***************************************************************************)
EXTENDS Integers, Sequences

CONSTANTS
  Byte,         (* the code units texts are made of                        *)
  SizeMax,      (* the largest size_t                                      *)
  MaxSize       (* bound on the size of a text                             *)

ASSUME CapitalizeAssumption ==
  Byte \subseteq 0 .. 255 /\ SizeMax \in Nat /\ MaxSize \in 0 .. SizeMax - 1

VARIABLES
  text,         (* rng.utf8_encoded                                        *)
  behind,       (* the byte behind it, 0 for a literal                     *)
  result,
  pc

vars == <<text, behind, result, pc>>

(* Every byte of the result was one of the text, or is the upper case of   *)
(* one, and the result is never larger than the text.                      *)
TypeOK ==
  /\ text \in Seq(Byte) /\ Len(text) <= MaxSize
  /\ result \in Seq(0 .. 255)
  /\ pc \in {"push", "append", "return", "undefined"}
  /\ pc # "push" /\ text # <<>> => Len(result) \in 1 .. Len(text)
-----------------------------------------------------------------------------
Init ==
  /\ text \in UNION {[1 .. n -> Byte] : n \in 0 .. MaxSize}
  /\ behind \in Byte \union {0}
  /\ result = <<>> /\ pc = "push"

(* Mutant: the bit that tells the cases of a letter apart is cleared.      *)
UpperBit(code) == IF (code \div 32) % 2 = 1 THEN code - 32 ELSE code

(* Mutant: whatever is not behind the letters is taken for a small one.    *)
UpperAll(code) == IF code <= 122 THEN code - 32 ELSE code

(* std::toupper in the locale "C".  A byte from 128 on is a negative char, *)
(* for which its result is not defined; the table of the C library goes    *)
(* down to -128 and leaves such a byte alone.                              *)
Upper(code) == IF code \in 97 .. 122 THEN code - 32 ELSE code

(* *begin and push_back: of an empty text, the byte behind it.             *)
PushHead ==
  /\ pc = "push"
  /\ result' = <<Upper(IF text = <<>> THEN behind ELSE text[1])>>
  /\ pc' = "append"
  /\ UNCHANGED <<text, behind>>

(* size - 1 in size_t.                                                     *)
Rest == (Len(text) - 1) % (SizeMax + 1)

(* append(begin + 1, size - 1): it returns if there are so many bytes.     *)
AppendRest ==
  /\ pc = "append"
  /\ \/ /\ Rest < Len(text) \/ Rest = 0
        /\ result' = result \o SubSeq(text, 2, Rest + 1)
        /\ pc' = "return"
     \/ /\ Rest >= Len(text) /\ Rest > 0
        /\ pc' = "undefined" /\ UNCHANGED result
  /\ UNCHANGED <<text, behind>>

Next == PushHead \/ AppendRest

Spec == Init /\ [][Next]_vars
-----------------------------------------------------------------------------
(* code_points and len, asked of a sequence of bytes.                      *)
Cut(s) ==
  INSTANCE CodePoints WITH
    text <- [k \in 0 .. Len(s) - 1 |-> s[k + 1]], size <- Len(s), cur <- 0,
    codePoint <- [from |-> 0, to |-> 0], pc <- "ready", seen <- {}

(* Although capitalize knows bytes only, it changes none that has a part   *)
(* in how a text is cut into code points: code_points cuts the result at   *)
(* the same places, and len counts the same bytes.  What it returns is as  *)
(* long as the text, so that there is no result for an empty one.          *)
CutsKept ==
  pc = "return" =>
    /\ Len(result) = Len(text)
    /\ Cut(result)!Starts = Cut(text)!Starts
    /\ \A k \in 1 .. Len(text) : Cut(result)!Step(result[k]) = Cut(text)!Step(text[k])

(* In particular: the length of the rest of an empty text wraps around,    *)
(* and the append that is given it does not return.                        *)
EmptyNeverReturns == text = <<>> => pc # "return"
=============================================================================
