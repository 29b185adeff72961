------------------------------ MODULE Ownership ------------------------------
(***************************************************************************)
(* Who owns the bytes a wrapper refers to.  Utf8Encoded<T> wraps a string  *)
(* (Text, an owner), a string_view (TextView) or a reference to a string   *)
(* (what utf8_cast makes of an lvalue); FindView and CodePointsView hold   *)
(* iterators.  The functions of the library copy with auto what they are   *)
(* given, have locals of their own and return what refers to some of these.*)
(*                                                                         *)
(* The caller's variables are a stack: C++ destroys them in the reverse    *)
(* order of their declarations.  A caller that declares variables with what*)
(* the library returns and passes them to it again does nothing wrong, so  *)
(* whoever reads bytes that are gone, it is the library's doing.  Behind   *)
(* such a read the behaviour is undefined: nothing follows.                *)
(*                                                                         *)
(* A string and the wrapper of it are not told apart, and whether there is *)
(* another match is any choice.                                            *)
(***************************************************************************)
EXTENDS Integers, Sequences

CONSTANT MaxDepth       (* bound on the caller's variables                 *)

ASSUME DepthAssumption == MaxDepth \in Nat

VARIABLES
  stack,        (* the caller's variables                                  *)
  fault         (* NoFault, or what has read bytes that were gone          *)

vars == <<stack, fault>>

(* Where bytes are: in a literal, in a local of the function called, where *)
(* a local was, or in the string at 1 .. Len(stack).                       *)
Static == 0
Local == -1
Gone == -2

(* A variable: its kind and whose bytes it refers to.  why is history: the *)
(* doubtful things done to get it, by the functions it went through.       *)
Handle(kind, on) == [kind |-> kind, on |-> on, why |-> {}]
View(on) == Handle("view", on)
Reference(on) == Handle("reference", on)
Text == Handle("text", {Local})

Variables == {stack[d] : d \in 1 .. Len(stack)}
Wrappers == {h \in Variables : h.kind \in {"view", "reference", "text"}}
Ranges == {h \in Variables : h.kind \in {"matches", "points"}}

Alive(h) == Gone \notin h.on
Operations == {"to_text", "code_units", "capitalize", "center", "finditer", "find", "count",
               "sub", "expandtabs", "code_points", "++", "use"}
NoFault == [op |-> "none", alive |-> FALSE, why |-> {}]

(* Every string belongs to one variable, and what refers to it comes later *)
(* and so dies earlier.                                                    *)
TypeOK ==
  /\ stack \in Seq([kind : {"view", "reference", "text", "matches", "points"},
                    on : SUBSET Int, why : SUBSET {"cast", "needle"}])
  /\ fault \in [op : Operations \union {"none"}, alive : BOOLEAN, why : SUBSET {"cast", "needle"}]
  /\ Len(stack) <= MaxDepth
  /\ \A d \in 1 .. Len(stack) :
       /\ stack[d].kind = "text" => stack[d].on = {d}
       /\ stack[d].on \subseteq {Gone, Static} \union 1 .. d
       /\ \A b \in stack[d].on : b > 0 => stack[b].kind = "text"
-----------------------------------------------------------------------------
(* Mutant: a string is not moved out of the function that made it.         *)
ReturnedInPlace(h) == h

(* What the end of a function makes of what it returns: a string is moved  *)
(* to the variable the caller declares, what refers to a local dangles.    *)
Returned(h) ==
  [h EXCEPT !.on = IF h.kind = "text" THEN {Len(stack) + 1}
                   ELSE {IF b = Local THEN Gone ELSE b : b \in @}]

(* utf8_cast(T &&) deduces a reference for an lvalue, and for what has been*)
(* moved the string itself.                                                *)
Cast(h) == Reference(h.on)
CastMoved(h) == h

Owning(h) == h.kind # "view"

(* auto x = wrapper.utf8_encoded: a string_view stays one, a string, or    *)
(* what a reference refers to, is copied to a local.                       *)
Copied(h) == IF Owning(h) THEN Text ELSE View(h.on)

(* The FindView that finditer makes: iterators of the haystack, and of the *)
(* copy of the needle that its constructor has been given.                 *)
FindView(y, n) ==
  [Handle("matches", y.on \union Copied(Copied(n)).on)
     EXCEPT !.why = IF Owning(n) THEN {"needle"} ELSE {}]

(* Mutant: the first search is put off to the first use of the range.      *)
FirstSearchLazy(y, n) == Returned(FindView(y, n)).on

(* What is read before finditer returns: the needle to copy it, and all    *)
(* that the search of the constructor compares.                            *)
FirstSearch(y, n) == n.on \union FindView(y, n).on

(* What ++ compares behind it.                                             *)
LaterSearch(y, n) == Returned(FindView(y, n)).on
-----------------------------------------------------------------------------
Doubts(args) == UNION {h.why : h \in args}

(* The function op reads these bytes, of which some are gone.              *)
Fails(op, args, reads, why) ==
  /\ Gone \in reads
  /\ fault' = [op |-> op, alive |-> \A h \in args : Alive(h), why |-> why \union Doubts(args)]
  /\ UNCHANGED stack

(* It returns, and the caller declares a variable with what it returns;    *)
(* a string of one's own is beyond doubt.                                  *)
Yields(args, reads, r) ==
  /\ Gone \notin reads /\ Len(stack) < MaxDepth
  /\ stack' = Append(stack, [Returned(r) EXCEPT !.why = IF r.kind = "text" THEN {}
                                                        ELSE @ \union Doubts(args)])
  /\ UNCHANGED fault

(* "..."_u: a string_view of a literal.                                    *)
Literal == Yields({}, {}, View({Static}))

(* to_text and the conversion to Text; code_units, which is the copying of *)
(* the return; utf8_cast of the string of a wrapper, an lvalue.            *)
ToText(x) == Fails("to_text", {x}, x.on, {}) \/ Yields({x}, x.on, Text)

CodeUnits(x) ==
  LET reads == IF Owning(x) THEN x.on ELSE {}
  IN Fails("code_units", {x}, reads, {}) \/ Yields({x}, reads, Copied(x))

Utf8Cast(x) == Owning(x) /\ Yields({x}, {}, Cast(x))

(* capitalize and center copy to a local string and return utf8_cast of    *)
(* it, an lvalue; y is the padding.                                        *)
CapitalizeResult == [Cast(Text) EXCEPT !.why = {"cast"}]
Capitalize(x) == Fails("capitalize", {x}, x.on, {}) \/ Yields({x}, x.on, CapitalizeResult)

CenterResult == [Cast(Text) EXCEPT !.why = {"cast"}]
Center(x, y) ==
  LET reads == x.on \union y.on
  IN Fails("center", {x, y}, reads, {}) \/ Yields({x, y}, reads, CenterResult)

Finditer(y, n) ==
  \/ Fails("finditer", {y, n}, FirstSearch(y, n), {})
  \/ Yields({y, n}, FirstSearch(y, n), FindView(y, n))

(* find and index read the position that the constructor has found, once   *)
(* to test for the end and once to return it.                              *)
Find(y, n) == Fails("find", {y, n}, FirstSearch(y, n), {})

(* count goes on to the end of the range.                                  *)
Count(y, n) ==
  Fails("count", {y, n}, FirstSearch(y, n) \union LaterSearch(y, n), FindView(y, n).why)

(* Mutant: the result is cast as it stands, without std::move.             *)
SubResultCast == Cast(Text)

(* What sub returns: the local result, moved.                              *)
SubResult == CastMoved(Text)

(* sub copies both, and for each match reads what the callback returns and *)
(* goes on; without a match neither happens.                               *)
Sub(y, n, r) ==
  LET copying == y.on \union FirstSearch(y, n)
  IN \/ Fails("sub", {y, n, r}, copying \union r.on \union LaterSearch(y, n), FindView(y, n).why)
     \/ Yields({y, n}, copying, SubResult)

(* expandtabs is a sub whose callback returns a view of a local of the     *)
(* expandtabs that is waiting for it.                                      *)
ExpandTabs(y) ==
  LET reads == y.on \union FirstSearch(y, View({Static}))
  IN \/ Fails("expandtabs", {y}, reads \union LaterSearch(y, View({Static})) \union {Local}, {})
     \/ Yields({y}, reads, SubResult)

(* The constructor reads the first code point.  It is not compiled for a   *)
(* Text.                                                                   *)
CodePoints(x) ==
  /\ x.kind # "text"
  /\ Fails("code_points", {x}, x.on, {}) \/ Yields({x}, x.on, Handle("points", x.on))

(* ++ of a range, and *it of a range of code points, a view of the text.   *)
Increment(h) == Fails("++", {h}, h.on, {})
CodePoint(h) == h.kind = "points" /\ Yields({h}, {}, View(h.on))

(* len, endswith, == and <<.                                               *)
Use(x) == Fails("use", {x}, x.on, {})

(* The variable that was declared last goes out of scope.                  *)
Leave ==
  /\ stack # <<>>
  /\ stack' = SubSeq(stack, 1, Len(stack) - 1)
  /\ UNCHANGED fault

Init == stack = <<>> /\ fault = NoFault

Next ==
  /\ fault = NoFault
  /\ \/ Literal \/ Leave
     \/ \E x \in Wrappers :
          ToText(x) \/ CodeUnits(x) \/ Utf8Cast(x) \/ Capitalize(x) \/ ExpandTabs(x)
            \/ CodePoints(x) \/ Use(x)
     \/ \E x, y \in Wrappers : Center(x, y) \/ Finditer(x, y) \/ Find(x, y) \/ Count(x, y)
     \/ \E x, y \in Wrappers, r \in Wrappers \union {Text} : Sub(x, y, r)
     \/ \E h \in Ranges : Increment(h) \/ CodePoint(h)

Spec == Init /\ [][Next]_vars
-----------------------------------------------------------------------------
(* Bytes that are gone are referred to, or read, only by what went through *)
(* center or capitalize, or through a search for a needle that is not a    *)
(* view: all else that the library returns may be kept as long as what it  *)
(* was made of, in whatever way its functions are composed.                *)
DeadExplained ==
  /\ \A h \in Variables : Alive(h) \/ h.why # {}
  /\ fault # NoFault => fault.why # {}

(* A function that is given nothing but live bytes reads dead ones only    *)
(* when it is count or sub and looks for the next match of a needle of     *)
(* which its FindView has kept an iterator; find and index, which look for *)
(* the first one only, never do, nor does the callback of expandtabs.      *)
ReadsAlive ==
  fault # NoFault /\ fault.alive =>
    fault.op \in {"count", "sub"} /\ "needle" \in fault.why

(* As the tests have it, what center and capitalize return may be compared *)
(* with a text: nothing but a needle could be a reason for a fault.        *)
ResultsUsable == fault # NoFault => "needle" \in fault.why
=============================================================================
