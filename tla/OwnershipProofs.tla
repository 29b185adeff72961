--------------------------- MODULE OwnershipProofs ---------------------------
(***************************************************************************)
(* Theorems about Ownership, for programs of any length with any number of *)
(* variables.                                                              *)
(*                                                                         *)
(* Every function of the library fails or yields a variable, so two lemmas *)
(* say what has to be known of its arguments for either to keep the        *)
(* invariant, and what remains for each function is what it reads and what *)
(* the variable refers to.                                                 *)
(***************************************************************************)
EXTENDS Ownership, TLAPS

Things == {"cast", "needle"}
Handles == [kind : {"view", "reference", "text", "matches", "points"},
            on : SUBSET Int, why : SUBSET Things]

(* A handle that refers to nothing but strings of the caller, literals and *)
(* locals of the function that has it.                                     *)
InReach(r) ==
  /\ r \in Handles
  /\ r.on \subseteq {Gone, Static, Local} \union 1 .. Len(stack)
  /\ \A b \in r.on : b > 0 => stack[b].kind = "text"

(* Arguments are variables of the caller, or a string that a callback has  *)
(* just made.                                                              *)
Arguments(args) == args \subseteq Variables \union {Text}

SomeDead(args) == \E h \in args : ~Alive(h)

OInv == TypeOK /\ DeadExplained /\ ReadsAlive

(* There is nothing to be done wrong without a variable.                   *)
LEMMA InitOInv == Init => OInv
<1> SUFFICES ASSUME Init PROVE OInv
  OBVIOUS
<1>1. stack = <<>> /\ fault = [op |-> "none", alive |-> FALSE, why |-> {}]
  BY DEF Init, NoFault
<1>2. Len(stack) = 0
  BY <1>1
<1>3. TypeOK
  <2>1. stack \in Seq(Handles)
    BY <1>1
  <2>2. fault \in [op : Operations \union {"none"}, alive : BOOLEAN, why : SUBSET Things]
    BY <1>1
  <2>3. Len(stack) <= MaxDepth /\ 1 .. Len(stack) = {}
    BY <1>2, DepthAssumption
  <2> QED
    BY <2>1, <2>2, <2>3 DEF TypeOK, Handles, Things
<1>4. DeadExplained
  BY <1>1, <1>2 DEF DeadExplained, Variables, NoFault
<1>5. ReadsAlive
  BY <1>1 DEF ReadsAlive, NoFault
<1> QED
  BY <1>3, <1>4, <1>5 DEF OInv

(* What is doubtful about arguments; dead ones are.                        *)
LEMMA DoubtsOfArguments ==
  ASSUME OInv, NEW args, Arguments(args)
  PROVE  Doubts(args) \subseteq Things /\ (SomeDead(args) => Doubts(args) # {})
<1>1. ASSUME NEW h \in args PROVE h.why \subseteq Things /\ (~Alive(h) => h.why # {})
  <2>1. CASE h = Text
    BY <2>1 DEF Text, Handle, Alive, Gone, Local, Things
  <2>2. CASE h \in Variables
    <3>1. PICK d \in 1 .. Len(stack) : h = stack[d]
      BY <2>2 DEF Variables
    <3>2. stack[d] \in Handles
      <4>1. stack \in Seq(Handles)
        BY DEF OInv, TypeOK, Handles, Things
      <4> QED
        BY <4>1
    <3>3. h.why \subseteq Things
      BY <3>1, <3>2 DEF Handles
    <3>4. Alive(h) \/ h.why # {}
      BY <2>2 DEF OInv, DeadExplained
    <3> QED
      BY <3>3, <3>4
  <2> QED
    BY <2>1, <2>2 DEF Arguments
<1> QED
  BY <1>1 DEF Doubts, SomeDead

(* A function that fails keeps the invariant if it has been given what is  *)
(* dead, or is a search for the next match of a needle that it has copied. *)
LEMMA FailsKeeps ==
  ASSUME OInv, NEW op \in Operations, NEW args, NEW reads, NEW why, why \subseteq Things,
         Fails(op, args, reads, why), Arguments(args),
         SomeDead(args) \/ (op \in {"count", "sub"} /\ "needle" \in why)
  PROVE  OInv'
<1>1. fault' = [op |-> op, alive |-> \A h \in args : Alive(h), why |-> why \union Doubts(args)]
  BY DEF Fails
<1>2. Doubts(args) \subseteq Things /\ (SomeDead(args) => Doubts(args) # {})
  BY DoubtsOfArguments
<1>3. fault' \in [op : Operations \union {"none"}, alive : BOOLEAN, why : SUBSET Things]
  <2>1. (\A h \in args : Alive(h)) \in BOOLEAN /\ why \union Doubts(args) \in SUBSET Things
    BY <1>2
  <2> QED
    BY <1>1, <2>1
<1>4. fault'.why # {} /\ (fault'.alive => fault'.op \in {"count", "sub"} /\ "needle" \in fault'.why)
  BY <1>1, <1>2 DEF SomeDead
<1>5. stack' = stack
  BY DEF Fails
<1>6. TypeOK'
  BY <1>3, <1>5 DEF OInv, TypeOK, Things
<1>7. DeadExplained'
  BY <1>4, <1>5 DEF OInv, DeadExplained, Variables
<1>8. ReadsAlive'
  BY <1>4 DEF ReadsAlive
<1> QED
  BY <1>6, <1>7, <1>8 DEF OInv

(* A function that yields what is in reach keeps it unless a view dangles  *)
(* that is made of what is alive and in no doubt.                          *)
LEMMA YieldsKeeps ==
  ASSUME OInv, NEW args, NEW reads, NEW r, Yields(args, reads, r), Arguments(args), InReach(r),
         r.kind = "text" \/ SomeDead(args) \/ r.why # {}
           \/ (Gone \notin r.on /\ Local \notin r.on)
  PROVE  OInv'
<1> DEFINE s == [Returned(r) EXCEPT !.why = IF r.kind = "text" THEN {}
                                            ELSE @ \union Doubts(args)]
           n == Len(stack) + 1
<1>1. stack' = Append(stack, s) /\ fault' = fault /\ Len(stack) < MaxDepth
  BY DEF Yields
<1>2. stack \in Seq(Handles)
  BY DEF OInv, TypeOK, Handles, Things
<1>3. /\ r.kind \in {"view", "reference", "text", "matches", "points"}
      /\ r.on \in SUBSET Int /\ r.why \in SUBSET Things
      /\ r = [kind |-> r.kind, on |-> r.on, why |-> r.why]
  BY DEF InReach, Handles
<1>4. Doubts(args) \subseteq Things /\ (SomeDead(args) => Doubts(args) # {})
  BY DoubtsOfArguments
<1>5. /\ s.kind = r.kind
      /\ s.on = IF r.kind = "text" THEN {n} ELSE {IF b = Local THEN Gone ELSE b : b \in r.on}
      /\ s.why = IF r.kind = "text" THEN {} ELSE r.why \union Doubts(args)
      /\ s = [kind |-> s.kind, on |-> s.on, why |-> s.why]
  <2> DEFINE on == IF r.kind = "text" THEN {n} ELSE {IF b = Local THEN Gone ELSE b : b \in r.on}
             why == IF r.kind = "text" THEN {} ELSE r.why \union Doubts(args)
  <2>a. Returned(r) = [r EXCEPT !.on = on]
    BY DEF Returned
  <2> HIDE DEF on
  <2>1. Returned(r) = [kind |-> r.kind, on |-> on, why |-> r.why]
    BY <1>3, <2>a
  <2>b. s = [Returned(r) EXCEPT !.why = why]
    BY <1>3, <2>1
  <2> HIDE DEF why, s
  <2>2. s = [kind |-> r.kind, on |-> on, why |-> why]
    BY <2>1, <2>b
  <2>3. s.kind = r.kind /\ s.on = on /\ s.why = why
    BY <2>2
  <2> QED
    BY <2>2, <2>3 DEF on, why
<1> HIDE DEF s
<1>6. n \in Nat \ {0} /\ Len(stack) \in Nat
  BY <1>2
<1>7. r.kind # "text" => s.on \subseteq {Gone, Static} \union 1 .. Len(stack)
  <2> SUFFICES ASSUME r.kind # "text", NEW c \in s.on
               PROVE  c \in {Gone, Static} \union 1 .. Len(stack)
    OBVIOUS
  <2>1. PICK b \in r.on : c = IF b = Local THEN Gone ELSE b
    BY <1>5
  <2> QED
    BY <2>1 DEF InReach
<1>8. s \in Handles
  <2>1. s.on \in SUBSET Int
    BY <1>5, <1>6, <1>7 DEF Gone, Static
  <2>2. s.why \in SUBSET Things
    BY <1>3, <1>4, <1>5
  <2> QED
    BY <1>3, <1>5, <2>1, <2>2 DEF Handles
<1>9. stack' \in Seq(Handles) /\ Len(stack') = n /\ stack'[n] = s
      /\ \A d \in 1 .. Len(stack) : stack'[d] = stack[d]
  BY <1>1, <1>2, <1>8
<1>10. ASSUME NEW d \in 1 .. n
       PROVE  /\ stack'[d].kind = "text" => stack'[d].on = {d}
              /\ stack'[d].on \subseteq {Gone, Static} \union 1 .. d
              /\ \A b \in stack'[d].on : b > 0 => stack'[b].kind = "text"
  <2>1. CASE d = n
    <3>1. stack'[d] = s
      BY <1>9, <2>1
    <3>2. s.kind = "text" => s.on = {d}
      BY <1>5, <2>1
    <3>3. s.on \subseteq {Gone, Static} \union 1 .. d
      BY <1>5, <1>6, <1>7, <2>1
    <3>4. ASSUME NEW b \in s.on, b > 0 PROVE stack'[b].kind = "text"
      <4>1. CASE r.kind = "text"
        BY <1>5, <1>9, <3>4, <4>1
      <4>2. CASE r.kind # "text"
        <5>1. PICK c \in r.on : b = IF c = Local THEN Gone ELSE c
          BY <1>5, <4>2
        <5>2. b = c /\ c \in 1 .. Len(stack)
          BY <3>4, <5>1 DEF InReach, Gone, Static, Local
        <5> QED
          BY <1>9, <3>4, <5>2 DEF InReach
      <4> QED
        BY <4>1, <4>2
    <3> QED
      BY <3>1, <3>2, <3>3, <3>4
  <2>2. CASE d # n
    <3>1. d \in 1 .. Len(stack)
      BY <1>6, <2>2
    <3>2. stack'[d] = stack[d]
      BY <1>9, <3>1
    <3>3. ASSUME NEW b \in stack[d].on, b > 0 PROVE stack'[b].kind = "text"
      <4>1. b \in 1 .. Len(stack) /\ stack[b].kind = "text"
        BY <1>6, <3>1, <3>3 DEF OInv, TypeOK, Gone, Static
      <4> QED
        BY <1>9, <4>1
    <3> QED
      BY <3>1, <3>2, <3>3 DEF OInv, TypeOK
  <2> QED
    BY <2>1, <2>2
<1>11. n <= MaxDepth
  BY <1>1, <1>6, DepthAssumption
<1>12. TypeOK'
  <2>1. fault' \in [op : Operations \union {"none"}, alive : BOOLEAN, why : SUBSET Things]
    BY <1>1 DEF OInv, TypeOK, Things
  <2> QED
    BY <1>9, <1>10, <1>11, <2>1 DEF TypeOK, Handles, Things
<1>13. Alive(s) \/ s.why # {}
  <2>1. CASE r.kind = "text"
    BY <1>5, <1>6, <2>1 DEF Alive, Gone
  <2>2. CASE r.kind # "text" /\ (SomeDead(args) \/ r.why # {})
    BY <1>4, <1>5, <2>2
  <2>3. CASE r.kind # "text" /\ Gone \notin r.on /\ Local \notin r.on
    <3>1. ASSUME NEW c \in s.on PROVE c # Gone
      BY <1>5, <2>3
    <3> QED
      BY <3>1 DEF Alive
  <2> QED
    BY <2>1, <2>2, <2>3
<1>14. DeadExplained'
  <2>1. ASSUME NEW d \in 1 .. n PROVE Alive(stack'[d]) \/ stack'[d].why # {}
    <3>1. CASE d = n
      BY <1>9, <1>13, <3>1
    <3>2. CASE d # n
      <4>1. d \in 1 .. Len(stack) /\ stack'[d] = stack[d]
        BY <1>6, <1>9, <3>2
      <4> QED
        BY <4>1 DEF OInv, DeadExplained, Variables
    <3> QED
      BY <3>1, <3>2
  <2>2. \A h \in {stack'[d] : d \in 1 .. Len(stack')} : Alive(h) \/ h.why # {}
    BY <1>9, <2>1
  <2> QED
    BY <1>1, <2>2 DEF OInv, DeadExplained, Variables, Alive
<1>15. ReadsAlive'
  BY <1>1 DEF OInv, ReadsAlive
<1> QED
  BY <1>12, <1>14, <1>15 DEF OInv

(* The variables of the caller are in reach, and none of them refers to a  *)
(* local of what is called.                                                *)
LEMMA VariablesInReach ==
  ASSUME OInv, NEW h \in Variables
  PROVE  InReach(h) /\ Local \notin h.on
<1>1. PICK d \in 1 .. Len(stack) : h = stack[d]
  BY DEF Variables
<1>2. stack \in Seq(Handles)
  BY DEF OInv, TypeOK, Handles, Things
<1>3. stack[d] \in Handles /\ Len(stack) \in Nat
  BY <1>2
<1>4. /\ stack[d].on \subseteq {Gone, Static} \union 1 .. d
      /\ \A b \in stack[d].on : b > 0 => stack[b].kind = "text"
  BY DEF OInv, TypeOK
<1> QED
  BY <1>1, <1>3, <1>4 DEF InReach, Gone, Static, Local

(* A handle built of such parts is in reach.                               *)
LEMMA BuiltInReach ==
  ASSUME NEW on, on \subseteq {Gone, Static, Local} \union 1 .. Len(stack),
         \A b \in on : b > 0 => stack[b].kind = "text",
         NEW kind \in {"view", "reference", "text", "matches", "points"},
         NEW why \in SUBSET Things
  PROVE  InReach([kind |-> kind, on |-> on, why |-> why])
<1>1. on \in SUBSET Int
  BY DEF Gone, Static, Local
<1> QED
  BY <1>1 DEF InReach, Handles

(* So are a literal and what the functions make of a local.                *)
LEMMA MadeInReach ==
  /\ InReach(Text) /\ InReach(View({Static}))
  /\ InReach(CapitalizeResult) /\ InReach(CenterResult) /\ InReach(SubResult)
<1>1. InReach(Text) /\ InReach(View({Static}))
  <2>1. ASSUME NEW r, r = [kind |-> "text", on |-> {Local}, why |-> {}] PROVE InReach(r)
    BY <2>1, BuiltInReach DEF Local
  <2>2. ASSUME NEW r, r = [kind |-> "view", on |-> {Static}, why |-> {}] PROVE InReach(r)
    BY <2>2, BuiltInReach DEF Static
  <2> QED
    BY <2>1, <2>2 DEF Text, View, Handle
<1>2. ASSUME NEW r, r = [kind |-> "reference", on |-> {Local}, why |-> {"cast"}]
      PROVE  InReach(r)
  BY <1>2, BuiltInReach DEF Local, Things
<1>3. InReach(CapitalizeResult) /\ InReach(CenterResult)
  BY <1>2 DEF CapitalizeResult, CenterResult, Cast, Reference, Text, Handle
<1> QED
  BY <1>1, <1>3 DEF SubResult, CastMoved

(* What refers to the same bytes as something in reach, or to a copy.      *)
LEMMA DerivedInReach ==
  ASSUME NEW r, InReach(r)
  PROVE  /\ InReach(View(r.on)) /\ InReach(Reference(r.on)) /\ InReach(Handle("points", r.on))
         /\ InReach(Copied(r))
<1>a. /\ r.on \subseteq {Gone, Static, Local} \union 1 .. Len(stack)
      /\ \A b \in r.on : b > 0 => stack[b].kind = "text"
  BY DEF InReach
<1>1. InReach(View(r.on)) /\ InReach(Reference(r.on)) /\ InReach(Handle("points", r.on))
  BY <1>a, BuiltInReach DEF View, Reference, Handle
<1> QED
  BY <1>1, MadeInReach DEF Copied

(* A FindView is in reach.  It refers to a local only for a needle that is *)
(* not a view, so that dead bytes are read, in the first search, because   *)
(* an argument is dead, and later because one is or for such a needle.     *)
LEMMA FindViewReads ==
  ASSUME OInv, NEW y \in Variables, NEW n \in Variables \union {View({Static})}
  PROVE  /\ InReach(FindView(y, n)) /\ FindView(y, n).kind = "matches"
         /\ FindView(y, n).why = IF Owning(n) THEN {"needle"} ELSE {}
         /\ Gone \in FindView(y, n).on => SomeDead({y, n})
         /\ Local \in FindView(y, n).on => Owning(n)
         /\ Gone \in FirstSearch(y, n) => SomeDead({y, n})
         /\ Gone \in LaterSearch(y, n) => SomeDead({y, n}) \/ Owning(n)
<1> DEFINE c == Copied(Copied(n))
           v == FindView(y, n)
<1>1. InReach(y) /\ Local \notin y.on
  BY VariablesInReach
<1>2. InReach(n) /\ Local \notin n.on
  <2>1. CASE n \in Variables
    BY <2>1, VariablesInReach
  <2>2. CASE n = View({Static})
    BY <2>2, MadeInReach DEF View, Handle, Static, Local
  <2> QED
    BY <2>1, <2>2
<1>3. InReach(c)
  BY <1>2, DerivedInReach
<1>4. c.on = IF Owning(n) THEN {Local} ELSE n.on
  BY DEF Copied, Owning, View, Text, Handle
<1> HIDE DEF c
<1>5. v = [kind |-> "matches", on |-> y.on \union c.on, why |-> IF Owning(n) THEN {"needle"} ELSE {}]
  BY DEF FindView, Handle, c
<1> HIDE DEF v
<1>6. /\ v.kind = "matches" /\ v.on = y.on \union c.on
      /\ v.why = IF Owning(n) THEN {"needle"} ELSE {}
  BY <1>5
<1>7. InReach(v)
  <2>1. v.on \in SUBSET Int /\ v.why \in SUBSET Things
    BY <1>1, <1>3, <1>6 DEF InReach, Handles, Things
  <2>2. v \in Handles
    BY <1>5, <1>6, <2>1 DEF Handles
  <2>3. /\ v.on \subseteq {Gone, Static, Local} \union 1 .. Len(stack)
        /\ \A b \in v.on : b > 0 => stack[b].kind = "text"
    BY <1>1, <1>3, <1>6 DEF InReach
  <2> QED
    BY <2>2, <2>3 DEF InReach
<1>8. (Gone \in v.on => SomeDead({y, n})) /\ (Local \in v.on => Owning(n))
  BY <1>1, <1>2, <1>4, <1>6 DEF SomeDead, Alive, Gone, Local
<1>9. Gone \in FirstSearch(y, n) => SomeDead({y, n})
  BY <1>8 DEF FirstSearch, v, SomeDead, Alive
<1>10. Gone \in LaterSearch(y, n) => SomeDead({y, n}) \/ Owning(n)
  <2> SUFFICES ASSUME Gone \in Returned(v).on PROVE SomeDead({y, n}) \/ Owning(n)
    BY DEF LaterSearch, v
  <2>1. Returned(v).on = {IF b = Local THEN Gone ELSE b : b \in v.on}
    BY <1>5, <1>6 DEF Returned
  <2>2. PICK b \in v.on : Gone = IF b = Local THEN Gone ELSE b
    BY <2>1
  <2> QED
    BY <1>8, <2>2
<1> QED
  BY <1>6, <1>7, <1>8, <1>9, <1>10 DEF v

(* The functions of one argument.                                          *)
LEMMA OneArgument ==
  ASSUME OInv, NEW x \in Variables,
         \/ ToText(x) \/ CodeUnits(x) \/ Utf8Cast(x) \/ Capitalize(x) \/ ExpandTabs(x)
         \/ CodePoints(x) \/ Use(x) \/ Increment(x) \/ CodePoint(x)
  PROVE  OInv'
<1>1. Arguments({x}) /\ InReach(x) /\ Local \notin x.on /\ (Gone \in x.on => SomeDead({x}))
  BY VariablesInReach DEF Arguments, SomeDead, Alive
<1>2. /\ InReach(Text) /\ InReach(CapitalizeResult) /\ InReach(SubResult) /\ InReach(Copied(x))
      /\ InReach(View(x.on)) /\ InReach(Reference(x.on)) /\ InReach(Handle("points", x.on))
  BY <1>1, MadeInReach, DerivedInReach
<1>3. /\ Text.kind = "text" /\ SubResult.kind = "text" /\ CapitalizeResult.why # {}
      /\ View(x.on).on = x.on /\ Reference(x.on).on = x.on /\ Handle("points", x.on).on = x.on
      /\ Copied(x).kind = "text" \/ Copied(x).on = x.on
  BY DEF Text, SubResult, CastMoved, CapitalizeResult, Cast, Reference, View, Handle, Copied
<1>4. ASSUME NEW op \in Operations, NEW reads, Gone \in reads => SomeDead({x}), Fails(op, {x}, reads, {})
      PROVE  OInv'
  <2>1. Gone \in reads
    BY <1>4 DEF Fails
  <2>2. {} \subseteq Things
    OBVIOUS
  <2> QED
    BY <1>1, <1>4, <2>1, <2>2, FailsKeeps
<1>5. ASSUME NEW reads, NEW r, InReach(r), r.kind = "text" \/ r.why # {} \/ r.on = x.on, Yields({x}, reads, r)
      PROVE  OInv'
  BY <1>1, <1>5, YieldsKeeps
<1>6. ASSUME ToText(x) PROVE OInv'
  BY <1>1, <1>2, <1>3, <1>4, <1>5, <1>6 DEF ToText, Operations
<1>7. ASSUME CodeUnits(x) PROVE OInv'
  BY <1>1, <1>2, <1>3, <1>4, <1>5, <1>7 DEF CodeUnits, Operations
<1>8. ASSUME Utf8Cast(x) PROVE OInv'
  BY <1>2, <1>3, <1>5, <1>8 DEF Utf8Cast, Cast
<1>9. ASSUME Capitalize(x) PROVE OInv'
  BY <1>1, <1>2, <1>3, <1>4, <1>5, <1>9 DEF Capitalize, Operations
<1>10. ASSUME ExpandTabs(x) PROVE OInv'
  <2> DEFINE first == FirstSearch(x, View({Static}))
             later == LaterSearch(x, View({Static}))
  <2>1. ~Owning(View({Static})) /\ Alive(View({Static}))
    BY DEF Owning, Alive, View, Handle, Static, Gone
  <2>2. SomeDead({x, View({Static})}) => SomeDead({x})
    BY <2>1 DEF SomeDead
  <2>3. (Gone \in first => SomeDead({x})) /\ (Gone \in later => SomeDead({x}))
    BY <2>1, <2>2, FindViewReads
  <2> HIDE DEF first, later
  <2>4. Gone \in x.on \union first \union later \union {Local} => SomeDead({x})
    BY <1>1, <2>3 DEF Gone, Local
  <2>5. \/ Fails("expandtabs", {x}, x.on \union first \union later \union {Local}, {})
        \/ Yields({x}, x.on \union first, SubResult)
    BY <1>10 DEF ExpandTabs, first, later
  <2> QED
    BY <1>2, <1>3, <1>4, <1>5, <2>4, <2>5 DEF Operations
<1>11. ASSUME CodePoints(x) PROVE OInv'
  BY <1>1, <1>2, <1>3, <1>4, <1>5, <1>11 DEF CodePoints, Operations
<1>12. ASSUME Use(x) PROVE OInv'
  BY <1>1, <1>4, <1>12 DEF Use, Operations
<1>13. ASSUME Increment(x) PROVE OInv'
  BY <1>1, <1>4, <1>13 DEF Increment, Operations
<1>14. ASSUME CodePoint(x) PROVE OInv'
  BY <1>2, <1>3, <1>5, <1>14 DEF CodePoint
<1> QED
  BY <1>6, <1>7, <1>8, <1>9, <1>10, <1>11, <1>12, <1>13, <1>14

(* The functions of a text and a needle or padding.                        *)
LEMMA TwoArguments ==
  ASSUME OInv, NEW x \in Variables, NEW y \in Variables,
         Center(x, y) \/ Finditer(x, y) \/ Find(x, y) \/ Count(x, y)
  PROVE  OInv'
<1>1. Arguments({x, y}) /\ (Gone \in x.on \union y.on => SomeDead({x, y}))
  BY DEF Arguments, SomeDead, Alive
<1>2. /\ InReach(FindView(x, y))
      /\ FindView(x, y).why = IF Owning(y) THEN {"needle"} ELSE {}
      /\ Gone \in FindView(x, y).on => SomeDead({x, y})
      /\ Local \in FindView(x, y).on => Owning(y)
      /\ Gone \in FirstSearch(x, y) => SomeDead({x, y})
      /\ Gone \in LaterSearch(x, y) => SomeDead({x, y}) \/ Owning(y)
  BY FindViewReads
<1>3. ASSUME NEW op \in Operations, NEW reads, Gone \in reads => SomeDead({x, y}),
             Fails(op, {x, y}, reads, {})
      PROVE  OInv'
  <2>1. Gone \in reads
    BY <1>3 DEF Fails
  <2>2. {} \subseteq Things
    OBVIOUS
  <2> QED
    BY <1>1, <1>3, <2>1, <2>2, FailsKeeps
<1>4. ASSUME Center(x, y) PROVE OInv'
  <2>1. InReach(CenterResult) /\ CenterResult.why # {}
    BY MadeInReach DEF CenterResult
  <2>2. ASSUME NEW reads, Yields({x, y}, reads, CenterResult) PROVE OInv'
    BY <1>1, <2>1, <2>2, YieldsKeeps
  <2> QED
    BY <1>1, <1>3, <1>4, <2>2 DEF Center, Operations
<1>5. ASSUME Finditer(x, y) PROVE OInv'
  <2>1. ASSUME Yields({x, y}, FirstSearch(x, y), FindView(x, y)) PROVE OInv'
    BY <1>1, <1>2, <2>1, YieldsKeeps
  <2> QED
    BY <1>2, <1>3, <1>5, <2>1 DEF Finditer, Operations
<1>6. ASSUME Find(x, y) PROVE OInv'
  BY <1>2, <1>3, <1>6 DEF Find, Operations
<1>7. ASSUME Count(x, y) PROVE OInv'
  <2> DEFINE reads == FirstSearch(x, y) \union LaterSearch(x, y)
             why == FindView(x, y).why
  <2>1. Gone \in reads /\ Fails("count", {x, y}, reads, why)
    BY <1>7 DEF Count, Fails
  <2>2. why \subseteq Things /\ (SomeDead({x, y}) \/ "needle" \in why)
    BY <1>2, <2>1 DEF Things
  <2>3. "count" \in Operations
    BY DEF Operations
  <2> HIDE DEF reads, why
  <2> QED
    BY <1>1, <2>1, <2>2, <2>3, FailsKeeps
<1> QED
  BY <1>4, <1>5, <1>6, <1>7

(* sub, whose callback may return a string of its own.                     *)
LEMMA SubKeeps ==
  ASSUME OInv, NEW y \in Variables, NEW n \in Variables, NEW r \in Variables \union {Text},
         Sub(y, n, r)
  PROVE  OInv'
<1>1. /\ Arguments({y, n, r}) /\ Arguments({y, n})
      /\ Gone \in y.on \union r.on => SomeDead({y, n, r})
      /\ SomeDead({y, n}) => SomeDead({y, n, r})
  BY DEF Arguments, SomeDead, Alive
<1>2. /\ FindView(y, n).why = IF Owning(n) THEN {"needle"} ELSE {}
      /\ Gone \in FirstSearch(y, n) => SomeDead({y, n})
      /\ Gone \in LaterSearch(y, n) => SomeDead({y, n}) \/ Owning(n)
  BY FindViewReads
<1> DEFINE copying == y.on \union FirstSearch(y, n)
           reads == copying \union r.on \union LaterSearch(y, n)
           why == FindView(y, n).why
<1>3. ASSUME Fails("sub", {y, n, r}, reads, why) PROVE OInv'
  <2>1. Gone \in reads
    BY <1>3 DEF Fails
  <2>2. why \subseteq Things /\ (SomeDead({y, n, r}) \/ "needle" \in why)
    BY <1>1, <1>2, <2>1 DEF Things
  <2>3. "sub" \in Operations
    BY DEF Operations
  <2> HIDE DEF reads, why
  <2> QED
    BY <1>1, <1>3, <2>2, <2>3, FailsKeeps
<1>4. ASSUME Yields({y, n}, copying, SubResult) PROVE OInv'
  <2>1. InReach(SubResult) /\ SubResult.kind = "text"
    BY MadeInReach DEF SubResult, CastMoved, Text, Handle
  <2> QED
    BY <1>1, <1>4, <2>1, YieldsKeeps
<1> QED
  BY <1>3, <1>4 DEF Sub

(* The end of a scope: what is left refers to nothing that was in it.      *)
LEMMA LeaveKeeps == OInv /\ Leave => OInv'
<1> SUFFICES ASSUME OInv, Leave PROVE OInv'
  OBVIOUS
<1> DEFINE n == Len(stack) - 1
<1>1. stack \in Seq(Handles)
  BY DEF OInv, TypeOK, Handles, Things
<1>2. stack # <<>> /\ stack' = SubSeq(stack, 1, n) /\ fault' = fault
  BY DEF Leave
<1>3. Len(stack) \in Nat \ {0}
  BY <1>1, <1>2
<1>4. /\ stack' \in Seq(Handles) /\ Len(stack') = n /\ n \in Nat
      /\ \A d \in 1 .. n : stack'[d] = stack[d] /\ d \in 1 .. Len(stack)
  <2>1. n \in Nat /\ 1 .. n \subseteq 1 .. Len(stack)
    BY <1>3
  <2>2. stack' = [d \in 1 .. n |-> stack[d]]
    BY <1>2, <1>3
  <2>3. stack' \in Seq(Handles) /\ Len(stack') = n
    BY <1>1, <2>1, <2>2
  <2> QED
    BY <2>1, <2>2, <2>3
<1>5. ASSUME NEW d \in 1 .. n
      PROVE  /\ stack'[d].kind = "text" => stack'[d].on = {d}
             /\ stack'[d].on \subseteq {Gone, Static} \union 1 .. d
             /\ \A b \in stack'[d].on : b > 0 => stack'[b].kind = "text"
  <2>1. stack'[d] = stack[d] /\ d \in 1 .. Len(stack)
    BY <1>4
  <2>2. ASSUME NEW b \in stack[d].on, b > 0 PROVE stack'[b].kind = "text"
    <3>1. b \in 1 .. d /\ stack[b].kind = "text"
      BY <2>1, <2>2 DEF OInv, TypeOK, Gone, Static
    <3> QED
      BY <1>4, <3>1
  <2> QED
    BY <2>1, <2>2 DEF OInv, TypeOK
<1>6. Len(stack') <= MaxDepth
  BY <1>3, <1>4, DepthAssumption DEF OInv, TypeOK
<1>7. TypeOK'
  BY <1>2, <1>4, <1>5, <1>6 DEF OInv, TypeOK, Handles, Things
<1>8. \A h \in {stack'[d] : d \in 1 .. Len(stack')} : h \in Variables
  BY <1>4 DEF Variables
<1>9. DeadExplained' /\ ReadsAlive'
  BY <1>2, <1>8 DEF OInv, DeadExplained, ReadsAlive, Variables, Alive
<1> QED
  BY <1>7, <1>9 DEF OInv

(* Whatever the caller does next keeps the invariant.                      *)
LEMMA NextOInv == OInv /\ [Next]_vars => OInv'
<1> SUFFICES ASSUME OInv, [Next]_vars PROVE OInv'
  OBVIOUS
<1>1. CASE Literal
  <2>1. Yields({}, {}, View({Static})) /\ Arguments({})
    BY <1>1 DEF Literal, Arguments
  <2>2. InReach(View({Static})) /\ Gone \notin View({Static}).on /\ Local \notin View({Static}).on
    BY MadeInReach DEF View, Handle, Gone, Local, Static
  <2> QED
    BY <2>1, <2>2, YieldsKeeps
<1>2. CASE Leave
  BY <1>2, LeaveKeeps
<1>3. ASSUME NEW x \in Wrappers,
             \/ ToText(x) \/ CodeUnits(x) \/ Utf8Cast(x) \/ Capitalize(x) \/ ExpandTabs(x)
             \/ CodePoints(x) \/ Use(x)
      PROVE  OInv'
  BY <1>3, OneArgument DEF Wrappers
<1>4. ASSUME NEW x \in Wrappers, NEW y \in Wrappers,
             Center(x, y) \/ Finditer(x, y) \/ Find(x, y) \/ Count(x, y)
      PROVE  OInv'
  BY <1>4, TwoArguments DEF Wrappers
<1>5. ASSUME NEW x \in Wrappers, NEW y \in Wrappers, NEW r \in Wrappers \union {Text}, Sub(x, y, r)
      PROVE  OInv'
  BY <1>5, SubKeeps DEF Wrappers
<1>6. ASSUME NEW h \in Ranges, Increment(h) \/ CodePoint(h) PROVE OInv'
  BY <1>6, OneArgument DEF Ranges
<1>7. CASE UNCHANGED vars
  <2>1. stack' = stack /\ fault' = fault
    BY <1>7 DEF vars
  <2> QED
    BY <2>1 DEF OInv, TypeOK, DeadExplained, ReadsAlive, Variables
<1> QED
  BY <1>1, <1>2, <1>3, <1>4, <1>5, <1>6, <1>7 DEF Next

(* What follows holds in every state of every program.                     *)
LEMMA OwnershipInvariance == Spec => []OInv
  BY InitOInv, NextOInv, PTL DEF Spec

(* Every string has one owner, and nothing outlives the string it refers   *)
(* to but for what refers to a local of the library.                       *)
THEOREM TypeCorrect == Spec => []TypeOK
  BY OwnershipInvariance, PTL DEF OInv

(* Only results of center and capitalize, and searches for a needle that   *)
(* is not a view, have to do with dead bytes.                              *)
THEOREM Explained == Spec => []DeadExplained
  BY OwnershipInvariance, PTL DEF OInv

(* With living arguments only count and sub read dead bytes.               *)
THEOREM AliveReads == Spec => []ReadsAlive
  BY OwnershipInvariance, PTL DEF OInv
=============================================================================
