------------------------ MODULE SharedCursorsProofs ------------------------
(***************************************************************************)
(* Theorems about SharedCursors, for any number of loops and views and     *)
(* every set of matches.                                                   *)
(*                                                                         *)
(* The invariant says of each loop how what it has read and what it has    *)
(* moved past relate to where its view stands now, which may not be where  *)
(* the loop itself last saw it.                                            *)
(***************************************************************************)
EXTENDS SharedCursors, TLAPS

(* What a view has enumerated already, and what its loops moved past.      *)
Gone(v) == UNION {passed[l] : l \in {l \in Loop : on[l] = v}}

(* A loop that has not begun has done nothing.                             *)
Fresh == \A l \in Loop : at[l] = "new" => seen[l] = {} /\ passed[l] = {}

(* What a running loop has read is not in front of where its view stands,  *)
(* and before it reads again the view has moved.                           *)
Behind ==
  \A l \in Loop : at[l] \in {"test", "body", "step"} =>
    /\ foundAt[on[l]] # Npos =>
         /\ Npos \notin seen[l]
         /\ \A p \in seen[l] : p <= foundAt[on[l]]
         /\ at[l] # "step" => foundAt[on[l]] \notin seen[l]
    /\ at[l] = "body" => Npos \notin seen[l]

(* A loop whose view nobody else moves has read what it has moved past,    *)
(* and the match it is at.                                                 *)
Own ==
  \A l \in Loop : Alone(l) =>
    /\ at[l] # "step" => seen[l] = passed[l]
    /\ at[l] = "body" => foundAt[on[l]] # Npos
    /\ at[l] = "step" => /\ foundAt[on[l]] # Npos
                         /\ seen[l] = passed[l] \union {foundAt[on[l]]}
    /\ at[l] = "ended" => foundAt[on[l]] = Npos

(* Every match a view had to enumerate is either gone or ahead of it, and  *)
(* gone past one loop only.                                                *)
Conserved ==
  /\ \A k, l \in Loop : k # l /\ on[k] = on[l] => passed[k] \intersect passed[l] = {}
  /\ \A v \in View : owed[v] = Gone(v) \union Ahead(foundAt[v])
                       /\ Gone(v) \intersect Ahead(foundAt[v]) = {}

CInv == TypeOK /\ Fresh /\ Behind /\ Own /\ Conserved

(* Nothing is gone when no loop has begun.                                 *)
LEMMA InitCInv == Init => CInv
<1> SUFFICES ASSUME Init PROVE CInv
  OBVIOUS
<1> USE CursorsAssumption
<1>1. PICK first \in {Npos} \union all :
        Finds(-1, first) /\ foundAt = [v \in View |-> IF v = Original THEN first ELSE Absent]
  BY DEF Init
<1>2. /\ all \subseteq 0 .. MaxPosition /\ on = [l \in Loop |-> Original]
      /\ at = [l \in Loop |-> "new"] /\ seen = [l \in Loop |-> {}]
      /\ passed = [l \in Loop |-> {}]
      /\ owed = [v \in View |-> IF v = Original THEN all ELSE {}]
  BY DEF Init
<1>3. TypeOK /\ Fresh /\ Behind
  BY <1>1, <1>2 DEF TypeOK, Fresh, Behind
<1>4. Own
  BY <1>2 DEF Own
<1>5. \A v \in View : Gone(v) = {}
  BY <1>2 DEF Gone
<1>6. Ahead(first) = all /\ Ahead(Absent) = {}
  <2>1. \A p \in all : p > -1 /\ p \in Int
    BY <1>2
  <2> QED
    BY <1>1, <2>1 DEF Finds, Ahead, Npos, Absent
<1>7. Conserved
  BY <1>1, <1>2, <1>5, <1>6 DEF Conserved
<1> QED
  BY <1>3, <1>4, <1>7 DEF CInv

(* A search passes over nothing but what the view stood at.                *)
LEMMA AheadMoves ==
  ASSUME TypeOK, NEW r \in all, NEW p \in {Npos} \union all, Finds(r, p)
  PROVE  /\ Ahead(r) = {r} \union Ahead(p) /\ r \notin Ahead(p)
         /\ p # Npos => r < p
<1>1. all \subseteq Int /\ r >= 0 /\ r \in Int /\ \A q \in all : q >= 0
  BY DEF TypeOK
<1>2. CASE p = Npos
  <2>1. \A q \in all : ~(q > r)
    BY <1>2 DEF Finds
  <2>2. Ahead(p) = {}
    BY <1>2 DEF Ahead, Npos
  <2>3. \A q \in all : q >= r <=> q = r
    BY <1>1, <2>1
  <2>4. Ahead(r) = {q \in all : q >= r}
    BY <1>1 DEF Ahead
  <2>5. Ahead(r) = {r}
    BY <2>3, <2>4
  <2> QED
    BY <1>2, <2>2, <2>5
<1>3. CASE p # Npos
  <2>1. p \in all /\ p > r /\ \A q \in all : q > r => p <= q
    BY <1>3 DEF Finds
  <2>2. \A q \in all : q >= r <=> q = r \/ q >= p
    BY <1>1, <2>1
  <2>3. Ahead(r) = {q \in all : q >= r} /\ Ahead(p) = {q \in all : q >= p}
    BY <1>1, <2>1 DEF Ahead
  <2>4. r \notin Ahead(p)
    BY <1>1, <2>1, <2>3
  <2>5. Ahead(r) = {r} \union Ahead(p)
    BY <2>2, <2>3
  <2> QED
    BY <2>1, <2>4, <2>5
<1> QED
  BY <1>2, <1>3

(* The beginning of a loop changes nothing but the loop.                   *)
LEMMA BeginStep ==
  ASSUME CInv, NEW l \in Loop, NEW v \in View, Begin(l, v)
  PROVE  CInv'
<1> USE DEF CInv, TypeOK
<1>1. /\ at[l] = "new" /\ foundAt[v] # Absent
      /\ on' = [on EXCEPT ![l] = v] /\ at' = [at EXCEPT ![l] = "test"]
      /\ UNCHANGED <<all, foundAt, seen, passed, owed>>
  BY DEF Begin, BeginCursor
<1>2. seen[l] = {} /\ passed[l] = {}
  BY <1>1 DEF Fresh
<1>3. TypeOK'
  BY <1>1
<1>4. Fresh' /\ Behind'
  BY <1>1, <1>2 DEF Fresh, Behind
<1>5. ASSUME NEW k \in Loop \ {l}, Alone(k)' PROVE Alone(k)
  BY <1>1, <1>2, <1>5 DEF Alone
<1>6. Own'
  BY <1>1, <1>2, <1>5 DEF Own
<1>7. \A w \in View : Gone(w)' = Gone(w)
  <2> SUFFICES ASSUME NEW w \in View PROVE Gone(w)' = Gone(w)
    OBVIOUS
  <2>1. ASSUME NEW p PROVE p \in Gone(w)' <=> p \in Gone(w)
    BY <1>1, <1>2 DEF Gone
  <2> QED
    BY <2>1
<1>8. \A w \in View : Ahead(foundAt[w])' = Ahead(foundAt[w])
  BY <1>1 DEF Ahead
<1>9. Conserved'
  BY <1>1, <1>2, <1>7, <1>8 DEF Conserved
<1> QED
  BY <1>3, <1>4, <1>6, <1>9

(* So does a test.                                                         *)
LEMMA TestStep ==
  ASSUME CInv, NEW l \in Loop, Test(l)
  PROVE  CInv'
<1> USE DEF CInv, TypeOK
<1>1. /\ at[l] = "test" /\ at' = [at EXCEPT ![l] = IF Done(l) THEN "ended" ELSE "body"]
      /\ UNCHANGED <<all, foundAt, on, seen, passed, owed>>
  BY DEF Test
<1>2. TypeOK' /\ Fresh'
  BY <1>1 DEF Fresh
<1>3. Behind'
  BY <1>1 DEF Behind, Done
<1>4. \A k \in Loop : Alone(k)' <=> Alone(k)
  BY <1>1 DEF Alone
<1>5. Own'
  BY <1>1, <1>4 DEF Own, Done
<1>6. Conserved'
  BY <1>1 DEF Conserved, Gone, Ahead
<1> QED
  BY <1>2, <1>3, <1>5, <1>6

(* The body adds to what the loop has read.                                *)
LEMMA BodyStep ==
  ASSUME CInv, NEW l \in Loop, Body(l)
  PROVE  CInv'
<1> USE DEF CInv, TypeOK
<1>1. /\ at[l] = "body" /\ at' = [at EXCEPT ![l] = "step"]
      /\ seen' = [seen EXCEPT ![l] = @ \union {foundAt[on[l]]}]
      /\ UNCHANGED <<all, foundAt, on, passed, owed>>
  BY DEF Body
<1>2. foundAt[on[l]] \in {Npos} \union all /\ (foundAt[on[l]] # Npos => foundAt[on[l]] \in Int)
  <2>1. foundAt[on[l]] \in {Npos} \union all
    BY <1>1
  <2>2. all \subseteq Int
    BY CursorsAssumption
  <2> QED
    BY <2>1, <2>2
<1>3. TypeOK' /\ Fresh'
  BY <1>1, <1>2 DEF Fresh
<1>4. Behind'
  BY <1>1, <1>2 DEF Behind
<1>5. \A k \in Loop : Alone(k)' <=> Alone(k)
  BY <1>1 DEF Alone
<1>6. Own'
  BY <1>1, <1>5 DEF Own
<1>7. Conserved'
  BY <1>1 DEF Conserved, Gone, Ahead
<1> QED
  BY <1>3, <1>4, <1>6, <1>7

(* ++ moves the view on for every loop there is.                           *)
LEMMA StepStep ==
  ASSUME CInv, NEW l \in Loop, Step(l)
  PROVE  CInv'
<1> DEFINE v == on[l]
           r == foundAt[v]
<1>0. /\ at[l] = "step" /\ at' = [at EXCEPT ![l] = "test"] /\ MoveOn(v)
      /\ passed' = [passed EXCEPT ![l] = @ \union ({r} \ {Npos})]
      /\ UNCHANGED <<all, on, seen, owed>>
  BY DEF Step
<1>t. v \in View /\ r \in {Npos} \union all /\ TypeOK
  BY <1>0 DEF CInv, TypeOK
<1>1. CASE r = Npos
  <2>1. UNCHANGED foundAt /\ passed' = passed
    BY <1>0, <1>1 DEF MoveOn, CInv, TypeOK
  <2>2. TypeOK' /\ Fresh'
    BY <1>0, <2>1 DEF CInv, TypeOK, Fresh
  <2>3. Behind'
    BY <1>0, <1>1, <2>1 DEF CInv, TypeOK, Behind
  <2>4. \A k \in Loop : Alone(k)' <=> Alone(k)
    BY <1>0, <2>1 DEF Alone
  <2>5. Own'
    BY <1>0, <1>1, <2>1, <2>4 DEF CInv, TypeOK, Own
  <2>6. Conserved'
    BY <1>0, <2>1 DEF CInv, Conserved, Gone, Ahead
  <2> QED
    BY <2>2, <2>3, <2>5, <2>6 DEF CInv
<1>2. CASE r # Npos
  <2>1. PICK p \in {Npos} \union all :
          Finds(r, p) /\ foundAt' = [foundAt EXCEPT ![v] = p]
    BY <1>0, <1>2 DEF MoveOn
  <2>2. r \in all /\ r \in Int /\ r # Npos
    <3>1. all \subseteq Int
      BY <1>t, CursorsAssumption DEF TypeOK
    <3> QED
      BY <1>2, <1>t, <3>1
  <2>3. Ahead(r) = {r} \union Ahead(p) /\ r \notin Ahead(p) /\ (p # Npos => r < p)
    BY <1>t, <2>1, <2>2, AheadMoves
  <2>4. passed' = [passed EXCEPT ![l] = @ \union {r}]
    BY <1>0, <2>2
  <2> HIDE DEF r, v
  <2>5. /\ foundAt[v] = r /\ foundAt'[v] = p
        /\ \A w \in View \ {v} : foundAt'[w] = foundAt[w]
        /\ on[l] = v /\ on' = on /\ all' = all /\ seen' = seen /\ owed' = owed
        /\ at'[l] = "test" /\ \A k \in Loop \ {l} : at'[k] = at[k]
        /\ passed'[l] = passed[l] \union {r}
        /\ \A k \in Loop \ {l} : passed'[k] = passed[k]
    BY <1>0, <1>t, <2>1, <2>4 DEF TypeOK, r, v
  <2>6. TypeOK'
    BY <1>0, <1>t, <2>1, <2>2, <2>4 DEF TypeOK, Absent, Npos
  <2>7. Fresh'
    BY <2>5 DEF CInv, Fresh
  <2>8. Behind'
    <3> SUFFICES ASSUME NEW k \in Loop, at'[k] \in {"test", "body", "step"}
                 PROVE  /\ foundAt'[on[k]] # Npos =>
                             /\ Npos \notin seen[k]
                             /\ \A q \in seen[k] : q <= foundAt'[on[k]]
                             /\ at'[k] # "step" => foundAt'[on[k]] \notin seen[k]
                        /\ at'[k] = "body" => Npos \notin seen[k]
      BY <2>5 DEF Behind
    <3>1. at[k] \in {"test", "body", "step"} /\ (at'[k] = "body" => at[k] = "body")
      BY <1>0, <2>5
    <3>2. /\ foundAt[on[k]] # Npos =>
               /\ Npos \notin seen[k]
               /\ \A q \in seen[k] : q <= foundAt[on[k]]
          /\ foundAt[on[k]] # Npos /\ at[k] # "step" => foundAt[on[k]] \notin seen[k]
          /\ at[k] = "body" => Npos \notin seen[k]
      BY <3>1 DEF CInv, Behind
    <3>3. CASE on[k] = v
      <4>1. /\ Npos \notin seen[k] /\ \A q \in seen[k] : q <= r /\ q \in Int
        <5>1. seen[k] \subseteq {Npos} \union all /\ all \subseteq Int
          BY <1>t, CursorsAssumption DEF TypeOK
        <5> QED
          BY <2>2, <2>5, <3>2, <3>3, <5>1
      <4>2. p # Npos => p \in Int /\ r < p
        <5>1. all \subseteq Int
          BY <1>t, CursorsAssumption DEF TypeOK
        <5> QED
          BY <2>3, <5>1
      <4>3. p # Npos => \A q \in seen[k] : q <= p /\ q # p
        BY <2>2, <4>1, <4>2
      <4> QED
        BY <2>5, <3>3, <4>1, <4>3
    <3>4. CASE on[k] # v
      <4>1. on[k] \in View \ {v} /\ k # l /\ foundAt'[on[k]] = foundAt[on[k]]
              /\ at'[k] = at[k]
        BY <1>t, <2>5, <3>4 DEF TypeOK
      <4>2. foundAt[on[k]] # Npos /\ at[k] # "step" => foundAt[on[k]] \notin seen[k]
        BY <3>2
      <4> QED
        BY <3>2, <4>1, <4>2
    <3> QED
      BY <3>3, <3>4
  <2>9. ASSUME NEW k \in Loop, Alone(k)'
        PROVE  Alone(k) /\ (k # l => on[k] # v)
    <3>1. \A m \in Loop \ {k} : on[m] = on[k] => passed'[m] = {}
      BY <2>5, <2>9 DEF Alone
    <3>2. \A m \in Loop : passed'[m] = {} => passed[m] = {} /\ m # l
      BY <2>5
    <3> QED
      BY <2>5, <3>1, <3>2 DEF Alone
  <2>10. Own'
    <3> SUFFICES ASSUME NEW k \in Loop, Alone(k)'
                 PROVE  /\ at'[k] # "step" => seen'[k] = passed'[k]
                        /\ at'[k] = "body" => foundAt'[on'[k]] # Npos
                        /\ at'[k] = "step" =>
                             /\ foundAt'[on'[k]] # Npos
                             /\ seen'[k] = passed'[k] \union {foundAt'[on'[k]]}
                        /\ at'[k] = "ended" => foundAt'[on'[k]] = Npos
      BY DEF Own
    <3>1. Alone(k) /\ (k # l => on[k] # v)
      BY <2>9
    <3>2. CASE k = l
      BY <1>0, <2>5, <3>1, <3>2 DEF CInv, Own
    <3>3. CASE k # l
      <4>1. on[k] \in View \ {v}
        BY <1>t, <3>1, <3>3 DEF TypeOK
      <4>2. /\ foundAt'[on'[k]] = foundAt[on[k]] /\ at'[k] = at[k]
            /\ seen'[k] = seen[k] /\ passed'[k] = passed[k]
        BY <2>5, <3>3, <4>1
      <4> QED
        BY <3>1, <4>2 DEF CInv, Own
    <3> QED
      BY <3>2, <3>3
  <2>11. ASSUME NEW w \in View
         PROVE  Gone(w)' = IF w = v THEN Gone(w) \union {r} ELSE Gone(w)
    <3>1. ASSUME NEW q
          PROVE  q \in Gone(w)' <=> \E k \in Loop : on[k] = w /\ q \in passed'[k]
      BY <2>5 DEF Gone
    <3>2. ASSUME NEW q
          PROVE  q \in Gone(w) <=> \E k \in Loop : on[k] = w /\ q \in passed[k]
      BY DEF Gone
    <3>3. ASSUME NEW q, NEW k \in Loop
          PROVE  q \in passed'[k] <=> q \in passed[k] \/ (k = l /\ q = r)
      BY <2>5
    <3>4. ASSUME NEW q PROVE q \in Gone(w)' <=> q \in Gone(w) \/ (w = v /\ q = r)
      BY <2>5, <3>1, <3>2, <3>3
    <3> QED
      BY <3>4
  <2>12. \A w \in View : Ahead(foundAt[w])' = Ahead(foundAt'[w])
    BY <2>5 DEF Ahead
  <2>13. ASSUME NEW w \in View
         PROVE  /\ owed'[w] = Gone(w)' \union Ahead(foundAt'[w])
                /\ Gone(w)' \intersect Ahead(foundAt'[w]) = {}
    <3>1. /\ owed[w] = Gone(w) \union Ahead(foundAt[w])
          /\ Gone(w) \intersect Ahead(foundAt[w]) = {}
      BY DEF CInv, Conserved
    <3>2. CASE w = v
      BY <2>3, <2>5, <2>11, <3>1, <3>2
    <3>3. CASE w # v
      BY <2>5, <2>11, <3>1, <3>3
    <3> QED
      BY <3>2, <3>3
  <2>14. ASSUME NEW k \in Loop, NEW m \in Loop, k # m, on[k] = on[m]
         PROVE  passed'[k] \intersect passed'[m] = {}
    <3>1. passed[k] \intersect passed[m] = {}
      BY <2>14 DEF CInv, Conserved
    <3>2. r \notin Gone(v)
      BY <1>t, <2>3, <2>5 DEF CInv, Conserved
    <3>3. \A n \in Loop : on[n] = v => r \notin passed[n]
      BY <3>2 DEF Gone
    <3> QED
      BY <2>5, <2>14, <3>1, <3>3
  <2>15. Conserved'
    BY <2>5, <2>12, <2>13, <2>14 DEF Conserved
  <2> QED
    BY <2>6, <2>7, <2>8, <2>10, <2>15 DEF CInv
<1> QED
  BY <1>1, <1>2

(* A copy is nobody's view yet.                                            *)
LEMMA CopyStep ==
  ASSUME CInv, NEW v \in View, NEW w \in View, Copy(v, w)
  PROVE  CInv'
<1>1. /\ foundAt[v] # Absent /\ foundAt[w] = Absent
      /\ foundAt' = [foundAt EXCEPT ![w] = foundAt[v]]
      /\ owed' = [owed EXCEPT ![w] = Ahead(foundAt[v])]
      /\ UNCHANGED <<all, on, at, seen, passed>>
  BY DEF Copy
<1>2. /\ foundAt'[w] = foundAt[v] /\ owed'[w] = Ahead(foundAt[v])
      /\ \A u \in View \ {w} : foundAt'[u] = foundAt[u] /\ owed'[u] = owed[u]
  BY <1>1 DEF CInv, TypeOK
<1>3. ASSUME NEW l \in Loop, on[l] = w PROVE at[l] = "new" /\ passed[l] = {}
  BY <1>1, <1>3 DEF CInv, TypeOK, Fresh
<1>4. ASSUME NEW l \in Loop, at[l] # "new" PROVE foundAt'[on[l]] = foundAt[on[l]]
  BY <1>2, <1>3, <1>4 DEF CInv, TypeOK
<1>5. TypeOK'
  BY <1>1, <1>4 DEF CInv, TypeOK, Ahead
<1>6. Fresh' /\ Behind'
  BY <1>1, <1>4 DEF CInv, Fresh, Behind
<1>7. \A l \in Loop : Alone(l)' <=> Alone(l)
  BY <1>1 DEF Alone
<1>8. Own'
  BY <1>1, <1>4, <1>7 DEF CInv, Own
<1>9. \A u \in View : Gone(u)' = Gone(u)
  BY <1>1 DEF Gone
<1>10. Gone(w) = {}
  BY <1>3 DEF Gone
<1>11. \A u \in View : Ahead(foundAt[u])' = Ahead(foundAt'[u])
  BY <1>1 DEF Ahead
<1>12. Conserved'
  BY <1>1, <1>2, <1>9, <1>10, <1>11 DEF CInv, Conserved
<1> QED
  BY <1>5, <1>6, <1>8, <1>12 DEF CInv

(* The invariant is inductive.                                             *)
LEMMA CInvStep == CInv /\ [Next]_vars => CInv'
<1> SUFFICES ASSUME CInv, [Next]_vars PROVE CInv'
  OBVIOUS
<1>1. CASE UNCHANGED vars
  BY <1>1 DEF vars, CInv, TypeOK, Fresh, Behind, Own, Conserved, Alone, Gone, Ahead
<1> QED
  BY <1>1, BeginStep, TestStep, BodyStep, StepStep, CopyStep DEF Next, Run

(* The invariant holds of every state.                                     *)
THEOREM CursorsInvariance == Spec => []CInv
  BY InitCInv, CInvStep, PTL DEF Spec

(* A loop reads nothing but matches and the end, from a view that exists.  *)
THEOREM CursorsTypeCorrect == Spec => []TypeOK
  BY CursorsInvariance, PTL DEF CInv

(* Whatever the loops do, together they move past each match once.         *)
THEOREM SharedOnce == Spec => []SinglePass
<1>1. CInv => SinglePass
  BY DEF CInv, Conserved, SinglePass, Gone
<1> QED
  BY <1>1, CursorsInvariance, PTL

(* What a body is about to read is not anything the loop has read before.  *)
THEOREM NeverAgain == Spec => []SeenOnce
<1>1. CInv => SeenOnce
  <2> SUFFICES ASSUME CInv, NEW l \in Loop, at[l] = "body", NEW p \in seen[l]
               PROVE  p # Npos /\ (foundAt[on[l]] = Npos \/ p < foundAt[on[l]])
    BY DEF SeenOnce
  <2>1. p # Npos
    BY DEF CInv, Behind
  <2>2. CASE foundAt[on[l]] # Npos
    <3>1. p <= foundAt[on[l]] /\ p # foundAt[on[l]]
      BY <2>2 DEF CInv, Behind
    <3>2. p \in Int /\ foundAt[on[l]] \in Int
      <4>1. all \subseteq Int
        BY CursorsAssumption DEF CInv, TypeOK
      <4>2. p \in all /\ foundAt[on[l]] \in all
        BY <2>1, <2>2 DEF CInv, TypeOK
      <4> QED
        BY <4>1, <4>2
    <3> QED
      BY <2>1, <3>1, <3>2
  <2> QED
    BY <2>1, <2>2
<1> QED
  BY <1>1, CursorsInvariance, PTL

(* A loop that nobody disturbs reads everything.                           *)
THEOREM Undisturbed == Spec => []AloneSeesAll
<1>1. CInv => AloneSeesAll
  <2> SUFFICES ASSUME CInv, NEW l \in Loop, Alone(l)
               PROVE  Npos \notin seen[l] /\ (at[l] = "ended" => seen[l] = owed[on[l]])
    BY DEF AloneSeesAll
  <2>1. Npos \notin seen[l]
    BY DEF CInv, TypeOK, Own, Npos
  <2>2. ASSUME at[l] = "ended" PROVE seen[l] = owed[on[l]]
    <3>1. seen[l] = passed[l] /\ foundAt[on[l]] = Npos /\ on[l] \in View
      BY <2>2 DEF CInv, TypeOK, Own
    <3>2. Ahead(Npos) = {}
      BY DEF Ahead, Npos
    <3>3. owed[on[l]] = Gone(on[l])
      BY <3>1, <3>2 DEF CInv, Conserved
    <3>4. ASSUME NEW q PROVE q \in Gone(on[l]) <=> q \in passed[l]
      BY DEF Gone, Alone
    <3>5. Gone(on[l]) = passed[l]
      BY <3>4
    <3> QED
      BY <3>1, <3>3, <3>5
  <2> QED
    BY <2>1, <2>2
<1> QED
  BY <1>1, CursorsInvariance, PTL
=============================================================================
