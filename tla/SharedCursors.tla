---------------------------- MODULE SharedCursors ----------------------------
(***************************************************************************)
(* Loops over one lazy range, the FindView of pythonic/utf8/finditer.hpp   *)
(* (the CodePointsView of code_points.hpp has the same cursors).  A cursor *)
(* holds a pointer to the view and no position of its own: begin() does    *)
(* not go back to the first match, *it is whatever the view stands at, and *)
(* ++it moves the view for every cursor there is.  A copy of a view goes   *)
(* on from where the original stood, and from then on by itself.           *)
(*                                                                         *)
(* A loop is a range-for: test, body, ++.  Loops interleave in any way a   *)
(* caller may write them, nested or by hand.  The search of next() is one  *)
(* step, as in Matches, which FindView refines; all that matters of it     *)
(* here is the set of positions that an undisturbed loop would read.       *)
(***************************************************************************)
EXTENDS Integers

CONSTANTS
  Loop,         (* the loops                                               *)
  View,         (* the views: one is constructed, the rest may be copies   *)
  Original,     (* the one that is constructed                             *)
  MaxPosition   (* bound on the positions of matches                       *)

ASSUME CursorsAssumption == Original \in View /\ MaxPosition \in Nat

VARIABLES
  all,          (* the positions an undisturbed loop reads                 *)
  foundAt,      (* __found_at of each view, Absent before it exists        *)
  on,           (* __rng of each loop's cursor                             *)
  at,           (* where each loop is                                      *)
  seen,         (* history: what the bodies of each loop have read         *)
  passed,       (* history: what the ++ of each loop have moved past       *)
  owed          (* history: what each view had to enumerate at first       *)

vars == <<all, foundAt, on, at, seen, passed, owed>>

Npos == -1
Absent == -2

(* No loop reads anything but a match or the end, and a loop's view exists *)
(* while it runs.                                                          *)
TypeOK ==
  /\ all \subseteq 0 .. MaxPosition
  /\ foundAt \in [View -> {Absent, Npos} \union all]
  /\ on \in [Loop -> View]
  /\ at \in [Loop -> {"new", "test", "body", "step", "ended"}]
  /\ seen \in [Loop -> SUBSET ({Npos} \union all)]
  /\ passed \in [Loop -> SUBSET all]
  /\ owed \in [View -> SUBSET all]
  /\ \A l \in Loop : at[l] # "new" => foundAt[on[l]] # Absent
-----------------------------------------------------------------------------
(* Mutant: the search begins where the last match does.                    *)
FindsAgain(r, p) ==
  LET behind == {q \in all : q >= r}
  IN IF p = Npos THEN behind = {} ELSE p \in behind /\ \A q \in behind : p <= q

(* What a search behind r finds: p is the leftmost match there, or npos.   *)
Finds(r, p) ==
  LET behind == {q \in all : q > r}
  IN IF p = Npos THEN behind = {} ELSE p \in behind /\ \A q \in behind : p <= q

(* What a view standing at r enumerates from there.                        *)
Ahead(r) == IF r < 0 THEN {} ELSE {p \in all : p >= r}

(* The constructor has made the first search.                              *)
Init ==
  /\ all \in SUBSET (0 .. MaxPosition)
  /\ \E first \in {Npos} \union all :
       /\ Finds(-1, first)
       /\ foundAt = [v \in View |-> IF v = Original THEN first ELSE Absent]
  /\ owed = [v \in View |-> IF v = Original THEN all ELSE {}]
  /\ on = [l \in Loop |-> Original] /\ at = [l \in Loop |-> "new"]
  /\ seen = [l \in Loop |-> {}] /\ passed = [l \in Loop |-> {}]

(* Mutant: the end of a match is reported.                                 *)
MoveOnBehind(v) ==
  \/ foundAt[v] = Npos /\ UNCHANGED foundAt
  \/ /\ foundAt[v] # Npos
     /\ \E p \in {Npos} \union all :
          Finds(foundAt[v], p) /\ foundAt' = [foundAt EXCEPT ![v] = p + 1]

(* FindView::next: nothing at the end, otherwise the next match or npos.   *)
MoveOn(v) ==
  \/ foundAt[v] = Npos /\ UNCHANGED foundAt
  \/ /\ foundAt[v] # Npos
     /\ \E p \in {Npos} \union all :
          Finds(foundAt[v], p) /\ foundAt' = [foundAt EXCEPT ![v] = p]

(* Mutant: begin() makes a search.                                         *)
BeginCursorMoving(v) == MoveOn(v)

(* begin_cursor: no search, the constructor has made the first.            *)
BeginCursor(v) == UNCHANGED foundAt

(* A loop begins: it makes a cursor of an existing view.                   *)
Begin(l, v) ==
  /\ at[l] = "new" /\ foundAt[v] # Absent
  /\ on' = [on EXCEPT ![l] = v]
  /\ at' = [at EXCEPT ![l] = "test"]
  /\ BeginCursor(v)
  /\ UNCHANGED <<all, seen, passed, owed>>

(* Mutant: the test is not made.                                           *)
DoneNever(l) == FALSE

(* cursor::done.                                                           *)
Done(l) == foundAt[on[l]] = Npos

(* it != end.                                                              *)
Test(l) ==
  /\ at[l] = "test"
  /\ at' = [at EXCEPT ![l] = IF Done(l) THEN "ended" ELSE "body"]
  /\ UNCHANGED <<all, foundAt, on, seen, passed, owed>>

(* The body reads *it: cursor::get.                                        *)
Body(l) ==
  /\ at[l] = "body"
  /\ at' = [at EXCEPT ![l] = "step"]
  /\ seen' = [seen EXCEPT ![l] = @ \union {foundAt[on[l]]}]
  /\ UNCHANGED <<all, foundAt, on, passed, owed>>

(* ++it: cursor::next.                                                     *)
Step(l) ==
  /\ at[l] = "step"
  /\ at' = [at EXCEPT ![l] = "test"]
  /\ MoveOn(on[l])
  /\ passed' = [passed EXCEPT ![l] = @ \union ({foundAt[on[l]]} \ {Npos})]
  /\ UNCHANGED <<all, on, seen, owed>>

(* A view is copied, as when it is passed by value: the implicit copy      *)
(* constructor takes every member as it is.                                *)
Copy(v, w) ==
  /\ foundAt[v] # Absent /\ foundAt[w] = Absent
  /\ foundAt' = [foundAt EXCEPT ![w] = foundAt[v]]
  /\ owed' = [owed EXCEPT ![w] = Ahead(foundAt[v])]
  /\ UNCHANGED <<all, on, at, seen, passed>>

Run(l) == Test(l) \/ Body(l) \/ Step(l)

Next ==
  \/ \E l \in Loop : Run(l) \/ \E v \in View : Begin(l, v)
  \/ \E v, w \in View : Copy(v, w)

Spec == Init /\ [][Next]_vars

(* A loop that has begun is run on: nothing in it waits for another.       *)
FairSpec == Spec /\ \A l \in Loop : WF_vars(Run(l))
-----------------------------------------------------------------------------
(* No other loop has moved the view of this one.                           *)
Alone(l) == \A k \in Loop \ {l} : on[k] = on[l] => passed[k] = {}

(* However the loops interleave, each view enumerates what it had to just  *)
(* once: a match is moved past by one loop only, none is lost to all of    *)
(* them, and nothing happens to a view by what is done to a copy of it.    *)
SinglePass ==
  /\ \A k, l \in Loop : k # l /\ on[k] = on[l] => passed[k] \intersect passed[l] = {}
  /\ \A v \in View :
       LET gone == UNION {passed[l] : l \in {l \in Loop : on[l] = v}}
       IN /\ owed[v] = gone \union Ahead(foundAt[v])
          /\ gone \intersect Ahead(foundAt[v]) = {}

(* A body may be given a match that another loop has moved the view to     *)
(* since the test, or even the end; but never the same or an earlier match *)
(* a second time, and nothing after the end.                               *)
SeenOnce ==
  \A l \in Loop : at[l] = "body" =>
    \A p \in seen[l] : p # Npos /\ (foundAt[on[l]] = Npos \/ p < foundAt[on[l]])

(* A loop whose view nobody else has moved reads all that the view had to  *)
(* enumerate, and never the end, however many cursors there are: find      *)
(* relies on it when ranges::empty and ranges::front each make their own.  *)
AloneSeesAll ==
  \A l \in Loop : Alone(l) =>
    Npos \notin seen[l] /\ (at[l] = "ended" => seen[l] = owed[on[l]])

(* Every loop that has begun comes to its end, whoever else moves its      *)
(* view.                                                                   *)
LoopsEnd == \A l \in Loop : at[l] = "test" ~> at[l] = "ended"
=============================================================================
