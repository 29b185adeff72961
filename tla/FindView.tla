------------------------------- MODULE FindView -------------------------------
(***************************************************************************)
(* The lazy match range of pythonic/utf8/finditer.hpp.  A FindView walks a *)
(* haystack with a Boyer-Moore-like search and holds the position of the   *)
(* current match; its cursors hold no state of their own, so that every    *)
(* ++ on any of them is a call of FindView::next.                          *)
(*                                                                         *)
(* Iterators are offsets from __haystack_begin.  The haystack is the       *)
(* range 0 .. hsize-1 of text; what lies in memory behind it (the rest of  *)
(* the string a slice was cut from, or whatever follows the buffer) is     *)
(* the range hsize .. hsize+nsize-1, and holds arbitrary code units.       *)
(***************************************************************************)
EXTENDS Integers

CONSTANTS
  Char,         (* code units                                              *)
  MaxHaystack,  (* bound on ranges::size(haystack)                         *)
  MaxNeedle     (* bound on ranges::size(needle)                           *)

ASSUME SizesAssumption == MaxHaystack \in Nat /\ MaxNeedle \in Nat

VARIABLES
  text,         (* memory from __haystack_begin on                         *)
  hsize,        (* __haystack_end - __haystack_begin                       *)
  needle,       (* __needle                                                *)
  nsize,        (* __nsize                                                 *)
  cur,          (* __haystack_cur                                          *)
  foundAt,      (* __found_at                                              *)
  skip,         (* __skip, 0 until it is first needed                      *)
  pc,           (* where next() or the constructor is                      *)
  i,            (* the local i of next()                                   *)
  j,            (* the local j of next()                                   *)
  hits          (* history: every position next() has reported             *)

inputs == <<text, hsize, needle, nsize>>
vars == <<inputs, cur, foundAt, skip, pc, i, j, hits>>

(* std::string::npos                                                       *)
Npos == -1

(* __last_needle.  For an empty needle the code reads the unit before it;  *)
(* the value is not used then.                                             *)
LastNeedle == needle[nsize - 1]

(* Mutant: the shift ignores earlier occurrences of the last unit.         *)
IsSkipWhole(s) == s = nsize

(* Mutant: the loop of get_skip counts from zero.                          *)
IsSkipZero(s) == s = 0

(* The result of the loop of get_skip: the distance from the last unit of  *)
(* the needle back to its previous occurrence, or nsize if there is none.  *)
IsSkip(s) ==
  /\ s \in 1 .. nsize
  /\ s < nsize => needle[nsize - 1 - s] = LastNeedle
  /\ \A t \in 1 .. s - 1 : needle[nsize - 1 - t] # LastNeedle

(* get_skip: computed once, then kept.                                     *)
GetSkip(s) == IF skip = 0 THEN IsSkip(s) ELSE s = skip

(* Every offset next() computes stays within the haystack and the nsize    *)
(* units behind it, and what it reports is an offset of the haystack.      *)
TypeOK ==
  /\ hsize \in 0 .. MaxHaystack
  /\ nsize \in 0 .. MaxNeedle
  /\ text \in [0 .. hsize + nsize - 1 -> Char]
  /\ needle \in [0 .. nsize - 1 -> Char]
  /\ cur \in 0 .. hsize + nsize
  /\ foundAt \in -1 .. hsize
  /\ skip \in 0 .. nsize
  /\ pc \in {"construct", "loop", "scan", "compare", "idle"}
  /\ i \in 0 .. hsize + nsize
  /\ j \in 0 .. nsize
  /\ hits \subseteq 0 .. hsize - 1

-----------------------------------------------------------------------------
(* finditer has sliced the haystack and the member initialisers have run.  *)
Init ==
  /\ hsize \in 0 .. MaxHaystack
  /\ nsize \in 0 .. MaxNeedle
  /\ text \in [0 .. hsize + nsize - 1 -> Char]
  /\ needle \in [0 .. nsize - 1 -> Char]
  /\ cur = 0 /\ foundAt = 0 /\ skip = 0
  /\ pc = "construct" /\ i = 0 /\ j = 0
  /\ hits = {}

(* Leaving next() without a match.                                         *)
NotFound == foundAt' = Npos /\ pc' = "idle"

(* Mutant: the search resumes one unit too far to the right.               *)
BeginSearchBeyond == i' = cur + 1 /\ pc' = "loop"

(* Entering the search of next() after its npos guard.                     *)
BeginSearch == i' = cur /\ pc' = "loop"

(* Mutant: a needle longer than the haystack is searched for.              *)
SearchableLong == nsize # 0

(* Neither of the constructor's two early returns is taken.                *)
Searchable == nsize <= hsize /\ nsize # 0

(* The constructor's body: an early return, or a first next().             *)
Construct ==
  /\ pc = "construct"
  /\ \/ ~Searchable /\ NotFound /\ UNCHANGED i
     \/ Searchable /\ BeginSearch /\ UNCHANGED foundAt
  /\ UNCHANGED <<inputs, cur, skip, j, hits>>

(* ++ on a cursor: next() returns at once when the range is exhausted.     *)
Increment ==
  /\ pc = "idle"
  /\ \/ foundAt = Npos /\ UNCHANGED <<i, pc>>
     \/ foundAt # Npos /\ BeginSearch
  /\ UNCHANGED <<inputs, cur, foundAt, skip, j, hits>>

(* Mutant: the outer loop stops short of the last window.                  *)
MoreShort == i + nsize < hsize

(* The condition of the outer while.                                       *)
More == i < hsize

LoopTest ==
  /\ pc = "loop"
  /\ \/ More /\ pc' = "scan" /\ UNCHANGED foundAt
     \/ ~More /\ NotFound
  /\ UNCHANGED <<inputs, cur, skip, i, j, hits>>

(* One test of the inner while: the last unit of the needle against the    *)
(* unit at its place, and the step to the right when they differ.          *)
Scan ==
  /\ pc = "scan"
  /\ \/ /\ text[i + nsize - 1] = LastNeedle
        /\ pc' = "compare" /\ j' = 0
        /\ UNCHANGED <<i, foundAt>>
     \/ /\ text[i + nsize - 1] # LastNeedle
        /\ i' = i + 1
        /\ \/ i + 1 = hsize /\ NotFound
           \/ i + 1 # hsize /\ UNCHANGED <<pc, foundAt>>
        /\ UNCHANGED j
  /\ UNCHANGED <<inputs, cur, skip, hits>>

Report(p, next) == foundAt' = p /\ hits' = hits \union {p} /\ cur' = next

(* Mutant: the end of the match is reported.                               *)
CompleteEnd == Report(i + nsize, i + nsize) /\ pc' = "idle"

(* Mutant: the search resumes one unit behind the start of the match.      *)
CompleteOverlapping == Report(i, i + 1) /\ pc' = "idle"

(* The comparison has come to the end of the needle.                       *)
Complete == Report(i, i + nsize) /\ pc' = "idle"

(* Pedestrian mode: the units at j agree, and either more are to be        *)
(* compared or the match is complete.                                      *)
Agree ==
  /\ pc = "compare"
  /\ text[i + j] = needle[j]
  /\ j' = j + 1
  /\ \/ j + 1 = nsize /\ Complete
     \/ j + 1 # nsize /\ UNCHANGED <<foundAt, cur, hits, pc>>
  /\ UNCHANGED <<inputs, skip, i>>

(* The units at j differ: the window moves on by get_skip().               *)
Disagree ==
  /\ pc = "compare"
  /\ text[i + j] # needle[j]
  /\ \E s \in 0 .. nsize :
       GetSkip(s) /\ skip' = s /\ i' = i + s
  /\ pc' = "loop"
  /\ UNCHANGED <<inputs, cur, foundAt, j, hits>>

(* The steps the code takes by itself once next() is running.              *)
Search == Construct \/ LoopTest \/ Scan \/ Agree \/ Disagree

Next == Search \/ Increment

Spec == Init /\ [][Next]_vars

(* Sequential code runs on; the caller is a range-for (or ranges::distance *)
(* or ranges::to_vector), which increments until the end is reached.       *)
FairSpec == Spec /\ WF_vars(Search) /\ WF_vars(Increment)
-----------------------------------------------------------------------------
(* The needle is found at p, whether or not it ends inside the haystack.   *)
Occurs(p) == \A k \in 0 .. nsize - 1 : text[p + k] = needle[k]

(* What the search can report, and what it is meant to report: the match   *)
(* starts inside the haystack; it also ends inside.                        *)
StartsInside ==
  {p \in 0 .. hsize - 1 : nsize \in 1 .. hsize /\ Occurs(p)}
LiesInside == {p \in StartsInside : p + nsize <= hsize}

(* The haystack reaches to the end of its buffer and the unit behind it    *)
(* (the NUL of a string literal) does not occur in the needle.             *)
Terminated == \A k \in 0 .. nsize - 1 : needle[k] # text[hsize]

(* Everything before this offset has been searched.                        *)
Frontier ==
  IF pc \in {"loop", "scan", "compare"} THEN i
  ELSE IF foundAt = Npos THEN hsize ELSE cur

(* The Boyer-Moore skip loses nothing: every match that starts in the part *)
(* already searched has been reported or overlaps an earlier reported one. *)
(* In particular the reported matches are the leftmost ones.               *)
NoMatchMissed ==
  \A p \in StartsInside :
    p < Frontier => \E q \in hits : q <= p /\ p < q + nsize

(* Only matches are reported, and no two of them share a unit: sub relies  *)
(* on it when it cuts the haystack into pieces.                            *)
HitsDisjoint ==
  /\ hits \subseteq StartsInside
  /\ \A p, q \in hits : p < q => p + nsize <= q

(* What next() relies on at each place: the window is where it may be, the *)
(* units compared so far agree, the kept skip is the right one, and the    *)
(* search is never behind the end of the last match.  Together with TypeOK *)
(* and the two invariants above this is inductive.                         *)
SearchInv ==
  /\ pc = "construct" => cur = 0 /\ i = 0 /\ hits = {} /\ foundAt # Npos
  /\ pc \in {"loop", "scan", "compare"} =>
       foundAt # Npos /\ nsize \in 1 .. hsize /\ cur <= i
  /\ pc = "idle" /\ foundAt # Npos =>
       /\ nsize \in 1 .. hsize
       /\ foundAt \in hits /\ foundAt = i /\ cur = foundAt + nsize
  /\ pc \in {"scan", "compare"} => i < hsize
  /\ pc = "compare" =>
       /\ j < nsize
       /\ text[i + nsize - 1] = LastNeedle
       /\ \A k \in 0 .. j - 1 : text[i + k] = needle[k]
  /\ skip # 0 => IsSkip(skip)
  /\ \A q \in hits : q + nsize <= cur

(* Where an iteration of next() is: its loops, the outer one first.        *)
Place == [construct |-> 0, loop |-> 1, scan |-> 2, compare |-> 3, idle |-> 4]

(* The window moves to the right, or stays and the search is deeper in, or *)
(* is comparing and has one unit more behind it.                           *)
Further ==
  \/ i' > i
  \/ i' = i /\ Place[pc'] > Place[pc]
  \/ i' = i /\ pc' = pc /\ j' > j

(* No step goes back or runs in place: neither ++, nor the skip that is    *)
(* computed once and kept, nor the return to the outer loop behind a       *)
(* failed comparison.  As TypeOK bounds what grows here, a loop over the   *)
(* range takes a bounded number of steps.                                  *)
Advances == [][Further]_vars

(* The matches that lie apart when the leftmost is taken each time: which  *)
(* they are follows from the haystack and the needle, not from the search. *)
Chosen ==
  CHOOSE G \in SUBSET StartsInside :
    \A p \in StartsInside : p \in G <=> \A q \in G : q < p => q + nsize <= p

(* At any time, and in particular at the end, they are what has been       *)
(* reported up to the frontier, so that any two views of the same haystack *)
(* and needle enumerate the same positions.                                *)
HitsChosen == hits = {q \in Chosen : q < Frontier}

(* A reported match lies inside the haystack, as std::search (which the    *)
(* comment in next() names as what it replaces) would have it.             *)
HitsInside == hits \subseteq LiesInside

(* For a terminated haystack it does.                                      *)
TerminatedInside == Terminated => HitsInside

(* Whatever the input, a loop over the range comes to its end.             *)
Exhausted == <>(pc = "idle" /\ foundAt = Npos)

(* The first search has not ended yet: __found_at is still its initial 0.  *)
Searching == hits = {} /\ foundAt # Npos

Outcome == IF Searching THEN -2 ELSE foundAt

(* The first of the chosen positions behind r, or npos if there is none.   *)
NextChosen(r, p) ==
  IF p = Npos THEN \A q \in Chosen : q <= r
  ELSE p \in Chosen /\ r < p /\ \A q \in Chosen : r < q => p <= q

(* Seen from outside, a ++ is one step from a chosen position to the next: *)
(* nothing of the search but the position the view stands at bears on what *)
(* is reported.  SharedCursors is about views that make such steps.        *)
StepsThroughChosen == [][Outcome' # Outcome => NextChosen(Outcome, Outcome')]_vars

(* The range enumerates the matches that start inside the haystack...      *)
Starting == INSTANCE Matches WITH Pending <- -2, occ <- StartsInside,
                              width <- nsize, from <- cur, result <- Outcome
ReportsStartsInside == Starting!Spec

(* ...which are those that lie inside when the haystack is terminated.     *)
Lying == INSTANCE Matches WITH Pending <- -2, occ <- LiesInside,
                           width <- nsize, from <- cur, result <- Outcome
TerminatedInit == Init /\ Terminated
TerminatedSpec == TerminatedInit /\ [][Next]_vars
ReportsLiesInside == Lying!Spec
=============================================================================
