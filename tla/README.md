# Verification of the pythonic string library

`src/pythonic` is a header-only C++17 library that gives Python's string
functions to UTF-8 text: lazy ranges over matches and over code points, and
functions written on top of them. This directory holds TLA+ models of it, the
TLC configurations that check them, and proofs for TLAPS.

Everything under `src/_vendor` (boost, folly, range-v3, fmt, pcre2, Catch, json)
is third-party. `src/pythonic/utf8.hpp` and `src/pythonic/regexs.hpp` are an
earlier version, commented out except for includes and `npos`.
`src/functional` and `src/string` hold the examples and tests of a book whose
chapters (`*.md`) are rendered by `src/book.js`.

## Inventory

| part | state it keeps | operations | what makes it correct |
|---|---|---|---|
| `utf8/finditer.hpp` `FindView` | four iterators into haystack and needle, `__found_at`, `__nsize`, the lazily computed `__skip`, `__last_needle` | constructor, `next`, `get_skip`, cursor `next`/`get`/`done` | reports the leftmost non-overlapping matches and nothing else, reads only the haystack, ends |
| `utf8/find.hpp`, `index.hpp`, `count.hpp` | a `FindView` | one query each | the answer agrees with the set of all matches |
| `utf8/endswith.hpp` | two slices | one query | agrees with `finditer` except where the match at the end overlaps another; false for a needle that does not fit |
| `utf8/sub.hpp` | `result`, the `int last_pos`, a `FindView` | the loop's body, the copy behind the loop | the haystack with every match replaced once, no unit lost or repeated |
| `utf8/expandtabs.hpp` | `spaces`, a `sub` | the callback | the text behind a tab begins at a multiple of `tab_size` |
| `utf8/center.hpp` | counts in `size_t`, `result`, `int` counters | three loops and an append | as wide as asked for, balanced |
| `utf8/capitalize.hpp` | `result` | straight-line code | only the first byte changes |
| `utf8/code_points.hpp` `CodePointsView` | `__cur`, `__end`, `__code_point` | constructor, `next`, cursor `next`/`get`/`done` | neither drops nor repeats a byte; cuts valid text at code points; ends |
| `len.hpp` | none | `len` | the number of code points |
| `utf8/Utf8Encoded.hpp`, `code_units.hpp` | the wrapped string, view or reference | `utf8_cast`, `to_text`, `code_units` | nobody uses a wrapper of a string that is gone |
| `functional/main.cpp` | local containers | 14 examples | each expression yields what its `CHECK` says |

How they interact: `find`, `index` and `count` build a `FindView` and ask it for
its first position or its length. `sub` runs a `range-for` over one, so that a
search (`FindView::next`) and an iteration that copies and calls `repl`
alternate. `expandtabs` is `sub` with a callback that computes with the
position it is given. Cursors of either view hold a pointer to the view and no
position, so every `++` on any cursor is a call of the view's `next`; both
views are constructed already standing at their first element.

There are no threads, no I/O and no persistence. What is hard here is the
boundary arithmetic (`nsize - 1`, `size_t` differences, `int` positions), state
that survives between the calls of a lazy `next` (`__skip`, `__haystack_cur`,
`__code_point`), the protocol between a lazy range and the loop that consumes
it, termination of the search, and the lifetime of what a view refers to.
`PROJECT.json` lists each of these hazards at its line.

## Modules

`Matches` is the abstract specification: an enumeration of a fixed set of
positions from left to right in which each position leaves `width` units free
behind it and none that could be reported is passed over. It knows nothing of
needles or of the way matches are found.

`FindView` is `FindView<Rng1, Rng2>` with the member names of the code. Iterators
are offsets from `__haystack_begin`. `text` covers the haystack (`0 .. hsize-1`)
and the `nsize` units of memory behind it, with arbitrary contents: what lies
there when the haystack is a slice of a larger string is the rest of that
string. One action is one test of a loop: `LoopTest` the outer `while`, `Scan` the
inner one, `Agree` and `Disagree` an iteration of the `for`; `Construct` and
`Increment` are the two ways into `next`, with their early returns. `get_skip` is
specified by its result, `IsSkip`, and kept in `skip` as the code keeps it in
`__skip`. `hits` is a history variable. `npos` is -1.

`HitsChosen` and `StepsThroughChosen` say which matches those are without the search:
`Chosen` is what taking the leftmost free match each time gives, a set that depends
on the haystack and the needle only.

`SharedCursors` is what several loops see of one lazy range. The search is one
step there, as in `Matches`: by `ThroughChosen` a `++` of `FindView` goes from one
member of `Chosen` to the next, and nothing else of the view bears on where it
goes; a position of a cursor does not exist, as in the code: a cursor is a pointer
to its view (`on`), `*it` reads the view's `__found_at`, `++it` moves the view.
Two loops test, read and increment in any interleaving, begin at any time, and may
run over copies of the view. `seen`, `passed` and `owed` are history: what each
loop has read, what its `++` have moved past, and what each view had to enumerate
when it came to be.

`Queries`, `Sub` and `ExpandTabs` EXTEND `FindView` and drive it. `Queries` puts
memory in front of the slice as well, which `endswith` can reach; the caller of
`endswith` loops over the `FindView` of the same slice and asks in any round of the
loop or behind it, so that what the one says can be compared with what the other
has reported. `Sub` has the
loop of `sub` with an `int` of `IntMax`; `subPc = "overrun"` is the undefined
behaviour of an append that is given memory outside the haystack. The result is
a sequence of origins: which unit of the haystack, or which replacement.
`ExpandTabs` adds the callback's arithmetic and has no steps of its own. `TabSpec`
restricts `Sub` to the one-unit needle `"\t"`; `CallbackFairSpec`, which the run checks,
has the same callback for any needle, so that one run is about both modules.

`CodePoints` is `CodePointsView` over byte values, together with `len`: `Take` is
`next`, `Step` the table of lead bytes, `BoundedNext` the `ranges::next` that stops
at the end.

`Center` is `center`, with `size_t` modulo `SizeMax + 1`, `int` up to `IntMax`
and a string that holds at most `Memory` units before its allocation throws.

`Capitalize` is `capitalize` up to its return statement, with the first byte taken
from behind an empty text and the size of the rest in `size_t`. It asks `Step` and
`Starts` of `CodePoints`, instantiated for a sequence of bytes, where the text and
the result are cut. `Upper` is the table of the C locale, where `std::toupper` gives
back whatever is no lower-case ASCII letter; another locale could change a byte of
a multi-byte code point, and is not an input.

`Ownership` abstracts all of these functions to what they own and what they refer
to. The state is the stack of the caller's variables: string views, strings,
references to strings, and the two kinds of ranges. `on` names the strings whose
bytes a variable refers to: a literal, a string further down the stack, or one
that is gone. One action is one call: it reads the bytes of some arguments, and
if none of these are gone yields a variable. `Copied` is `auto x = w.utf8_encoded`,
`Cast` is `utf8_cast` of an lvalue and `CastMoved` of an rvalue, `Returned` the end
of a function, where everything that refers to a local begins to dangle.
`FindView` is given the needle by way of two copies and keeps an iterator of the
second, so that `FirstSearch`, inside the constructor, reads other bytes than
`LaterSearch`, the `++`. A read of bytes that are gone is recorded in `fault` and
ends the behaviour. What a caller can do wrong alone is left out: variables die
in the reverse order of their declarations, and nothing is declared with what
refers to a temporary of the same statement. `why` is history.

An operator whose comment begins with "Mutant:" is a wrong version of the
operation after it. No specification uses one; `PROJECT.json` names for each
property the one that breaks it.

## Runs

| run | configuration | question |
|---|---|---|
| find_view | `MCFindView.cfg` | is every match reported that should be, are reported matches disjoint, does the inductive invariant of the proof hold; is each `++` a step from one to the next of the positions that haystack and needle alone determine; does the view implement `Matches` for the positions where a match starts inside the haystack; does a loop over it end |
| find_view_inside | `MCFindViewInside.cfg` | violated: a reported match may end behind the haystack if the unit there is one of the needle's |
| queries | `Queries.cfg` | are `find` and `index` leftmost, `count` maximal; does `endswith` agree with a loop over `finditer` that has come to the end of the slice, overlapping matches apart |
| queries_endswith | `QueriesEndswith.cfg` | violated: `endswith` may say that a slice ends with a longer needle |
| sub | `ExpandTabs.cfg` | is the result the haystack with its leftmost matches replaced, at every iteration and at the end, or else `sub` does not return; what can take an append out of the haystack; does a reported match lie inside if the unit behind the haystack is none of the needle's; do the spaces of `expandtabs` fit their buffer, is the text behind the first tab aligned, and behind which of the later ones |
| code_points | `MCCodePoints.cfg` | is the text partitioned, do `code_points` and `len` agree on decodable text, does a loop end |
| code_points_malformed | `MCCodePointsMalformed.cfg` | violated: they differ on malformed text |
| shared_cursors | `SharedCursors.cfg` | what do two loops over one view, or over a view and its copy, read of its matches, and do both end |
| ownership | `Ownership.cfg` | which compositions of the functions refer to bytes that are gone, and which of them read such bytes |
| ownership_usable | `OwnershipUsable.cfg` | violated: what `center` and `capitalize` return may be compared with a text |
| capitalize | `Capitalize.cfg` | is the result cut into code points where the text is, what becomes of an empty text |
| center | `Center.cfg` | width and layout of the result, and the fate of a text wider than asked for |

### What the violations show

* `HitsInside`. `next` lets the window start up to `__haystack_end`
  (`finditer.hpp:58`), where folly's search, which it is taken from, stops
  `nsize - 1` units earlier (`FBString.h:2037`). A match that straddles the end of
  a slice is reported, and `sub` then computes a length that wraps around. It
  takes a slice, or a string without a unit behind it that stops the match; on
  a whole string literal the NUL does, which is why `TerminatedSpec` is correct.
* `EndswithFits`. `endswith.hpp:18` slices `ranges::end - needle_len` off the
  slice, and range-v3 does not check such a bound against the begin. The test at
  `string/main.cpp:250` (kept, but commented out with the old interface) expects
  `false`.
* `LenCountsCodePoints`. `src/pythonic/README.md:5` calls `len` the count of code
  points; on malformed text it is not the number that `code_points` yields.
* `ResultsUsable`. `utf8_cast(T &&)` deduces a reference for the lvalue `result`, so
  that `center.hpp:34` and `capitalize.hpp:22` return a wrapper of a reference to a
  local. The tests at `string/main.cpp:42` and `:47` compare it; that they pass
  depends on what lies on the stack. `sub.hpp:32` moves its result.

`DeadExplained` and `ReadsAlive` hold, and say how far this and one more case
reach. `finditer` keeps an iterator of a copy of its needle, which is gone when it
returns unless the needle is a view: the range that it returns, and `count` and
`sub`, which look for further matches, read dead bytes for a needle that is a
`Text` or a reference. `find` and `index` do not, because the first search is over
before the copy is gone. Nothing in the repository says that a needle may be
a `Text`, and every test uses a literal.

### Bounds and why they are enough

The search compares units for equality only, so two units (three where one must
occur in no needle) distinguish all patterns that matter: the unit agrees or it
does not. Needles of up to 3 units have every possible skip (1, 2, 3) and a last
unit that occurs earlier or not; haystacks of up to 5 have room for two
adjacent matches, two that overlap, a match that follows a skip, and one that
straddles the end. Symmetry over the units is used in `find_view_inside`
only, which has no liveness property. The third unit of `ExpandTabs.cfg` is for
`Terminated`: needles of two different units, and another one behind the haystack.
`IntMax = 4` there leaves haystacks of 5 units, for which `last_pos` wraps around;
`SubReplaces` and `OverrunExplained` are about them as well, as all of their positions
are different `int`s (`Distinct`). Two matches that overlap, for `EndswithAgrees`, take
a needle of two units; the one of three can overlap itself by one unit or by two.
The bytes of `MCCodePoints.cfg` are those on either side of each bound of the lead
byte table and of the continuation range. A text of 5 bytes has room for a
sequence of any one length with another, whole or cut, behind it. `Center.cfg` keeps the
proportions of the real types: text, padding and result fit the memory, the
memory is less than half of `SizeMax`, and `IntMax` is below the memory, so
that a counter can overflow before the memory ends and the other way round.
Two loops of `SharedCursors` are one that is observed and one that disturbs it; a
third could do nothing that the second cannot. Two views are an original and its
copy, three matches allow each loop one before and one behind the other.
Five variables of `Ownership` hold a text, a view of it or of what is
gone, a range of both, what comes of the range, and a result. `Capitalize.cfg` has
the bytes on either side of the bounds of the letters, of the ASCII range, of the
continuation bytes and of the lead bytes.
Every bound is a CONSTANT: `MaxPosition`, `MaxDepth`, `MaxHaystack`, `MaxNeedle`,
`MaxSize`, `MaxTab`, `MaxWidth`, `MaxText`, `MaxPadding`.

### Fairness

The code is sequential and its steps are always taken, hence weak fairness of
`Search`. `WF(Increment)` says that the caller goes on to the end, which a
`range-for`, `ranges::distance` and `ranges::to_vector` do. `Sub` and `Queries` model
the caller, so there the fairness is that of the whole next-state relation.
`LoopsEnd` assumes weak fairness of each loop by itself: a loop that has begun is
run on, and no step of one waits for another.
`Exhausted` and `Covered` are properties of loops over the ranges, not of `next`.

`CHECK_DEADLOCK FALSE` stands where a function returns and nothing follows.
The two views never stop: `++` at the end is a step that changes nothing
(`FindView`) or keeps the code point empty (`CodePoints`).

## Proofs

The theorems hold for every alphabet, every size and any number of loops, views
and variables; the assumptions are the ones named in the modules: the bounds are
naturals, bytes are in 0 .. 255, `IntMax` is a natural, `Tab` is a unit and `tab_size`
not 0, the view that is constructed is one of the views, and, for `center`, text
and padding fit the memory and the memory fits `size_t`.

**FindView.** The inductive invariant is `TypeOK /\ SearchInv /\ HitsDisjoint /\
NoMatchMissed`. `NoMatchMissed` alone is not inductive: that a mismatch may move the
window by `__skip` needs the last unit of the window to agree with the needle's
(which `Scan` established some steps earlier) and the stored skip to be the
right one (established by an earlier `next`); `SearchInv` says so. The key lemma is
`SkipLosesNothing`: a match strictly between `i` and `i + s` would put a unit of the
needle, which `IsSkip` says differs from the last one, where the text has the
last one. From the invariant follow `TypeCorrect`, `Disjointness`, `Completeness`;
`Refinement` shows that completing a comparison is `Matches!Report` (that nothing
free lies to the left is `NoMatchMissed`), leaving `next` without a match is
`Matches!Finish`, and every other step stutters. `TerminationSuffices`, `InsideWhenTerminated`
and `TerminatedRefinement` add that a straddling match would need the unit behind
the haystack in the needle.

*Termination of `next`, up to fairness.* `Advances` says that a step moves the window
to the right, or goes deeper into the loops at the same window, or compares one
unit more. For `Increment` this needs that the last match is at `i` and `cur` behind
it, for `Disagree` that a skip is never 0, both in `SearchInv`. Since `TypeOK` bounds
all three, `Rank`, which puts them into one number, grows with each step and is at
most `RankBound`: `StepsBounded`. `SkipDetermined` shows that `get_skip`, which the model
specifies by its result, has one whenever it is asked, and only one, so that
`Disagree` is never blocked. What remains of `Exhausted` is that steps are taken.

*What is enumerated.* `Chosen` is defined by a condition on itself, the membership of
a position by that of the positions in front of it. That there is such a set, and
only one, are `ChosenExists` and `ChosenUnique`, by induction over positions.
The induction theorems of the library take a predicate as a parameter, which no
prover here can instantiate; `LeastElement`, that a set of naturals up to a bound
has a least member, takes a set instead and follows from the well-foundedness of
strict inclusion among the subsets of a finite set. `Determined` (`HitsChosen`) then
follows from the invariant, as `hits` satisfies that condition up to the frontier,
and `ThroughChosen` (`StepsThroughChosen`) from `HitsChosen` before and after the step.

**CodePoints.** The invariant is `TypeOK`, the position of the current code point,
`Partition` and `SplitsAtStarts`. One lemma each treats `Take` at the end and before
it; `TakeWhole` shows that a step over a decodable text lands on the next byte
that `len` counts. `LenIsCount` compares two cardinalities: `from` is a bijection of
`seen` to `Starts` once the range is at its end.

**Center.** `ContentInv` says what the result consists of at each of the five
statements, in terms of the loop counter: with it the width and the layout of a
finished result are arithmetic. `GapFilled` shows that the three counts make up
the gap however the divisions round, `GapWraps` what the gap is when `size_t`
wraps around, `Balance` that the right side gets at most one padding more than
the left. `WideNever` follows because a finished result would be longer than the
memory; `Returns` needs `RoomForRound`, that before the last round of a loop there
is room for one more.

**Sub.** The steps of the search are those of `FindView`, so its invariant carries
over. Added to it are that the result is built up to `last_pos`, which is the end
of the last match that has been replaced, and that the search is at most one
match ahead of it. `SubExact` describes the result by the set of the origins of its
units and their order. `Terminated` and `hsize <= IntMax` are hypotheses of
it, not assumptions: without the first a match may straddle the end and without
the second `last_pos` wraps around.

`SubRewrites` is about the sequence itself: `result` is the recursive `Rewritten[0]`
whenever `sub` returns, of a haystack that is terminated or not. To the provers a
recursive function is a CHOOSE; `RewritingExists` shows by induction from the right
(`DownwardInduction`) that there is a function that satisfies its equation, and
`RewrittenStays` that units without a match among them are copied one by one. The
invariant, `RewrittenInv`, is that `result` followed by `Rewritten` from `last_pos` on is
`Rewritten[0]` while `last_pos` is a position of the haystack. `FollowInv` says where
`last_pos` is: behind all matches but the one just found, or, when that is
replaced, at the position of the search, as an `int` (`ToInt`). This position is behind
the haystack after a match that straddles the end; then no match is left, and the
append behind the loop does not return. A position that has wrapped around is
negative (`ToIntInside`), so that the next append does not return either
(`PlaceKept`). Neither is a hypothesis, therefore: `SubRewrites` has only `Distinct`,
that the haystack is not so large that two of its positions are the same `int`. In
a larger one `sub` can return with a wrong result. `Overruns` says the converse,
what it takes for `sub` to read outside, and `SubInBounds` that a terminated haystack
that an `int` can hold has nothing of the kind.

**ExpandTabs** (in `SubProofs`). From `Sub`: the first `"repl"` of the result stands at the index of
its position, as all in front of it are units, and the arithmetic of quotients
does the rest. `TabsAligned` goes on to the later tabs: the sum of a tab's
position and its width is always a multiple of `tab_size`, so that the distance
between the text behind two tabs is one just if the position behind the first of
them is (`MultipleLeft`). That is what the callback misses by not knowing of the
spaces: behind a tab that became more than one of them, the next one is out of
step with it.

**Queries.** `Leftmost` follows from completeness of the search, and so does
`EndAgrees` (`LastPlace`): if the needle occurs at the last place where it fits and the
loop has passed that without reporting it, a reported match takes up its begin, and
where two matches overlap the needle agrees with itself at their distance.
`Maximal` needs that no set of matches that are apart is larger than `hits`:
each match of such a set is charged to the reported one that it overlaps or
is, the last that starts at or before it, which is an injection.

**SharedCursors.** The invariant relates each loop to where its view stands now:
what a loop has read is not in front of it (`Behind`), what it has moved past is
what it has read if nobody else moves the view (`Own`), and what a view had to
enumerate is either ahead of it or moved past by just one loop (`Conserved`).

**Ownership.** `TypeOK`, `DeadExplained` and `ReadsAlive` are inductive together.
`FailsKeeps` and `YieldsKeeps` say what is to be known of a call, `FindViewReads` is the
one fact about the library that carries the argument: a `FindView` refers to a
local only if its needle is no view. What remains is one step per function.

**Capitalize.** The invariant, `CapInv`, says byte by byte what the result is made of.
`UpperKeeps` is the fact about bytes: `std::toupper` of the model leaves a byte in its
row of the lead byte table, and a continuation byte one. `EmptyUndefined` needs the
wrap-around of `size - 1`, and that `size_t` is wider than any text; the run has it as
part of `CutsKept`, which asks for a result as long as the text.

**Steps.** `SubAdvancing`, `QueryAdvancing` and `Forward` are for `sub`, the queries
and `code_points` what `Advances` is for the search: each step moves on or
is the last.

Every invariant that a passing run checks is stated by a theorem, and so are
`StepsThroughChosen` and the refinement of `Matches`. Some theorems state what no run
lists: `HitsChosen`, `EmptyNeverReturns` and `SubInBounds`, which sum up properties
that are checked, `Advances` and the bounds on steps, which are about every step of
the code. Only model-checked is that loops end (`Exhausted`, `Covered`, `SubEnds`,
`QueryEnds`, `LoopsEnd`): liveness
under fairness is out of the provers' reach. What the theorems above say of it is
that no step runs in place and that a loop over a `FindView` has a bounded number of
them. The four violations are counterexamples and need no proof.

## Not modelled

* The examples of `functional/main.cpp`: each is one expression over containers of
  the standard library or of range-v3. The loop of 013 erases from a map, but
  runs over a copy of the keys that is made before it.
* Assignments to the caller's strings, and temporaries that die at the end of their
  statement while a view of them is kept: errors of a caller, not of the library.
* The read in front of an empty needle (`finditer.hpp:104`): its value is not used.
* Template constraints and overload selection: compile time.
* `center` with an empty padding and `expandtabs` with a `tab_size` of 0 divide by
  zero at once; they are not inputs of the models.
* A `start` behind the end of the haystack, and an `end` before `start`: range-v3
  asserts some of these and leaves the rest undefined.
* The book build and the commented-out code.
* The vendored libraries: nearly all of the lines under `src` are theirs. The models
  stand for what the library's own code does with them, `fbstring::append` and
  `view::slice` without checks of their arguments above all.

## Possible extensions

All of the library's own functions are modelled. What could be added is an
`Ownership` in which the caller assigns to its strings while views of them are in
use, and a bound on the number of steps of `sub` and of `SharedCursors` like the one
`StepsBounded` has for the search.
