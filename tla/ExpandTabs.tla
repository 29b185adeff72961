----------------------------- MODULE ExpandTabs -----------------------------
(***************************************************************************)
(* expandtabs of pythonic/utf8/expandtabs.hpp: sub of "\t" by a callback   *)
(* that returns a view of as many of tab_size spaces as bring the position *)
(* of the tab IN THE HAYSTACK to a multiple of tab_size.                   *)
(***************************************************************************)
EXTENDS Sub

CONSTANTS
  Tab,          (* the code unit "\t"                                      *)
  MaxTab        (* bound on tab_size                                       *)

ASSUME TabAssumption == Tab \in Char /\ MaxTab \in Nat \ {0}

VARIABLE
  tabSize       (* tab_size; a tab_size of 0 is a division by zero         *)

tabVars == <<allVars, tabSize>>

(* Mutant: a tab at a multiple of tab_size is replaced by nothing.         *)
SpacesCountShort(p) ==
  LET col == ToInt((p + tabSize - 1) \div tabSize) IN col * tabSize - p

(* Mutant: the column of the tab is not taken into account.                *)
SpacesCountFixed(p) == LET col == ToInt(p \div tabSize) IN (col + 1) * tabSize

(* spaces_count, with the int col in between.                              *)
SpacesCount(p) == LET col == ToInt(p \div tabSize) IN (col + 1) * tabSize - p

TabInit ==
  /\ SubInit
  /\ nsize = 1 /\ needle[0] = Tab
  /\ tabSize \in 1 .. MaxTab

(* No step but sub's own: the callback is called in Replace, and the view  *)
(* it returns is of SpacesCount(k) units for <<"repl", k>>.                *)
TabNext == SubNext /\ UNCHANGED tabSize

TabSpec == TabInit /\ [][TabNext]_tabVars

(* The same callback in a sub of any needle: a position is all that it is  *)
(* given.                                                                  *)
CallbackInit == SubInit /\ tabSize \in 1 .. MaxTab

CallbackFairSpec == CallbackInit /\ [][TabNext]_tabVars /\ WF_tabVars(TabNext)
-----------------------------------------------------------------------------
(* The width of what the n-th append of the result brings.                 *)
Width(n) == IF result[n][1] = "repl" THEN SpacesCount(result[n][2]) ELSE 1

TabsIn(n) == {k \in 1 .. n : result[k][1] = "repl"}

(* The view the callback returns is not empty and does not reach behind    *)
(* the tab_size spaces: the count is neither zero nor wrapped around.      *)
SpacesFit ==
  hsize <= IntMax => \A n \in TabsIn(Len(result)) : Width(n) \in 1 .. tabSize

(* The m-th append brings a tab, and none between it and the n-th does.    *)
Previous(m, n) == m \in TabsIn(n - 1) /\ \A k \in TabsIn(n - 1) : k <= m

(* The text behind the first tab begins at a multiple of tab_size: what is *)
(* in front of the tab is one wide each.  Behind each tab after it that is *)
(* so just if it is behind the tab before and the POSITION IN THE HAYSTACK *)
(* behind that one is a multiple too: what is between the two beginnings,  *)
(* one wide each and the n-th tab, is then a multiple, and otherwise not.  *)
(* The position does not count the spaces that stand for earlier tabs.     *)
TabsDrift ==
  hsize <= IntMax =>
    \A n \in TabsIn(Len(result)) :
      /\ TabsIn(n - 1) = {} => (n - 1 + Width(n)) % tabSize = 0
      /\ \A m \in TabsIn(n - 1) : Previous(m, n) =>
           ((n - m - 1 + Width(n)) % tabSize = 0
              <=> (result[m][2] + nsize) % tabSize = 0)
=============================================================================
