------------------------------- MODULE MCDeals -------------------------------
(***************************************************************************)
(* TLC's instance of the pages around deals: two or three of everything.      *)
(***************************************************************************)
EXTENDS Deals, TLC

\* What the users do, at most, in each part.
DealTaps ==
  [board |-> 3, entry |-> 3, draft |-> 5, card |-> 3, life |-> 2, form |-> 5, list |-> 6, event |-> 4,
   agenda |-> 3, capture |-> 5, autofill |-> 5, stages |-> 3, search |-> 6, reminders |-> 5]

ThreeStages == <<"lead", "offer", "won">>
HitsBefore == [no |-> <<"north", "nova">>, nov |-> <<"nova">>]
HitsAfter == [no |-> <<"nova", "north">>, nov |-> << >>]
NoneOrTwo == {<< >>, <<30, 45>>}

Interchangeable == Permutations(Deals) \cup Permutations(Columns) \cup Permutations(Hands)
=============================================================================
