-------------------------------- MODULE MCDesk --------------------------------
(***************************************************************************)
(* TLC's instance of the desk: two or three of everything.                     *)
(***************************************************************************)
EXTENDS Desk, TLC

CONSTANTS MyList, TeamList   \* two to-do lists

\* What the users do, at most, in each part.
DeskTaps ==
  [session |-> 6, checkout |-> 6, plan |-> 6, bulk |-> 7, widgets |-> 4, tour |-> 4, todos |-> 3,
   members |-> 4, tokens |-> 4, owners |-> 4]

PriceOfASeat == [monthly |-> 1, annual |-> 10]

\* The office belongs to the northern company, as Ann does; Ann is in the sales team.
FirmOf == [a \in {"office", "ann", "bob"} |-> IF a = "bob" THEN "south" ELSE "north"]
OfTrade == [i \in {"trade"} |-> {"north"}]
OfBrno == [c \in {"Brno"} |-> {"south"}]
SalesTeam == [u \in {"ann", "bob"} |-> IF u = "ann" THEN "sales" ELSE None]

GridOfTwo == <<"goal", "funnel">>
TwoLists == <<MyList, TeamList>>
StepsOfTour == [overview |-> 2, deals |-> 3]
WaitingStep == [overview |-> 0, deals |-> 2]
OnlyAnnIsCapped == [ann |-> 1, bob |-> None]

Interchangeable == Permutations(Hands)
=============================================================================
