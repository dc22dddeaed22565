--------------------------------- MODULE Lists ---------------------------------
(***************************************************************************)
(* The client's paged lists: a search box whose word reaches the query after  *)
(* a quiet moment, filters and the page in the URL, a page that is kept while  *)
(* the next one is fetched, and on three of them rows to tick and one action   *)
(* for all that are ticked.  A colleague changes the rows meanwhile.          *)
(***************************************************************************)
EXTENDS Naturals, FiniteSets, FiniteSetsExt

CONSTANTS
  NumRows,   \* the rows, in the order of the list
  Named,     \* those the word of the search box finds
  PageSize,
  MaxTaps    \* bound: what the user and the colleague do

ListsAssumption == NumRows \in Nat /\ PageSize \in Nat \ {0} /\ MaxTaps \in Nat

Rows == 1..NumRows

(***************************************************************************)
(*   search    the box: its word is asked for when it has been quiet, as it is    *)
(*             typed, or not at all: the rows fetched are searched ("here")   *)
(*   address   the word and the page live in the URL                          *)
(*   filters   there is a filter beside the box                              *)
(*   keeps     the last answer stays on screen until the next one (keepPreviousData) *)
(*   pager     it is there "always", "beyond" one page, beyond one page and     *)
(*             while the page has rows ("filled"), or "never"               *)
(*   selects   select-all "adds" the page to the basket or "replaces" it      *)
(*   anyRow    every row can be ticked, not only an open or unmatched one      *)
(*   acts      on the "basket", or on the part of it on this "page"           *)
(*   empties   the basket after a "success", "whatever" came of it, or when   *)
(*             the dialog is "closed"                                       *)
(***************************************************************************)
List == [search : {"quiet", "typed", "here", "none"}, address : BOOLEAN, filters : BOOLEAN,
         keeps : BOOLEAN, pager : {"always", "beyond", "filled", "never"}, basket : BOOLEAN,
         selects : {"adds", "replaces"}, anyRow : BOOLEAN, acts : {"basket", "page"},
         empties : {"success", "whatever", "closed"}]

CompaniesListPage ==
  [search |-> "quiet", address |-> TRUE, filters |-> TRUE, keeps |-> TRUE,
   pager |-> "beyond", basket |-> TRUE, selects |-> "adds",
   anyRow |-> TRUE, acts |-> "basket", empties |-> "success"]
DealsListPage ==
  [search |-> "quiet", address |-> TRUE, filters |-> TRUE, keeps |-> TRUE,
   pager |-> "beyond", basket |-> TRUE, selects |-> "replaces",
   anyRow |-> FALSE, acts |-> "basket", empties |-> "whatever"]
SentMailTab ==
  [search |-> "quiet", address |-> TRUE, filters |-> TRUE, keeps |-> FALSE,
   pager |-> "filled", basket |-> TRUE, selects |-> "replaces",
   anyRow |-> FALSE, acts |-> "page", empties |-> "closed"]
OrgList ==
  [CompaniesListPage EXCEPT !.address = FALSE, !.filters = FALSE, !.keeps = FALSE,
                            !.pager = "always", !.basket = FALSE]
ContactsPage == [OrgList EXCEPT !.search = "here", !.filters = TRUE, !.keeps = TRUE, !.pager = "never"]
InvoicesList == [OrgList EXCEPT !.search = "typed", !.filters = TRUE, !.pager = "never"]
EmailHistorySection == [OrgList EXCEPT !.search = "none", !.pager = "never"]
CampaignsList == EmailHistorySection
CompanyActivityTab == EmailHistorySection

Lists ==
  {CompaniesListPage, DealsListPage, SentMailTab, OrgList, ContactsPage, InvoicesList,
   EmailHistorySection, CampaignsList, CompanyActivityTab}

VARIABLES
  list,
  word,      \* the box holds the word
  quiet,     \* and so did it a quiet moment ago: this is what is asked
  address,   \* and so does the URL
  narrow,    \* the filter: open, unmatched
  page,
  there,     \* the rows of the server
  fit,       \* those that are open, or unmatched
  seen,      \* the answer on screen
  ticked,
  meant,     \* ticked and not unticked, whatever became of it
  dialog,    \* rows the open dialog is about; {}: none is open
  flight,    \* rows the action under way is still to reach
  left,      \* the user left a dialog at work
  shrunk,    \* rows went away
  hasty,     \* the user paged by an answer to another question
  undone,    \* rows the action changed after a colleague had decided them
  taps

listVars == <<list, word, quiet, address, narrow, page, there, fit, seen, ticked, meant, dialog,
              flight, left, shrunk, hasty, undone, taps>>
boxVars == <<word, quiet, address, narrow, page, hasty>>
serverVars == <<there, fit, shrunk>>
basketVars == <<ticked, meant, dialog, flight, left, undone>>

Answer == [rows : SUBSET Rows, fit : SUBSET Rows, total : Nat, to : BOOLEAN \X BOOLEAN]

ListsTypeOK ==
  /\ list \in List /\ {word, quiet, address, narrow, left, shrunk, hasty} \subseteq BOOLEAN
  /\ {there, fit, ticked, meant, dialog, flight, undone} \subseteq SUBSET Rows
  /\ seen \in Answer /\ {page, taps} \subseteq Nat

Tap == taps < MaxTaps /\ taps' = taps + 1

-----------------------------------------------------------------------------
Found(w, n) == {r \in there : (w => r \in Named) /\ (n => r \in fit)}
Rank(r, S) == Cardinality({s \in S : s < r})
OnPage(S, p) == {r \in S : Rank(r, S) \in p * PageSize .. p * PageSize + PageSize - 1}

Asked ==
  LET all == Found(quiet /\ list.search # "here", narrow)
      rows == OnPage(all, page)
  IN  [rows |-> rows, fit |-> rows \cap fit, total |-> Cardinality(all),
       to |-> <<quiet, narrow>>]

Fetch ==
  /\ seen # Asked /\ seen' = Asked
  /\ UNCHANGED <<list, boxVars, serverVars, basketVars, taps>>

\* The rows on screen.
Shown == IF list.search = "here" /\ quiet THEN seen.rows \cap Named ELSE seen.rows

PageCount == Max({1, (seen.total + PageSize - 1) \div PageSize})
Pager ==
  CASE list.pager = "always" -> TRUE
    [] list.pager = "never"  -> FALSE
    [] list.pager = "beyond" -> seen.total # 0 /\ PageCount > 1
    [] list.pager = "filled" -> seen.rows # {} /\ PageCount > 1

Nothing == [rows |-> {}, fit |-> {}, total |-> 0, to |-> <<FALSE, FALSE>>]

\* Another question: its answer is not here yet.
AskAnew == seen' = IF list.keeps \/ <<quiet, narrow, page>>' = <<quiet, narrow, page>> THEN seen ELSE Nothing

OnList == dialog = {}    \* a modal is in the way otherwise

TypeWord ==
  /\ OnList /\ list.search # "none" /\ Tap /\ word' = ~word
  /\ quiet' = IF list.search = "typed" THEN word' ELSE quiet
  /\ page' = IF list.address THEN page ELSE 0
  /\ UNCHANGED <<list, address, narrow, hasty, serverVars, basketVars>>
  /\ AskAnew

\* The debounced word lands in the URL, unless it is there already.
Debounced ==
  /\ quiet # word /\ quiet' = word
  /\ IF list.address /\ address # word THEN address' = word /\ page' = 0
                                       ELSE UNCHANGED <<address, page>>

LandsInUrl ==
  /\ Debounced
  /\ UNCHANGED <<list, word, narrow, hasty, serverVars, basketVars, taps>>
  /\ AskAnew

ChooseFilter ==
  /\ OnList /\ list.filters /\ Tap
  /\ narrow' = ~narrow /\ page' = 0
  /\ UNCHANGED <<list, word, quiet, address, hasty, serverVars, basketVars>>
  /\ AskAnew

ClearFilters ==
  /\ OnList /\ list.address /\ (word \/ narrow) /\ Tap
  /\ word' = FALSE /\ address' = FALSE /\ narrow' = FALSE /\ page' = 0
  /\ UNCHANGED <<list, quiet, hasty, serverVars, basketVars>>
  /\ AskAnew

\* The link to the bare page, which leaves the box as it is.
Sidebar ==
  /\ OnList /\ list.address /\ Tap
  /\ address' = FALSE /\ narrow' = FALSE /\ page' = 0
  /\ UNCHANGED <<list, word, quiet, hasty, serverVars, basketVars>>
  /\ AskAnew

NextPage ==
  /\ OnList /\ Pager /\ page + 1 < PageCount /\ Tap
  /\ page' = page + 1
  /\ hasty' = (hasty \/ seen.to # <<quiet, narrow>>)
  /\ UNCHANGED <<list, word, quiet, address, narrow, serverVars, basketVars>>
  /\ AskAnew

PreviousPage ==
  /\ OnList /\ Pager /\ page > 0 /\ Tap
  /\ page' = page - 1
  /\ UNCHANGED <<list, word, quiet, address, narrow, hasty, serverVars, basketVars>>
  /\ AskAnew

-----------------------------------------------------------------------------
Tickable == IF list.anyRow THEN seen.rows ELSE seen.fit
OfBasket == OnList /\ list.basket /\ Tap /\ UNCHANGED <<list, boxVars, serverVars, seen, left, undone>>

ToggleOne(r) ==
  /\ OfBasket /\ r \in Tickable
  /\ ticked' = IF r \in ticked THEN ticked \ {r} ELSE ticked \cup {r}
  /\ meant' = IF r \in ticked THEN meant \ {r} ELSE meant \cup {r}
  /\ UNCHANGED <<dialog, flight>>

\* A mutant of the next: the rows of other pages go.
JustThisPage == Tickable

\* The basket with this page's rows.
WithPage == IF list.selects = "adds" THEN ticked \cup Tickable ELSE Tickable
WithoutPage == IF list.selects = "adds" THEN ticked \ Tickable ELSE {}

SelectPage ==
  /\ OfBasket /\ Tickable # {}
  /\ IF Tickable \subseteq ticked
     THEN ticked' = WithoutPage /\ meant' = meant \ Tickable
     ELSE ticked' = WithPage /\ meant' = meant \cup Tickable
  /\ UNCHANGED <<dialog, flight>>

ClearBasket ==
  /\ OfBasket /\ ticked # {}
  /\ ticked' = {} /\ meant' = {}
  /\ UNCHANGED <<dialog, flight>>

\* What the action is about: all the bar counts, or those of them on this page.
Meant == IF list.acts = "page" THEN seen.fit \cap ticked ELSE ticked

OpenDialog ==
  /\ OfBasket /\ Meant # {}
  /\ dialog' = Meant
  /\ UNCHANGED <<ticked, meant, flight>>

CloseDialog ==
  /\ dialog # {} /\ Tap
  /\ dialog' = {} /\ left' = (left \/ flight # {})
  /\ IF list.empties = "closed" THEN ticked' = {} ELSE UNCHANGED ticked
  /\ UNCHANGED <<list, boxVars, serverVars, seen, meant, flight, undone>>

Confirm ==
  /\ dialog # {} /\ flight = {} /\ Tap
  /\ flight' = dialog
  /\ UNCHANGED <<list, boxVars, serverVars, seen, ticked, meant, dialog, left, undone>>

\* One row at a time reaches the server, which does not ask whether it is still open.
Reaches(r) ==
  /\ r \in flight /\ flight' = flight \ {r}
  /\ \/ /\ ~list.anyRow /\ r \in there
        /\ fit' = fit \ {r} /\ shrunk' = TRUE
        /\ undone' = IF r \in fit THEN undone ELSE undone \cup {r}
     \/ UNCHANGED <<fit, shrunk, undone>>     \* refused, or a mail sent to a company
  /\ IF flight' = {}
     THEN \/ dialog' = {} /\ ticked' = {} /\ meant' = meant \ (ticked \cup dialog)
          \/ list.empties # "whatever" /\ UNCHANGED <<dialog, ticked, meant>>    \* it failed
     ELSE UNCHANGED <<dialog, ticked, meant>>
  /\ UNCHANGED <<list, boxVars, there, seen, left, taps>>

-----------------------------------------------------------------------------
\* A colleague wins the deal or files the mail, or deletes it.
ColleagueDecides(r) ==
  /\ r \in fit /\ Tap /\ fit' = fit \ {r} /\ shrunk' = TRUE
  /\ UNCHANGED <<list, boxVars, there, seen, basketVars>>

ColleagueDeletes(r) ==
  /\ r \in there /\ Tap /\ there' = there \ {r} /\ shrunk' = TRUE
  /\ UNCHANGED <<list, boxVars, fit, seen, basketVars>>

ListsInit ==
  /\ list \in Lists
  /\ word = FALSE /\ quiet = FALSE /\ address = FALSE /\ narrow = FALSE /\ page = 0
  /\ there = Rows /\ fit = Rows
  /\ seen = Nothing /\ hasty = FALSE
  /\ ticked = {} /\ meant = {} /\ dialog = {} /\ flight = {}
  /\ left = FALSE /\ shrunk = FALSE /\ undone = {} /\ taps = 0

ListsNext ==
  \/ Fetch \/ TypeWord \/ LandsInUrl \/ ChooseFilter \/ ClearFilters \/ Sidebar
  \/ NextPage \/ PreviousPage \/ SelectPage \/ ClearBasket \/ OpenDialog \/ CloseDialog \/ Confirm
  \/ \E r \in Rows : ToggleOne(r) \/ Reaches(r) \/ ColleagueDecides(r) \/ ColleagueDeletes(r)

ListsSpec == ListsInit /\ [][ListsNext]_listVars

-----------------------------------------------------------------------------
(***************************************************************************)
(* No list strands the user: a settled list that shows nothing has nothing, or  *)
(* offers the way back, unless rows went away under it or the user paged by    *)
(* the answer to what was asked before.  The page is reset in a render of its *)
(* own, after the word, the filter and the page came together from three      *)
(* places.  The contacts are the exception: only the first page is searched.  *)
(***************************************************************************)
NotStranded ==
  /\ list # ContactsPage /\ ~shrunk /\ ~hasty
  /\ seen = Asked /\ quiet = word /\ Shown = {} /\ Found(word, narrow) # {}
  => Pager /\ page > 0

(***************************************************************************)
(* What was ticked stays in the basket through paging, searching and a failed *)
(* send, until the user unticks it or the send took it.  Only the basket of    *)
(* the companies promises that; select-all on another page empties the others.*)
(***************************************************************************)
BasketSurvives == list = CompaniesListPage /\ ~left => meant \subseteq ticked

(***************************************************************************)
(* The bulk action of the deals only ever marks open deals as lost.           *)
(***************************************************************************)
OnlyOpenAreLost == list = DealsListPage => undone = {}

=============================================================================
