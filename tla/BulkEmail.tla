------------------------------ MODULE BulkEmail ------------------------------
(***************************************************************************)
(* The wizard that mails many companies at once.  A filter is resolved by the  *)
(* server into candidates, all of them ticked; the list is then trimmed by     *)
(* hand.  The industry is typed, and resolved when the typing pauses, whatever *)
(* step the wizard is at by then; every filter starts the ticking anew.        *)
(***************************************************************************)
EXTENDS Naturals, FiniteSets

CONSTANTS
  Companies,
  Addresses,   \* the mailable addresses: a company with none cannot be ticked
  OfCompany,   \* whose an address is
  Contacts,    \* addresses of a person, ticked before the company's own
  Industries, Cities,
  InIndustry, InCity,   \* which companies a filter lists
  None,
  MaxTaps      \* bound: what the user does

BulkEmailAssumption ==
  /\ OfCompany \in [Addresses -> Companies] /\ Contacts \subseteq Addresses
  /\ InIndustry \in [Industries -> SUBSET Companies] /\ InCity \in [Cities -> SUBSET Companies]
  /\ None \notin Industries \cup Cities /\ MaxTaps \in Nat
  /\ None \notin [industry : Industries \cup {None}, city : Cities \cup {None}]

VARIABLES
  open, step,
  handpicked,   \* opened for companies picked in the list: no filters
  filter,     \* what the candidates were asked for
  typed,      \* the industry in the field
  candidates, \* companies, or None while they are being resolved
  selected,   \* addresses ticked
  flights,    \* filters being resolved
  latest,     \* the one whose answer is heeded, or None
  worded,     \* subject and text are there
  sending,    \* the addresses on their way, or None
  result,     \* the report of a campaign is shown
  dropped,    \* addresses unticked by hand since the filter last changed
  taps

filterVars == <<filter, typed, candidates, flights, latest>>
bulkVars == <<open, step, handpicked, filterVars, selected, worded, sending, result, dropped, taps>>

Filter == [industry : Industries \cup {None}, city : Cities \cup {None}]
NoFilter == [industry |-> None, city |-> None]

BulkTypeOK ==
  /\ {open, handpicked, worded, result} \subseteq BOOLEAN /\ step \in 1..3
  /\ filter \in Filter /\ typed \in Industries \cup {None}
  /\ candidates \in (SUBSET Companies) \cup {None} /\ selected \subseteq Addresses
  /\ flights \subseteq Filter /\ latest \in Filter \cup {None} /\ dropped \subseteq Addresses
  /\ sending \in (SUBSET Addresses) \cup {None}

Listed(f) ==
  {c \in Companies : /\ f.industry # None => c \in InIndustry[f.industry]
                     /\ f.city # None => c \in InCity[f.city]}

emailOptions(c) == {a \in Addresses : OfCompany[a] = c}

\* The people of a company, or its own address when there are none.
defaultEmails(c) ==
  LET people == emailOptions(c) \cap Contacts
  IN  IF people # {} THEN people ELSE emailOptions(c)

Tap == taps < MaxTaps /\ taps' = taps + 1
Showing == open /\ ~result

-----------------------------------------------------------------------------
\* A filter starts over: nothing is ticked until its answer, and only its answer counts.
resolveWith(f) ==
  /\ filter' = f /\ candidates' = None /\ selected' = {} /\ dropped' = {}
  /\ flights' = flights \cup {f} /\ latest' = f

OpenWizard(picked) ==
  /\ ~open /\ Tap /\ open' = TRUE /\ step' = 1 /\ handpicked' = picked
  /\ worded' = FALSE /\ result' = FALSE /\ typed' = None /\ resolveWith(NoFilter)
  /\ UNCHANGED sending

\* The wizard stays mounted when it closes: what is on its way comes back to it.
CloseWizard ==
  /\ open /\ Tap /\ open' = FALSE
  /\ UNCHANGED <<step, handpicked, filterVars, selected, worded, sending, result, dropped>>

Heeded(f) == f = latest

useResolveRecipients(f) ==
  /\ f \in flights /\ flights' = flights \ {f}
  /\ IF Heeded(f)
     THEN /\ latest' = IF f = latest THEN None ELSE latest
          /\ \/ /\ candidates' = Listed(f)
                /\ selected' = UNION {defaultEmails(c) : c \in Listed(f)}
             \/ UNCHANGED <<candidates, selected>>
     ELSE UNCHANGED <<latest, candidates, selected>>
  /\ UNCHANGED <<open, step, handpicked, filter, typed, worded, sending, result, dropped, taps>>

PickCity(v) ==
  /\ Showing /\ step = 1 /\ ~handpicked /\ v # filter.city /\ Tap
  /\ resolveWith([filter EXCEPT !.city = v])
  /\ UNCHANGED <<open, step, handpicked, typed, worded, sending, result>>

TypeIndustry(v) ==
  /\ Showing /\ step = 1 /\ ~handpicked /\ v # typed /\ Tap /\ typed' = v
  /\ UNCHANGED <<open, step, handpicked, filter, candidates, flights, latest, selected, worded, sending,
                 result, dropped>>

\* The pause: the wizard may have moved on, or closed.
TypingPauses ==
  /\ typed # filter.industry
  /\ resolveWith([filter EXCEPT !.industry = typed])
  /\ UNCHANGED <<open, step, handpicked, typed, worded, sending, result, taps>>

Ticks(new) ==
  /\ Showing /\ step = 1 /\ candidates # None /\ Tap
  /\ selected' = new /\ dropped' = (dropped \cup (selected \ new)) \ new
  /\ UNCHANGED <<open, step, handpicked, filterVars, worded, sending, result>>

toggleEmail(a) ==
  /\ candidates # None /\ OfCompany[a] \in candidates
  /\ Ticks(IF a \in selected THEN selected \ {a} ELSE selected \cup {a})

setCompanySelected(c) ==
  /\ candidates # None /\ c \in candidates
  /\ \/ Ticks(selected \cup emailOptions(c)) \/ Ticks(selected \ emailOptions(c))

setAllSelected ==
  /\ candidates # None
  /\ \/ Ticks(UNION {emailOptions(c) : c \in candidates}) \/ Ticks({})

Write ==
  /\ Showing /\ step = 2 /\ Tap /\ worded' \in BOOLEAN
  /\ UNCHANGED <<open, step, handpicked, filterVars, selected, sending, result, dropped>>

MayGoOn ==
  CASE step = 1 -> selected # {} /\ candidates # None
    [] step = 2 -> worded
    [] OTHER -> FALSE

Step ==
  /\ Showing /\ Tap
  /\ \/ MayGoOn /\ step' = step + 1
     \/ step > 1 /\ step' = step - 1
  /\ UNCHANGED <<open, handpicked, filterVars, selected, worded, sending, result, dropped>>

doSend ==
  /\ Showing /\ step = 3 /\ sending = None /\ selected # {} /\ Tap /\ sending' = selected
  /\ UNCHANGED <<open, step, handpicked, filterVars, selected, worded, result, dropped>>

\* The report shows in whatever session of the wizard is open by then.
SendResult ==
  /\ sending # None /\ sending' = None /\ result' \in {result, TRUE}
  /\ UNCHANGED <<open, step, handpicked, filterVars, selected, worded, dropped, taps>>

BulkInit ==
  /\ open = FALSE /\ step = 1 /\ handpicked = FALSE /\ filter = NoFilter /\ typed = None
  /\ candidates = None /\ selected = {} /\ flights = {} /\ latest = None /\ worded = FALSE
  /\ sending = None /\ result = FALSE /\ dropped = {} /\ taps = 0

BulkNext ==
  \/ \E picked \in BOOLEAN : OpenWizard(picked)
  \/ CloseWizard \/ TypingPauses \/ setAllSelected \/ Write \/ Step \/ doSend \/ SendResult
  \/ \E f \in flights : useResolveRecipients(f)
  \/ \E v \in Cities \cup {None} : PickCity(v)
  \/ \E v \in Industries \cup {None} : TypeIndustry(v)
  \/ \E a \in Addresses : toggleEmail(a)
  \/ \E c \in Companies : setCompanySelected(c)

BulkSpec == BulkInit /\ [][BulkNext]_bulkVars

-----------------------------------------------------------------------------
\* A campaign goes to nobody who was unticked under the filter that is shown, and to
\* nobody the filter leaves out, in whatever order the filters were answered.
MailedAsShown ==
  sending' # sending /\ sending' # None =>
    /\ sending' \cap dropped = {}
    /\ \A a \in sending' : OfCompany[a] \in Listed(filter)

=============================================================================
