-------------------------------- MODULE Capture --------------------------------
(***************************************************************************)
(* The dialogs that capture a lead: one submit makes a company, a contact of   *)
(* it, a deal and the link of a mail, each with a request of its own.  The     *)
(* company is picked or typed into a panel, and what depends on it, a contact   *)
(* or a deal, is offered from a list that is still the last company's until the *)
(* next answer is here.                                                     *)
(***************************************************************************)
EXTENDS Naturals, Sequences, FiniteSets, SequencesExt

CONSTANTS
  Companies,
  Starred,    \* those with a main contact somebody chose
  None,
  MaxTaps     \* bound: what the user does

CaptureAssumption ==
  Companies # {} /\ Starred \subseteq Companies /\ None \notin Companies /\ MaxTaps \in Nat

(***************************************************************************)
(*   company   "picked" from the list, "typed" into fields of its own, "either",  *)
(*             or "given" by the page                                       *)
(*   offers    what depends on the company: its "contact", its "deal", or "none"*)
(*   prefills  it is preset: the main contact, or the newest deal            *)
(*   makes     what a submit makes after the company                         *)
(*   locks     the requests during which the button is dead                  *)
(***************************************************************************)
Dialog == [company : {"picked", "typed", "either", "given"}, offers : {"contact", "deal", "none"},
           prefills : BOOLEAN, makes : Seq({"contact", "deal", "link"}),
           locks : SUBSET {"company", "contact", "deal", "link"}]

AddDealModal == [company |-> "either", offers |-> "contact", prefills |-> TRUE,
                 makes |-> <<"contact", "deal">>, locks |-> {"deal"}]
AddDealOfCompany == [AddDealModal EXCEPT !.company = "given"]
AddCompanyModal == [company |-> "typed", offers |-> "none", prefills |-> FALSE,
                    makes |-> <<"contact">>, locks |-> {"company"}]
LinkEmailCreate == [company |-> "typed", offers |-> "none", prefills |-> FALSE,
                    makes |-> <<"contact", "deal", "link">>,
                    locks |-> {"company", "contact", "deal", "link"}]
LinkEmailExisting == [company |-> "picked", offers |-> "deal", prefills |-> TRUE,
                      makes |-> <<"link">>, locks |-> {"link"}]

Dialogs == {AddDealModal, AddDealOfCompany, AddCompanyModal, LinkEmailCreate, LinkEmailExisting}

VARIABLES
  dialog, open,
  pick,       \* the company picked
  panel,      \* the fields of a new company are open
  named,      \* and it has a name
  part,       \* the contact or deal chosen, by the company it belongs to
  preset,     \* the company whose main contact was preset
  list,       \* the company whose contacts or deals the list shows, or "all"
  known,      \* the companies whose detail is in the cache
  person,     \* a new contact's name is typed
  adding,     \* a new contact is asked for beside the list
  runs,       \* the submits under way
  filed,      \* the deals and links made
  muddled,    \* a company was picked while the panel was open
  hurried,    \* something was picked from another company's list
  taps

captureVars == <<dialog, open, pick, panel, named, part, preset, list, known, person, adding,
                 runs, filed, muddled, hurried, taps>>
companyVars == <<pick, panel, named>>
partVars == <<part, preset>>

Owner == Companies \cup {"new"}
Run == [company : Owner \cup {None}, part : Owner \cup {None}, person : BOOLEAN, clean : BOOLEAN,
        todo : Seq({"company", "contact", "deal", "link"})]

CaptureTypeOK ==
  /\ dialog \in Dialogs /\ {open, panel, named, person, adding, muddled, hurried} \subseteq BOOLEAN
  /\ {pick, preset} \subseteq Companies \cup {None} /\ part \in Owner \cup {None}
  /\ list \in Companies \cup {"all"} /\ known \subseteq Companies
  /\ \A i \in DOMAIN runs : runs[i] \in Run
  /\ filed \subseteq [company : Owner, part : Owner \cup {None}, clean : BOOLEAN]

Tap == taps < MaxTaps /\ taps' = taps + 1
Given == CHOOSE c \in Companies : TRUE

-----------------------------------------------------------------------------
\* A mutant of the next: the part of the last company stays.
KeepsPart(c) ==
  IF part = None /\ c \in known \cap Starred THEN part' = c /\ preset' = c ELSE UNCHANGED partVars

\* What the effects make of a pick: the part of the last company goes, the preset comes
\* with the detail of the company or, for the deals, straight from the list.
Picked(c) ==
  IF dialog.offers = "deal"
  THEN part' \in (IF list = "all" THEN Companies ELSE {list}) /\ preset' = None
  ELSE IF c \in known \cap Starred THEN part' = c /\ preset' = c
  ELSE part' = None /\ preset' = None

\* The reset of a dialog that opens: what was preset before it opened is lost.
OpenDialog ==
  /\ ~open /\ Tap /\ open' = TRUE
  /\ pick' = IF dialog.company = "given" THEN Given ELSE None
  /\ panel' = (dialog.company = "typed") /\ named' = FALSE /\ part' = None /\ preset' = None
  /\ list' = IF dialog.company = "given" THEN Given ELSE "all"
  /\ person' = FALSE /\ adding' = FALSE /\ muddled' = FALSE /\ hurried' = FALSE
  /\ UNCHANGED <<dialog, known, runs, filed>>

Close ==
  /\ open /\ Tap /\ open' = FALSE
  /\ UNCHANGED <<dialog, companyVars, partVars, list, known, person, adding, runs, filed, muddled, hurried>>

Edits == open /\ Tap /\ UNCHANGED <<dialog, open, list, known, runs, filed>>

PickCompany(c) ==
  /\ Edits /\ dialog.company \in {"picked", "either"} /\ c # pick
  /\ pick' = c /\ Picked(c)
  /\ muddled' = (muddled \/ panel) /\ hurried' = FALSE
  /\ UNCHANGED <<panel, named, person, adding>>

\* Typing another search word.
Search ==
  /\ Edits /\ dialog.company \in {"picked", "either"} /\ pick # None
  /\ pick' = None /\ Picked(None)
  /\ UNCHANGED <<panel, named, person, adding, muddled, hurried>>

\* The panel takes over the word searched for, and the pick goes.
OpenPanel ==
  /\ Edits /\ dialog.company = "either" /\ ~panel
  /\ panel' = TRUE /\ named' \in BOOLEAN /\ pick' = None
  /\ IF pick = None THEN UNCHANGED partVars ELSE Picked(None)
  /\ UNCHANGED <<person, adding, muddled, hurried>>

HidePanel ==
  /\ Edits /\ dialog.company = "either" /\ panel
  /\ panel' = FALSE /\ named' = FALSE /\ muddled' = FALSE
  /\ UNCHANGED <<pick, partVars, person, adding, hurried>>

NameCompany ==
  /\ Edits /\ panel /\ named' = ~named
  /\ UNCHANGED <<pick, panel, partVars, person, adding, muddled, hurried>>

\* The detail of a company is here: its main contact is preset, once.
DetailArrives(c) ==
  /\ dialog.offers = "contact" /\ c \notin known /\ (c = pick \/ ~open) /\ known' = known \cup {c}
  /\ IF open /\ c = pick /\ c \in Starred /\ preset # c
     THEN preset' = c /\ part' = IF part = None THEN c ELSE part
     ELSE UNCHANGED partVars
  /\ UNCHANGED <<dialog, open, companyVars, list, person, adding, runs, filed, muddled, hurried, taps>>

ListArrives ==
  /\ open /\ list # (IF pick = None THEN "all" ELSE pick)
  /\ list' = IF pick = None THEN "all" ELSE pick
  /\ part' = IF dialog.offers = "deal" THEN pick ELSE part
  /\ UNCHANGED <<dialog, open, companyVars, preset, known, person, adding, runs, filed, muddled, hurried, taps>>

\* The list is there for a company that has been picked, the fields otherwise.
NewContactFields == panel \/ (pick # None /\ adding)

ChoosePart(c) ==
  /\ Edits /\ pick # None /\ ~NewContactFields
  /\ dialog.offers # "none" /\ (list = "all" \/ c \in {list, None})
  /\ part' = c /\ hurried' = (hurried \/ c \notin {pick, None})
  /\ UNCHANGED <<companyVars, preset, person, adding, muddled>>

AddNewPerson ==
  /\ Edits /\ dialog.offers = "contact" /\ pick # None /\ ~NewContactFields
  /\ adding' = TRUE /\ part' = None
  /\ UNCHANGED <<companyVars, preset, person, muddled, hurried>>

PickExistingPerson ==
  /\ Edits /\ pick # None /\ adding
  /\ adding' = FALSE /\ person' = FALSE
  /\ UNCHANGED <<companyVars, partVars, muddled, hurried>>

NamePerson ==
  /\ Edits /\ (NewContactFields \/ dialog.company = "typed") /\ person' = ~person
  /\ UNCHANGED <<companyVars, partVars, adding, muddled, hurried>>

-----------------------------------------------------------------------------
NewCompany == panel /\ named
CanSubmit == pick # None \/ NewCompany
Locked == \E i \in DOMAIN runs : Head(runs[i].todo) \in dialog.locks

\* What is on the form now goes into the run.  The panel wins over a pick.
Submit ==
  /\ open /\ CanSubmit /\ ~Locked /\ Tap
  /\ runs' = Append(runs,
       [company |-> IF NewCompany THEN None ELSE pick, part |-> part,
        clean |-> ~muddled /\ ~hurried, person |-> person /\ (NewContactFields \/ dialog.company = "typed"),
        todo |-> (IF NewCompany THEN <<"company">> ELSE << >>) \o dialog.makes])
  /\ UNCHANGED <<dialog, open, companyVars, partVars, list, known, person, adding, filed, muddled, hurried>>

\* One request of a run has its answer.  Only a contact's failure is let pass.
StepSettles(i) ==
  LET run == runs[i]
      next(r) == IF Len(r.todo) = 1
                 THEN runs' = RemoveAt(runs, i) /\ open' = FALSE
                 ELSE runs' = [runs EXCEPT ![i] = [r EXCEPT !.todo = Tail(@)]] /\ UNCHANGED open
      fails == runs' = RemoveAt(runs, i) /\ UNCHANGED <<open, filed>>
      done == filed' = filed \cup {[company |-> run.company, part |-> run.part, clean |-> run.clean]}
      foreign == run.part \notin {None, run.company}
  IN  /\ \/ /\ Head(run.todo) = "company"
            /\ \/ next([run EXCEPT !.company = "new"]) /\ UNCHANGED filed
               \/ fails
         \/ /\ Head(run.todo) = "contact" /\ UNCHANGED filed
            /\ \/ next([run EXCEPT !.part = IF run.person THEN run.company ELSE @])
               \/ run.person /\ next(run)
         \/ /\ Head(run.todo) = "deal" /\ ((done /\ next([run EXCEPT !.part = run.company])) \/ fails)
         \/ /\ Head(run.todo) = "link" /\ ((~foreign /\ done /\ next(run)) \/ fails)
      /\ UNCHANGED <<dialog, companyVars, partVars, list, known, person, adding, muddled, hurried, taps>>

CaptureInit ==
  /\ dialog \in Dialogs /\ open = FALSE /\ pick = None /\ panel = FALSE /\ named = FALSE
  /\ part = None /\ preset = None /\ list = "all" /\ known = {} /\ person = FALSE /\ adding = FALSE
  /\ runs = << >> /\ filed = {} /\ muddled = FALSE /\ hurried = FALSE /\ taps = 0

CaptureNext ==
  \/ OpenDialog \/ Close \/ Search \/ OpenPanel \/ HidePanel \/ NameCompany \/ ListArrives
  \/ AddNewPerson \/ PickExistingPerson \/ NamePerson \/ Submit
  \/ \E c \in Companies : PickCompany(c) \/ DetailArrives(c)
  \/ \E c \in Companies \cup {None} : ChoosePart(c)
  \/ \E i \in DOMAIN runs : StepSettles(i)

CaptureSpec == CaptureInit /\ [][CaptureNext]_captureVars

-----------------------------------------------------------------------------
Foreign == {f \in filed : f.part \notin {None, f.company}}

(***************************************************************************)
(* A deal is filed with a contact of its own company, and a mail with a deal of *)
(* it, whatever was picked, typed, hidden and preset before, and whichever    *)
(* answers came late: unless a company was picked with the panel open, or a    *)
(* contact from a list that was not there yet.                              *)
(***************************************************************************)
FiledTogether == \A f \in Foreign : ~f.clean

(***************************************************************************)
(* The contact of a deal never belongs to another company.                  *)
(***************************************************************************)
ContactOfItsCompany == Foreign = {}

=============================================================================
