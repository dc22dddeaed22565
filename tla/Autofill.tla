-------------------------------- MODULE Autofill --------------------------------
(***************************************************************************)
(* Company fields filled in from the business registry.  A number of eight     *)
(* digits, quiet for a moment, is looked up; the answer fills in the name, the *)
(* address and, when the registry has one, the VAT number.  Answers stay in    *)
(* the cache, so the fill follows the number typed and not the answer.        *)
(***************************************************************************)
EXTENDS Naturals

CONSTANTS
  Numbers,     \* whole numbers; anything shorter is None
  Listed,      \* those the registry knows
  WithVat,     \* and those it knows a VAT number of
  None,
  MaxTaps      \* bound: what the user does

AutofillAssumption ==
  /\ Listed \subseteq Numbers /\ WithVat \subseteq Listed /\ None \notin Numbers /\ MaxTaps \in Nat

(***************************************************************************)
(*   clears   what was filled in goes when the number moves away from it        *)
(*   repeats  the same answer fills in again when its number is typed again     *)
(*   saved    the form starts with the number, name and VAT number on record     *)
(*   folds    it can be hidden, which empties it                            *)
(***************************************************************************)
FormKind == [clears : BOOLEAN, repeats : BOOLEAN, saved : BOOLEAN, folds : BOOLEAN]

AddCompanyForm  == [clears |-> TRUE, repeats |-> TRUE, saved |-> FALSE, folds |-> TRUE]
NewCompanyPanel == [clears |-> TRUE, repeats |-> TRUE, saved |-> FALSE, folds |-> TRUE]
OrgBillingFields == [clears |-> FALSE, repeats |-> FALSE, saved |-> TRUE, folds |-> FALSE]
NewOrgBilling == [OrgBillingFields EXCEPT !.saved = FALSE]
FormKinds == {AddCompanyForm, NewCompanyPanel, OrgBillingFields, NewOrgBilling}

VARIABLES
  kind,
  shown,       \* the form is on screen
  number,      \* as typed
  quiet,       \* as it was a moment ago: this is looked up
  onRecord,    \* the number the server has
  filledFor,   \* the number whose answer filled the form last
  name,        \* the number whose name is in the field, "own" when typed, None when empty
  vat,
  cache,       \* numbers answered
  refused,     \* numbers whose lookup failed: not listed, too many, or the registry is down
  taps

autofillVars == <<kind, shown, number, quiet, onRecord, filledFor, name, vat, cache, refused, taps>>

Content == Numbers \cup {None, "own"}

AutofillTypeOK ==
  /\ kind \in FormKinds /\ shown \in BOOLEAN /\ {name, vat} \subseteq Content
  /\ {number, quiet, onRecord, filledFor} \subseteq Numbers \cup {None}
  /\ cache \subseteq Listed /\ refused \subseteq Numbers /\ taps \in Nat

Tap == taps < MaxTaps /\ taps' = taps + 1

-----------------------------------------------------------------------------
\* The answer the form looks at: the one for the quiet number, if the cache has it.
Data(q, c) == IF q \in c THEN q ELSE None

Enabled == kind.saved \/ ~kind.repeats => quiet \notin {onRecord, filledFor}

\* A mutant of the next: an answer fills the fields whatever the number is by then.
FilledRegardless(n, q, c) == Data(q, c) # None
Matches(n, q, c) == Data(q, c) # None /\ Data(q, c) = n

\* The effect, after a render in which the number or the answer changed.
Effect(n, q, c, oldName, oldVat) ==
  IF Matches(n, q, c) /\ (kind.repeats \/ filledFor # n)
  THEN /\ filledFor' = n /\ name' = Data(q, c)
       /\ vat' = IF Data(q, c) \in WithVat THEN Data(q, c) ELSE oldVat
  ELSE IF kind.clears /\ filledFor # None /\ n # filledFor
  THEN filledFor' = None /\ name' = None /\ vat' = None
  ELSE UNCHANGED filledFor /\ name' = oldName /\ vat' = oldVat

TypeNumber(n) ==
  /\ shown /\ n # number /\ Tap
  /\ number' = n /\ Effect(n, quiet, cache, name, vat)
  /\ UNCHANGED <<kind, shown, quiet, onRecord, cache, refused>>

Quiet ==
  /\ quiet # number /\ quiet' = number
  /\ IF shown THEN Effect(number, number, cache, name, vat) ELSE UNCHANGED <<filledFor, name, vat>>
  /\ UNCHANGED <<kind, shown, number, onRecord, cache, refused, taps>>

Ask == quiet # None /\ quiet \notin cache /\ Enabled

LookupAnswers(n) ==
  /\ Ask /\ n = quiet /\ n \in Listed
  /\ cache' = cache \cup {n} /\ refused' = refused \ {n}
  /\ IF shown THEN Effect(number, quiet, cache', name, vat) ELSE UNCHANGED <<filledFor, name, vat>>
  /\ UNCHANGED <<kind, shown, number, quiet, onRecord, taps>>

LookupFails(n) ==
  /\ Ask /\ n = quiet /\ n \notin refused
  /\ refused' = refused \cup {n}
  /\ UNCHANGED <<kind, shown, number, quiet, onRecord, filledFor, name, vat, cache, taps>>

TypeName ==
  /\ shown /\ Tap /\ name' = "own"
  /\ UNCHANGED <<kind, shown, number, quiet, onRecord, filledFor, vat, cache, refused>>

TypeVat ==
  /\ shown /\ Tap /\ vat' = "own"
  /\ UNCHANGED <<kind, shown, number, quiet, onRecord, filledFor, name, cache, refused>>

Fold ==
  /\ shown /\ kind.folds /\ Tap /\ shown' = FALSE
  /\ number' = None /\ filledFor' = None /\ name' = None /\ vat' = None
  /\ UNCHANGED <<kind, quiet, onRecord, cache, refused>>

Unfold ==
  /\ ~shown /\ Tap /\ shown' = TRUE
  /\ UNCHANGED <<kind, number, quiet, onRecord, filledFor, name, vat, cache, refused>>

AutofillInit ==
  /\ kind \in FormKinds /\ shown = ~kind.folds
  /\ onRecord \in IF kind.saved THEN Numbers ELSE {None}
  /\ number = onRecord /\ quiet = onRecord /\ filledFor = onRecord /\ name = onRecord
  /\ vat \in {onRecord, None}
  /\ cache = {} /\ refused = {} /\ taps = 0

AutofillNext ==
  \/ Quiet \/ TypeName \/ TypeVat \/ Fold \/ Unfold
  \/ \E n \in Numbers \cup {None} : TypeNumber(n)
  \/ \E n \in Numbers : LookupAnswers(n) \/ LookupFails(n)

AutofillSpec == AutofillInit /\ [][AutofillNext]_autofillVars

-----------------------------------------------------------------------------
(***************************************************************************)
(* The name, the address and the VAT number the registry filled in are those of *)
(* the number in the form, however it was typed over, pasted, hidden and       *)
(* looked up meanwhile, when an earlier answer is late, comes from the cache    *)
(* or fails.  The billing form of an organization makes no such promise.       *)
(***************************************************************************)
FieldsAreOfTheNumber ==
  kind.clears /\ shown => {name, vat} \subseteq {number, None, "own"}

=============================================================================
