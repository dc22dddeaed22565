-------------------------------- MODULE Search --------------------------------
(***************************************************************************)
(* The search in the top bar (GlobalSearch): the word is asked for when it     *)
(* has been quiet, the hits of the word before stay on screen until its own     *)
(* arrive (keepPreviousData), and the arrow keys move through them by number.   *)
(***************************************************************************)
EXTENDS Naturals, Sequences, Functions

CONSTANTS
  Words,       \* what the box may hold
  Short,       \* words below MIN_SEARCH_LENGTH
  Before,      \* what the server finds for the others,
  After,       \* and after a colleague's change
  None,
  MaxTaps      \* bound: keys, clicks and the colleague's change

Asked == Words \ Short

Hits == UNION {Range(Before[w]) \cup Range(After[w]) : w \in Asked}
Lists == {Before[w] : w \in Asked} \cup {After[w] : w \in Asked} \cup {<< >>}

SearchAssumption ==
  /\ Short \subseteq Words /\ Short # {} /\ MaxTaps \in Nat
  /\ \A answers \in {Before, After} : answers \in [Asked -> Seq(Hits)]
  /\ None \notin Words /\ None \notin Hits /\ None \notin Lists

VARIABLES
  phone,      \* below md the field is behind an icon
  term,       \* in the box
  quiet,      \* and a quiet moment ago (debounced)
  found,      \* what the server finds
  cache,      \* the query of each word: hits, or None
  fetching,   \* words whose hits are awaited
  shown,      \* `data': the hits on screen and the word they were found for
  last,       \* the last word whose hits were on screen; shown.of is another after an error
  focused,
  mobileOpen,
  active,     \* activeIndex, 0 for none
  pointed,    \* the hit the user highlighted on this list, by key or mouse
  opened,     \* the page that was opened last, and from what
  taps

searchVars == <<phone, term, quiet, found, cache, fetching, shown, last, focused, mobileOpen, active,
                pointed, opened, taps>>
queryVars == <<quiet, found, cache, fetching, shown, last>>
hitVars == <<shown, last, active, pointed>>
fieldVars == <<term, focused, mobileOpen>>

Shown == [of : Asked \cup {None}, hits : Lists]
Opened == [hit : Hits, top : Hits, pointed : Hits \cup {None}, of : Asked \cup {None}, word : Words]

SearchTypeOK ==
  /\ {phone, focused, mobileOpen} \subseteq BOOLEAN /\ {term, quiet} \subseteq Words
  /\ found \in {Before, After} /\ cache \in [Asked -> Lists \cup {None}] /\ fetching \subseteq Asked
  /\ shown \in Shown /\ last \in Asked \cup {None} /\ active \in 0 .. Len(shown.hits)
  /\ pointed \in Hits \cup {None} /\ opened \in Opened \cup {None} /\ taps \in Nat

Tap == taps < MaxTaps /\ taps' = taps + 1

\* A new list has nothing highlighted.
Shows(data) == shown' = data /\ active' = 0 /\ pointed' = None

-----------------------------------------------------------------------------
TypeWord(w) ==
  /\ focused /\ w # term /\ Tap /\ term' = w
  /\ UNCHANGED <<phone, queryVars, focused, mobileOpen, active, pointed, opened>>

\* An answer of its own puts a word's hits on screen.
Brings(w, hits) == Shows([of |-> w, hits |-> hits]) /\ last' = w

\* keepPreviousData: hits stay until others arrive; after an error they come back.
KeepsPrevious ==
  IF shown.of = last THEN UNCHANGED hitVars
  ELSE /\ Shows([of |-> last, hits |-> IF last = None THEN << >> ELSE cache[last]])
       /\ UNCHANGED last

\* The word changes the query: its own hits if they are known, asked for again when they
\* are old, and those on screen until then if they are not.
Debounced(aged) ==
  /\ quiet # term /\ quiet' = term
  /\ IF term \in Short THEN UNCHANGED fetching /\ KeepsPrevious
     ELSE /\ fetching' = IF cache[term] = None \/ aged THEN fetching \cup {term} ELSE fetching
          /\ IF cache[term] = None THEN KeepsPrevious
             ELSE IF shown = [of |-> term, hits |-> cache[term]] THEN UNCHANGED hitVars
             ELSE Brings(term, cache[term])
  /\ UNCHANGED <<phone, fieldVars, found, cache, opened, taps>>

\* Mutant: an answer is shown whatever the word in question is by now.
ShowsAnyAnswer(w) ==
  /\ w \in fetching /\ fetching' = fetching \ {w}
  /\ cache' = [cache EXCEPT ![w] = found[w]]
  /\ IF cache[w] # found[w] THEN Brings(w, found[w]) ELSE UNCHANGED hitVars
  /\ UNCHANGED <<phone, fieldVars, quiet, found, opened, taps>>

\* An answer is kept with its word; only that of the word in question is shown, and one
\* that is the same as before changes nothing.
HitsArrive(w) ==
  /\ w \in fetching /\ fetching' = fetching \ {w}
  /\ cache' = [cache EXCEPT ![w] = found[w]]
  /\ IF w = quiet /\ cache[w] # found[w] THEN Brings(w, found[w]) ELSE UNCHANGED hitVars
  /\ UNCHANGED <<phone, fieldVars, quiet, found, opened, taps>>

\* An error has no data, and a list without data is a list without hits.
HitsFail(w) ==
  /\ w \in fetching /\ fetching' = fetching \ {w}
  /\ IF w = quiet /\ cache[w] = None THEN Shows([of |-> w, hits |-> << >>]) /\ UNCHANGED last
                                     ELSE UNCHANGED hitVars
  /\ UNCHANGED <<phone, fieldVars, quiet, found, cache, opened, taps>>

Colleague ==
  /\ found # After /\ Tap /\ found' = After
  /\ UNCHANGED <<phone, fieldVars, quiet, cache, fetching, hitVars, opened>>

-----------------------------------------------------------------------------
\* The icon of a phone, and the shortcut everywhere.
Focus ==
  /\ ~focused /\ Tap
  /\ focused' = TRUE /\ mobileOpen' \in {TRUE, mobileOpen} /\ (phone => mobileOpen')
  /\ UNCHANGED <<phone, queryVars, term, active, pointed, opened>>

\* A press outside, and Escape.
Leave ==
  /\ focused \/ mobileOpen
  /\ focused' = FALSE /\ mobileOpen' = FALSE
  /\ UNCHANGED <<phone, queryVars, term, active, pointed, opened, taps>>

\* The X of the phone's field.
Clear(empty) ==
  /\ mobileOpen /\ phone
  /\ term' = empty /\ focused' = FALSE /\ mobileOpen' = FALSE
  /\ UNCHANGED <<phone, queryVars, active, pointed, opened, taps>>

ShowsPanel == focused /\ quiet \notin Short /\ shown.hits # << >>

Highlights(k) == active' = k /\ pointed' = shown.hits[k]

\* The arrows go round; the mouse highlights what it enters.
ArrowDown == ShowsPanel /\ Highlights((active % Len(shown.hits)) + 1)
ArrowUp == ShowsPanel /\ Highlights(IF active <= 1 THEN Len(shown.hits) ELSE active - 1)
Hover(k) == ShowsPanel /\ k \in DOMAIN shown.hits /\ Highlights(k)

PointAtHit ==
  /\ Tap /\ \/ ArrowDown \/ ArrowUp \/ \E k \in 1 .. 2 : Hover(k)
  /\ UNCHANGED <<phone, fieldVars, queryVars, opened>>

\* Enter takes what is highlighted, and the first hit when nothing is.
Target == IF active > 0 THEN active ELSE 1

\* select: the page opens, the box is emptied and left.  A click is on what the mouse entered.
Enter(empty) ==
  /\ ShowsPanel /\ Target \in DOMAIN shown.hits /\ Tap
  /\ opened' = [hit |-> shown.hits[Target], top |-> Head(shown.hits), pointed |-> pointed,
                of |-> shown.of, word |-> term]
  /\ term' = empty /\ focused' = FALSE /\ mobileOpen' = FALSE
  /\ UNCHANGED <<phone, queryVars, active, pointed>>

SearchInit ==
  /\ phone \in BOOLEAN /\ term \in Short /\ quiet = term /\ found = Before
  /\ cache = [w \in Asked |-> None] /\ fetching = {} /\ shown = [of |-> None, hits |-> << >>]
  /\ last = None
  /\ focused = FALSE /\ mobileOpen = FALSE /\ active = 0 /\ pointed = None /\ opened = None /\ taps = 0

SearchNext ==
  \/ \E w \in Words : TypeWord(w)
  \/ \E aged \in BOOLEAN : Debounced(aged)
  \/ \E w \in Asked : HitsArrive(w) \/ HitsFail(w)
  \/ Colleague \/ Focus \/ Leave \/ PointAtHit
  \/ \E empty \in Short : Clear(empty) \/ Enter(empty)

SearchSpec == SearchInit /\ [][SearchNext]_searchVars

-----------------------------------------------------------------------------
\* Enter opens the hit the user highlighted on the list he sees, and the first of the
\* list when he highlighted none, however the hits changed under the highlight.
OpensWhatIsPointed ==
  opened # None => opened.hit = IF opened.pointed # None THEN opened.pointed ELSE opened.top

\* What is on screen for a word that was asked is that word's, once it has arrived.
HitsAreOfTheWord ==
  quiet \notin Short /\ quiet \notin fetching => shown.of = quiet

\* Not so: "type enough, hit Enter" within the quiet moment, or before the answer, opens
\* a hit of the word before.
OpensWhatIsTyped == opened # None => opened.of = opened.word
=============================================================================
