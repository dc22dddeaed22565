------------------------------- MODULE EntryRow -------------------------------
(***************************************************************************)
(* One hand-logged entry of a deal's timeline, edited in place               *)
(* (TimelineEntryRow): the text saves itself 800 ms after the last key, on   *)
(* blur, and when the row is unmounted with typing still unsaved.  Every     *)
(* save is a PATCH of its own, several can be under way, and a refused one   *)
(* is rolled back.  The row's cached item stands for the ["activities"]      *)
(* pages that hold it.                                                      *)
(***************************************************************************)
EXTENDS Naturals, Sequences

CONSTANTS
  Texts,     \* bodies, trimmed
  First,     \* the body the entry has at the start
  None,      \* nothing awaits its debounce
  MaxKeys,   \* bound: edits typed
  MaxMounts  \* bound: times the row comes back

EntryAssumption ==
  First \in Texts /\ None \notin Texts /\ MaxKeys \in Nat /\ MaxMounts \in Nat

VARIABLES
  server,    \* the body the server holds
  cached,    \* the body in the activities cache
  refetch,   \* an invalidated cache has not been read again yet
  mounted, mounts,
  text,      \* the textarea
  savedBody, \* what the row believes is saved
  pending,   \* pendingEdit: typing that awaits its debounce
  patches,   \* PATCHes under way, in the order they were sent
  typed,     \* the last text the user asked for
  keys,
  smooth,    \* no PATCH failed or was overtaken, no row mounted behind the server
  lone       \* no key was typed and no save begun while another was under way, none was lost

entryVars == <<server, cached, refetch, mounted, mounts, text, savedBody, pending,
               patches, typed, keys, smooth, lone>>

\* `prior' is what a failure restores; the flush of an unmounted row restores nothing.
Patch == [body : Texts, prior : Texts \cup {None}, step : {"sent", "ok", "refused"}]

EntryTypeOK ==
  /\ {server, cached, text, savedBody, typed} \subseteq Texts
  /\ pending \in Texts \cup {None}
  /\ patches \in Seq(Patch)
  /\ {refetch, mounted, smooth, lone} \subseteq BOOLEAN /\ keys \in Nat /\ mounts \in Nat

Sent(body, prior) == Append(patches, [body |-> body, prior |-> prior, step |-> "sent"])

\* onChange: the debounce starts over and remembers the text.
TypeText(t) ==
  /\ mounted /\ keys < MaxKeys /\ t # text
  /\ text' = t /\ pending' = t /\ typed' = t /\ keys' = keys + 1
  /\ lone' = (lone /\ patches = << >>)
  /\ UNCHANGED <<server, cached, refetch, mounted, mounts, savedBody, patches, smooth>>

\* saveBody: nothing to do when the text is what was saved last.
SaveBody(t) ==
  IF t = savedBody THEN UNCHANGED <<cached, savedBody, patches, lone>>
  ELSE /\ patches' = Sent(t, savedBody)
       /\ savedBody' = t
       /\ cached' = t
       /\ lone' = (lone /\ patches = << >>)

Debounced ==
  /\ mounted /\ pending # None
  /\ pending' = None
  /\ SaveBody(pending)
  /\ UNCHANGED <<server, refetch, mounted, mounts, text, typed, keys, smooth>>

\* Blur saves the text that is in the field, whatever the debounce remembers.
Blur ==
  /\ mounted
  /\ pending' = None
  /\ SaveBody(text)
  /\ UNCHANGED <<server, refetch, mounted, mounts, text, typed, keys, smooth>>

\* A mutant of the next: what awaits its debounce goes with the row.
FlushedNothing == patches

Flushed == IF pending \in {None, savedBody} THEN patches ELSE Sent(pending, None)

\* The page was cut anew or the dialog closed: the cleanup flushes what was typed.
Unmount ==
  /\ mounted
  /\ mounted' = FALSE
  /\ patches' = Flushed
  /\ pending' = None
  /\ UNCHANGED <<server, cached, refetch, mounts, text, savedBody, typed, keys, smooth, lone>>

\* A mounting row takes its text from the cache and never looks there again.
Mount ==
  /\ ~mounted /\ mounts < MaxMounts
  /\ mounted' = TRUE /\ mounts' = mounts + 1
  /\ text' = cached /\ savedBody' = cached /\ pending' = None
  /\ smooth' = (smooth /\ patches = << >> /\ cached = server)
  /\ UNCHANGED <<server, cached, refetch, patches, typed, keys, lone>>

\* The server takes the PATCHes in any order; a refusal leaves the entry alone.
ServerPatches(i) ==
  /\ i \in DOMAIN patches /\ patches[i].step = "sent"
  /\ \/ /\ server' = patches[i].body
        /\ \E answer \in {"ok", "refused"} :    \* applied, and the answer lost
             /\ patches' = [patches EXCEPT ![i].step = answer]
             /\ smooth' = (smooth /\ answer = "ok" /\ \A j \in 1 .. i - 1 : patches[j].step # "sent")
             /\ lone' = (lone /\ answer = "ok")
     \/ /\ patches' = [patches EXCEPT ![i].step = "refused"]
        /\ UNCHANGED <<server, smooth, lone>>
  /\ UNCHANGED <<cached, refetch, mounted, mounts, text, savedBody, pending, typed, keys>>

PatchSucceeds(i) ==
  /\ i \in DOMAIN patches /\ patches[i].step = "ok"
  /\ patches' = SubSeq(patches, 1, i - 1) \o SubSeq(patches, i + 1, Len(patches))
  /\ refetch' = TRUE
  /\ UNCHANGED <<server, cached, mounted, mounts, text, savedBody, pending, typed, keys, smooth, lone>>

\* The row's own revert is dead once it is unmounted; the cache's is not.
PatchFails(i) ==
  /\ i \in DOMAIN patches /\ patches[i].step = "refused"
  /\ LET prior == patches[i].prior IN
     /\ cached' = IF prior = None THEN cached ELSE prior
     /\ IF mounted /\ prior # None
        THEN text' = prior /\ savedBody' = prior /\ typed' = prior
        ELSE UNCHANGED <<text, savedBody, typed>>
  /\ patches' = SubSeq(patches, 1, i - 1) \o SubSeq(patches, i + 1, Len(patches))
  /\ smooth' = FALSE
  /\ UNCHANGED <<server, refetch, mounted, mounts, pending, keys, lone>>

Refetch ==
  /\ refetch
  /\ refetch' = FALSE
  /\ cached' = server
  /\ UNCHANGED <<server, mounted, mounts, text, savedBody, pending, patches, typed, keys, smooth, lone>>

EntryInit ==
  /\ server = First /\ cached = First /\ refetch = FALSE
  /\ mounted = TRUE /\ mounts = 0 /\ text = First /\ savedBody = First /\ pending = None
  /\ patches = << >> /\ typed = First /\ keys = 0 /\ smooth = TRUE /\ lone = TRUE

EntryNext ==
  \/ \E t \in Texts : TypeText(t)
  \/ Debounced \/ Blur \/ Unmount \/ Mount \/ Refetch
  \/ \E i \in DOMAIN patches : ServerPatches(i) \/ PatchSucceeds(i) \/ PatchFails(i)

EntrySpec == EntryInit /\ [][EntryNext]_entryVars

-----------------------------------------------------------------------------
Settled == patches = << >> /\ pending = None

(***************************************************************************)
(* No key is lost: when nothing awaits its debounce or its answer, the        *)
(* server holds the last text the user typed, whether it left by a pause, a  *)
(* blur or the unmounting of the row, provided no PATCH was refused, lost or *)
(* overtaken and the row never came back before the cache had caught up.     *)
(***************************************************************************)
LastWordIsStored == Settled /\ smooth => server = typed

(***************************************************************************)
(* A refused save is taken back where the user sees it: with one save at a   *)
(* time, the row and the server agree again once the answer is in.          *)
(***************************************************************************)
RefusalIsTakenBack ==
  Settled /\ mounted /\ mounts = 0 /\ lone => text = server /\ savedBody = server
=============================================================================
