----------------------------- MODULE CardGestures -----------------------------
(***************************************************************************)
(* What a press on a deal's card does: DealCard can be dragged and opened    *)
(* and carries controls of its own; MobileDealCard can be tapped and held,   *)
(* which previews it.  One press is several events (down, moved, held, up,   *)
(* and the click the browser makes of them), each seen by another handler.   *)
(* dnd-kit and the browser are external.                                    *)
(***************************************************************************)
EXTENDS Naturals, Sequences

CONSTANTS MaxPresses   \* bound: presses of one run

GestureAssumption == MaxPresses \in Nat

VARIABLES
  device,   \* which of the two cards is on screen
  by,       \* "pointer" or "key": what made the press
  on,       \* where it began: "card" (on a phone, its name) or "control"
  phase,    \* "up" (at rest), "down", "released" (the click is still to come)
  strayed,  \* how far from pointerStart: "no", "near" (6 px at most), "far",
            \* "back" (far and near again)
  armed,    \* dnd-kit has seen the press, or the long-press timer runs
  dragging,
  held,     \* the finger rested for LONG_PRESS_MS before it strayed
  fired,    \* longPressFired
  preview,  \* the preview is open
  did,      \* effects of the press, in order
  presses

gestureVars == <<device, by, on, phase, strayed, armed, dragging, held, fired, preview, did, presses>>

GestureTypeOK ==
  /\ device \in {"desktop", "phone"} /\ by \in {"pointer", "key"} /\ on \in {"card", "control"}
  /\ phase \in {"up", "down", "released"} /\ strayed \in {"no", "near", "far", "back"}
  /\ {armed, dragging, held, fired, preview} \subseteq BOOLEAN
  /\ did \in Seq({"open", "act", "drag", "preview"}) /\ presses \in Nat

Effect(e) == did' = Append(did, e)

Starts(how, where) ==
  /\ phase = "up" /\ presses < MaxPresses
  /\ presses' = presses + 1
  /\ by' = how /\ on' = where /\ strayed' = "no" /\ held' = FALSE

\* The controls stop mousedown, so that no drag starts from them; a touch arms the
\* long press and forgets the one before.  A press anywhere closes an open preview.
Down(where) ==
  /\ Starts("pointer", where) /\ did' = << >>
  /\ phase' = "down" /\ dragging' = FALSE /\ preview' = FALSE
  /\ armed' = (device = "phone" \/ where = "card")
  /\ fired' = (device = "desktop" /\ fired)
  /\ UNCHANGED device

\* dnd-kit drags beyond 6 px; a touch that moves ends the long press and the preview.
Stray(far) ==
  /\ phase = "down" /\ strayed' = far /\ strayed \in {"no", "near"} /\ far # strayed
  /\ IF device = "phone"
     THEN armed' = FALSE /\ preview' = FALSE /\ UNCHANGED <<dragging, did>>
     ELSE /\ dragging' = (armed /\ far = "far")
          /\ IF dragging' THEN Effect("drag") ELSE UNCHANGED did
          /\ UNCHANGED <<armed, preview>>
  /\ UNCHANGED <<device, by, on, phase, held, fired, presses>>

\* Wandering back below 6 px leaves a drag a drag.
Return ==
  /\ phase = "down" /\ device = "desktop" /\ strayed = "far"
  /\ strayed' = "back"
  /\ UNCHANGED <<device, by, on, phase, armed, dragging, held, fired, preview, did, presses>>

\* LONG_PRESS_MS passed with the finger at rest.
Hold ==
  /\ phase = "down" /\ device = "phone" /\ armed
  /\ armed' = FALSE /\ held' = TRUE /\ fired' = TRUE /\ preview' = TRUE
  /\ Effect("preview")
  /\ UNCHANGED <<device, by, on, phase, strayed, dragging, presses>>

\* touchend cancels the click where the browser honours preventDefault; a finger that
\* scrolled makes none, and dnd-kit swallows the click that ends a drag.
Up ==
  /\ phase = "down"
  /\ armed' = FALSE /\ dragging' = FALSE
  /\ phase' \in IF dragging \/ (device = "phone" /\ strayed = "far") THEN {"up"}
                ELSE IF device = "phone" /\ fired THEN {"up", "released"}
                ELSE {"released"}
  /\ UNCHANGED <<device, by, on, strayed, held, fired, preview, did, presses>>

\* touchcancel: the system takes the finger away.
Cancel ==
  /\ phase = "down" /\ device = "phone"
  /\ phase' = "up" /\ armed' = FALSE /\ preview' = FALSE /\ strayed' = "far"
  /\ UNCHANGED <<device, by, on, dragging, held, fired, did, presses>>

\* onClick of the card opens the deal unless the pointer moved or a control was meant;
\* the phone's onClickCapture swallows the click of a press that opened the preview.
Click ==
  /\ phase = "released"
  /\ phase' = "up"
  /\ IF device = "phone" /\ fired THEN fired' = FALSE /\ UNCHANGED did
     ELSE /\ UNCHANGED fired
          /\ IF on = "control" THEN Effect("act")
             ELSE IF strayed = "far" THEN UNCHANGED did ELSE Effect("open")
  /\ UNCHANGED <<device, by, on, strayed, armed, dragging, held, preview, presses>>

\* Enter.  The desktop card takes the key from its controls (onKeyDown); on the phone
\* it makes a click, which a long press of before may still swallow.
Key(where) ==
  /\ Starts("key", where)
  /\ phase' = IF device = "phone" THEN "released" ELSE "up"
  /\ did' = IF device = "desktop" THEN <<"open">> ELSE << >>
  /\ UNCHANGED <<device, armed, dragging, fired, preview>>

GestureInit ==
  /\ device \in {"desktop", "phone"} /\ by = "pointer" /\ on = "card"
  /\ phase = "up" /\ strayed = "no" /\ presses = 0 /\ did = << >>
  /\ armed = FALSE /\ dragging = FALSE /\ held = FALSE /\ fired = FALSE /\ preview = FALSE

GestureNext ==
  \/ \E where \in {"card", "control"} : Down(where) \/ Key(where)
  \/ \E far \in {"near", "far"} : Stray(far)
  \/ Return \/ Hold \/ Up \/ Cancel \/ Click

GestureSpec == GestureInit /\ [][GestureNext]_gestureVars

-----------------------------------------------------------------------------
\* What the user meant, read from the hand's movement alone.
Meant ==
  IF device = "desktop"
  THEN IF on = "control" THEN <<"act">>
       ELSE IF strayed \in {"far", "back"} THEN <<"drag">> ELSE <<"open">>
  ELSE IF held THEN <<"preview">>
       ELSE IF strayed = "far" THEN << >>
       ELSE IF on = "control" THEN <<"act">> ELSE <<"open">>

(***************************************************************************)
(* One press of the mouse or the finger has one effect, and the one its      *)
(* movement means: a drag never opens the deal, a control never drags or     *)
(* opens the card under it, a long press previews and nothing else, and a    *)
(* tap after a long press is a tap again.                                   *)
(***************************************************************************)
OnePressOneEffect ==
  phase = "up" /\ presses > 0 /\ by = "pointer" => did = Meant
=============================================================================
