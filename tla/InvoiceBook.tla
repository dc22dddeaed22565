----------------------------- MODULE InvoiceBook -----------------------------
(***************************************************************************)
(* What an accountant expects of the yearly series of tax documents,        *)
(* whoever writes it and in whatever order: numbers without gaps, documents *)
(* that never change once written, a status that only moves along the       *)
(* arrows below, and credits that never exceed what they credit.            *)
(*                                                                         *)
(* The number of a document is its position in the book.                    *)
(***************************************************************************)
EXTENDS Integers, Sequences, FiniteSetsExt

VARIABLE book    \* a sequence of [kind, status, total, original]

Moves == {<<"draft", "issued">>, <<"draft", "voided">>, <<"issued", "paid">>,
          <<"issued", "voided">>, <<"paid", "issued">>}

\* The credit notes for document i that count, and what they add up to.
CountedNotes(b, i) ==
  {n \in DOMAIN b : b[n].kind = "credit_note" /\ b[n].original = i /\ b[n].status # "voided"}
CreditedIn(b, i) == MapThenSumSet(LAMBDA n : b[n].total, CountedNotes(b, i))

\* The documents some credit note refers to.
Noted(b) == {b[n].original : n \in DOMAIN b} \ {0}

Init == book = <<>>

SameDocument(d, e) == e = [d EXCEPT !.status = e.status]
MayBecome(d, e) == d.status = e.status \/ <<d.status, e.status>> \in Moves

\* What may happen to the entries, and what a correct book adds up to.
Recorded ==
  /\ book' # book
  /\ Len(book') \in {Len(book), Len(book) + 1}
  /\ \A i \in 1 .. Len(book) :
       SameDocument(book[i], book'[i]) /\ MayBecome(book[i], book'[i])
  /\ Len(book') > Len(book) => book'[Len(book')].status \in {"draft", "issued"}
CreditsCovered(b) == \A i \in Noted(b) : CreditedIn(b, i) <= b[i].total

Next == Recorded /\ CreditsCovered(book')

Spec == Init /\ [][Next]_book

=============================================================================
