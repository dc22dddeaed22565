----------------------------- MODULE MCInvoicing -----------------------------
(* TLC's instances of Invoicing: the requests are interchangeable.            *)
EXTENDS Invoicing, TLC

Interchangeable == Permutations(Admins) \cup Permutations(Users \ {Owner})
=============================================================================
