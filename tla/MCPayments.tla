------------------------------ MODULE MCPayments ------------------------------
(* TLC's instances of Payments: the identifiers that are interchangeable.     *)
EXTENDS Payments, TLC

Interchangeable ==
  Permutations(ChargeIds) \cup Permutations(Requests) \cup Permutations(Handlers)
    \cup Permutations(Users \ {Owner})

-----------------------------------------------------------------------------
(***************************************************************************)
(* The period end moves forward by captured money alone (process_webhook and    *)
(* apply_renewal_success), and never back when money was captured.             *)
(***************************************************************************)
DaysFollowMoney == ExtensionIsPaid /\ PaymentNeverShortens
=============================================================================
