---------------------------- MODULE MCSettlement ----------------------------
(***************************************************************************)
(* Instances of Settlement small enough for TLC.                           *)
(***************************************************************************)
EXTENDS SettlementInv, TLC

CONSTANTS w1, w2, w3, i1, i2, c1, c2

\* Both invoices bill one customer: their settlements meet in its row.
OneCustomer == i1 :> c1 @@ i2 :> c1

\* One invoice each.
OneEach == i1 :> c1 @@ i2 :> c2

\* One invoice only.
OneInvoice == i1 :> c1

WorkerSymmetry == Permutations(Workers)

=============================================================================
