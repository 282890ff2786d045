----------------------------- MODULE BackOffice -----------------------------
(***************************************************************************)
(* The smaller parts of the program, each in a module of its own.  They     *)
(* share no state, so that a behaviour is one of a single part, and one run *)
(* checks them all; what they have in common is that a transaction, or      *)
(* something that should have been one, is taken apart into its statements. *)
(***************************************************************************)
EXTENDS RadiusLogins, StaffSessions, Plans, Vouchers, Tickets, Resellers, RateLimit, TestDouble

VARIABLE part      \* the part a behaviour is about

backOfficeVars ==
  <<part, loginVars, sessionVars, planVars, voucherVars, ticketVars, resellerVars, limitVars, storeVars>>

Parts == {"customers", "sessions", "plans", "vouchers", "tickets", "resellers", "limiter", "double"}

BackOfficeInit ==
  /\ part \in Parts
  /\ LoginInit
  /\ SessionInit
  /\ PlanInit
  /\ VoucherInit
  /\ TicketInit
  /\ ResellerInit
  /\ LimitInit
  /\ DoubleInit
  /\ part = "double" \/ table = "tenants"

CustomersStep ==
  /\ part = "customers" /\ LoginNext
  /\ UNCHANGED <<part, sessionVars, planVars, voucherVars, ticketVars, resellerVars, limitVars, storeVars>>

SessionsStep ==
  /\ part = "sessions" /\ SessionNext
  /\ UNCHANGED <<part, loginVars, planVars, voucherVars, ticketVars, resellerVars, limitVars, storeVars>>

PlansStep ==
  /\ part = "plans" /\ PlanNext
  /\ UNCHANGED <<part, loginVars, sessionVars, voucherVars, ticketVars, resellerVars, limitVars, storeVars>>

VouchersStep ==
  /\ part = "vouchers" /\ VoucherNext
  /\ UNCHANGED <<part, loginVars, sessionVars, planVars, ticketVars, resellerVars, limitVars, storeVars>>

TicketsStep ==
  /\ part = "tickets" /\ TicketNext
  /\ UNCHANGED <<part, loginVars, sessionVars, planVars, voucherVars, resellerVars, limitVars, storeVars>>

ResellersStep ==
  /\ part = "resellers" /\ ResellerNext
  /\ UNCHANGED <<part, loginVars, sessionVars, planVars, voucherVars, ticketVars, limitVars, storeVars>>

LimiterStep ==
  /\ part = "limiter" /\ LimitNext
  /\ UNCHANGED <<part, loginVars, sessionVars, planVars, voucherVars, ticketVars, resellerVars, storeVars>>

DoubleStep ==
  /\ part = "double" /\ DoubleNext
  /\ UNCHANGED <<part, loginVars, sessionVars, planVars, voucherVars, ticketVars, resellerVars, limitVars>>

BackOfficeNext ==
  \/ CustomersStep \/ SessionsStep \/ PlansStep \/ VouchersStep
  \/ TicketsStep \/ ResellersStep \/ LimiterStep \/ DoubleStep

\* LimitLive speaks of the limiter's variables only, so that it holds of a
\* behaviour of another part.
BackOfficeSpec == BackOfficeInit /\ [][BackOfficeNext]_backOfficeVars /\ LimitLive

-----------------------------------------------------------------------------
BackOfficeTypeOK ==
  /\ part \in Parts
  /\ LoginTypeOK
  /\ SessionTypeOK
  /\ PlanTypeOK
  /\ VoucherTypeOK
  /\ TicketTypeOK
  /\ ResellerTypeOK
  /\ LimitTypeOK

\* What several tables hold goes together, however requests overlap and whichever
\* statement fails: a plan and the replies of its group, a batch and its
\* vouchers and their logins, a reseller's balance and the rows that back it.
TablesAgree == RepliesMatchPlan /\ BatchIsWhole /\ BalanceIsBacked

=============================================================================
