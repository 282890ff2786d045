----------------------------- MODULE TestDouble -----------------------------
(***************************************************************************)
(* Every repository: a behaviour picks a table and calls its methods.       *)
(***************************************************************************)
EXTENDS StoreDirectory, StoreSubscribers, StoreRadius, StoreBilling, StoreSupport

\* Some tables are considered twice, for different columns.
Tables ==
  {"tenants", "users", "users, balance", "roles", "refresh_tokens", "audit_logs",
   "plans", "bandwidth_profiles", "customers", "customers, other columns",
   "radius rows", "nas", "radpostauth", "radacct",
   "invoices", "invoice_items", "payments", "ledger_entries", "payment_gateways",
   "notification_logs", "wa_gateways", "message_templates", "voucher_batches", "vouchers",
   "tickets", "ticket_events", "deposits", "commissions", "acs_devices"}

DoubleInit == StoreInit(Tables)

DoubleNext ==
  /\ ~parted
  /\ \/ TenantCalls \/ UserCalls \/ RoleCalls \/ TokenCalls \/ AuditCalls
     \/ PlanCalls \/ BandwidthCalls \/ CustomerCalls
     \/ RadiusCalls \/ NasCalls \/ PostAuthCalls \/ SessionCalls
     \/ InvoiceCalls \/ ItemCalls \/ PaymentCalls \/ LedgerCalls \/ ConfigCalls
     \/ NoticeCalls \/ GatewayCalls \/ TemplateCalls \/ BatchCalls \/ VoucherCalls
     \/ TicketCalls \/ EventCalls \/ CreditCalls \/ BalanceCalls \/ DeviceCalls

DoubleSpec == DoubleInit /\ [][DoubleNext]_storeVars

=============================================================================
