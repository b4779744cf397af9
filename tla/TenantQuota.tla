----------------------------- MODULE TenantQuota -----------------------------
(***************************************************************************)
(* ragx/api/middleware/quota.py: the monthly counters of a tenant, in the  *)
(* process or in the quotas table.  A period is a month.                   *)
(***************************************************************************)
EXTENDS Integers, TLC

CONSTANTS
    Tenant,
    UploadCap, TokenCap,   \* 0 disables
    MaxPeriod

VARIABLES
    quota,      \* <<tenant, period>> -> usage
    period,
    granted     \* history: <<tenant, period>> -> bytes let past the quota

quotaVars == <<quota, period, granted>>

ASSUME QuotaConstants == UploadCap \in Nat /\ TokenCap \in Nat /\ MaxPeriod \in Nat

Account == Tenant \X (0..MaxPeriod)
NoUsage == [tokens |-> 0, upload_bytes |-> 0]

QuotaInit ==
    /\ quota = [a \in Account |-> NoUsage]
    /\ period = 0
    /\ granted = [a \in Account |-> 0]

(* add_upload, add_tokens and bump_quota.  The process keeps a tenant's    *)
(* current period only: no earlier one is looked at again.                 *)
Bump(t, field, count) == quota' = [quota EXCEPT ![<<t, period>>][field] = @ + count]

MutantWithinUploadCap(usage, size) == usage.upload_bytes <= UploadCap + size

(* The usage is compared after the request's own size was added to it. *)
WithinUploadCap(usage, size) == usage.upload_bytes <= UploadCap

Grant(account, size) == granted' = [granted EXCEPT ![account] = @ + size]

NextMonth ==
    /\ period < MaxPeriod
    /\ period' = period + 1
    /\ UNCHANGED <<quota, granted>>

(* A restart forgets the usage kept in the process, hence a new history. *)
QuotaRestart(persistent) ==
    /\ quota' = IF persistent THEN quota ELSE [a \in Account |-> NoUsage]
    /\ granted' = IF persistent THEN granted ELSE [a \in Account |-> 0]
    /\ UNCHANGED period
================================================================================
