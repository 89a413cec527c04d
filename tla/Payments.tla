------------------------------ MODULE Payments ------------------------------
(***************************************************************************)
(* The payments service (payments/payments.go): Charge claims an           *)
(* idempotency key by inserting an IN_PROGRESS row, calls the provider     *)
(* outside any transaction and records the outcome; a key seen before is   *)
(* replayed from its row.  Refund reads the row, calls the provider and    *)
(* records refunded_at.                                                    *)
(*                                                                         *)
(* Each call is served by one of Callers, and every statement of a call is *)
(* its own commit, so calls interleave between statements.  The provider   *)
(* behaves as MockProvider does with its modes switched at will; on top of *)
(* that a call that ends in a transport error may have taken effect, which *)
(* is the case the code calls ambiguous.                                   *)
(***************************************************************************)
EXTENDS Schema

CONSTANT Callers    \* goroutines that call Charge and Refund

VARIABLES
    payments,   \* table payments
    provider,   \* provider[k]: calls, remembered result and refunds under key k
    pay         \* pay[b]: local state of the call b is in

payVars == <<payments, provider, pay>>

IdleCall == [pc |-> "idle", key |-> Null, amount |-> Null, result |-> Null]

\* The call returns result to its caller.
Returned(b, res) == [pay EXCEPT ![b].pc = "returned", ![b].result = res]

-----------------------------------------------------------------------------
NewPayment(u, a) == [state |-> "IN_PROGRESS", user |-> u, amount |-> a, refunded |-> FALSE]

CallAt(label, k, a) == [pc |-> label, key |-> k, amount |-> a, result |-> Null]

\* Mutation: an unresolved charge is tried again.
ChargeAgain(b, k, u, a) ==
    /\ pay[b].pc = "idle"
    /\ IF payments[k].state \in {"NONE", "IN_PROGRESS"}
       THEN /\ payments' = [payments EXCEPT ![k] = NewPayment(u, a)]
            /\ pay' = [pay EXCEPT ![b] = CallAt("provider", k, a)]
       ELSE /\ pay' = [pay EXCEPT ![b] = CallAt("replay", k, a)]
            /\ UNCHANGED payments
    /\ UNCHANGED provider

\* Mutation: the insert overwrites the row that is there.
ChargeUpsert(b, k, u, a) ==
    /\ pay[b].pc = "idle"
    /\ payments' = [payments EXCEPT ![k] = NewPayment(u, a)]
    /\ pay' = [pay EXCEPT ![b] =
           CallAt(IF payments[k].state = "NONE" THEN "provider" ELSE "replay", k, a)]
    /\ UNCHANGED provider

\* INSERT ... 'IN_PROGRESS'; the UNIQUE key sends a second call to replay.
Charge(b, k, u, a) ==
    /\ pay[b].pc = "idle"
    /\ IF payments[k].state = "NONE"
       THEN /\ payments' = [payments EXCEPT ![k] = NewPayment(u, a)]
            /\ pay' = [pay EXCEPT ![b] = CallAt("provider", k, a)]
       ELSE /\ pay' = [pay EXCEPT ![b] = CallAt("replay", k, a)]
            /\ UNCHANGED payments
    /\ UNCHANGED provider

\* Mutation: a call without an answer counts as declined.
ProviderChargeOrDecline(b) ==
    LET k == pay[b].key IN
    /\ pay[b].pc = "provider"
    /\ \E res \in {"none", "approved", "declined"}, heard \in BOOLEAN :
           /\ provider' = [provider EXCEPT ![k].calls = @ + 1, ![k].result = res]
           /\ pay' = [pay EXCEPT ![b].pc = "record",
                  ![b].result = IF res = "approved" /\ heard THEN "COMPLETED" ELSE "FAILED"]
    /\ UNCHANGED payments

\* What the provider has done with a call: approved or declined (both remembered
\* under the key), or unreachable; and whether the answer got back to us.
ProviderCharge(b) ==
    LET k == pay[b].key
        prior == provider[k].result
    IN
    /\ pay[b].pc = "provider"
    /\ \E res \in IF prior = "none" THEN {"none", "approved", "declined"} ELSE {prior} :
           /\ provider' = [provider EXCEPT ![k].calls = @ + 1, ![k].result = res]
           /\ \/ /\ res # "none"
                 /\ pay' = [pay EXCEPT ![b].pc = "record",
                        ![b].result = IF res = "approved" THEN "COMPLETED" ELSE "FAILED"]
              \/ pay' = Returned(b, "error")
    /\ UNCHANGED payments

\* UPDATE payments SET state = ...
RecordCharge(b) ==
    /\ pay[b].pc = "record"
    /\ payments' = [payments EXCEPT ![pay[b].key].state = pay[b].result]
    /\ pay' = [pay EXCEPT ![b].pc = "returned"]
    /\ UNCHANGED provider

\* Mutation: an unresolved payment is replayed as if it had an outcome.
ReplayableIfSameAmount(b) == payments[pay[b].key].amount = pay[b].amount

\* replay: the recorded outcome, unless the amount differs or it is unresolved.
Replayable(b) ==
    /\ payments[pay[b].key].amount = pay[b].amount
    /\ payments[pay[b].key].state # "IN_PROGRESS"

Replay(b) ==
    /\ pay[b].pc = "replay"
    /\ pay' = Returned(b, IF Replayable(b) THEN payments[pay[b].key].state ELSE "error")
    /\ UNCHANGED <<payments, provider>>

-----------------------------------------------------------------------------
\* Mutation: any payment can be refunded.
RefundAnyState(b, k) ==
    /\ pay[b].pc = "idle"
    /\ payments[k].state # "NONE"
    /\ pay' = [pay EXCEPT ![b] = CallAt("refund", k, Null)]
    /\ UNCHANGED <<payments, provider>>

\* Refund reads the row once, without locking it.
Refund(b, k) ==
    /\ pay[b].pc = "idle"
    /\ pay' = [pay EXCEPT ![b] =
           IF payments[k].refunded
           THEN [CallAt("returned", k, Null) EXCEPT !.result = "refunded"]
           ELSE IF payments[k].state # "COMPLETED"
           THEN [CallAt("returned", k, Null) EXCEPT !.result = "error"]
           ELSE CallAt("refund", k, Null)]
    /\ UNCHANGED <<payments, provider>>

\* A refund that reports an error may have gone through all the same.
ProviderRefund(b) ==
    /\ pay[b].pc = "refund"
    /\ \/ /\ provider' = [provider EXCEPT ![pay[b].key].refunds = @ + 1]
          /\ \/ pay' = [pay EXCEPT ![b].pc = "recordRefund"]
             \/ pay' = Returned(b, "error")
       \/ pay' = Returned(b, "error") /\ UNCHANGED provider
    /\ UNCHANGED payments

RecordRefund(b) ==
    /\ pay[b].pc = "recordRefund"
    /\ payments' = [payments EXCEPT ![pay[b].key].refunded = TRUE]
    /\ pay' = Returned(b, "refunded")
    /\ UNCHANGED provider

\* The steps of a call once it is under way.
PayStep(b) ==
    \/ ProviderCharge(b)
    \/ RecordCharge(b)
    \/ Replay(b)
    \/ ProviderRefund(b)
    \/ RecordRefund(b)

\* The caller has its answer, or the call dies (crash, cancelled context, failed
\* statement); committed statements and what the provider did stay.
EndCall(b) ==
    /\ pay[b].pc # "idle"
    /\ pay' = [pay EXCEPT ![b] = IdleCall]
    /\ UNCHANGED <<payments, provider>>

PayInit ==
    /\ payments = [k \in Keys |-> NoPayment]
    /\ provider = [k \in Keys |-> [calls |-> 0, result |-> "none", refunds |-> 0]]
    /\ pay = [b \in Callers |-> IdleCall]

-----------------------------------------------------------------------------
PayCalls ==
    [pc     : {"idle", "provider", "record", "replay", "refund", "recordRefund", "returned"},
     key    : Keys \cup {Null},
     amount : Amounts \cup {Null},
     result : {"COMPLETED", "FAILED", "error", "refunded", Null}]

PayTypeOK ==
    /\ payments \in [Keys -> PaymentColumns]
    /\ provider \in [Keys -> [calls : Nat, result : {"none", "approved", "declined"}, refunds : Nat]]
    /\ pay \in [Callers -> PayCalls]
    /\ \A b \in Callers : pay[b].pc # "idle" => pay[b].key \in Keys

\* The provider is asked to charge a key at most once: an unresolved or finished
\* charge is never retried (payments.go:56, 86-88, 171-172).
ChargedOncePerKey == \A k \in Keys : provider[k].calls <= 1

\* Money never moves without a row that says so, and a recorded outcome is what the
\* provider decided: what it took is IN_PROGRESS or COMPLETED here, never FAILED
\* (payments.go:70-72, 110-115).
OutcomeIsTheProviders ==
    \A k \in Keys :
        /\ provider[k].result # "none" => payments[k].state # "NONE"
        /\ payments[k].state = "COMPLETED" => provider[k].result = "approved"
        /\ payments[k].state = "FAILED" => provider[k].result = "declined"

\* Refunds go only to completed charges, and a row marked refunded was refunded.
RefundsAreOfCharges ==
    \A k \in Keys :
        /\ provider[k].refunds > 0 => payments[k].state = "COMPLETED"
        /\ payments[k].refunded => provider[k].refunds > 0

\* A definite outcome is final, and so is a refund (payments.go:115-122, 218-220).
OutcomeIsFinal ==
    [][\A k \in Keys :
          /\ payments[k].state \in {"COMPLETED", "FAILED"} => payments'[k].state = payments[k].state
          /\ payments[k].refunded => payments'[k].refunded]_payVars
=============================================================================
