---------------------------- MODULE PaymentsProofs ----------------------------
(***************************************************************************)
(* The payments service, proved for any number of keys and of concurrent   *)
(* calls, each of which may die between two statements.                    *)
(*                                                                         *)
(* None of the four invariants is inductive: what a call records was       *)
(* decided some statements earlier.  PayIInv adds what each call still     *)
(* knows when it goes on (PayCallKnows), which rests on the unique key:    *)
(* only the call that inserted the row charges it (OneCharger).            *)
(***************************************************************************)
EXTENDS PaymentsCalls, TLAPS

Charging(b) == pay[b].pc \in {"provider", "record"}

\* One call at most is between its insert and its outcome, for each key.
OneCharger ==
    \A b, c \in Callers :
        Charging(b) /\ Charging(c) /\ pay[b].key = pay[c].key => b = c

\* A payment nobody has inserted is unknown to the provider.
NoRowNoCharge ==
    \A k \in Keys : payments[k].state = "NONE" =>
        provider[k].calls = 0 /\ provider[k].result = "none"

\* What call b still knows at its statement pc.
PayCallKnows(b) ==
    LET row == payments[pay[b].key]
        mock == provider[pay[b].key]
    IN
    /\ Charging(b) => row.state = "IN_PROGRESS" /\ row.amount = pay[b].amount
    /\ pay[b].pc = "provider" => mock.calls = 0 /\ mock.result = "none"
    /\ pay[b].pc = "replay" => row.state # "NONE"
    /\ pay[b].pc = "record" =>
           \/ pay[b].result = "COMPLETED" /\ mock.result = "approved"
           \/ pay[b].result = "FAILED" /\ mock.result = "declined"
    /\ pay[b].pc = "returned" =>
           /\ pay[b].result \in {"COMPLETED", "FAILED"} =>
                  row.state = pay[b].result /\ row.amount = pay[b].amount
           /\ pay[b].result = "refunded" => row.refunded
    /\ pay[b].pc \in {"refund", "recordRefund"} => row.state = "COMPLETED"
    /\ pay[b].pc = "recordRefund" => mock.refunds > 0

PayIInv ==
    /\ PayTypeOK
    /\ OneCharger
    /\ NoRowNoCharge
    /\ \A b \in Callers : PayCallKnows(b)
    /\ ChargedOncePerKey
    /\ OutcomeIsTheProviders
    /\ RefundsAreOfCharges

-----------------------------------------------------------------------------
Labels == {"idle", "provider", "record", "replay", "refund", "recordRefund", "returned"}

Results == {"COMPLETED", "FAILED", "error", "refunded", Null}

\* Where call b is when it goes on to another statement with a result.
LEMMA CallMoves ==
    ASSUME pay \in [Callers -> PayCalls], NEW b \in Callers,
           NEW label \in Labels, NEW res \in Results,
           pay' = [pay EXCEPT ![b].pc = label, ![b].result = res]
    PROVE  /\ pay' \in [Callers -> PayCalls]
           /\ pay'[b].pc = label /\ pay'[b].result = res
           /\ pay'[b].key = pay[b].key /\ pay'[b].amount = pay[b].amount
           /\ \A c \in Callers \ {b} : pay'[c] = pay[c]
<1> DEFINE moved == [pay EXCEPT ![b].pc = label]
<1>1. /\ moved \in [Callers -> PayCalls]
      /\ moved[b].pc = label /\ moved[b].key = pay[b].key /\ moved[b].amount = pay[b].amount
      /\ \A c \in Callers \ {b} : moved[c] = pay[c]
  BY DEF PayCalls, Labels
<1> DEFINE call == [moved[b] EXCEPT !.result = res]
<1>2. pay' = [moved EXCEPT ![b] = call]
  OBVIOUS
<1> HIDE DEF moved
<1>3. /\ call \in PayCalls /\ call.pc = label /\ call.result = res
      /\ call.key = pay[b].key /\ call.amount = pay[b].amount
  BY <1>1 DEF PayCalls, Results
<1> HIDE DEF call
<1> QED  BY <1>1, <1>2, <1>3

\* A service that starts with empty tables.
LEMMA PayInitIInv == PayInit => PayIInv
<1> SUFFICES ASSUME PayInit PROVE PayIInv
  OBVIOUS
<1>1. NoPayment \in PaymentColumns /\ IdleCall \in PayCalls
  BY DEF NoPayment, PaymentColumns, IdleCall, PayCalls
<1>2. PayTypeOK
  BY <1>1 DEF PayInit, PayTypeOK, IdleCall
<1>3. OneCharger /\ \A b \in Callers : PayCallKnows(b)
  BY DEF PayInit, OneCharger, Charging, PayCallKnows, IdleCall
<1>4. NoRowNoCharge /\ ChargedOncePerKey /\ OutcomeIsTheProviders /\ RefundsAreOfCharges
  BY DEF PayInit, NoPayment, NoRowNoCharge, ChargedOncePerKey, OutcomeIsTheProviders,
         RefundsAreOfCharges
<1> QED  BY <1>2, <1>3, <1>4 DEF PayIInv

\* A step in which call b alone moves, to where it knows next to nothing.
LEMMA OthersKeepIInv ==
    ASSUME PayIInv, PayTypeOK', NEW b \in Callers, UNCHANGED <<payments, provider>>,
           \A c \in Callers \ {b} : pay'[c] = pay[c],
           \/ pay'[b].pc = "idle"
           \/ pay'[b].pc = "replay" /\ payments[pay'[b].key].state # "NONE"
           \/ pay'[b].pc = "returned" /\ pay'[b].result = "error"
    PROVE  PayIInv'
<1> USE DEF PayIInv
<1>1. OneCharger'
  BY DEF OneCharger, Charging
<1>2. \A c \in Callers : PayCallKnows(c)'
  BY DEF PayCallKnows, Charging
<1>3. NoRowNoCharge' /\ ChargedOncePerKey' /\ OutcomeIsTheProviders' /\ RefundsAreOfCharges'
  BY DEF NoRowNoCharge, ChargedOncePerKey, OutcomeIsTheProviders, RefundsAreOfCharges
<1> QED  BY <1>1, <1>2, <1>3

\* A new call claims the key, or finds it claimed.
LEMMA ChargeIInv ==
    ASSUME PayIInv, NEW b \in Callers, NEW k \in Keys, NEW u \in Users, NEW a \in Amounts,
           Charge(b, k, u, a)
    PROVE  PayIInv'
<1> USE DEF PayIInv
<1>0. payments \in [Keys -> PaymentColumns] /\ pay \in [Callers -> PayCalls]
  BY DEF PayTypeOK
<1>1. PayTypeOK'
  <2>1. NewPayment(u, a) \in PaymentColumns
    BY DEF NewPayment, PaymentColumns
  <2>2. CallAt("provider", k, a) \in PayCalls /\ CallAt("replay", k, a) \in PayCalls
    BY DEF CallAt, PayCalls
  <2>3. CASE payments[k].state = "NONE"
    BY <2>1, <2>2, <2>3 DEF Charge, PayTypeOK, CallAt
  <2>4. CASE payments[k].state # "NONE"
    BY <2>2, <2>4 DEF Charge, PayTypeOK, CallAt
  <2> QED  BY <2>3, <2>4
<1>2. CASE payments[k].state = "NONE"
  <2>1. /\ payments' = [payments EXCEPT ![k] = NewPayment(u, a)]
        /\ pay' = [pay EXCEPT ![b] = CallAt("provider", k, a)]
        /\ provider' = provider
    BY <1>2 DEF Charge
  <2>2. payments'[k].state = "IN_PROGRESS" /\ payments'[k].amount = a /\ ~payments'[k].refunded
    BY <2>1, <1>0 DEF NewPayment
  <2>3. \A j \in Keys \ {k} : payments'[j] = payments[j]
    BY <2>1, <1>0
  <2>4. pay'[b].pc = "provider" /\ pay'[b].key = k /\ pay'[b].amount = a
    BY <2>1, <1>0 DEF CallAt
  <2>5. \A c \in Callers \ {b} : pay'[c] = pay[c]
    BY <2>1, <1>0
  <2>6. provider[k].calls = 0 /\ provider[k].result = "none"
    BY <1>2 DEF NoRowNoCharge
  <2>7. ~payments[k].refunded
    BY <1>0, <1>2 DEF RefundsAreOfCharges, PaymentColumns
  \* No other call is at work on a key without a row.
  <2>8. \A c \in Callers : Charging(c) => pay[c].key \in Keys \ {k}
    BY <1>2 DEF PayCallKnows, PayTypeOK, Charging
  <2>9. OneCharger'
    BY <2>4, <2>5, <2>8 DEF OneCharger, Charging
  <2>10. ASSUME NEW c \in Callers PROVE PayCallKnows(c)'
    <3>1. CASE c = b
      BY <3>1, <2>1, <2>2, <2>4, <2>6 DEF PayCallKnows, Charging
    <3>2. CASE c # b
      <4>1. pay'[c] = pay[c] /\ PayCallKnows(c) /\ (pay[c].pc # "idle" => pay[c].key \in Keys)
        BY <2>5, <3>2 DEF PayTypeOK
      <4>2. CASE pay[c].key = k
        BY <4>1, <4>2, <1>2, <2>1, <2>2, <2>7, <2>8 DEF PayCallKnows, Charging
      <4>3. CASE pay[c].key # k
        BY <4>1, <4>3, <2>1, <2>3 DEF PayCallKnows, Charging
      <4> QED  BY <4>2, <4>3
    <3> QED  BY <3>1, <3>2
  <2>11. NoRowNoCharge' /\ ChargedOncePerKey'
    BY <2>1, <2>2, <2>3 DEF NoRowNoCharge, ChargedOncePerKey
  <2>12. OutcomeIsTheProviders'
    BY <2>1, <2>2, <2>3 DEF OutcomeIsTheProviders
  <2>13. RefundsAreOfCharges'
    BY <1>2, <2>1, <2>2, <2>3 DEF RefundsAreOfCharges
  <2> QED  BY <1>1, <2>9, <2>10, <2>11, <2>12, <2>13
<1>3. CASE payments[k].state # "NONE"
  <2>1. /\ pay' = [pay EXCEPT ![b] = CallAt("replay", k, a)]
        /\ UNCHANGED <<payments, provider>>
    BY <1>3 DEF Charge
  <2>2. pay'[b].pc = "replay" /\ pay'[b].key = k /\ \A c \in Callers \ {b} : pay'[c] = pay[c]
    BY <2>1, <1>0 DEF CallAt
  <2>3. UNCHANGED <<payments, provider>>
    BY <2>1
  <2> HIDE DEF PayIInv
  <2> QED  BY <1>1, <1>3, <2>2, <2>3, OthersKeepIInv
<1> QED  BY <1>2, <1>3

\* A refund starts from a completed charge, or ends at once.
LEMMA RefundIInv ==
    ASSUME PayIInv, NEW b \in Callers, NEW k \in Keys, Refund(b, k)
    PROVE  PayIInv'
<1> USE DEF PayIInv
<1>0. payments \in [Keys -> PaymentColumns] /\ pay \in [Callers -> PayCalls]
  BY DEF PayTypeOK
<1> DEFINE new == pay'[b]
<1>1. /\ new.key = k /\ new \in PayCalls
      /\ \/ new.pc = "returned" /\ new.result = "refunded" /\ payments[k].refunded
         \/ new.pc = "returned" /\ new.result = "error"
         \/ new.pc = "refund" /\ payments[k].state = "COMPLETED"
  BY <1>0 DEF Refund, CallAt, PayCalls
<1>2. \A c \in Callers \ {b} : pay'[c] = pay[c]
  BY <1>0 DEF Refund
<1>3. UNCHANGED <<payments, provider>>
  BY DEF Refund
<1>4. PayTypeOK'
  <2>1. pay' \in [Callers -> PayCalls]
    BY <1>0, <1>1 DEF Refund
  <2>2. \A c \in Callers : pay'[c].pc # "idle" => pay'[c].key \in Keys
    BY <1>1, <1>2 DEF PayTypeOK
  <2> QED  BY <2>1, <2>2, <1>3 DEF PayTypeOK
<1> HIDE DEF new
<1>5. OneCharger'
  BY <1>1, <1>2 DEF OneCharger, Charging, new
<1>6. ASSUME NEW c \in Callers PROVE PayCallKnows(c)'
  <2>1. CASE c = b
    BY <1>1, <1>3, <2>1 DEF PayCallKnows, Charging, new
  <2>2. CASE c # b
    BY <1>2, <1>3, <2>2 DEF PayCallKnows, Charging
  <2> QED  BY <2>1, <2>2
<1>7. NoRowNoCharge' /\ ChargedOncePerKey' /\ OutcomeIsTheProviders' /\ RefundsAreOfCharges'
  BY <1>3 DEF NoRowNoCharge, ChargedOncePerKey, OutcomeIsTheProviders, RefundsAreOfCharges
<1> QED  BY <1>4, <1>5, <1>6, <1>7

\* The provider's side of a charge, which happens once.
LEMMA ProviderChargeIInv ==
    ASSUME PayIInv, NEW b \in Callers, ProviderCharge(b)
    PROVE  PayIInv'
<1> USE DEF PayIInv
<1> DEFINE k == pay[b].key
<1>0. /\ payments \in [Keys -> PaymentColumns] /\ pay \in [Callers -> PayCalls]
      /\ provider \in [Keys -> [calls : Nat, result : {"none", "approved", "declined"}, refunds : Nat]]
      /\ pay[b].pc = "provider" /\ k \in Keys /\ payments' = payments
  BY DEF PayTypeOK, ProviderCharge
<1>1. /\ provider[k].calls = 0 /\ provider[k].result = "none"
      /\ payments[k].state = "IN_PROGRESS" /\ payments[k].amount = pay[b].amount
  BY <1>0 DEF PayCallKnows, Charging
<1>2. PICK res \in {"none", "approved", "declined"} :
          /\ provider' = [provider EXCEPT ![k].calls = @ + 1, ![k].result = res]
          /\ \/ /\ res # "none"
                /\ pay' = [pay EXCEPT ![b].pc = "record",
                       ![b].result = IF res = "approved" THEN "COMPLETED" ELSE "FAILED"]
             \/ pay' = Returned(b, "error")
  BY <1>1 DEF ProviderCharge
<1>3. /\ provider'[k].calls = 1 /\ provider'[k].result = res
      /\ provider'[k].refunds = provider[k].refunds
      /\ \A j \in Keys \ {k} : provider'[j] = provider[j]
  BY <1>0, <1>1, <1>2
<1>4. /\ \A c \in Callers \ {b} : pay'[c] = pay[c]
      /\ pay'[b].key = k /\ pay'[b].amount = pay[b].amount
      /\ \/ pay'[b].pc = "record" /\ pay'[b].result = "COMPLETED" /\ res = "approved"
         \/ pay'[b].pc = "record" /\ pay'[b].result = "FAILED" /\ res = "declined"
         \/ pay'[b].pc = "returned" /\ pay'[b].result = "error"
  BY <1>0, <1>2 DEF Returned, PayCalls
<1>5. PayTypeOK'
  <2>1. provider' \in [Keys -> [calls : Nat, result : {"none", "approved", "declined"}, refunds : Nat]]
    BY <1>0, <1>2
  <2>2. pay' \in [Callers -> PayCalls]
    BY <1>0, <1>2, CallMoves DEF Returned, Labels, Results
  <2>3. \A c \in Callers : pay'[c].pc # "idle" => pay'[c].key \in Keys
    BY <1>0, <1>4 DEF PayTypeOK
  <2> QED  BY <1>0, <2>1, <2>2, <2>3 DEF PayTypeOK
<1> HIDE DEF k
<1>6. OneCharger'
  BY <1>0, <1>4 DEF OneCharger, Charging, k
\* The other calls of this key are replays, which know nothing of the provider.
<1>7. ASSUME NEW c \in Callers PROVE PayCallKnows(c)'
  <2>1. CASE c = b
    BY <1>0, <1>1, <1>3, <1>4, <2>1 DEF PayCallKnows, Charging, k
  <2>2. CASE c # b
    <3>1. PayCallKnows(c) /\ pay'[c] = pay[c] /\ (pay[c].pc # "idle" => pay[c].key \in Keys)
      BY <1>4, <2>2 DEF PayTypeOK
    <3>2. CASE pay[c].key # k
      BY <1>0, <1>3, <3>1, <3>2 DEF PayCallKnows, Charging
    <3>3. CASE pay[c].key = k
      <4>1. ~Charging(c)
        BY <1>0, <2>2, <3>3 DEF OneCharger, Charging, k
      <4> QED  BY <1>0, <1>1, <3>1, <3>3, <4>1 DEF PayCallKnows, Charging
    <3> QED  BY <3>2, <3>3
  <2> QED  BY <2>1, <2>2
<1>8. NoRowNoCharge' /\ ChargedOncePerKey' /\ OutcomeIsTheProviders'
  BY <1>0, <1>1, <1>3 DEF NoRowNoCharge, ChargedOncePerKey, OutcomeIsTheProviders
<1>9. RefundsAreOfCharges'
  BY <1>0, <1>3 DEF RefundsAreOfCharges
<1> QED  BY <1>5, <1>6, <1>7, <1>8, <1>9

\* What was IN_PROGRESS gets the provider's outcome.
LEMMA RecordChargeIInv ==
    ASSUME PayIInv, NEW b \in Callers, RecordCharge(b)
    PROVE  PayIInv'
<1> USE DEF PayIInv
<1> DEFINE k == pay[b].key
<1>0. /\ payments \in [Keys -> PaymentColumns] /\ pay \in [Callers -> PayCalls]
      /\ pay[b].pc = "record" /\ k \in Keys /\ provider' = provider
  BY DEF PayTypeOK, RecordCharge
<1>1. /\ payments[k].state = "IN_PROGRESS" /\ payments[k].amount = pay[b].amount
      /\ \/ pay[b].result = "COMPLETED" /\ provider[k].result = "approved"
         \/ pay[b].result = "FAILED" /\ provider[k].result = "declined"
  BY <1>0 DEF PayCallKnows, Charging
<1>2. /\ payments'[k].state = pay[b].result /\ payments'[k].amount = payments[k].amount
      /\ payments'[k].refunded = payments[k].refunded
      /\ \A j \in Keys \ {k} : payments'[j] = payments[j]
  BY <1>0 DEF RecordCharge, PaymentColumns
<1>3. /\ pay'[b].pc = "returned" /\ pay'[b].result = pay[b].result
      /\ pay'[b].key = k /\ pay'[b].amount = pay[b].amount
      /\ \A c \in Callers \ {b} : pay'[c] = pay[c]
  BY <1>0 DEF RecordCharge, PayCalls
<1>4. PayTypeOK'
  <2>1. payments' \in [Keys -> PaymentColumns]
    BY <1>0, <1>1 DEF RecordCharge, PaymentColumns
  <2>2. pay' \in [Callers -> PayCalls]
    BY <1>0 DEF RecordCharge, PayCalls
  <2>3. \A c \in Callers : pay'[c].pc # "idle" => pay'[c].key \in Keys
    BY <1>0, <1>3 DEF PayTypeOK
  <2> QED  BY <1>0, <2>1, <2>2, <2>3 DEF PayTypeOK
<1> HIDE DEF k
<1>5. OneCharger'
  BY <1>3 DEF OneCharger, Charging
<1>6. ~payments[k].refunded
  BY <1>0, <1>1 DEF RefundsAreOfCharges, PaymentColumns
<1>7. ASSUME NEW c \in Callers PROVE PayCallKnows(c)'
  <2>1. CASE c = b
    BY <1>0, <1>1, <1>2, <1>3, <2>1 DEF PayCallKnows, Charging
  <2>2. CASE c # b
    <3>1. PayCallKnows(c) /\ pay'[c] = pay[c] /\ (pay[c].pc # "idle" => pay[c].key \in Keys)
      BY <1>3, <2>2 DEF PayTypeOK
    <3>2. CASE pay[c].key # k
      BY <1>0, <1>2, <3>1, <3>2 DEF PayCallKnows, Charging
    <3>3. CASE pay[c].key = k
      <4>1. ~Charging(c)
        BY <1>0, <2>2, <3>3 DEF OneCharger, Charging, k
      <4> QED  BY <1>0, <1>1, <1>2, <1>6, <3>1, <3>3, <4>1 DEF PayCallKnows, Charging
    <3> QED  BY <3>2, <3>3
  <2> QED  BY <2>1, <2>2
<1>8. NoRowNoCharge' /\ ChargedOncePerKey' /\ OutcomeIsTheProviders'
  BY <1>0, <1>1, <1>2 DEF NoRowNoCharge, ChargedOncePerKey, OutcomeIsTheProviders
<1>9. RefundsAreOfCharges'
  BY <1>0, <1>1, <1>2 DEF RefundsAreOfCharges
<1> QED  BY <1>4, <1>5, <1>7, <1>8, <1>9

LEMMA ReplayIInv ==
    ASSUME PayIInv, NEW b \in Callers, Replay(b)
    PROVE  PayIInv'
<1> USE DEF PayIInv
<1> DEFINE row == payments[pay[b].key]
<1>0. /\ payments \in [Keys -> PaymentColumns] /\ pay \in [Callers -> PayCalls]
      /\ pay[b].pc = "replay" /\ pay[b].key \in Keys /\ UNCHANGED <<payments, provider>>
  BY DEF PayTypeOK, Replay
<1>1. /\ pay'[b].pc = "returned" /\ pay'[b].key = pay[b].key /\ pay'[b].amount = pay[b].amount
      /\ \A c \in Callers \ {b} : pay'[c] = pay[c]
  BY <1>0 DEF Replay, Returned, PayCalls
\* A row without an outcome and one that does not exist are not replayed as one.
<1>2. \/ pay'[b].result = "error"
      \/ pay'[b].result = row.state /\ row.state # "IN_PROGRESS" /\ row.amount = pay[b].amount
  BY <1>0 DEF Replay, Returned, PayCalls, Replayable
<1>3. PayTypeOK'
  <2>1. pay' \in [Callers -> PayCalls]
    <3>1. Replayable(b) => row.state \in {"COMPLETED", "FAILED"}
      BY <1>0 DEF PayCallKnows, PaymentColumns, Replayable
    <3> QED  BY <1>0, <3>1, CallMoves DEF Replay, Returned, Labels, Results
  <2>2. \A c \in Callers : pay'[c].pc # "idle" => pay'[c].key \in Keys
    BY <1>0, <1>1 DEF PayTypeOK
  <2> QED  BY <1>0, <2>1, <2>2 DEF PayTypeOK
<1>4. OneCharger'
  BY <1>1 DEF OneCharger, Charging
<1>5. ASSUME NEW c \in Callers PROVE PayCallKnows(c)'
  <2>1. CASE c = b
    <3>1. pay'[b].result # "refunded"
      BY <1>0, <1>2 DEF PaymentColumns
    <3> QED  BY <1>0, <1>1, <1>2, <2>1, <3>1 DEF PayCallKnows, Charging
  <2>2. CASE c # b
    BY <1>0, <1>1, <2>2 DEF PayCallKnows, Charging
  <2> QED  BY <2>1, <2>2
<1>6. NoRowNoCharge' /\ ChargedOncePerKey' /\ OutcomeIsTheProviders' /\ RefundsAreOfCharges'
  BY <1>0 DEF NoRowNoCharge, ChargedOncePerKey, OutcomeIsTheProviders, RefundsAreOfCharges
<1> QED  BY <1>3, <1>4, <1>5, <1>6

\* The provider's side of a refund, of a completed charge.
LEMMA ProviderRefundIInv ==
    ASSUME PayIInv, NEW b \in Callers, ProviderRefund(b)
    PROVE  PayIInv'
<1> USE DEF PayIInv
<1> DEFINE k == pay[b].key
<1>0. /\ payments \in [Keys -> PaymentColumns] /\ pay \in [Callers -> PayCalls]
      /\ provider \in [Keys -> [calls : Nat, result : {"none", "approved", "declined"}, refunds : Nat]]
      /\ pay[b].pc = "refund" /\ k \in Keys /\ payments' = payments
  BY DEF PayTypeOK, ProviderRefund
<1>1. payments[k].state = "COMPLETED"
  BY <1>0 DEF PayCallKnows
<1>2. CASE UNCHANGED provider
  <2>1. pay' = Returned(b, "error")
    BY <1>0, <1>2 DEF ProviderRefund
  <2>2. pay'[b].pc = "returned" /\ pay'[b].result = "error" /\ pay' \in [Callers -> PayCalls]
    BY <1>0, <2>1, CallMoves DEF Returned, Labels, Results
  <2>3. pay'[b].key = k /\ \A c \in Callers \ {b} : pay'[c] = pay[c]
    BY <1>0, <2>1 DEF Returned, PayCalls
  <2>4. PayTypeOK'
    BY <1>0, <1>2, <2>2, <2>3 DEF PayTypeOK
  <2> HIDE DEF PayIInv
  <2> QED  BY <1>0, <1>2, <2>2, <2>3, <2>4, OthersKeepIInv
<1>3. CASE provider' = [provider EXCEPT ![k].refunds = @ + 1]
  <2>1. /\ provider'[k].refunds = provider[k].refunds + 1
        /\ provider'[k].calls = provider[k].calls /\ provider'[k].result = provider[k].result
        /\ \A j \in Keys \ {k} : provider'[j] = provider[j]
    BY <1>0, <1>3
  <2>2. /\ \/ pay'[b].pc = "recordRefund"
           \/ pay'[b].pc = "returned" /\ pay'[b].result = "error"
        /\ pay' \in [Callers -> PayCalls]
    <3>1. CASE pay' = Returned(b, "error")
      BY <1>0, <3>1, CallMoves DEF Returned, Labels, Results
    <3>2. CASE pay' = [pay EXCEPT ![b].pc = "recordRefund"]
      BY <1>0, <3>2 DEF PayCalls
    <3>3. provider' # provider
      BY <1>0, <2>1
    <3> QED  BY <3>1, <3>2, <3>3 DEF ProviderRefund
  <2>3. pay'[b].key = k /\ \A c \in Callers \ {b} : pay'[c] = pay[c]
    BY <1>0 DEF ProviderRefund, Returned, PayCalls
  <2>4. PayTypeOK'
    <3>1. provider' \in
              [Keys -> [calls : Nat, result : {"none", "approved", "declined"}, refunds : Nat]]
      BY <1>0, <1>3
    <3> QED  BY <1>0, <2>2, <2>3, <3>1 DEF PayTypeOK
  <2> HIDE DEF k
  <2>5. OneCharger'
    BY <2>2, <2>3 DEF OneCharger, Charging
  <2>6. provider[k].refunds \in Nat /\ \A j \in Keys : provider'[j].calls = provider[j].calls
            /\ provider'[j].result = provider[j].result
    BY <1>0, <2>1
  <2>7. ASSUME NEW c \in Callers PROVE PayCallKnows(c)'
    <3>1. CASE c = b
      BY <1>0, <1>1, <2>1, <2>2, <2>3, <2>6, <3>1 DEF PayCallKnows, Charging
    <3>2. CASE c # b
      <4>1. PayCallKnows(c) /\ pay'[c] = pay[c] /\ (pay[c].pc # "idle" => pay[c].key \in Keys)
        BY <2>3, <3>2 DEF PayTypeOK
      <4>2. CASE pay[c].key = k
        BY <1>0, <2>1, <2>6, <4>1, <4>2 DEF PayCallKnows, Charging
      <4>3. CASE pay[c].key # k
        BY <1>0, <2>1, <4>1, <4>3 DEF PayCallKnows, Charging
      <4> QED  BY <4>2, <4>3
    <3> QED  BY <3>1, <3>2
  <2>8. NoRowNoCharge' /\ ChargedOncePerKey' /\ OutcomeIsTheProviders'
    BY <1>0, <2>6 DEF NoRowNoCharge, ChargedOncePerKey, OutcomeIsTheProviders
  <2>9. RefundsAreOfCharges'
    BY <1>0, <1>1, <2>1, <2>6 DEF RefundsAreOfCharges
  <2> QED  BY <2>4, <2>5, <2>7, <2>8, <2>9
<1> QED  BY <1>2, <1>3 DEF ProviderRefund

\* refunded_at is set after the provider refunded.
LEMMA RecordRefundIInv ==
    ASSUME PayIInv, NEW b \in Callers, RecordRefund(b)
    PROVE  PayIInv'
<1> USE DEF PayIInv
<1> DEFINE k == pay[b].key
<1>0. /\ payments \in [Keys -> PaymentColumns] /\ pay \in [Callers -> PayCalls]
      /\ pay[b].pc = "recordRefund" /\ k \in Keys /\ provider' = provider
  BY DEF PayTypeOK, RecordRefund
<1>1. payments[k].state = "COMPLETED" /\ provider[k].refunds > 0
  BY <1>0 DEF PayCallKnows
<1>2. /\ payments'[k].state = payments[k].state /\ payments'[k].amount = payments[k].amount
      /\ payments'[k].refunded
      /\ \A j \in Keys \ {k} : payments'[j] = payments[j]
  BY <1>0 DEF RecordRefund, PaymentColumns
<1>3. /\ pay'[b].pc = "returned" /\ pay'[b].result = "refunded" /\ pay'[b].key = k
      /\ \A c \in Callers \ {b} : pay'[c] = pay[c]
  BY <1>0 DEF RecordRefund, Returned, PayCalls
<1>4. PayTypeOK'
  <2>1. payments' \in [Keys -> PaymentColumns]
    BY <1>0 DEF RecordRefund, PaymentColumns
  <2>2. pay' \in [Callers -> PayCalls]
    BY <1>0 DEF RecordRefund, Returned, PayCalls
  <2>3. \A c \in Callers : pay'[c].pc # "idle" => pay'[c].key \in Keys
    BY <1>0, <1>3 DEF PayTypeOK
  <2> QED  BY <1>0, <2>1, <2>2, <2>3 DEF PayTypeOK
<1> HIDE DEF k
<1>5. OneCharger'
  BY <1>3 DEF OneCharger, Charging
<1>6. ASSUME NEW c \in Callers PROVE PayCallKnows(c)'
  <2>1. CASE c = b
    BY <1>2, <1>3, <2>1 DEF PayCallKnows, Charging
  <2>2. CASE c # b
    <3>1. PayCallKnows(c) /\ pay'[c] = pay[c] /\ (pay[c].pc # "idle" => pay[c].key \in Keys)
      BY <1>3, <2>2 DEF PayTypeOK
    <3>2. CASE pay[c].key = k
      BY <1>0, <1>2, <3>1, <3>2 DEF PayCallKnows, Charging
    <3>3. CASE pay[c].key # k
      BY <1>0, <1>2, <3>1, <3>3 DEF PayCallKnows, Charging
    <3> QED  BY <3>2, <3>3
  <2> QED  BY <2>1, <2>2
<1>7. \A j \in Keys : payments'[j].state = payments[j].state
  BY <1>2
<1>8. NoRowNoCharge' /\ ChargedOncePerKey' /\ OutcomeIsTheProviders'
  BY <1>0, <1>7 DEF NoRowNoCharge, ChargedOncePerKey, OutcomeIsTheProviders
<1>9. RefundsAreOfCharges'
  BY <1>0, <1>1, <1>2, <1>7 DEF RefundsAreOfCharges
<1> QED  BY <1>4, <1>5, <1>6, <1>8, <1>9

\* The call is over, answered or not.
LEMMA IdleIInv ==
    ASSUME PayIInv, NEW b \in Callers, pay' = [pay EXCEPT ![b] = IdleCall],
           UNCHANGED <<payments, provider>>
    PROVE  PayIInv'
<1>0. pay \in [Callers -> PayCalls]
  BY DEF PayIInv, PayTypeOK
<1>1. IdleCall \in PayCalls /\ IdleCall.pc = "idle"
  BY DEF IdleCall, PayCalls
<1>2. pay'[b].pc = "idle" /\ pay' \in [Callers -> PayCalls]
      /\ \A c \in Callers \ {b} : pay'[c] = pay[c]
  BY <1>0, <1>1
<1>3. PayTypeOK'
  BY <1>2 DEF PayIInv, PayTypeOK
<1> QED  BY <1>2, <1>3, OthersKeepIInv

LEMMA PayUnchangedIInv ==
    ASSUME PayIInv, UNCHANGED payVars
    PROVE  PayIInv'
BY DEF payVars, PayIInv, PayTypeOK, OneCharger, Charging, NoRowNoCharge, PayCallKnows,
       ChargedOncePerKey, OutcomeIsTheProviders, RefundsAreOfCharges

LEMMA PayStepIInv ==
    ASSUME PayIInv, NEW b \in Callers, PayStep(b)
    PROVE  PayIInv'
BY ProviderChargeIInv, RecordChargeIInv, ReplayIInv, ProviderRefundIInv, RecordRefundIInv
DEF PayStep

-----------------------------------------------------------------------------
LEMMA PaymentsIInv == PaySpec => []PayIInv
<1>1. PayIInv /\ [PayNext]_payVars => PayIInv'
  <2> SUFFICES ASSUME PayIInv, [PayNext]_payVars PROVE PayIInv'
    OBVIOUS
  <2>1. ASSUME NEW b \in Callers, ChargeCall(b) \/ RefundCall(b) \/ PayStep(b) \/ EndCall(b)
        PROVE  PayIInv'
    <3>1. CASE ChargeCall(b)
      BY <3>1, ChargeIInv DEF ChargeCall
    <3>2. CASE RefundCall(b)
      BY <3>2, RefundIInv DEF RefundCall
    <3>3. CASE PayStep(b)
      BY <3>3, PayStepIInv
    <3>4. CASE EndCall(b)
      BY <3>4, IdleIInv DEF EndCall
    <3> QED  BY <2>1, <3>1, <3>2, <3>3, <3>4
  <2>2. CASE UNCHANGED payVars
    BY <2>2, PayUnchangedIInv
  <2> QED  BY <2>1, <2>2 DEF PayNext
<1> QED  BY <1>1, PayInitIInv, PTL DEF PaySpec

\* Every row and every call in flight has the columns the schema gives it.
THEOREM PaymentsTypeCorrect == PaySpec => []PayTypeOK
<1>1. PayIInv => PayTypeOK
  BY DEF PayIInv
<1> QED  BY <1>1, PaymentsIInv, PTL

\* However many calls carry one key, the provider is asked to charge it once.
THEOREM KeysAreChargedOnce == PaySpec => []ChargedOncePerKey
<1>1. PayIInv => ChargedOncePerKey
  BY DEF PayIInv
<1> QED  BY <1>1, PaymentsIInv, PTL

\* A recorded outcome is the provider's, and no money moves without a row.
THEOREM OutcomesAreTheProviders == PaySpec => []OutcomeIsTheProviders
<1>1. PayIInv => OutcomeIsTheProviders
  BY DEF PayIInv
<1> QED  BY <1>1, PaymentsIInv, PTL

\* Only completed charges are refunded, and only refunded ones are marked so.
THEOREM OnlyChargesAreRefunded == PaySpec => []RefundsAreOfCharges
<1>1. PayIInv => RefundsAreOfCharges
  BY DEF PayIInv
<1> QED  BY <1>1, PaymentsIInv, PTL

\* A step of the service leaves definite outcomes and refunds alone.
LEMMA PayStepKeepsOutcomes ==
    ASSUME PayIInv, NEW b \in Callers, PayStep(b) \/ EndCall(b), NEW k \in Keys
    PROVE  /\ payments[k].state \in {"COMPLETED", "FAILED"} => payments'[k].state = payments[k].state
           /\ payments[k].refunded => payments'[k].refunded
<1>0. payments \in [Keys -> PaymentColumns] /\ pay[b].pc # "idle" => pay[b].key \in Keys
  BY DEF PayIInv, PayTypeOK
<1>1. CASE RecordCharge(b)
  <2>1. payments[pay[b].key].state = "IN_PROGRESS"
    BY <1>1 DEF PayIInv, PayCallKnows, Charging, RecordCharge
  <2> QED  BY <1>0, <1>1, <2>1 DEF PayIInv, PayTypeOK, RecordCharge, PaymentColumns
<1>2. CASE RecordRefund(b)
  BY <1>0, <1>2 DEF PayIInv, PayTypeOK, RecordRefund, PaymentColumns
<1>3. CASE UNCHANGED payments
  BY <1>3
<1> QED
  BY <1>1, <1>2, <1>3 DEF PayStep, ProviderCharge, Replay, ProviderRefund, EndCall

\* A definite outcome is final, and so is a refund, whatever calls come and go.
THEOREM OutcomesAreFinal == PaySpec => OutcomeIsFinal
<1> DEFINE Kept == \A k \in Keys :
        /\ payments[k].state \in {"COMPLETED", "FAILED"} => payments'[k].state = payments[k].state
        /\ payments[k].refunded => payments'[k].refunded
<1>1. PayIInv /\ PayNext => Kept
  <2> SUFFICES ASSUME PayIInv, PayNext PROVE Kept
    OBVIOUS
  <2>1. PICK b \in Callers : ChargeCall(b) \/ RefundCall(b) \/ PayStep(b) \/ EndCall(b)
    BY DEF PayNext
  <2>2. CASE ChargeCall(b)
    <3>1. PICK k \in Keys, u \in Users, a \in Amounts : Charge(b, k, u, a)
      BY <2>2 DEF ChargeCall
    <3>2. payments[k].state = "NONE" => ~payments[k].refunded
      BY DEF PayIInv, PayTypeOK, PaymentColumns, RefundsAreOfCharges
    <3> QED  BY <3>1, <3>2 DEF Charge, PayIInv, PayTypeOK
  <2>3. CASE RefundCall(b)
    BY <2>3 DEF RefundCall, Refund
  <2>4. CASE PayStep(b) \/ EndCall(b)
    BY <2>4, PayStepKeepsOutcomes
  <2> QED  BY <2>1, <2>2, <2>3, <2>4
<1>2. PayIInv /\ [PayNext]_payVars => [Kept]_payVars
  BY <1>1
<1> QED  BY <1>2, PaymentsIInv, PTL DEF PaySpec, OutcomeIsFinal
=============================================================================
