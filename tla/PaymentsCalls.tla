---------------------------- MODULE PaymentsCalls ----------------------------
(***************************************************************************)
(* The payments service alone, called in every way its private API allows: *)
(* any key, user and amount, calls that die half-way, and refunds of any   *)
(* payment.                                                                *)
(***************************************************************************)
EXTENDS Payments

CONSTANT MaxRefunds     \* bound: no refund of a key is started beyond this many

ChargeCall(b) == \E k \in Keys, u \in Users, a \in Amounts : Charge(b, k, u, a)

RefundCall(b) == \E k \in Keys : provider[k].refunds < MaxRefunds /\ Refund(b, k)

PayNext == \E b \in Callers : ChargeCall(b) \/ RefundCall(b) \/ PayStep(b) \/ EndCall(b)

PaySpec == PayInit /\ [][PayNext]_payVars
=============================================================================
