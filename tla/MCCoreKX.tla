------------------------------ MODULE MCCoreKX ------------------------------
(* Bounds for model checking CoreKX.                                       *)
EXTENDS CoreKX

NoPayload  == [p \in Peers |-> 0]
OneKey     == [p \in Peers |-> 1]
TwoKeys    == [p \in Peers |-> 2]

(* A encrypts one message in each exchange, before or after a rekey.       *)
OnePayload == [p \in Peers |-> IF p = A THEN 1 ELSE 0]
=============================================================================
