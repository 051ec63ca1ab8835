------------------------- MODULE DeliveryContract --------------------------
(***************************************************************************)
(* What delivery and execution promise of one operation at an outside      *)
(* party that cannot be asked twice, whatever crashes, timeouts and        *)
(* retries happen below: one effect at most, and a durable proof that      *)
(* comes after the effect and, once recorded, names it for good.  The      *)
(* effect is a message Telegram accepted, or an order the broker took.     *)
(***************************************************************************)
EXTENDS Naturals

CONSTANT Operations

VARIABLES sent,    \* effects of the operation at the outside party
          proof    \* the effect the durable record names, 0 while it has none

contractVars == <<sent, proof>>

ContractInit == /\ sent = [o \in Operations |-> 0]
                /\ proof = [o \in Operations |-> 0]

Transmit(o) == /\ sent[o] = 0
               /\ sent' = [sent EXCEPT ![o] = 1]
               /\ UNCHANGED proof

Prove(o) == /\ sent[o] = 1
            /\ proof[o] = 0
            /\ proof' = [proof EXCEPT ![o] = 1]
            /\ UNCHANGED sent

ContractNext == \E o \in Operations : Transmit(o) \/ Prove(o)

ContractSpec == ContractInit /\ [][ContractNext]_contractVars
=============================================================================
