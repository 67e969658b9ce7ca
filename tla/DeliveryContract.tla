-------------------------- MODULE DeliveryContract --------------------------
(***************************************************************************)
(* What the delivery of one user's messages promises, without connections, *)
(* queues or replay: a stored message is handed to a device's outbound     *)
(* queue, possibly several times, before the ledger records the pair, and  *)
(* a recorded pair stays recorded.  The sender's delivered mark needs a    *)
(* frame some device could read.                                           *)
(***************************************************************************)
EXTENDS Naturals

CONSTANTS Msg, Device

VARIABLES stored,    \* messages in the table
          handed,    \* <<message, device>> pairs some queue has accepted
          readable,  \* pairs accepted with content, not a placeholder
          recorded,  \* pairs in message_deliveries
          ticked     \* messages whose sender was told "delivered"

vars == <<stored, handed, readable, recorded, ticked>>

Init == /\ stored = {}
        /\ handed = {}
        /\ readable = {}
        /\ recorded = {}
        /\ ticked = {}

Store == /\ \E m \in Msg \ stored : stored' = stored \cup {m}
         /\ UNCHANGED <<handed, readable, recorded, ticked>>

Hand == /\ \E new \in SUBSET (stored \X Device) :
             \E good \in SUBSET new :
               /\ handed' = handed \cup new
               /\ readable' = readable \cup good
        /\ UNCHANGED <<stored, recorded, ticked>>

Record == /\ \E new \in SUBSET handed : recorded' = recorded \cup new
          /\ \E new \in SUBSET {p[1] : p \in readable} : ticked' = ticked \cup new
          /\ UNCHANGED <<stored, handed, readable>>

Next == Store \/ Hand \/ Record

Spec == Init /\ [][Next]_vars
=============================================================================
