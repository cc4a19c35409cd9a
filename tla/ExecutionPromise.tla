--------------------------- MODULE ExecutionPromise ---------------------------
(***************************************************************************)
(* What the executor and its journal promise to the rest of the system,    *)
(* without clock, scheduler, retries or storage: a command in progress is  *)
(* never one that is remembered as executed, only a command that was begun *)
(* moves a device - it may do so when it was abandoned or forgotten long   *)
(* ago -, only a command that moved its device is remembered, and a        *)
(* command is forgotten only to make room, one at a time.                  *)
(***************************************************************************)
EXTENDS Integers, FiniteSets

CONSTANTS
  Ids,          \* commands: scheduled events and manual taps
  MaxRecords,   \* how many executed commands are remembered
  DeliveryAck   \* is success only reported by the device itself?

VARIABLES
  open,         \* commands being executed
  begun,        \* commands that were ever begun
  remembered,   \* commands known as executed
  moved         \* commands that moved their device at least once

promiseVars == <<open, begun, remembered, moved>>

Init == open = {} /\ begun = {} /\ remembered = {} /\ moved = {}

Begin(id) ==
  /\ id \notin remembered \cup open
  /\ open' = open \cup {id}
  /\ begun' = begun \cup {id}
  /\ UNCHANGED <<remembered, moved>>

Move(id) ==
  /\ id \in begun
  /\ moved' = moved \cup {id}
  /\ UNCHANGED <<open, begun, remembered>>

(* Success: remembered, in the place of at most one other when full.       *)
Commit(id) ==
  /\ id \in open
  /\ DeliveryAck => id \in moved
  /\ open' = open \ {id}
  /\ \/ /\ Cardinality(remembered) < MaxRecords
        /\ remembered' = remembered \cup {id}
     \/ /\ Cardinality(remembered) = MaxRecords
        /\ \E old \in remembered : remembered' = (remembered \ {old}) \cup {id}
  /\ UNCHANGED <<begun, moved>>

(* Failure, or a success that could not be remembered.                     *)
Abandon(id) ==
  /\ id \in open
  /\ open' = open \ {id}
  /\ UNCHANGED <<begun, remembered, moved>>

PowerCut == open' = {} /\ UNCHANGED <<begun, remembered, moved>>

Next ==
  \/ \E id \in Ids : Begin(id) \/ Move(id) \/ Commit(id) \/ Abandon(id)
  \/ PowerCut

Spec == Init /\ [][Next]_promiseVars
=============================================================================
