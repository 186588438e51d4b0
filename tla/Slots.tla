-------------------------------- MODULE Slots --------------------------------
(***************************************************************************)
(* What the gate to the enclave promises: a pool of slots, some of which   *)
(* are kept for callers of the highest priority.  Entering and leaving are *)
(* single steps; EnclaveQueue implements them with three tables and three  *)
(* mutexes.                                                                *)
(***************************************************************************)
EXTENDS Integers, FiniteSets

CONSTANTS
    Caller,
    SlotNum,        \* slots
    ReservedNum     \* slots kept for callers of the highest priority

VARIABLES
    high,        \* callers of the highest priority inside
    low          \* the other callers inside

slotVars == <<high, low>>

Taken == Cardinality(high \cup low)

EnterHigh(p) ==
    /\ p \notin high \cup low
    /\ Taken < SlotNum
    /\ high' = high \cup {p}
    /\ UNCHANGED low

EnterLow(p) ==
    /\ p \notin high \cup low
    /\ Taken < SlotNum - ReservedNum
    /\ low' = low \cup {p}
    /\ UNCHANGED high

Leave(p) ==
    /\ p \in high \cup low
    /\ high' = high \ {p}
    /\ low' = low \ {p}

SlotsInit == high = {} /\ low = {}
SlotsNext == \E p \in Caller : EnterHigh(p) \/ EnterLow(p) \/ Leave(p)
SlotsSpec == SlotsInit /\ [][SlotsNext]_slotVars

=============================================================================
