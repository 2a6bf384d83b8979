---------------------------- MODULE SlotSteering ----------------------------
(***************************************************************************)
(* Steering by dropped slots: the accumulators with which run_route of     *)
(* scripts/drive_straight_compensated.py, run_closed_loop and simulate of  *)
(* scripts/closed_loop_drive.py and drive_heading of                       *)
(* scripts/drive_heading.py spread the slots a tread is driven in.         *)
(*                                                                         *)
(* A duty is a number of FULL-ths, and an accumulator counts units that    *)
(* are GRID times finer: each addition of the code's floating point is off *)
(* by one of ROUNDING of them, and the 1e-9 of the comparisons is EPSILON. *)
(***************************************************************************)
EXTENDS Integers

CONSTANTS
    FULL,           \* the duty of a tread that is driven in every slot
    GRID, EPSILON,
    ROUNDING, ROUND,\* what an addition may be off by, and the most it may
    MAX_SLOTS       \* bound: slots of one run

ASSUME SlotAssumption ==
    /\ FULL \in Nat \ {0} /\ GRID \in Nat /\ EPSILON \in Nat
    /\ ROUND \in Nat /\ ROUNDING \subseteq -ROUND..ROUND /\ MAX_SLOTS \in Nat
    /\ MAX_SLOTS * ROUND <= EPSILON /\ 2 * EPSILON < GRID

Treads == {"left", "right"}

VARIABLES
    accumulator,    \* left_accumulator, right_accumulator
    on,             \* left_on, right_on: is the tread driven in this slot?
    slots,          \* slots so far
    due             \* history: what the duties so far add up to, less FULL for
                    \* every slot that was driven, without any rounding

slotVars == <<accumulator, on, slots, due>>

NoDebt == [t \in Treads |-> 0]

SlotInit ==
    accumulator = NoDebt /\ on = [t \in Treads |-> FALSE] /\ slots = 0 /\ due = NoDebt

\* Mutant of Driven: the accumulator has to reach one.
DrivenExactly(sum) == sum >= GRID * FULL

Driven(sum) == sum >= GRID * FULL - EPSILON

\* One slot: each tread earns its duty, and pays for it when it is driven.
Slot(duty) ==
    /\ slots < MAX_SLOTS
    /\ slots' = slots + 1
    /\ \E off \in [Treads -> ROUNDING] :
         LET sum == [t \in Treads |-> accumulator[t] + GRID * duty[t] + off[t]]
         IN  /\ on' = [t \in Treads |-> Driven(sum[t])]
             /\ accumulator' = [t \in Treads |->
                                  IF Driven(sum[t]) THEN sum[t] - GRID * FULL ELSE sum[t]]
             /\ due' = [t \in Treads |->
                          IF Driven(sum[t]) THEN due[t] + duty[t] - FULL
                                            ELSE due[t] + duty[t]]

\* The next run starts with accumulators of its own.
SlotReset ==
    /\ accumulator' = NoDebt /\ on' = [t \in Treads |-> FALSE] /\ slots' = 0 /\ due' = NoDebt

Duties == [Treads -> 0..FULL]

SlotNext == SlotReset \/ \E duty \in Duties : Slot(duty)

SlotSpec == SlotInit /\ [][SlotNext]_slotVars

\* As many slots are driven as the duties add up to, in whole slots: rounding
\* neither drops a slot that is due nor drives one that is not, however long
\* the run (the comparisons with 1.0 - 1e-9).
SlotsAreExact == \A t \in Treads : due[t] \in 0..(FULL - 1)
=============================================================================
