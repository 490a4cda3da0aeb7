----------------------------- MODULE EpochSchedule -----------------------------
(***************************************************************************)
(* EpochSchedule (web3/epoch_schedule.go): the epoch of a slot, and the    *)
(* slots of an epoch, while the cluster goes from slot to slot.  Epochs    *)
(* may begin short and double until the first normal one.                  *)
(***************************************************************************)
EXTENDS Integers

CONSTANTS
  Schedules,   (* schedules a cluster may have                                *)
  MaxSlot      (* bound: slots walked through                                 *)

MINIMUM_SLOT_PER_EPOCH == 32
(* The powers of two that an int holds.                                    *)
WordBits == 62

(* What the cluster reports: short epochs of 32, 64, 128, ... slots come   *)
(* before the first normal slot, if any do.                                *)
IsSchedule(es) ==
  /\ es.SlotsPerEpoch \in Nat \ {0}
  /\ es.FirstNormalEpoch \in 0 .. WordBits - 5
  /\ es.FirstNormalSlot = (2^es.FirstNormalEpoch - 1) * MINIMUM_SLOT_PER_EPOCH

ASSUME SchedulesAssumption == \A es \in Schedules : IsSchedule(es)

VARIABLES schedule, slot

epochVars == <<schedule, slot>>

-----------------------------------------------------------------------------
(* The number of times n can be halved.                                    *)
trailingZeros(n) == CHOOSE k \in 0 .. WordBits : 2^k <= n /\ n < 2^(k + 1)

(* The bits below the highest are filled.                                  *)
nextPowerOfTwo(n) == 2^(CHOOSE k \in 0 .. WordBits :
                          n <= 2^k /\ (k = 0 \/ 2^(k - 1) < n))

GetSlotsInEpoch(es, epoch) ==
  IF epoch < es.FirstNormalEpoch
    THEN 2^(epoch + trailingZeros(MINIMUM_SLOT_PER_EPOCH))
    ELSE es.SlotsPerEpoch

(* A faulty form, to test that the properties can fail.                    *)
FromThePreviousSlot(s) ==
  trailingZeros(nextPowerOfTwo(s + MINIMUM_SLOT_PER_EPOCH))
    - trailingZeros(MINIMUM_SLOT_PER_EPOCH) - 1

WarmupEpoch(s) ==
  trailingZeros(nextPowerOfTwo(s + MINIMUM_SLOT_PER_EPOCH + 1))
    - trailingZeros(MINIMUM_SLOT_PER_EPOCH) - 1

GetEpochAndSlotIndex(es, s) ==
  IF s < es.FirstNormalSlot
    THEN LET epoch == WarmupEpoch(s)
         IN [epoch |-> epoch,
             index |-> s - (GetSlotsInEpoch(es, epoch) - MINIMUM_SLOT_PER_EPOCH)]
    ELSE [epoch |-> es.FirstNormalEpoch
                      + (s - es.FirstNormalSlot) \div es.SlotsPerEpoch,
          index |-> (s - es.FirstNormalSlot) % es.SlotsPerEpoch]

GetFirstSlotInEpoch(es, epoch) ==
  IF epoch <= es.FirstNormalEpoch
    THEN (2^epoch - 1) * MINIMUM_SLOT_PER_EPOCH
    ELSE (epoch - es.FirstNormalEpoch) * es.SlotsPerEpoch + es.FirstNormalSlot

GetLastSlotInEpoch(es, epoch) ==
  GetFirstSlotInEpoch(es, epoch) + GetSlotsInEpoch(es, epoch) - 1

-----------------------------------------------------------------------------
EpochInit == schedule \in Schedules /\ slot = 0

(* The cluster goes on to the next slot.                                   *)
NextSlot ==
  /\ slot < MaxSlot
  /\ slot' = slot + 1
  /\ UNCHANGED schedule

EpochSpec == EpochInit /\ [][NextSlot]_epochVars
-----------------------------------------------------------------------------
(* The next slot is the next of the same epoch, or the first of the next.  *)
Follows ==
  LET here  == GetEpochAndSlotIndex(schedule, slot)
      there == GetEpochAndSlotIndex(schedule, slot')
  IN \/ there = [here EXCEPT !.index = @ + 1]
     \/ /\ there = [epoch |-> here.epoch + 1, index |-> 0]
        /\ slot = GetLastSlotInEpoch(schedule, here.epoch)
        /\ slot' = GetFirstSlotInEpoch(schedule, there.epoch)

(* From one slot to the next the index goes up by one in the same epoch,   *)
(* or the next epoch begins at 0; an epoch is left at its last slot and    *)
(* entered at its first, so GetEpochAndSlotIndex, GetFirstSlotInEpoch and  *)
(* GetLastSlotInEpoch agree, also where the short epochs end.              *)
EpochsFollow == [][Follows]_epochVars
=============================================================================
