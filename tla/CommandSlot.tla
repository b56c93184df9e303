----------------------------- MODULE CommandSlot -----------------------------
(***************************************************************************)
(* What the command channel of the Goodix driver promises its users,       *)
(* whatever the USB pipe and the sensor do: at most one command is         *)
(* outstanding; each command that is issued ends in exactly one call of    *)
(* its callback; a command that finds the slot taken is refused through    *)
(* its own callback and does not disturb the one that is outstanding; and  *)
(* no callback is called while another one runs.  Only closing the device  *)
(* discards a command silently.                                            *)
(***************************************************************************)
EXTENDS Naturals

VARIABLES
  open,     \* commands are accepted
  slot,     \* the call that is outstanding, or NoCall
  running,  \* the call whose callback is running, or NoCall
  ended     \* the calls that have ended or were refused

slotVars == <<open, slot, running, ended>>

Calls == Nat \ {0}
NoCall == 0      \* the slot is free, no callback is running

SlotInit ==
  /\ open = FALSE
  /\ slot = NoCall
  /\ running = NoCall
  /\ ended = {}

Fresh(c) == c \in Calls \ ended /\ c # slot

(* A call takes the free slot.  The callback of an earlier call may issue   *)
(* it, and has then returned.                                              *)
Issue ==
  /\ open /\ slot = NoCall
  /\ Fresh(slot')
  /\ running' = NoCall
  /\ UNCHANGED <<open, ended>>

(* A call is refused, or fails before it is outstanding.                   *)
Refuse ==
  /\ open
  /\ Fresh(running')
  /\ ended' = ended \cup {running'}
  /\ UNCHANGED <<open, slot>>

(* The outstanding call ends and its callback is called.                   *)
Finish ==
  /\ slot # NoCall
  /\ running = NoCall
  /\ running' = slot
  /\ ended' = ended \cup {slot}
  /\ slot' = NoCall
  /\ UNCHANGED open

(* A callback returns without issuing a call.                              *)
Return ==
  /\ running # NoCall
  /\ running' = NoCall
  /\ UNCHANGED <<open, slot, ended>>

Open ==
  /\ ~open /\ open' = TRUE
  /\ UNCHANGED <<slot, running, ended>>

(* The device is closed: the outstanding call, if any, is discarded.       *)
Close ==
  /\ open /\ open' = FALSE
  /\ running = NoCall
  /\ slot' = NoCall
  /\ ended' = ended \cup ({slot} \ {NoCall})
  /\ UNCHANGED running

SlotNext == Issue \/ Refuse \/ Finish \/ Return \/ Open \/ Close

SlotSpec == SlotInit /\ [][SlotNext]_slotVars
=============================================================================
