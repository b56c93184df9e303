---------------------------- MODULE DeviceResult ----------------------------
(***************************************************************************)
(* What fp-device.c promises of the results of its tasks, over DeviceTask: *)
(* the callback of a task is called once, before the one of the next task; *)
(* a value that the driver returned arrives, whatever the task was given   *)
(* up for meanwhile; an error is replaced by the first reason the library  *)
(* had to give up this task, and never by that of an earlier one; and when *)
(* the device is gone, that is what the callback gets, unless it is told   *)
(* of an open that succeeded.                                              *)
(***************************************************************************)
EXTENDS DeviceTask

VARIABLES
  reason,     \* why the library gave the running task up, or "none"
  gone,       \* the device was removed
  given       \* what the callback that is running was given, or "no"

Reasons == {"busy", "too_hot"}

resultVars == <<taskVars, reason, gone, given>>

ResultInit == TaskInit /\ reason = "none" /\ gone = FALSE /\ given = "no"

(* What the application sees of the result of the driver.                   *)
Seen ==
  IF gone /\ ~(running = "open" /\ result = "value") THEN "removed"
  ELSE IF result = "error" /\ reason # "none" THEN reason ELSE result

(* The library gives the task up.  If it has a result by then, this is too  *)
(* late for the driver, but not for the reason.                             *)
Blame(why) ==
  /\ running # "none" /\ reason = "none"
  /\ reason' = why
  /\ cancelled' = (cancelled \/ result = "no")
  /\ UNCHANGED <<open, running, result, told, gone, given>>

CallBack ==
  /\ Return
  /\ given = "no" /\ given' = Seen
  /\ reason' = "none"
  /\ UNCHANGED gone

CallbackReturns ==
  /\ given # "no" /\ given' = "no"
  /\ UNCHANGED <<taskVars, reason, gone>>

Lose ==
  /\ ~gone /\ gone' = TRUE
  /\ UNCHANGED <<taskVars, reason, given>>

ResultNext ==
  \/ /\ \/ \E op \in {"open", "close"} \cup Operations : Begin(op)
        \/ GiveUp \/ Tell \/ End
     /\ UNCHANGED <<reason, gone, given>>
  \/ \E why \in Reasons : Blame(why)
  \/ CallBack \/ CallbackReturns \/ Lose

ResultSpec == ResultInit /\ [][ResultNext]_resultVars
=============================================================================
