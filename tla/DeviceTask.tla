----------------------------- MODULE DeviceTask -----------------------------
(***************************************************************************)
(* What fp-device.c promises the application of its tasks, whatever driver *)
(* runs them: one task at a time; each ends in exactly one result, which   *)
(* is returned once; the driver is told of a cancellation once at most,    *)
(* and only while the task that was cancelled has no result; and the       *)
(* device is open from a successful open to the end of the next close,     *)
(* whether that succeeds or not.  What the callback makes of the result of *)
(* the driver is in DeviceResult.                                          *)
(***************************************************************************)
CONSTANT Operations    \* the tasks next to open and close

VARIABLES
  open,
  running,    \* the task, or "none"
  result,     \* "value" or "error" on its way to the callback, or "no"
  cancelled,  \* the application, or the library, gave the task up
  told        \* the driver knows, and has not answered

taskVars == <<open, running, result, cancelled, told>>

TaskInit ==
  /\ open = FALSE /\ running = "none" /\ result = "no"
  /\ cancelled = FALSE /\ told = FALSE

(* A task starts, or is refused by its virtual function at once.            *)
Begin(op) ==
  /\ running = "none"
  /\ (op = "open") = ~open
  /\ running' = op
  /\ result' \in {"no", "error"}
  /\ cancelled' = FALSE
  /\ UNCHANGED <<open, told>>

GiveUp ==
  /\ running # "none" /\ result = "no" /\ ~cancelled
  /\ cancelled' = TRUE
  /\ UNCHANGED <<open, running, result, told>>

Tell ==
  /\ cancelled /\ result = "no" /\ ~told
  /\ told' = TRUE
  /\ UNCHANGED <<open, running, result, cancelled>>

End ==
  /\ running # "none" /\ result = "no"
  /\ result' \in {"value", "error"}
  /\ told' = FALSE
  /\ UNCHANGED <<open, running, cancelled>>

(* The callback is called.                                                  *)
Return ==
  /\ result # "no"
  /\ open' = IF running = "open" THEN result = "value"
                                 ELSE running # "close" /\ open
  /\ running' = "none" /\ result' = "no" /\ cancelled' = FALSE
  /\ UNCHANGED told

TaskNext ==
  \/ \E op \in {"open", "close"} \cup Operations : Begin(op)
  \/ GiveUp \/ Tell \/ End \/ Return

TaskSpec == TaskInit /\ [][TaskNext]_taskVars
=============================================================================
