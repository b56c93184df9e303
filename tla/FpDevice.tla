------------------------------ MODULE FpDevice ------------------------------
(***************************************************************************)
(* The base class of all devices (fp-device.c, fpi-device.c): one task at  *)
(* a time, its cancellation, the critical sections of the driver, suspend  *)
(* and resume, removal and the temperature model, over any driver.         *)
(*                                                                         *)
(* Everything runs in one main loop.  An action is a call of the           *)
(* application, a call of the driver, or one dispatch of a source of the   *)
(* device.  A request that the code refuses changes nothing and has no     *)
(* action, but for the one of a device that is too hot.                    *)
(***************************************************************************)
EXTENDS Integers

CONSTANTS
  Operations,   \* what the application asks for, next to open and close
  Classes,      \* the kinds of drivers: what each of them supports
  MaxCritical   \* bound: how deep critical sections are nested

Long == {"enroll", "verify", "identify", "capture"}
Short == {"open", "close", "delete", "list", "clear_storage"}

ASSUME OperationsAssumption == Operations \subseteq (Long \cup Short) \ {"open", "close"}
ASSUME ClassesAssumption == Classes \subseteq SUBSET {"cancel", "suspend", "temperature"}
ASSUME MaxCriticalAssumption == MaxCritical \in Nat

VARIABLES
  class,                \* the virtual functions the driver has, and temp_hot_seconds
  is_open, is_removed, is_suspended,
  action,               \* current_action, and current_task with it
  returning,            \* current_task_idle_return_source and its result
  cancelled,            \* current_cancellable
  cancel_idle,          \* current_idle_cancel_source
  cancels,              \* history: calls of cls->cancel for this task
  cancellation_reason,  \* current_cancellation_reason
  critical_section,
  flush,                \* critical_section_flush_source
  queued,               \* cancel_queued, suspend_queued, resume_queued
  suspend_resume_task,  \* whose call it is
  suspend_error,
  asked,                \* calls of cls->suspend and cls->resume not answered
  accepted,             \* history: the driver will go on with this task after resume
  waiting,              \* handlers of notify::completed of the current task
  notifying,            \* of the task that returns: its callback, then its handlers
  given,                \* history: what that task returns, while its callback runs
  removed_signals,      \* history: how often "removed" was emitted
  temp_current,
  temp_current_ratio,   \* between which thresholds, see Reading
  temp_last_active,
  temp_timeout          \* a timer is armed

life == <<is_open, is_removed, is_suspended>>
task == <<action, returning>>
cancellation == <<cancelled, cancel_idle, cancels, cancellation_reason>>
critical == <<critical_section, flush>>
power == <<suspend_resume_task, suspend_error, asked, accepted>>
signals == <<waiting, notifying, given, removed_signals>>
temperature == <<temp_current, temp_current_ratio, temp_last_active, temp_timeout>>
deviceVars == <<class, life, task, cancellation, critical, queued, power, signals,
                temperature>>

DeviceInit ==
  /\ class \in Classes
  /\ is_open = FALSE /\ is_removed = FALSE /\ is_suspended = FALSE
  /\ action = "none" /\ returning = "no"
  /\ cancelled = FALSE /\ cancel_idle = FALSE /\ cancels = 0
  /\ cancellation_reason = "none" /\ given = "no"
  /\ critical_section = 0 /\ flush = FALSE /\ queued = {}
  /\ suspend_resume_task = "none" /\ suspend_error = FALSE
  /\ asked = {} /\ accepted = FALSE
  /\ waiting = {} /\ notifying = {} /\ removed_signals = 0
  /\ temp_current = "COLD" /\ temp_current_ratio = 1
  /\ temp_last_active = FALSE /\ temp_timeout = FALSE

(* The main loop dispatches the next source: no callback of the one before  *)
(* is running.                                                              *)
MainLoop == notifying = {}

-----------------------------------------------------------------------------
(* The temperature: fpi_device_update_temp.                                 *)

(* temp_current_ratio is below TEMP_COLD_THRESH (0), TEMP_HOT_WARM_THRESH   *)
(* (1), TEMP_WARM_HOT_THRESH (2) or above (3).                              *)
Reading(ratio) ==
  IF ratio = 0 THEN "COLD"
  ELSE IF ratio = 3 \/ (ratio = 2 /\ temp_current = "HOT") THEN "HOT" ELSE "WARM"

(* There is a threshold ahead to set the timer for.                         *)
Threshold(ratio, is_active) == IF is_active THEN ratio < 3 ELSE ratio > 0

(* The ratios that some time after the last update may have led to.         *)
Drifted ==
  IF temp_last_active THEN temp_current_ratio .. 3 ELSE 0 .. temp_current_ratio

(* Those that the timer, which is set to the threshold, may have led to.    *)
Crossed ==
  IF temp_last_active THEN (IF temp_current_ratio = 0 THEN 1 .. 3 ELSE {3})
                      ELSE (IF temp_current_ratio = 1 THEN {0} ELSE {0, 1})

UpdateTemp(ratio, is_active) ==
  /\ temp_current' = Reading(ratio)
  /\ temp_current_ratio' = ratio
  /\ temp_last_active' = is_active
  /\ temp_timeout' = Threshold(ratio, is_active)

(* An update at an arbitrary time.                                          *)
TemperatureNow(is_active) ==
  IF "temperature" \in class
    THEN \E ratio \in Drifted : UpdateTemp(ratio, is_active)
    ELSE UNCHANGED temperature

-----------------------------------------------------------------------------
(* Tasks of the application: fp_device_open, _close, _enroll, ...           *)

Permitted(op) ==
  /\ action = "none"
  /\ op \in {"open", "close"} \cup Operations
  /\ (op = "open") = ~is_open
  /\ op # "clear_storage" => ~is_suspended
  /\ op = "open" => ~is_removed       \* g_usb_device_open

Start(op) ==
  /\ Permitted(op)
  /\ IF op \in Long THEN TemperatureNow(TRUE) /\ temp_current' # "HOT"
                    ELSE UNCHANGED temperature
  /\ action' = op /\ returning' = "no"
  /\ cancelled' = FALSE /\ cancel_idle' = FALSE /\ cancels' = 0
  /\ UNCHANGED <<class, life, cancellation_reason, critical, queued, power, signals>>

(* Mutation: the device that was refused counts as active.                  *)
TooHotStaysActive(op) ==
  /\ Permitted(op) /\ op \in Long /\ "temperature" \in class
  /\ \E ratio \in Drifted : Reading(ratio) = "HOT" /\ UpdateTemp(ratio, TRUE)
  /\ UNCHANGED <<class, life, task, cancellation, critical, queued, power, signals>>

(* A long task is refused while the device is hot; it counts as inactive    *)
(* again.                                                                   *)
TooHot(op) ==
  /\ Permitted(op) /\ op \in Long /\ "temperature" \in class
  /\ \E ratio \in Drifted : Reading(ratio) = "HOT" /\ UpdateTemp(ratio, FALSE)
  /\ UNCHANGED <<class, life, task, cancellation, critical, queued, power, signals>>

(* g_cancellable_cancel of the internal cancellable, and the idle source    *)
(* fp_device_cancelled_cb adds.  A task that was completed has let go of    *)
(* its cancellable.                                                         *)
CancelCancellable ==
  /\ cancelled' = (cancelled \/ (action # "none" /\ returning = "no"))
  /\ cancel_idle' = (cancel_idle \/ (~cancelled /\ cancelled' /\ "cancel" \in class))
  /\ UNCHANGED cancels

(* The library cancels the task; the first reason it has for that is kept,  *)
(* also for a task that was cancelled or completed before.                  *)
CancelTask(reason) ==
  /\ CancelCancellable
  /\ cancellation_reason' =
       IF cancellation_reason = "none" THEN reason ELSE cancellation_reason

(* The application cancels its task.                                        *)
Cancel ==
  /\ action # "none" /\ returning = "no" /\ ~cancelled
  /\ CancelCancellable
  /\ UNCHANGED <<class, life, task, cancellation_reason, critical, queued, power, signals,
                 temperature>>

(* fp_device_cancel_in_idle_cb                                              *)
CancelInIdle ==
  /\ MainLoop /\ ~flush /\ cancel_idle
  /\ cancel_idle' = FALSE
  /\ \/ critical_section > 0 /\ queued' = queued \cup {"cancel"} /\ UNCHANGED cancels
     \/ critical_section = 0 /\ cancels' = cancels + 1 /\ UNCHANGED queued
  /\ UNCHANGED <<class, life, task, cancelled, cancellation_reason, critical, power,
                 signals, temperature>>

(* Mutation: the cancellation outlives the task.                            *)
CompleteKeepsCancel(result) ==
  /\ action # "none"
  /\ returning' = result
  /\ UNCHANGED <<class, life, action, cancellation, critical, queued,
                 power, signals, temperature>>

(* The fpi_device_*_complete functions, with clear_device_cancel_action and *)
(* fpi_device_return_task_in_idle: they ask for the action alone.           *)
Complete(result) ==
  /\ action # "none"
  /\ returning' = result
  /\ cancel_idle' = FALSE
  /\ UNCHANGED <<class, life, action, cancelled, cancels, cancellation_reason, critical,
                 queued, power, signals, temperature>>

(* What fp_device_task_return_in_idle_cb returns the task with: the removal *)
(* of the device, but for an open that succeeded, the reason the library    *)
(* had to cancel the task if it failed, or else the result of the driver.   *)
Outcome ==
  IF is_removed /\ ~(action = "open" /\ returning = "value") THEN "removed"
  ELSE IF returning = "error" /\ cancellation_reason # "none" THEN cancellation_reason
  ELSE returning

(* Mutation: the reason of a cancellation outlives the task.                *)
ReturnInIdleKeepsReason ==
  /\ MainLoop /\ ~flush /\ returning # "no"
  /\ is_open' = \/ action = "open" /\ returning = "value"
                \/ action \notin {"open", "close"} /\ is_open
  /\ action' = "none" /\ returning' = "no" /\ accepted' = FALSE
  /\ cancelled' = FALSE /\ cancels' = 0
  /\ TemperatureNow(FALSE)
  /\ notifying' = waiting \cup {"callback"} /\ waiting' = {}
  /\ given' = Outcome
  /\ UNCHANGED <<class, is_removed, is_suspended, cancel_idle, cancellation_reason,
                 critical, queued, suspend_resume_task, suspend_error, asked,
                 removed_signals>>

(* Mutation: the result is returned before what was queued is flushed.      *)
ReturnInIdleFirst ==
  /\ MainLoop /\ returning # "no"
  /\ is_open' = \/ action = "open" /\ returning = "value"
                \/ action \notin {"open", "close"} /\ is_open
  /\ action' = "none" /\ returning' = "no" /\ accepted' = FALSE
  /\ cancelled' = FALSE /\ cancels' = 0 /\ cancellation_reason' = "none"
  /\ TemperatureNow(FALSE)
  /\ notifying' = waiting \cup {"callback"} /\ waiting' = {}
  /\ given' = Outcome
  /\ UNCHANGED <<class, is_removed, is_suspended, cancel_idle, critical, queued,
                 suspend_resume_task, suspend_error, asked, removed_signals>>

(* fp_device_task_return_in_idle_cb.  Its priority is that of the task,     *)
(* lower than the one of the flush.                                         *)
ReturnInIdle ==
  /\ MainLoop /\ ~flush /\ returning # "no"
  /\ is_open' = \/ action = "open" /\ returning = "value"
                \/ action \notin {"open", "close"} /\ is_open
  /\ action' = "none" /\ returning' = "no" /\ accepted' = FALSE
  /\ cancelled' = FALSE /\ cancels' = 0 /\ cancellation_reason' = "none"
  /\ TemperatureNow(FALSE)
  /\ notifying' = waiting \cup {"callback"} /\ waiting' = {}
  /\ given' = Outcome
  /\ UNCHANGED <<class, is_removed, is_suspended, cancel_idle, critical, queued,
                 suspend_resume_task, suspend_error, asked, removed_signals>>

(* The callback of the task returns, and notify::completed is emitted.      *)
CallbackReturns ==
  /\ "callback" \in notifying
  /\ notifying' = notifying \ {"callback"} /\ given' = "no"
  /\ UNCHANGED <<class, life, task, cancellation, critical, queued, power, waiting,
                 removed_signals, temperature>>

(* update_temp_timeout: a long task of a device that gets hot is cancelled. *)
TempTimeout ==
  /\ MainLoop /\ ~flush /\ temp_timeout
  /\ \E ratio \in Crossed : UpdateTemp(ratio, temp_last_active)
  /\ IF temp_current' = "HOT" /\ action \in Long
       THEN CancelTask("too_hot") ELSE UNCHANGED cancellation
  /\ UNCHANGED <<class, life, task, critical, queued, power, signals>>

-----------------------------------------------------------------------------
(* Suspend and resume.                                                      *)

(* Mutation: the call ends before the task does.                            *)
SuspendCompleteAtOnce(error) ==
  /\ is_suspended' = TRUE
  /\ suspend_error' = FALSE /\ suspend_resume_task' = "none"
  /\ IF error /\ action # "none"
       THEN CancelTask("busy") /\ UNCHANGED accepted
       ELSE accepted' = (action # "none") /\ UNCHANGED cancellation
  /\ UNCHANGED waiting

(* Mutation: the task that is waited for is not cancelled.                  *)
SuspendCompleteWaits(error) ==
  /\ is_suspended' = TRUE
  /\ IF error /\ action # "none"
       THEN /\ suspend_error' = TRUE /\ suspend_resume_task' = "suspend"
            /\ waiting' = waiting \cup {"suspend"}
            /\ UNCHANGED accepted
       ELSE /\ suspend_error' = FALSE /\ suspend_resume_task' = "none"
            /\ accepted' = (action # "none")
            /\ UNCHANGED waiting
  /\ UNCHANGED cancellation

(* fpi_device_suspend_complete: without an error, or without a task, the    *)
(* call ends; otherwise when the task, which is cancelled, has ended.       *)
SuspendComplete(error) ==
  /\ is_suspended' = TRUE
  /\ IF error /\ action # "none"
       THEN /\ suspend_error' = TRUE /\ suspend_resume_task' = "suspend"
            /\ waiting' = waiting \cup {"suspend"}
            /\ CancelTask("busy")
            /\ UNCHANGED accepted
       ELSE /\ suspend_error' = FALSE /\ suspend_resume_task' = "none"
            /\ accepted' = (action # "none")
            /\ UNCHANGED <<waiting, cancellation>>

(* fpi_device_suspend, for the call of the application and from the flush;  *)
(* `left' is what remains queued.                                           *)
SuspendDevice(left) ==
  \/ /\ action = "none" \/ (action \in Long /\ "suspend" \notin class)
     /\ SuspendComplete(action # "none")
     /\ queued' = left
     /\ UNCHANGED asked
  \/ /\ action \in Long /\ "suspend" \in class
     /\ IF critical_section > 0
          THEN queued' = left \cup {"suspend"} /\ UNCHANGED asked
          ELSE queued' = left /\ asked' = asked \cup {"suspend"}
     /\ suspend_resume_task' = "suspend"
     /\ UNCHANGED <<is_suspended, suspend_error, accepted, waiting, cancellation>>
  \/ /\ action \in Short
     /\ waiting' = waiting \cup {"short"}
     /\ suspend_resume_task' = "suspend"
     /\ queued' = left
     /\ UNCHANGED <<is_suspended, suspend_error, asked, accepted, cancellation>>

(* fp_device_suspend                                                        *)
Suspend ==
  /\ suspend_resume_task = "none" /\ ~is_suspended /\ ~is_removed
  /\ SuspendDevice(queued)
  /\ UNCHANGED <<class, is_open, is_removed, task, critical, notifying, given,
                 removed_signals, temperature>>

(* The driver answers its suspend.  It accepts only if the task will go on. *)
DriverSuspends(error) ==
  /\ "suspend" \in asked
  /\ ~error => action = "none"
               \/ (action \in Long /\ returning = "no" /\ critical_section = 0)
  /\ asked' = asked \ {"suspend"}
  /\ SuspendComplete(error)
  /\ UNCHANGED <<class, is_open, is_removed, task, critical, queued, notifying, given,
                 removed_signals, temperature>>

(* fpi_device_resume.  Of a short task it asserts that it cannot be.        *)
ResumeDevice(left) ==
  \/ /\ action = "none" \/ (action \in Long /\ "suspend" \notin class)
     /\ is_suspended' = FALSE /\ suspend_resume_task' = "none"
     /\ queued' = left
     /\ UNCHANGED asked
  \/ /\ action \in Long /\ "suspend" \in class
     /\ IF critical_section > 0
          THEN queued' = left \cup {"resume"} /\ UNCHANGED asked
          ELSE queued' = left /\ asked' = asked \cup {"resume"}
     /\ suspend_resume_task' = "resume"
     /\ UNCHANGED is_suspended

(* fp_device_resume                                                         *)
Resume ==
  /\ suspend_resume_task = "none" /\ is_suspended /\ ~is_removed
  /\ ResumeDevice(queued)
  /\ UNCHANGED <<class, is_open, is_removed, task, cancellation, critical,
                 suspend_error, accepted, signals, temperature>>

(* The driver answers its resume: fpi_device_resume_complete.               *)
DriverResumes ==
  /\ "resume" \in asked
  /\ asked' = asked \ {"resume"}
  /\ is_suspended' = FALSE /\ suspend_resume_task' = "none"
  /\ UNCHANGED <<class, is_open, is_removed, task, cancellation, critical, queued,
                 suspend_error, accepted, signals, temperature>>

-----------------------------------------------------------------------------
(* Critical sections of the driver.                                         *)

(* fpi_device_critical_enter: what was to be flushed has to wait.           *)
CriticalEnter ==
  /\ action # "none" /\ returning = "no" /\ critical_section < MaxCritical
  /\ critical_section' = critical_section + 1
  /\ flush' = FALSE
  /\ UNCHANGED <<class, life, task, cancellation, queued, power, signals, temperature>>

(* Mutation: the flush is forgotten.                                        *)
CriticalLeaveForgets ==
  /\ action # "none" /\ critical_section > 0
  /\ critical_section' = critical_section - 1
  /\ UNCHANGED <<class, life, task, cancellation, flush, queued, power, signals,
                 temperature>>

(* fpi_device_critical_leave                                                *)
CriticalLeave ==
  /\ action # "none" /\ critical_section > 0
  /\ critical_section' = critical_section - 1
  /\ flush' = (critical_section' = 0)
  /\ UNCHANGED <<class, life, task, cancellation, queued, power, signals, temperature>>

(* fpi_device_critical_section_flush_idle_cb: one thing for each dispatch.  *)
FlushCancel ==
  /\ MainLoop /\ flush /\ "cancel" \in queued
  /\ cancels' = IF action # "none" /\ returning = "no" THEN cancels + 1 ELSE cancels
  /\ queued' = queued \ {"cancel"}
  /\ UNCHANGED <<class, life, task, cancelled, cancel_idle, cancellation_reason, critical,
                 power, signals, temperature>>

FlushSuspend ==
  /\ MainLoop /\ flush /\ "cancel" \notin queued /\ "suspend" \in queued
  /\ SuspendDevice(queued \ {"suspend"})
  /\ UNCHANGED <<class, is_open, is_removed, task, critical, notifying, given,
                 removed_signals, temperature>>

FlushResume ==
  /\ MainLoop /\ flush /\ queued = {"resume"}
  /\ ResumeDevice({})
  /\ UNCHANGED <<class, is_open, is_removed, task, cancellation, critical,
                 suspend_error, accepted, signals, temperature>>

FlushEnds ==
  /\ MainLoop /\ flush /\ queued = {}
  /\ flush' = FALSE
  /\ UNCHANGED <<class, life, task, cancellation, critical_section, queued, power,
                 signals, temperature>>

Flush == FlushCancel \/ FlushSuspend \/ FlushResume \/ FlushEnds

-----------------------------------------------------------------------------
(* Removal, and the handlers of notify::completed.                          *)

(* fpi_device_remove                                                        *)
Remove ==
  /\ MainLoop /\ ~is_removed
  /\ is_removed' = TRUE
  /\ IF action = "none"
       THEN removed_signals' = removed_signals + 1 /\ UNCHANGED waiting
       ELSE waiting' = waiting \cup {"removed"} /\ UNCHANGED removed_signals
  /\ UNCHANGED <<class, is_open, is_suspended, task, cancellation, critical, queued, power,
                 notifying, given, temperature>>

Notified(handler) ==
  /\ handler \in notifying /\ "callback" \notin notifying
  /\ notifying' = notifying \ {handler}
  /\ UNCHANGED <<class, life, task, cancellation, critical, queued, asked, accepted,
                 waiting, given, temperature>>

(* emit_removed_on_task_completed                                           *)
SignalRemoved ==
  /\ Notified("removed")
  /\ removed_signals' = removed_signals + 1
  /\ UNCHANGED <<suspend_resume_task, suspend_error>>

(* complete_suspend_resume_task                                             *)
ShortCompleted ==
  /\ Notified("short")
  /\ suspend_resume_task' = "none"
  /\ UNCHANGED <<suspend_error, removed_signals>>

(* fpi_device_suspend_completed                                             *)
SuspendCompleted ==
  /\ Notified("suspend")
  /\ suspend_resume_task' = "none" /\ suspend_error' = FALSE
  /\ UNCHANGED removed_signals

-----------------------------------------------------------------------------
Application ==
  \/ \E op \in {"open", "close"} \cup Operations : Start(op) \/ TooHot(op)
  \/ Cancel \/ Suspend \/ Resume

(* A driver completes its task once, and outside of its critical sections.  *)
DriverCompletes ==
  /\ returning = "no" /\ critical_section = 0
  /\ \E result \in {"value", "error"} : Complete(result)

Driver ==
  \/ DriverCompletes
  \/ \E error \in BOOLEAN : DriverSuspends(error)
  \/ DriverResumes \/ CriticalEnter \/ CriticalLeave

Handlers == CallbackReturns \/ SignalRemoved \/ ShortCompleted \/ SuspendCompleted

Sources == CancelInIdle \/ ReturnInIdle \/ TempTimeout \/ Flush

DeviceNext == Application \/ Driver \/ Handlers \/ Sources \/ Remove

DeviceSpec == DeviceInit /\ [][DeviceNext]_deviceVars

(* The driver has to end its task: a short one, or a long one that it was   *)
(* told of the cancellation of, or whose cancellable it looks at itself.    *)
MustEnd ==
  action \in Short \/ cancels > 0 \/ (cancelled /\ "cancel" \notin class)

(* The main loop dispatches every source that is ready, whatever else it    *)
(* does in between.  The driver leaves its critical sections, answers what  *)
(* it is asked, and ends the tasks that it has to end; it returns to the    *)
(* main loop outside of its critical sections now and then, as entering one *)
(* again at once keeps everything queued (test-fpi-device.c:2789).          *)
DeviceFairness ==
  /\ SF_deviceVars(CancelInIdle) /\ SF_deviceVars(Flush)
  /\ SF_deviceVars(ReturnInIdle) /\ SF_deviceVars(TempTimeout)
  /\ WF_deviceVars(Handlers)
  /\ WF_deviceVars(CriticalLeave) /\ SF_deviceVars(critical_section = 1 /\ CriticalLeave)
  /\ SF_deviceVars(MustEnd /\ DriverCompletes)
  /\ WF_deviceVars(\E error \in BOOLEAN : DriverSuspends(error))
  /\ WF_deviceVars(DriverResumes)

-----------------------------------------------------------------------------
(* Properties.                                                              *)

TaskTypeOK ==
  /\ class \in Classes
  /\ action \in {"none"} \cup Long \cup Short
  /\ returning \in {"no", "value", "error"}
  /\ cancelled \in BOOLEAN /\ cancel_idle \in BOOLEAN /\ cancels \in 0 .. 1
  /\ cancellation_reason \in {"none", "busy", "too_hot"}
  /\ critical_section \in 0 .. MaxCritical /\ flush \in BOOLEAN
  /\ queued \subseteq {"cancel", "suspend", "resume"}

LifeTypeOK ==
  /\ is_open \in BOOLEAN /\ is_removed \in BOOLEAN /\ is_suspended \in BOOLEAN
  /\ suspend_resume_task \in {"none", "suspend", "resume"}
  /\ suspend_error \in BOOLEAN /\ accepted \in BOOLEAN
  /\ asked \subseteq {"suspend", "resume"}
  /\ waiting \subseteq {"short", "suspend", "removed"}
  /\ notifying \subseteq {"callback", "short", "suspend", "removed"}
  /\ given \in {"no", "value", "error", "busy", "too_hot", "removed"}
  /\ removed_signals \in 0 .. 1

TemperatureTypeOK ==
  /\ temp_current \in {"COLD", "WARM", "HOT"}
  /\ temp_current_ratio \in 0 .. 3
  /\ temp_last_active \in BOOLEAN /\ temp_timeout \in BOOLEAN

DeviceTypeOK == TaskTypeOK /\ LifeTypeOK /\ TemperatureTypeOK

(* A resume finds no short task: "cannot happen as we make sure these tasks *)
(* complete before suspend" (fpi_device_resume).                            *)
ResumeFindsNoShort ==
  (is_suspended /\ suspend_resume_task # "suspend") => action \notin Short

(* The assertions of the code hold: an idle cancellation finds a task to    *)
(* cancel, a resume no short task, and whoever ends a suspend or a resume   *)
(* finds the call it ends, which nobody else has ended or will end.         *)
AssertionsHold ==
  /\ cancel_idle => action # "none" /\ "cancel" \in class
  /\ ResumeFindsNoShort
  /\ asked # {} => asked = {suspend_resume_task}
  /\ {"short", "suspend"} \cap notifying # {} =>
       suspend_resume_task = "suspend" /\ asked = {} /\ "suspend" \notin queued

(* Nothing that was asked for is forgotten: what is queued will be flushed, *)
(* a cancellation has reached the driver or is on its way, and a suspend or *)
(* resume that has not ended is queued, with the driver, or waits for the   *)
(* end of the task.                                                         *)
NothingForgotten ==
  /\ queued # {} => critical_section > 0 \/ flush
  /\ (cancelled /\ returning = "no" /\ "cancel" \in class) =>
       cancel_idle \/ "cancel" \in queued \/ cancels = 1
  /\ suspend_resume_task # "none" =>
       \/ suspend_resume_task \in queued \cup asked
       \/ {"short", "suspend"} \cap (waiting \cup notifying) # {}

(* The driver is not disturbed in a critical section, where no outside      *)
(* calls from libfprint should happen (fpi_device_critical_enter); and its cancel is *)
(* called once at most for each task, for one that was itself cancelled and *)
(* that it has not completed.                                               *)
DriverUndisturbed ==
  [][/\ cancels' > cancels =>
          critical_section = 0 /\ cancelled /\ returning = "no" /\ cancels = 0
     /\ ~(asked' \subseteq asked) => critical_section = 0 /\ action \in Long]_deviceVars

(* A suspend does not end before the task it met has, unless the driver     *)
(* said that the task will go on after the resume; and no task is started   *)
(* before the resume.                                                       *)
SuspendedAtRest ==
  (is_suspended /\ suspend_resume_task # "suspend") => action = "none" \/ accepted

(* A removal is signalled once, or waits for the end of the task.           *)
RemovalKept ==
  LET due(handlers) == IF "removed" \in handlers THEN 1 ELSE 0 IN
  removed_signals + due(waiting) + due(notifying) = IF is_removed THEN 1 ELSE 0

(* A device that heats up is looked at again until it is hot, one that      *)
(* cools down until it is cold; it counts as active only during a long      *)
(* task, and a long task of a hot device is cancelled.                      *)
TemperatureWatched ==
  "temperature" \in class =>
    /\ temp_current # (IF temp_last_active THEN "HOT" ELSE "COLD") => temp_timeout
    /\ temp_last_active => action \in Long
    /\ (temp_current = "HOT" /\ action \in Long) => cancelled \/ returning # "no"

(* The device keeps the promises of DeviceResult, also when a task is       *)
(* cancelled by a suspend or by the temperature, the cancellation waits for *)
(* the driver to leave its critical section, and the device is removed.     *)
Task == INSTANCE DeviceResult WITH
  open <- is_open, running <- action, result <- returning,
  told <- cancels > 0 /\ returning = "no",
  reason <- cancellation_reason, gone <- is_removed
KeepsTask == Task!ResultSpec

(* Every suspend and every resume ends: a long task that the driver cannot  *)
(* keep over the suspend is cancelled, others are waited for.               *)
SuspendEnds == suspend_resume_task # "none" ~> suspend_resume_task = "none"
=============================================================================
