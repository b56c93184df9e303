--------------------------- MODULE FpContext_proofs ---------------------------
(***************************************************************************)
(* Proofs about FpDevice, for every set of operations but clear_storage,   *)
(* every set of kinds of drivers, and critical sections of any depth; and  *)
(* about FpContext: the context only does with a device what FpDevice      *)
(* allows, so that all of this holds of it, and it takes a removed device  *)
(* from its list when it is closed.                                        *)
(***************************************************************************)
EXTENDS FpContext, TLAPS


(* clear_storage alone does not ask whether the device is suspended: it can *)
(* run when the device is resumed (see ResumeFindsNoShort).                 *)
NoClearStorage == "clear_storage" \notin Operations

(* A device that has no task is at rest; a driver that has completed its    *)
(* task is in no critical section, and nobody is on the way to cancel it.   *)
TaskOK ==
  /\ action = "none" =>
       /\ returning = "no" /\ critical_section = 0 /\ flush = FALSE /\ queued = {}
       /\ waiting = {} /\ cancelled = FALSE /\ cancels = 0 /\ accepted = FALSE
       /\ cancel_idle = FALSE /\ cancellation_reason = "none"
  /\ returning # "no" => critical_section = 0 /\ cancel_idle = FALSE
  /\ accepted => action \in Long
  /\ given # "no" <=> "callback" \in notifying
  /\ flush => critical_section = 0

(* A cancellation is in one place.                                          *)
CancelOK ==
  /\ cancel_idle => /\ cancelled /\ cancels = 0
                    /\ "cancel" \in class /\ "cancel" \notin queued
  /\ "cancel" \in queued => cancelled /\ cancels = 0
  /\ cancels = 1 => cancelled

Enders == {"short", "suspend"}

(* A suspend or resume that has not ended is in one place too, and which    *)
(* one tells whether the device counts as suspended.                        *)
PowerOK ==
  /\ "suspend" \in queued =>
       /\ suspend_resume_task = "suspend" /\ ~is_suspended
       /\ asked = {} /\ Enders \cap (waiting \cup notifying) = {}
  /\ "resume" \in queued => suspend_resume_task = "resume" /\ asked = {}
  /\ asked # {} => asked = {suspend_resume_task}
  /\ "suspend" \in asked =>
       ~is_suspended /\ Enders \cap (waiting \cup notifying) = {}
  /\ "short" \in waiting \cup notifying =>
       /\ suspend_resume_task = "suspend" /\ ~is_suspended
       /\ "suspend" \notin waiting \cup notifying
  /\ "suspend" \in waiting \cup notifying =>
       suspend_resume_task = "suspend" /\ is_suspended
  /\ "suspend" \in notifying => action = "none"
  /\ Enders \cap waiting = {} \/ Enders \cap notifying = {}
  /\ suspend_resume_task = "resume" => is_suspended

(* The signal of a removal is in one place.                                 *)
RemovalOK ==
  /\ removed_signals = 1 => is_removed /\ "removed" \notin waiting \cup notifying
  /\ "removed" \in waiting \cup notifying => is_removed
  /\ ~("removed" \in waiting /\ "removed" \in notifying)
  /\ is_removed => removed_signals = 1 \/ "removed" \in waiting \cup notifying

IInv ==
  /\ NoClearStorage
  /\ DeviceTypeOK /\ TaskOK /\ CancelOK /\ PowerOK /\ RemovalOK
  /\ NothingForgotten /\ SuspendedAtRest /\ TemperatureWatched

USE DEF life, task, cancellation, critical, power, signals, temperature
USE DEF Long, Short, Enders

-----------------------------------------------------------------------------
(* The temperature.                                                         *)

(* What an update leads to: a timer as long as there is a threshold ahead.  *)
Watched(is_active) ==
  /\ temp_current # (IF is_active THEN "HOT" ELSE "COLD") => temp_timeout
  /\ temp_last_active = is_active

LEMMA UpdateTempOK ==
  ASSUME TemperatureTypeOK, NEW ratio \in 0 .. 3, NEW is_active \in BOOLEAN,
         UpdateTemp(ratio, is_active)
  PROVE  TemperatureTypeOK' /\ Watched(is_active)'
<1>1. TemperatureTypeOK'
  <2>1. temp_current' \in {"COLD", "WARM", "HOT"}
    BY DEF UpdateTemp, Reading
  <2>2. temp_timeout' \in BOOLEAN
    <3>1. (ratio < 3) \in BOOLEAN /\ (ratio > 0) \in BOOLEAN
      OBVIOUS
    <3>2. temp_timeout' = (ratio < 3) \/ temp_timeout' = (ratio > 0)
      BY Zenon DEF UpdateTemp, Threshold
    <3> QED
      BY <3>1, <3>2, Zenon
  <2> QED
    BY <2>1, <2>2 DEF TemperatureTypeOK, UpdateTemp
<1>2. CASE is_active
  <2>1. ratio < 3 \/ temp_current' = "HOT"
    BY DEF UpdateTemp, Reading
  <2>2. ratio < 3 => temp_timeout'
    BY <1>2 DEF UpdateTemp, Threshold
  <2> QED
    BY <1>1, <1>2, <2>1, <2>2 DEF UpdateTemp, Watched
<1>3. CASE ~is_active
  <2>1. ratio > 0 \/ temp_current' = "COLD"
    BY DEF UpdateTemp, Reading
  <2>2. ratio > 0 => temp_timeout'
    BY <1>3 DEF UpdateTemp, Threshold
  <2> QED
    BY <1>1, <1>3, <2>1, <2>2 DEF UpdateTemp, Watched
<1> QED
  BY <1>2, <1>3

LEMMA RatiosOK ==
  ASSUME TemperatureTypeOK
  PROVE  Drifted \subseteq 0 .. 3 /\ Crossed \subseteq 0 .. 3
<1>1. Drifted \subseteq 0 .. 3
  BY DEF TemperatureTypeOK, Drifted
<1>2. Crossed \subseteq 0 .. 3
  BY DEF Crossed
<1> QED
  BY <1>1, <1>2

LEMMA TemperatureNowOK ==
  ASSUME TemperatureTypeOK, NEW is_active \in BOOLEAN, TemperatureNow(is_active)
  PROVE  /\ TemperatureTypeOK'
         /\ "temperature" \in class => Watched(is_active)'
         /\ "temperature" \notin class => UNCHANGED temperature
<1>1. CASE "temperature" \in class
  BY <1>1, UpdateTempOK, RatiosOK DEF TemperatureNow
<1>2. CASE "temperature" \notin class
  BY <1>2 DEF TemperatureNow, TemperatureTypeOK
<1> QED
  BY <1>1, <1>2

-----------------------------------------------------------------------------
(* One lemma for each action.                                               *)

LEMMA StartInv ==
  ASSUME IInv, NEW op \in {"open", "close"} \cup Operations, Start(op)
  PROVE  IInv'
<1>1. TaskTypeOK'
  BY OperationsAssumption DEF IInv, DeviceTypeOK, TaskTypeOK, TaskOK,
      CancelOK, Start, Permitted, NoClearStorage
<1>2. TemperatureTypeOK'
  BY TemperatureNowOK DEF IInv, DeviceTypeOK, TemperatureTypeOK, Start
<1>3. TaskOK'
  BY OperationsAssumption DEF IInv, DeviceTypeOK, TaskOK, TaskTypeOK,
      LifeTypeOK, CancelOK, NothingForgotten, Start, Permitted, NoClearStorage
<1>4. CancelOK'
  BY OperationsAssumption DEF IInv, DeviceTypeOK, CancelOK, TaskTypeOK,
      LifeTypeOK, TaskOK, Start, Permitted, NoClearStorage
<1>5. PowerOK'
  BY OperationsAssumption DEF IInv, DeviceTypeOK, PowerOK, TaskTypeOK,
      LifeTypeOK, TaskOK, NothingForgotten, Start, Permitted, NoClearStorage
<1>6. NothingForgotten'
  BY OperationsAssumption DEF IInv, DeviceTypeOK, NothingForgotten,
      TaskTypeOK, LifeTypeOK, TaskOK, CancelOK, PowerOK, Start, Permitted,
      NoClearStorage
<1>7. SuspendedAtRest'
  BY OperationsAssumption DEF IInv, DeviceTypeOK, SuspendedAtRest, TaskTypeOK,
      LifeTypeOK, TaskOK, PowerOK, NothingForgotten, Start, Permitted,
      NoClearStorage
<1>8. TemperatureWatched'
  <2>1. CASE op \in Long
    BY <2>1, TemperatureNowOK DEF IInv, DeviceTypeOK, TemperatureWatched, Watched,
      Start
  <2>2. CASE op \notin Long
    BY <2>2 DEF IInv, DeviceTypeOK, TaskTypeOK, TemperatureWatched, Start, Permitted
  <2> QED
    BY <2>1, <2>2
<1>9. LifeTypeOK' /\ RemovalOK'
  BY DEF IInv, DeviceTypeOK, LifeTypeOK, RemovalOK, Start, Permitted,
      NoClearStorage
<1> QED
  BY <1>1, <1>2, <1>3, <1>4, <1>5, <1>6, <1>7, <1>8, <1>9 DEF IInv, DeviceTypeOK

LEMMA TooHotInv ==
  ASSUME IInv, NEW op \in {"open", "close"} \cup Operations, TooHot(op)
  PROVE  IInv'
<1>1. TemperatureTypeOK' /\ Watched(FALSE)'
  BY UpdateTempOK, RatiosOK DEF IInv, DeviceTypeOK, TooHot
<1>2. TemperatureTypeOK'
  BY <1>1
<1>3. TemperatureWatched'
  BY <1>1 DEF Watched, TemperatureWatched, TooHot, Permitted
<1>4. TaskTypeOK' /\ LifeTypeOK' /\ TaskOK' /\ CancelOK' /\ PowerOK' /\
        RemovalOK' /\ NothingForgotten' /\ SuspendedAtRest'
  BY DEF IInv, DeviceTypeOK, TaskTypeOK, LifeTypeOK, TaskOK, CancelOK,
      PowerOK, RemovalOK, NothingForgotten, SuspendedAtRest, TooHot, Permitted
<1> QED
  BY <1>2, <1>3, <1>4 DEF IInv, DeviceTypeOK

LEMMA CancelInv ==
  ASSUME IInv, Cancel
  PROVE  IInv'
<1>1. TaskTypeOK'
  BY DEF IInv, DeviceTypeOK, TaskTypeOK, TaskOK, CancelOK, Cancel, CancelCancellable
<1>2. TaskOK'
  BY DEF IInv, DeviceTypeOK, TaskOK, TaskTypeOK, LifeTypeOK, CancelOK,
      NothingForgotten, Cancel, CancelCancellable
<1>3. CancelOK'
  BY DEF IInv, DeviceTypeOK, CancelOK, TaskTypeOK, LifeTypeOK, TaskOK, Cancel,
      CancelCancellable
<1>4. NothingForgotten'
  BY DEF IInv, DeviceTypeOK, NothingForgotten, TaskTypeOK, LifeTypeOK, TaskOK,
      CancelOK, PowerOK, Cancel, CancelCancellable
<1>5. TemperatureWatched'
  BY DEF IInv, DeviceTypeOK, TemperatureWatched, TaskTypeOK, TaskOK,
      TemperatureTypeOK, Cancel, CancelCancellable
<1>6. LifeTypeOK' /\ TemperatureTypeOK' /\ PowerOK' /\ RemovalOK' /\
        SuspendedAtRest'
  BY DEF IInv, DeviceTypeOK, LifeTypeOK, TemperatureTypeOK, PowerOK,
      RemovalOK, SuspendedAtRest, Cancel, CancelCancellable
<1> QED
  BY <1>1, <1>2, <1>3, <1>4, <1>5, <1>6 DEF IInv, DeviceTypeOK

LEMMA SuspendInv ==
  ASSUME IInv, Suspend
  PROVE  IInv'
<1>1. TaskTypeOK'
  BY DEF IInv, DeviceTypeOK, TaskTypeOK, TaskOK, CancelOK, Suspend,
      SuspendDevice, SuspendComplete, CancelTask, CancelCancellable
<1>2. LifeTypeOK'
  BY DEF IInv, DeviceTypeOK, LifeTypeOK, TaskOK, RemovalOK, Suspend,
      SuspendDevice, SuspendComplete, CancelTask, CancelCancellable
<1>3. TaskOK'
  <2>1. CASE action = "none"
    BY <2>1 DEF IInv, DeviceTypeOK, TaskTypeOK, LifeTypeOK, TaskOK, Suspend,
      SuspendDevice, SuspendComplete
  <2>2. CASE action # "none"
    BY <2>2 DEF IInv, DeviceTypeOK, TaskTypeOK, LifeTypeOK, TaskOK, Suspend,
      SuspendDevice, SuspendComplete, CancelTask, CancelCancellable
  <2> QED
    BY <2>1, <2>2
<1>4. CancelOK'
  BY DEF IInv, DeviceTypeOK, CancelOK, TaskTypeOK, LifeTypeOK, TaskOK,
      Suspend, SuspendDevice, SuspendComplete, CancelTask, CancelCancellable
<1>5. PowerOK'
  BY DEF IInv, DeviceTypeOK, PowerOK, TaskTypeOK, LifeTypeOK, TaskOK,
      NothingForgotten, Suspend, SuspendDevice, SuspendComplete, CancelTask,
      CancelCancellable
<1>6. RemovalOK'
  BY DEF IInv, DeviceTypeOK, RemovalOK, TaskTypeOK, LifeTypeOK, TaskOK,
      Suspend, SuspendDevice, SuspendComplete, CancelTask, CancelCancellable
<1>7. NothingForgotten'
  BY DEF IInv, DeviceTypeOK, NothingForgotten, TaskTypeOK, LifeTypeOK, TaskOK,
      CancelOK, PowerOK, Suspend, SuspendDevice, SuspendComplete, CancelTask,
      CancelCancellable
<1>8. SuspendedAtRest'
  BY DEF IInv, DeviceTypeOK, SuspendedAtRest, TaskTypeOK, LifeTypeOK, TaskOK,
      PowerOK, NothingForgotten, Suspend, SuspendDevice, SuspendComplete,
      CancelTask, CancelCancellable
<1>9. TemperatureWatched'
  BY DEF IInv, DeviceTypeOK, TemperatureWatched, TaskTypeOK, TaskOK,
      TemperatureTypeOK, Suspend, SuspendDevice, SuspendComplete, CancelTask,
      CancelCancellable
<1>10. TemperatureTypeOK'
  BY DEF IInv, DeviceTypeOK, TemperatureTypeOK, Suspend, SuspendDevice,
      SuspendComplete, CancelTask, CancelCancellable
<1> QED
  BY <1>1, <1>2, <1>3, <1>4, <1>5, <1>6, <1>7, <1>8, <1>9, <1>10 DEF IInv, DeviceTypeOK

LEMMA ResumeInv ==
  ASSUME IInv, Resume
  PROVE  IInv'
<1>1. TaskTypeOK'
  BY DEF IInv, DeviceTypeOK, TaskTypeOK, TaskOK, CancelOK, Resume,
      ResumeDevice
<1>2. LifeTypeOK'
  BY DEF IInv, DeviceTypeOK, LifeTypeOK, TaskOK, RemovalOK, Resume,
      ResumeDevice
<1>3. TaskOK'
  BY DEF IInv, DeviceTypeOK, TaskOK, TaskTypeOK, LifeTypeOK, CancelOK,
      NothingForgotten, Resume, ResumeDevice
<1>4. CancelOK'
  <2>1. queued' \subseteq queued \cup {"resume"} /\ UNCHANGED <<cancellation, class>>
    BY DEF Resume, ResumeDevice
  <2> QED
    BY <2>1 DEF IInv, CancelOK
<1>5. PowerOK'
  BY DEF IInv, DeviceTypeOK, PowerOK, TaskTypeOK, LifeTypeOK, TaskOK,
      NothingForgotten, Resume, ResumeDevice
<1>6. NothingForgotten'
  BY DEF IInv, DeviceTypeOK, NothingForgotten, TaskTypeOK, LifeTypeOK, TaskOK,
      CancelOK, PowerOK, Resume, ResumeDevice
<1>7. SuspendedAtRest'
  BY DEF IInv, DeviceTypeOK, SuspendedAtRest, TaskTypeOK, LifeTypeOK, TaskOK,
      PowerOK, NothingForgotten, Resume, ResumeDevice
<1>8. TemperatureTypeOK' /\ RemovalOK' /\ TemperatureWatched'
  BY DEF IInv, DeviceTypeOK, TemperatureTypeOK, RemovalOK, TemperatureWatched,
      Resume, ResumeDevice
<1> QED
  BY <1>1, <1>2, <1>3, <1>4, <1>5, <1>6, <1>7, <1>8 DEF IInv, DeviceTypeOK

LEMMA CompleteInv ==
  ASSUME IInv, DriverCompletes
  PROVE  IInv'
<1>1. TaskTypeOK'
  BY DEF IInv, DeviceTypeOK, TaskTypeOK, TaskOK, CancelOK, DriverCompletes, Complete
<1>2. TaskOK'
  BY DEF IInv, DeviceTypeOK, TaskOK, TaskTypeOK, LifeTypeOK, CancelOK,
      NothingForgotten, DriverCompletes, Complete
<1>3. CancelOK'
  BY DEF IInv, DeviceTypeOK, CancelOK, TaskTypeOK, LifeTypeOK, TaskOK,
      DriverCompletes, Complete
<1>4. NothingForgotten'
  BY DEF IInv, DeviceTypeOK, NothingForgotten, TaskTypeOK, LifeTypeOK, TaskOK,
      CancelOK, PowerOK, DriverCompletes, Complete
<1>5. TemperatureWatched'
  BY DEF IInv, DeviceTypeOK, TemperatureWatched, TaskTypeOK, TaskOK,
      TemperatureTypeOK, DriverCompletes, Complete
<1>6. LifeTypeOK' /\ TemperatureTypeOK' /\ PowerOK' /\ RemovalOK' /\
        SuspendedAtRest'
  BY DEF IInv, DeviceTypeOK, LifeTypeOK, TemperatureTypeOK, PowerOK,
      RemovalOK, SuspendedAtRest, DriverCompletes, Complete
<1> QED
  BY <1>1, <1>2, <1>3, <1>4, <1>5, <1>6 DEF IInv, DeviceTypeOK

LEMMA DriverSuspendsInv ==
  ASSUME IInv, NEW error \in BOOLEAN, DriverSuspends(error)
  PROVE  IInv'
<1>1. TaskTypeOK'
  BY DEF IInv, DeviceTypeOK, TaskTypeOK, TaskOK, CancelOK, DriverSuspends,
      SuspendComplete, CancelTask, CancelCancellable
<1>2. LifeTypeOK'
  BY DEF IInv, DeviceTypeOK, LifeTypeOK, TaskOK, RemovalOK, DriverSuspends,
      SuspendComplete, CancelTask, CancelCancellable
<1>3. TaskOK'
  BY DEF IInv, DeviceTypeOK, TaskOK, TaskTypeOK, LifeTypeOK, CancelOK,
      NothingForgotten, DriverSuspends, SuspendComplete, CancelTask, CancelCancellable
<1>4. CancelOK'
  BY DEF IInv, DeviceTypeOK, CancelOK, TaskTypeOK, LifeTypeOK, TaskOK,
      DriverSuspends, SuspendComplete, CancelTask, CancelCancellable
<1>5. PowerOK'
  BY DEF IInv, DeviceTypeOK, PowerOK, TaskTypeOK, LifeTypeOK, TaskOK,
      NothingForgotten, DriverSuspends, SuspendComplete, CancelTask, CancelCancellable
<1>6. RemovalOK'
  BY DEF IInv, DeviceTypeOK, RemovalOK, TaskTypeOK, LifeTypeOK, TaskOK,
      DriverSuspends, SuspendComplete, CancelTask, CancelCancellable
<1>7. NothingForgotten'
  BY DEF IInv, DeviceTypeOK, NothingForgotten, TaskTypeOK, LifeTypeOK, TaskOK,
      CancelOK, PowerOK, DriverSuspends, SuspendComplete, CancelTask, CancelCancellable
<1>8. SuspendedAtRest'
  BY DEF IInv, DeviceTypeOK, SuspendedAtRest, TaskTypeOK, LifeTypeOK, TaskOK,
      PowerOK, NothingForgotten, DriverSuspends, SuspendComplete, CancelTask,
      CancelCancellable
<1>9. TemperatureWatched'
  BY DEF IInv, DeviceTypeOK, TemperatureWatched, TaskTypeOK, TaskOK,
      TemperatureTypeOK, DriverSuspends, SuspendComplete, CancelTask, CancelCancellable
<1>10. TemperatureTypeOK'
  BY DEF IInv, DeviceTypeOK, TemperatureTypeOK, DriverSuspends,
      SuspendComplete, CancelTask, CancelCancellable
<1> QED
  BY <1>1, <1>2, <1>3, <1>4, <1>5, <1>6, <1>7, <1>8, <1>9, <1>10 DEF IInv, DeviceTypeOK

LEMMA DriverResumesInv ==
  ASSUME IInv, DriverResumes
  PROVE  IInv'
<1>1. LifeTypeOK'
  BY DEF IInv, DeviceTypeOK, LifeTypeOK, TaskOK, RemovalOK, DriverResumes
<1>2. PowerOK'
  BY DEF IInv, DeviceTypeOK, PowerOK, TaskTypeOK, LifeTypeOK, TaskOK,
      NothingForgotten, DriverResumes
<1>3. NothingForgotten'
  BY DEF IInv, DeviceTypeOK, NothingForgotten, TaskTypeOK, LifeTypeOK, TaskOK,
      CancelOK, PowerOK, DriverResumes
<1>4. SuspendedAtRest'
  BY DEF IInv, DeviceTypeOK, SuspendedAtRest, TaskTypeOK, LifeTypeOK, TaskOK,
      PowerOK, NothingForgotten, DriverResumes
<1>5. TaskTypeOK' /\ TemperatureTypeOK' /\ TaskOK' /\ CancelOK' /\
        RemovalOK' /\ TemperatureWatched'
  BY DEF IInv, DeviceTypeOK, TaskTypeOK, TemperatureTypeOK, TaskOK, CancelOK,
      RemovalOK, TemperatureWatched, DriverResumes
<1> QED
  BY <1>1, <1>2, <1>3, <1>4, <1>5 DEF IInv, DeviceTypeOK

LEMMA CriticalEnterInv ==
  ASSUME IInv, CriticalEnter
  PROVE  IInv'
<1>1. /\ critical_section' \in 0 .. MaxCritical /\ critical_section' > 0
      /\ flush' = FALSE
  BY MaxCriticalAssumption DEF IInv, DeviceTypeOK, TaskTypeOK, CriticalEnter
<1>2. TaskTypeOK'
  BY <1>1 DEF IInv, DeviceTypeOK, TaskTypeOK, TaskOK, CancelOK, CriticalEnter
<1>3. TaskOK'
  BY <1>1 DEF IInv, DeviceTypeOK, TaskOK, TaskTypeOK, LifeTypeOK, CancelOK,
      NothingForgotten, CriticalEnter
<1>4. NothingForgotten'
  BY <1>1 DEF IInv, DeviceTypeOK, NothingForgotten, TaskTypeOK, LifeTypeOK,
      TaskOK, CancelOK, PowerOK, CriticalEnter
<1>5. LifeTypeOK' /\ TemperatureTypeOK' /\ CancelOK' /\ PowerOK' /\
        RemovalOK' /\ SuspendedAtRest' /\ TemperatureWatched'
  BY DEF IInv, DeviceTypeOK, LifeTypeOK, TemperatureTypeOK, CancelOK, PowerOK,
      RemovalOK, SuspendedAtRest, TemperatureWatched, CriticalEnter
<1> QED
  BY <1>2, <1>3, <1>4, <1>5 DEF IInv, DeviceTypeOK

LEMMA CriticalLeaveInv ==
  ASSUME IInv, CriticalLeave
  PROVE  IInv'
<1>1. /\ critical_section' \in 0 .. MaxCritical
      /\ flush' = (critical_section' = 0)
  BY MaxCriticalAssumption DEF IInv, DeviceTypeOK, TaskTypeOK, CriticalLeave
<1>2. TaskTypeOK'
  BY <1>1 DEF IInv, DeviceTypeOK, TaskTypeOK, TaskOK, CancelOK, CriticalLeave
<1>3. TaskOK'
  BY <1>1 DEF IInv, DeviceTypeOK, TaskOK, TaskTypeOK, LifeTypeOK, CancelOK,
      NothingForgotten, CriticalLeave
<1>4. NothingForgotten'
  <2>1. critical_section' > 0 \/ flush'
    <3>1. critical_section' = 0 \/ critical_section' > 0
      BY <1>1, MaxCriticalAssumption
    <3> QED
      BY <1>1, <3>1
  <2> QED
    BY <2>1 DEF IInv, NothingForgotten, CriticalLeave
<1>5. LifeTypeOK' /\ TemperatureTypeOK' /\ CancelOK' /\ PowerOK' /\
        RemovalOK' /\ SuspendedAtRest' /\ TemperatureWatched'
  BY DEF IInv, DeviceTypeOK, LifeTypeOK, TemperatureTypeOK, CancelOK, PowerOK,
      RemovalOK, SuspendedAtRest, TemperatureWatched, CriticalLeave
<1> QED
  BY <1>2, <1>3, <1>4, <1>5 DEF IInv, DeviceTypeOK

LEMMA CallbackReturnsInv ==
  ASSUME IInv, CallbackReturns
  PROVE  IInv'
<1>1. LifeTypeOK'
  BY DEF IInv, DeviceTypeOK, LifeTypeOK, TaskOK, RemovalOK, CallbackReturns
<1>2. PowerOK'
  BY DEF IInv, DeviceTypeOK, PowerOK, TaskTypeOK, LifeTypeOK, TaskOK,
      NothingForgotten, CallbackReturns
<1>3. RemovalOK'
  BY DEF IInv, DeviceTypeOK, RemovalOK, TaskTypeOK, LifeTypeOK, TaskOK,
      CallbackReturns
<1>4. NothingForgotten'
  BY DEF IInv, DeviceTypeOK, NothingForgotten, TaskTypeOK, LifeTypeOK, TaskOK,
      CancelOK, PowerOK, CallbackReturns
<1>5. TaskTypeOK' /\ TemperatureTypeOK' /\ TaskOK' /\ CancelOK' /\
        SuspendedAtRest' /\ TemperatureWatched'
  BY DEF IInv, DeviceTypeOK, TaskTypeOK, TemperatureTypeOK, TaskOK, CancelOK,
      SuspendedAtRest, TemperatureWatched, CallbackReturns
<1> QED
  BY <1>1, <1>2, <1>3, <1>4, <1>5 DEF IInv, DeviceTypeOK

LEMMA SignalRemovedInv ==
  ASSUME IInv, SignalRemoved
  PROVE  IInv'
<1>1. LifeTypeOK'
  BY DEF IInv, DeviceTypeOK, LifeTypeOK, TaskOK, RemovalOK, SignalRemoved,
      Notified
<1>2. PowerOK'
  BY DEF IInv, DeviceTypeOK, PowerOK, TaskTypeOK, LifeTypeOK, TaskOK,
      NothingForgotten, SignalRemoved, Notified
<1>3. RemovalOK'
  BY DEF IInv, DeviceTypeOK, RemovalOK, TaskTypeOK, LifeTypeOK, TaskOK,
      SignalRemoved, Notified
<1>4. NothingForgotten'
  BY DEF IInv, DeviceTypeOK, NothingForgotten, TaskTypeOK, LifeTypeOK, TaskOK,
      CancelOK, PowerOK, SignalRemoved, Notified
<1>5. TaskTypeOK' /\ TemperatureTypeOK' /\ TaskOK' /\ CancelOK' /\
        SuspendedAtRest' /\ TemperatureWatched'
  BY DEF IInv, DeviceTypeOK, TaskTypeOK, TemperatureTypeOK, TaskOK, CancelOK,
      SuspendedAtRest, TemperatureWatched, SignalRemoved, Notified
<1> QED
  BY <1>1, <1>2, <1>3, <1>4, <1>5 DEF IInv, DeviceTypeOK

LEMMA ShortCompletedInv ==
  ASSUME IInv, ShortCompleted
  PROVE  IInv'
<1>1. LifeTypeOK'
  BY DEF IInv, DeviceTypeOK, LifeTypeOK, TaskOK, RemovalOK, ShortCompleted,
      Notified
<1>2. PowerOK'
  BY DEF IInv, DeviceTypeOK, PowerOK, TaskTypeOK, LifeTypeOK, TaskOK,
      NothingForgotten, ShortCompleted, Notified
<1>3. RemovalOK'
  BY DEF IInv, DeviceTypeOK, RemovalOK, TaskTypeOK, LifeTypeOK, TaskOK,
      ShortCompleted, Notified
<1>4. NothingForgotten'
  BY DEF IInv, DeviceTypeOK, NothingForgotten, TaskTypeOK, LifeTypeOK, TaskOK,
      CancelOK, PowerOK, ShortCompleted, Notified
<1>5. SuspendedAtRest'
  BY DEF IInv, DeviceTypeOK, SuspendedAtRest, TaskTypeOK, LifeTypeOK, TaskOK,
      PowerOK, NothingForgotten, ShortCompleted, Notified
<1>6. TaskTypeOK' /\ TemperatureTypeOK' /\ TaskOK' /\ CancelOK' /\
        TemperatureWatched'
  BY DEF IInv, DeviceTypeOK, TaskTypeOK, TemperatureTypeOK, TaskOK, CancelOK,
      TemperatureWatched, ShortCompleted, Notified
<1> QED
  BY <1>1, <1>2, <1>3, <1>4, <1>5, <1>6 DEF IInv, DeviceTypeOK

LEMMA SuspendCompletedInv ==
  ASSUME IInv, SuspendCompleted
  PROVE  IInv'
<1>1. LifeTypeOK'
  BY DEF IInv, DeviceTypeOK, LifeTypeOK, TaskOK, RemovalOK, SuspendCompleted,
      Notified
<1>2. PowerOK'
  BY DEF IInv, DeviceTypeOK, PowerOK, TaskTypeOK, LifeTypeOK, TaskOK,
      NothingForgotten, SuspendCompleted, Notified
<1>3. RemovalOK'
  BY DEF IInv, DeviceTypeOK, RemovalOK, TaskTypeOK, LifeTypeOK, TaskOK,
      SuspendCompleted, Notified
<1>4. NothingForgotten'
  BY DEF IInv, DeviceTypeOK, NothingForgotten, TaskTypeOK, LifeTypeOK, TaskOK,
      CancelOK, PowerOK, SuspendCompleted, Notified
<1>5. SuspendedAtRest'
  BY DEF IInv, DeviceTypeOK, SuspendedAtRest, TaskTypeOK, LifeTypeOK, TaskOK,
      PowerOK, NothingForgotten, SuspendCompleted, Notified
<1>6. TaskTypeOK' /\ TemperatureTypeOK' /\ TaskOK' /\ CancelOK' /\
        TemperatureWatched'
  BY DEF IInv, DeviceTypeOK, TaskTypeOK, TemperatureTypeOK, TaskOK, CancelOK,
      TemperatureWatched, SuspendCompleted, Notified
<1> QED
  BY <1>1, <1>2, <1>3, <1>4, <1>5, <1>6 DEF IInv, DeviceTypeOK

LEMMA CancelInIdleInv ==
  ASSUME IInv, CancelInIdle
  PROVE  IInv'
<1>1. cancels = 0 /\ cancels' \in 0 .. 1
  BY DEF IInv, CancelOK, CancelInIdle
<1>2. TaskTypeOK'
  BY <1>1 DEF IInv, DeviceTypeOK, TaskTypeOK, TaskOK, CancelOK, CancelInIdle,
      MainLoop
<1>3. TaskOK'
  BY <1>1 DEF IInv, DeviceTypeOK, TaskOK, TaskTypeOK, LifeTypeOK, CancelOK,
      NothingForgotten, CancelInIdle, MainLoop
<1>4. CancelOK'
  BY <1>1 DEF IInv, DeviceTypeOK, CancelOK, TaskTypeOK, LifeTypeOK, TaskOK,
      CancelInIdle, MainLoop
<1>5. PowerOK'
  BY <1>1 DEF IInv, DeviceTypeOK, PowerOK, TaskTypeOK, LifeTypeOK, TaskOK,
      NothingForgotten, CancelInIdle, MainLoop
<1>6. NothingForgotten'
  BY <1>1 DEF IInv, DeviceTypeOK, NothingForgotten, TaskTypeOK, LifeTypeOK,
      TaskOK, CancelOK, PowerOK, CancelInIdle, MainLoop
<1>7. LifeTypeOK' /\ TemperatureTypeOK' /\ RemovalOK' /\ SuspendedAtRest' /\
        TemperatureWatched'
  BY DEF IInv, DeviceTypeOK, LifeTypeOK, TemperatureTypeOK, RemovalOK,
      SuspendedAtRest, TemperatureWatched, CancelInIdle, MainLoop
<1> QED
  BY <1>2, <1>3, <1>4, <1>5, <1>6, <1>7 DEF IInv, DeviceTypeOK

LEMMA ReturnInIdleInv ==
  ASSUME IInv, ReturnInIdle
  PROVE  IInv'
<1>1. TemperatureTypeOK' /\ ("temperature" \in class => Watched(FALSE)')
  BY TemperatureNowOK DEF IInv, DeviceTypeOK, ReturnInIdle
<1>2. action # "none" /\ queued = {} /\ cancel_idle = FALSE /\ critical_section = 0
  BY DEF IInv, DeviceTypeOK, TaskTypeOK, TaskOK, NothingForgotten, ReturnInIdle
<1>3. TaskTypeOK'
  <2>1. action' \in {"none"} \cup Long \cup Short /\ returning' \in {"no", "value", "error"}
    BY DEF ReturnInIdle
  <2>2. cancelled' \in BOOLEAN /\ cancellation_reason' = "none"
    BY DEF ReturnInIdle
  <2>3. cancels' \in 0 .. 1
    <3>1. cancels' = 0
      BY Zenon DEF ReturnInIdle
    <3> QED
      BY <3>1
  <2>4. UNCHANGED <<class, cancel_idle, critical, queued>>
    BY DEF ReturnInIdle
  <2> QED
    BY <2>1, <2>2, <2>3, <2>4 DEF IInv, DeviceTypeOK, TaskTypeOK
<1>4. LifeTypeOK'
  <2>1. given' \in {"value", "error", "busy", "too_hot", "removed"}
    BY DEF IInv, DeviceTypeOK, TaskTypeOK, ReturnInIdle, Outcome
  <2>2. is_open' \in BOOLEAN /\ accepted' = FALSE
    BY DEF ReturnInIdle
  <2>3. notifying' = waiting \cup {"callback"} /\ waiting' = {}
    BY DEF ReturnInIdle
  <2>4. UNCHANGED <<is_removed, is_suspended, suspend_resume_task, suspend_error, asked,
                    removed_signals>>
    BY DEF ReturnInIdle
  <2> QED
    BY <2>1, <2>2, <2>3, <2>4 DEF IInv, DeviceTypeOK, LifeTypeOK
<1>5. TemperatureTypeOK'
  BY <1>1
<1>6. TaskOK'
  <2>1. /\ action' = "none" /\ returning' = "no" /\ accepted' = FALSE /\ waiting' = {}
        /\ cancelled' = FALSE /\ cancels' = 0 /\ cancellation_reason' = "none"
        /\ UNCHANGED <<cancel_idle, critical, queued>>
    BY DEF ReturnInIdle
  <2>2. given' # "no" /\ "callback" \in notifying'
    BY DEF IInv, DeviceTypeOK, TaskTypeOK, ReturnInIdle, Outcome
  <2>3. flush = FALSE
    BY DEF IInv, DeviceTypeOK, TaskTypeOK, ReturnInIdle
  <2> QED
    BY <1>2, <2>1, <2>2, <2>3 DEF TaskOK
<1>7. CancelOK'
  BY <1>2 DEF CancelOK, ReturnInIdle
<1>8. PowerOK'
  BY <1>1, <1>2 DEF IInv, DeviceTypeOK, PowerOK, TaskTypeOK, LifeTypeOK,
      TaskOK, NothingForgotten, ReturnInIdle, MainLoop
<1>9. RemovalOK'
  BY <1>1, <1>2 DEF IInv, DeviceTypeOK, RemovalOK, TaskTypeOK, LifeTypeOK,
      TaskOK, ReturnInIdle, MainLoop
<1>10. NothingForgotten'
  BY <1>1, <1>2 DEF IInv, DeviceTypeOK, NothingForgotten, TaskTypeOK,
      LifeTypeOK, TaskOK, CancelOK, PowerOK, ReturnInIdle, MainLoop
<1>11. SuspendedAtRest'
  BY <1>1, <1>2 DEF IInv, DeviceTypeOK, SuspendedAtRest, TaskTypeOK,
      LifeTypeOK, TaskOK, PowerOK, NothingForgotten, ReturnInIdle, MainLoop
<1>12. TemperatureWatched'
  BY <1>1 DEF Watched, TemperatureWatched, ReturnInIdle
<1> QED
  BY <1>3, <1>4, <1>5, <1>6, <1>7, <1>8, <1>9, <1>10, <1>11, <1>12 DEF IInv, DeviceTypeOK

LEMMA TempTimeoutInv ==
  ASSUME IInv, TempTimeout
  PROVE  IInv'
<1>1. PICK is_active \in BOOLEAN : is_active = temp_last_active
  BY DEF IInv, DeviceTypeOK, TemperatureTypeOK
<1>2. TemperatureTypeOK' /\ Watched(is_active)'
  <2>1. TemperatureTypeOK
    BY DEF IInv, DeviceTypeOK
  <2>2. PICK ratio \in Crossed : UpdateTemp(ratio, is_active)
    BY <1>1 DEF TempTimeout
  <2>3. ratio \in 0 .. 3
    BY <2>1, <2>2, RatiosOK
  <2> QED
    BY <2>1, <2>2, <2>3, UpdateTempOK
<1>3. temp_last_active' = temp_last_active
  BY <1>1, <1>2 DEF Watched
<1>4. TaskTypeOK'
  BY <1>1, <1>2, <1>3 DEF IInv, DeviceTypeOK, TaskTypeOK, TaskOK, CancelOK,
      TempTimeout, MainLoop, CancelTask, CancelCancellable
<1>5. TemperatureTypeOK'
  BY <1>2
<1>6. TaskOK'
  BY <1>1, <1>2, <1>3 DEF IInv, DeviceTypeOK, TaskOK, TaskTypeOK, LifeTypeOK,
      CancelOK, NothingForgotten, TempTimeout, MainLoop, CancelTask, CancelCancellable
<1>7. CancelOK'
  BY <1>1, <1>2, <1>3 DEF IInv, DeviceTypeOK, CancelOK, TaskTypeOK,
      LifeTypeOK, TaskOK, TempTimeout, MainLoop, CancelTask, CancelCancellable
<1>8. NothingForgotten'
  BY <1>1, <1>2, <1>3 DEF IInv, DeviceTypeOK, NothingForgotten, TaskTypeOK,
      LifeTypeOK, TaskOK, CancelOK, PowerOK, TempTimeout, MainLoop, CancelTask,
      CancelCancellable
<1>9. TemperatureWatched'
  <2>1. (temp_current' = "HOT" /\ action \in Long) => cancelled' \/ returning # "no"
    BY DEF IInv, DeviceTypeOK, TaskTypeOK, TempTimeout, CancelTask, CancelCancellable
  <2>2. temp_last_active' /\ "temperature" \in class => action \in Long
    BY <1>3 DEF IInv, TemperatureWatched
  <2>3. UNCHANGED <<class, action, returning>>
    BY DEF TempTimeout
  <2>4. temp_current' # (IF temp_last_active' THEN "HOT" ELSE "COLD") => temp_timeout'
    BY <1>1, <1>2, <1>3 DEF Watched
  <2> QED
    BY <2>1, <2>2, <2>3, <2>4 DEF TemperatureWatched
<1>10. LifeTypeOK' /\ PowerOK' /\ RemovalOK' /\ SuspendedAtRest'
  BY DEF IInv, DeviceTypeOK, LifeTypeOK, PowerOK, RemovalOK, SuspendedAtRest,
      TempTimeout, MainLoop, CancelTask, CancelCancellable
<1> QED
  BY <1>4, <1>5, <1>6, <1>7, <1>8, <1>9, <1>10 DEF IInv, DeviceTypeOK

LEMMA FlushCancelInv ==
  ASSUME IInv, FlushCancel
  PROVE  IInv'
<1>1. TaskTypeOK'
  BY DEF IInv, DeviceTypeOK, TaskTypeOK, TaskOK, CancelOK, FlushCancel,
      MainLoop
<1>2. TaskOK'
  BY DEF IInv, DeviceTypeOK, TaskOK, TaskTypeOK, LifeTypeOK, CancelOK,
      NothingForgotten, FlushCancel, MainLoop
<1>3. CancelOK'
  BY DEF IInv, DeviceTypeOK, CancelOK, TaskTypeOK, LifeTypeOK, TaskOK,
      FlushCancel, MainLoop
<1>4. PowerOK'
  BY DEF IInv, DeviceTypeOK, PowerOK, TaskTypeOK, LifeTypeOK, TaskOK,
      NothingForgotten, FlushCancel, MainLoop
<1>5. NothingForgotten'
  BY DEF IInv, DeviceTypeOK, NothingForgotten, TaskTypeOK, LifeTypeOK, TaskOK,
      CancelOK, PowerOK, FlushCancel, MainLoop
<1>6. LifeTypeOK' /\ TemperatureTypeOK' /\ RemovalOK' /\ SuspendedAtRest' /\
        TemperatureWatched'
  BY DEF IInv, DeviceTypeOK, LifeTypeOK, TemperatureTypeOK, RemovalOK,
      SuspendedAtRest, TemperatureWatched, FlushCancel, MainLoop
<1> QED
  BY <1>1, <1>2, <1>3, <1>4, <1>5, <1>6 DEF IInv, DeviceTypeOK

LEMMA FlushSuspendInv ==
  ASSUME IInv, FlushSuspend
  PROVE  IInv'
<1>1. TaskTypeOK'
  BY DEF IInv, DeviceTypeOK, TaskTypeOK, TaskOK, CancelOK, FlushSuspend,
      MainLoop, SuspendDevice, SuspendComplete, CancelTask, CancelCancellable
<1>2. LifeTypeOK'
  BY DEF IInv, DeviceTypeOK, LifeTypeOK, TaskOK, RemovalOK, FlushSuspend,
      MainLoop, SuspendDevice, SuspendComplete, CancelTask, CancelCancellable
<1>3. TaskOK'
  BY DEF IInv, DeviceTypeOK, TaskOK, TaskTypeOK, LifeTypeOK, CancelOK,
      NothingForgotten, FlushSuspend, MainLoop, SuspendDevice,
      SuspendComplete, CancelTask, CancelCancellable
<1>4. CancelOK'
  BY DEF IInv, DeviceTypeOK, CancelOK, TaskTypeOK, LifeTypeOK, TaskOK,
      FlushSuspend, MainLoop, SuspendDevice, SuspendComplete, CancelTask,
      CancelCancellable
<1>5. PowerOK'
  BY DEF IInv, DeviceTypeOK, PowerOK, TaskTypeOK, LifeTypeOK, TaskOK,
      NothingForgotten, FlushSuspend, MainLoop, SuspendDevice,
      SuspendComplete, CancelTask, CancelCancellable
<1>6. RemovalOK'
  BY DEF IInv, DeviceTypeOK, RemovalOK, TaskTypeOK, LifeTypeOK, TaskOK,
      FlushSuspend, MainLoop, SuspendDevice, SuspendComplete, CancelTask,
      CancelCancellable
<1>7. NothingForgotten'
  BY DEF IInv, DeviceTypeOK, NothingForgotten, TaskTypeOK, LifeTypeOK, TaskOK,
      CancelOK, PowerOK, FlushSuspend, MainLoop, SuspendDevice,
      SuspendComplete, CancelTask, CancelCancellable
<1>8. SuspendedAtRest'
  BY DEF IInv, DeviceTypeOK, SuspendedAtRest, TaskTypeOK, LifeTypeOK, TaskOK,
      PowerOK, NothingForgotten, FlushSuspend, MainLoop, SuspendDevice,
      SuspendComplete, CancelTask, CancelCancellable
<1>9. TemperatureWatched'
  BY DEF IInv, DeviceTypeOK, TemperatureWatched, TaskTypeOK, TaskOK,
      TemperatureTypeOK, FlushSuspend, MainLoop, SuspendDevice,
      SuspendComplete, CancelTask, CancelCancellable
<1>10. TemperatureTypeOK'
  BY DEF IInv, DeviceTypeOK, TemperatureTypeOK, FlushSuspend, MainLoop,
      SuspendDevice, SuspendComplete, CancelTask, CancelCancellable
<1> QED
  BY <1>1, <1>2, <1>3, <1>4, <1>5, <1>6, <1>7, <1>8, <1>9, <1>10 DEF IInv, DeviceTypeOK

LEMMA FlushResumeInv ==
  ASSUME IInv, FlushResume
  PROVE  IInv'
<1>1. /\ queued = {"resume"} /\ suspend_resume_task = "resume" /\ asked = {}
      /\ is_suspended
  BY DEF IInv, PowerOK, FlushResume
<1>2. Enders \cap (waiting \cup notifying) = {}
  BY <1>1 DEF IInv, PowerOK
<1>3. TaskTypeOK'
  BY <1>1, <1>2 DEF IInv, DeviceTypeOK, TaskTypeOK, TaskOK, CancelOK,
      FlushResume, MainLoop, ResumeDevice
<1>4. LifeTypeOK'
  BY <1>1, <1>2 DEF IInv, DeviceTypeOK, LifeTypeOK, TaskOK, RemovalOK,
      FlushResume, MainLoop, ResumeDevice
<1>5. TaskOK'
  BY <1>1, <1>2 DEF IInv, DeviceTypeOK, TaskOK, TaskTypeOK, LifeTypeOK,
      CancelOK, NothingForgotten, FlushResume, MainLoop, ResumeDevice
<1>6. CancelOK'
  BY <1>1, <1>2 DEF IInv, DeviceTypeOK, CancelOK, TaskTypeOK, LifeTypeOK,
      TaskOK, FlushResume, MainLoop, ResumeDevice
<1>7. PowerOK'
  <2>1. CASE queued' = {} /\ asked' = {}
    BY <1>1, <1>2, <2>1 DEF IInv, PowerOK, FlushResume, ResumeDevice
  <2>2. CASE ~(queued' = {} /\ asked' = {})
    BY <1>1, <1>2, <2>2 DEF IInv, PowerOK, FlushResume, ResumeDevice
  <2> QED
    BY <2>1, <2>2
<1>8. NothingForgotten'
  BY <1>1, <1>2 DEF IInv, DeviceTypeOK, NothingForgotten, TaskTypeOK,
      LifeTypeOK, TaskOK, CancelOK, PowerOK, FlushResume, MainLoop,
      ResumeDevice
<1>9. SuspendedAtRest'
  BY <1>1, <1>2 DEF IInv, DeviceTypeOK, SuspendedAtRest, TaskTypeOK,
      LifeTypeOK, TaskOK, PowerOK, NothingForgotten, FlushResume, MainLoop,
      ResumeDevice
<1>10. TemperatureTypeOK' /\ RemovalOK' /\ TemperatureWatched'
  BY DEF IInv, DeviceTypeOK, TemperatureTypeOK, RemovalOK, TemperatureWatched,
      FlushResume, MainLoop, ResumeDevice
<1> QED
  BY <1>3, <1>4, <1>5, <1>6, <1>7, <1>8, <1>9, <1>10 DEF IInv, DeviceTypeOK

LEMMA FlushEndsInv ==
  ASSUME IInv, FlushEnds
  PROVE  IInv'
<1>1. TaskTypeOK'
  BY DEF IInv, DeviceTypeOK, TaskTypeOK, TaskOK, CancelOK, FlushEnds, MainLoop
<1>2. TaskOK'
  BY DEF IInv, DeviceTypeOK, TaskOK, TaskTypeOK, LifeTypeOK, CancelOK,
      NothingForgotten, FlushEnds, MainLoop
<1>3. NothingForgotten'
  BY DEF IInv, DeviceTypeOK, NothingForgotten, TaskTypeOK, LifeTypeOK, TaskOK,
      CancelOK, PowerOK, FlushEnds, MainLoop
<1>4. LifeTypeOK' /\ TemperatureTypeOK' /\ CancelOK' /\ PowerOK' /\
        RemovalOK' /\ SuspendedAtRest' /\ TemperatureWatched'
  BY DEF IInv, DeviceTypeOK, LifeTypeOK, TemperatureTypeOK, CancelOK, PowerOK,
      RemovalOK, SuspendedAtRest, TemperatureWatched, FlushEnds, MainLoop
<1> QED
  BY <1>1, <1>2, <1>3, <1>4 DEF IInv, DeviceTypeOK

LEMMA RemoveInv ==
  ASSUME IInv, Remove
  PROVE  IInv'
<1>1. removed_signals = 0
  BY DEF IInv, DeviceTypeOK, LifeTypeOK, RemovalOK, Remove
<1>2. LifeTypeOK'
  <2>1. removed_signals' \in 0 .. 1
    BY <1>1 DEF Remove
  <2>2. waiting' \subseteq {"short", "suspend", "removed"}
    BY DEF IInv, DeviceTypeOK, LifeTypeOK, Remove
  <2>3. /\ is_removed' = TRUE
        /\ UNCHANGED <<is_open, is_suspended, power, notifying, given>>
    BY DEF Remove
  <2> QED
    BY <2>1, <2>2, <2>3 DEF IInv, DeviceTypeOK, LifeTypeOK
<1>3. TaskOK'
  BY <1>1 DEF IInv, DeviceTypeOK, TaskOK, TaskTypeOK, LifeTypeOK, CancelOK,
      NothingForgotten, Remove, MainLoop
<1>4. PowerOK'
  BY <1>1 DEF IInv, DeviceTypeOK, PowerOK, TaskTypeOK, LifeTypeOK, TaskOK,
      NothingForgotten, Remove, MainLoop
<1>5. RemovalOK'
  BY <1>1 DEF IInv, DeviceTypeOK, RemovalOK, TaskTypeOK, LifeTypeOK, TaskOK,
      Remove, MainLoop
<1>6. NothingForgotten'
  BY <1>1 DEF IInv, DeviceTypeOK, NothingForgotten, TaskTypeOK, LifeTypeOK,
      TaskOK, CancelOK, PowerOK, Remove, MainLoop
<1>7. TaskTypeOK' /\ TemperatureTypeOK' /\ CancelOK' /\ SuspendedAtRest' /\
        TemperatureWatched'
  BY DEF IInv, DeviceTypeOK, TaskTypeOK, TemperatureTypeOK, CancelOK,
      SuspendedAtRest, TemperatureWatched, Remove, MainLoop
<1> QED
  BY <1>2, <1>3, <1>4, <1>5, <1>6, <1>7 DEF IInv, DeviceTypeOK

-----------------------------------------------------------------------------
(* The invariant is inductive.                                              *)
LEMMA InitInv == NoClearStorage /\ DeviceInit => IInv
<1> SUFFICES ASSUME NoClearStorage, DeviceInit PROVE IInv
  OBVIOUS
<1>1. 0 \in 0 .. MaxCritical /\ 0 \in 0 .. 1 /\ 1 \in 0 .. 3
  BY MaxCriticalAssumption
<1>2. DeviceTypeOK
  BY <1>1, Zenon DEF DeviceInit, DeviceTypeOK, TaskTypeOK, LifeTypeOK, TemperatureTypeOK
<1>3. TaskOK /\ CancelOK /\ PowerOK /\ RemovalOK
  BY DEF DeviceInit, TaskOK, CancelOK, PowerOK, RemovalOK
<1>4. NothingForgotten /\ SuspendedAtRest /\ TemperatureWatched
  BY DEF DeviceInit, NothingForgotten, SuspendedAtRest, TemperatureWatched
<1> QED
  BY <1>1, <1>2, <1>3, <1>4 DEF IInv

LEMMA StepInv ==
  ASSUME IInv, [DeviceNext]_deviceVars
  PROVE  IInv'
<1>1. CASE Application
  BY <1>1, StartInv, TooHotInv, CancelInv, SuspendInv, ResumeInv DEF Application
<1>2. CASE Driver
  BY <1>2, CompleteInv, DriverSuspendsInv, DriverResumesInv, CriticalEnterInv,
     CriticalLeaveInv DEF Driver
<1>3. CASE Handlers
  BY <1>3, CallbackReturnsInv, SignalRemovedInv, ShortCompletedInv, SuspendCompletedInv
     DEF Handlers
<1>4. CASE Sources
  BY <1>4, CancelInIdleInv, ReturnInIdleInv, TempTimeoutInv, FlushCancelInv,
     FlushSuspendInv, FlushResumeInv, FlushEndsInv DEF Sources, Flush
<1>5. CASE Remove
  BY <1>5, RemoveInv
<1>6. CASE UNCHANGED deviceVars
  BY <1>6 DEF deviceVars, IInv, DeviceTypeOK, TaskTypeOK, LifeTypeOK, TemperatureTypeOK,
     TaskOK, CancelOK, PowerOK, RemovalOK, NothingForgotten, SuspendedAtRest,
     TemperatureWatched
<1> QED
  BY <1>1, <1>2, <1>3, <1>4, <1>5, <1>6 DEF DeviceNext

LEMMA Invariant == NoClearStorage /\ DeviceSpec => []IInv
<1>1. IInv /\ [DeviceNext]_deviceVars => IInv'
  BY StepInv
<1> QED
  BY <1>1, InitInv, PTL DEF DeviceSpec

-----------------------------------------------------------------------------
(* The device keeps the types of its state: critical sections are balanced, *)
(* a task is cancelled in the driver once at most.                          *)
THEOREM DeviceTypeCorrect == NoClearStorage /\ DeviceSpec => []DeviceTypeOK
<1>1. IInv => DeviceTypeOK
  BY DEF IInv
<1> QED
  BY <1>1, Invariant, PTL

(* The assertions of fp-device.c and fpi-device.c hold, that of             *)
(* fpi_device_resume only without clear_storage.                            *)
THEOREM AssertionsAlwaysHold == NoClearStorage /\ DeviceSpec => []AssertionsHold
<1>1. IInv => AssertionsHold
  <2> SUFFICES ASSUME IInv PROVE AssertionsHold
    OBVIOUS
  <2>1. cancel_idle => action # "none" /\ "cancel" \in class
    BY DEF IInv, TaskOK, CancelOK
  <2>2. ResumeFindsNoShort
    BY DEF IInv, SuspendedAtRest, TaskOK, ResumeFindsNoShort
  <2>3. asked # {} => asked = {suspend_resume_task}
    BY DEF IInv, PowerOK
  <2>4. Enders \cap notifying # {} =>
          suspend_resume_task = "suspend" /\ asked = {} /\ "suspend" \notin queued
    BY DEF IInv, PowerOK
  <2> QED
    BY <2>1, <2>2, <2>3, <2>4 DEF AssertionsHold
<1> QED
  BY <1>1, Invariant, PTL

(* No cancellation, suspend or resume is lost on its way through the idle   *)
(* sources, the critical sections and the handlers of notify::completed.    *)
THEOREM NothingIsForgotten == NoClearStorage /\ DeviceSpec => []NothingForgotten
<1>1. IInv => NothingForgotten
  BY DEF IInv
<1> QED
  BY <1>1, Invariant, PTL

(* A suspend that has ended leaves no task behind but one that the driver   *)
(* goes on with.                                                            *)
THEOREM SuspendedIsAtRest == NoClearStorage /\ DeviceSpec => []SuspendedAtRest
<1>1. IInv => SuspendedAtRest
  BY DEF IInv
<1> QED
  BY <1>1, Invariant, PTL

(* The temperature model always has a timer for the threshold ahead.        *)
THEOREM TemperatureIsWatched == NoClearStorage /\ DeviceSpec => []TemperatureWatched
<1>1. IInv => TemperatureWatched
  BY DEF IInv
<1> QED
  BY <1>1, Invariant, PTL

(* A removal is signalled once, at the end of the task it met.              *)
THEOREM RemovalIsKept == NoClearStorage /\ DeviceSpec => []RemovalKept
<1>1. IInv => RemovalKept
  <2> SUFFICES ASSUME IInv PROVE RemovalKept
    OBVIOUS
  <2>1. removed_signals = 0 \/ removed_signals = 1
    BY DEF IInv, DeviceTypeOK, LifeTypeOK
  <2>2. CASE removed_signals = 1
    BY <2>2 DEF IInv, RemovalOK, RemovalKept
  <2>3. CASE removed_signals = 0
    BY <2>3 DEF IInv, DeviceTypeOK, LifeTypeOK, RemovalOK, RemovalKept
  <2> QED
    BY <2>1, <2>2, <2>3
<1> QED
  BY <1>1, Invariant, PTL

(* What a step may do to the driver.                                        *)
Undisturbed ==
  /\ cancels' > cancels =>
       critical_section = 0 /\ cancelled /\ returning = "no" /\ cancels = 0
  /\ ~(asked' \subseteq asked) => critical_section = 0 /\ action \in Long

LEMMA StepUndisturbed ==
  ASSUME IInv, [DeviceNext]_deviceVars
  PROVE  Undisturbed
<1>1. cancels \in 0 .. 1 /\ critical_section \in 0 .. MaxCritical
  BY DEF IInv, DeviceTypeOK, TaskTypeOK
<1>2. CASE \E op \in {"open", "close"} \cup Operations : Start(op) \/ TooHot(op)
  <2>1. (cancels' = cancels \/ cancels' = 0) /\ asked' = asked
    BY <1>2 DEF Start, TooHot
  <2> QED
    BY <1>1, <2>1 DEF Undisturbed
<1>3. CASE \/ Cancel \/ Driver \/ Handlers \/ TempTimeout \/ FlushEnds \/ Remove
            \/ UNCHANGED deviceVars
  <2>1. cancels' = cancels /\ asked' \subseteq asked
    BY <1>3 DEF Cancel, CancelTask, CancelCancellable, Driver, DriverCompletes, Complete,
      DriverSuspends, SuspendComplete, DriverResumes, CriticalEnter, CriticalLeave,
      Handlers, CallbackReturns, SignalRemoved, ShortCompleted, SuspendCompleted, Notified,
      TempTimeout, FlushEnds, Remove, deviceVars
  <2> QED
    BY <1>1, <2>1 DEF Undisturbed
<1>4. CASE Suspend \/ Resume
  <2>1. cancels' = cancels
    BY <1>4 DEF Suspend, Resume, SuspendDevice, SuspendComplete, CancelTask,
      CancelCancellable
  <2>2. asked' \subseteq asked \/ (~(critical_section > 0) /\ action \in Long)
    BY <1>4 DEF Suspend, Resume, SuspendDevice, ResumeDevice
  <2> QED
    BY <1>1, <2>1, <2>2, MaxCriticalAssumption DEF Undisturbed
<1>5. CASE FlushSuspend \/ FlushResume
  <2>1. cancels' = cancels
    BY <1>5 DEF FlushSuspend, FlushResume, SuspendDevice, SuspendComplete, CancelTask,
      CancelCancellable
  <2>2. asked' \subseteq asked \/ (~(critical_section > 0) /\ action \in Long)
    BY <1>5 DEF FlushSuspend, FlushResume, SuspendDevice, ResumeDevice
  <2> QED
    BY <1>1, <2>1, <2>2, MaxCriticalAssumption DEF Undisturbed
<1>6. CASE CancelInIdle
  <2>1. cancelled /\ cancels = 0 /\ returning = "no" /\ asked' = asked
    BY <1>6 DEF IInv, CancelOK, TaskOK, CancelInIdle
  <2>2. cancels' > cancels => critical_section = 0
    BY <1>1, <1>6 DEF CancelInIdle
  <2> QED
    BY <2>1, <2>2 DEF Undisturbed
<1>7. CASE FlushCancel
  <2>1. cancelled /\ cancels = 0 /\ asked' = asked /\ critical_section = 0
    BY <1>7 DEF IInv, CancelOK, TaskOK, FlushCancel
  <2>2. cancels' > cancels => returning = "no"
    BY <1>1, <1>7 DEF FlushCancel
  <2> QED
    BY <2>1, <2>2 DEF Undisturbed
<1>8. CASE ReturnInIdle
  <2>1. cancels' = 0 /\ asked' = asked
    BY <1>8 DEF ReturnInIdle
  <2> QED
    BY <1>1, <2>1 DEF Undisturbed
<1> QED
  BY <1>2, <1>3, <1>4, <1>5, <1>6, <1>7, <1>8
     DEF DeviceNext, Application, Sources, Flush

(* The driver is called outside of its critical sections only, to cancel a  *)
(* task that it has not completed and to suspend or resume a long one.      *)
THEOREM DriverIsUndisturbed == NoClearStorage /\ DeviceSpec => DriverUndisturbed
<1>1. IInv /\ [DeviceNext]_deviceVars => [Undisturbed]_deviceVars
  BY StepUndisturbed
<1> QED
  BY <1>1, Invariant, PTL DEF DeviceSpec, DriverUndisturbed, Undisturbed

-----------------------------------------------------------------------------
(* The device keeps the promises of DeviceResult.                           *)

(* What the step of one of them does to the task.                           *)
TaskKept ==
  UNCHANGED <<is_open, action, returning, cancelled, cancels, cancellation_reason,
              is_removed, given>>

TaskStep == [Task!ResultNext]_Task!resultVars

LEMMA KeptIsStep == TaskKept => TaskStep
BY DEF TaskKept, TaskStep, Task!resultVars, Task!taskVars

(* The library gives the task up: for the first time, after the application *)
(* did, or once again.                                                      *)
LEMMA GivenUpIsStep ==
  ASSUME IInv, NEW why \in {"busy", "too_hot"}, action # "none", CancelTask(why),
         UNCHANGED <<is_open, action, returning, is_removed, given>>
  PROVE  TaskStep
<1>1. /\ cancelled \in BOOLEAN /\ cancels' = cancels
      /\ cancelled' = (cancelled \/ returning = "no")
  BY DEF IInv, DeviceTypeOK, TaskTypeOK, CancelTask, CancelCancellable
<1>2. UNCHANGED (cancels > 0 /\ returning = "no")
  BY <1>1
<1>3. CASE cancellation_reason = "none"
  <2>1. cancellation_reason' = why
    BY <1>3 DEF CancelTask
  <2>2. Task!Blame(why)
    BY <1>1, <1>2, <1>3, <2>1, Zenon DEF Task!Blame
  <2> QED
    BY <2>2 DEF TaskStep, Task!ResultNext, Task!Reasons
<1>4. CASE cancellation_reason # "none" /\ (cancelled \/ returning # "no")
  <2>1. cancelled' = cancelled /\ cancellation_reason' = cancellation_reason
    BY <1>1, <1>4 DEF CancelTask
  <2> QED
    BY <1>1, <2>1, KeptIsStep DEF TaskKept
<1>5. CASE cancellation_reason # "none" /\ ~cancelled /\ returning = "no"
  <2>1. cancellation_reason' = cancellation_reason /\ cancelled' = TRUE
    BY <1>1, <1>5 DEF CancelTask
  <2>2. Task!GiveUp
    BY <1>2, <1>5, <2>1, Zenon DEF Task!GiveUp
  <2> QED
    BY <2>1, <2>2 DEF TaskStep, Task!ResultNext
<1> QED
  BY <1>3, <1>4, <1>5

LEMMA SuspendIsStep ==
  ASSUME IInv, Suspend \/ FlushSuspend \/ \E error \in BOOLEAN : DriverSuspends(error)
  PROVE  TaskStep
<1>1. UNCHANGED <<is_open, action, returning, is_removed, given>>
  BY DEF Suspend, FlushSuspend, DriverSuspends
<1>2. \/ action # "none" /\ CancelTask("busy")
      \/ UNCHANGED cancellation
  BY DEF Suspend, FlushSuspend, DriverSuspends, SuspendDevice, SuspendComplete
<1> QED
  BY <1>1, <1>2, GivenUpIsStep, KeptIsStep DEF TaskKept

LEMMA TempTimeoutIsStep == ASSUME IInv, TempTimeout PROVE TaskStep
<1>1. UNCHANGED <<is_open, action, returning, is_removed, given>>
  BY DEF TempTimeout
<1>2. (action # "none" /\ CancelTask("too_hot")) \/ UNCHANGED cancellation
  BY DEF TempTimeout
<1> QED
  BY <1>1, <1>2, GivenUpIsStep, KeptIsStep DEF TaskKept

LEMMA CancelIsStep == ASSUME IInv, Cancel PROVE TaskStep
<1>1. /\ action # "none" /\ returning = "no" /\ ~cancelled /\ cancelled' = TRUE
      /\ UNCHANGED <<is_open, action, returning, cancels, cancellation_reason,
                     is_removed, given>>
  BY DEF Cancel, CancelCancellable
<1>2. UNCHANGED (cancels > 0 /\ returning = "no")
  BY <1>1
<1>3. Task!GiveUp
  BY <1>1, <1>2, Zenon DEF Task!GiveUp
<1> QED
  BY <1>1, <1>3 DEF TaskStep, Task!ResultNext

LEMMA CancelInIdleIsStep == ASSUME IInv, CancelInIdle \/ FlushCancel PROVE TaskStep
<1>1. /\ UNCHANGED <<is_open, action, returning, cancelled, cancellation_reason,
                     is_removed, given>>
      /\ \/ cancels' = cancels
         \/ cancels = 0 /\ cancels' = 1 /\ returning = "no" /\ cancelled
  <2>1. CASE CancelInIdle
    BY <2>1 DEF IInv, CancelOK, TaskOK, CancelInIdle
  <2>2. CASE FlushCancel
    BY <2>2 DEF IInv, CancelOK, FlushCancel
  <2> QED
    BY <2>1, <2>2
<1>2. CASE cancels' = cancels
  BY <1>1, <1>2, KeptIsStep DEF TaskKept
<1>3. CASE cancels' # cancels
  <2>1. Task!Tell
    BY <1>1, <1>3 DEF Task!Tell
  <2> QED
    BY <1>1, <2>1 DEF TaskStep, Task!ResultNext
<1> QED
  BY <1>2, <1>3

LEMMA StartIsStep ==
  ASSUME IInv, NEW op \in {"open", "close"} \cup Operations, Start(op) PROVE TaskStep
<1>1. Task!Begin(op)
  BY DEF IInv, DeviceTypeOK, LifeTypeOK, TaskOK, Start, Permitted, Task!Begin
<1>2. UNCHANGED <<cancellation_reason, is_removed, given>>
  BY DEF Start
<1> QED
  BY <1>1, <1>2 DEF TaskStep, Task!ResultNext

LEMMA CompletesIsStep == ASSUME IInv, DriverCompletes PROVE TaskStep
<1>1. Task!End /\ UNCHANGED <<cancellation_reason, is_removed, given>>
  BY DEF DriverCompletes, Complete, Task!End
<1> QED
  BY <1>1 DEF TaskStep, Task!ResultNext

LEMMA ReturnIsStep == ASSUME IInv, ReturnInIdle PROVE TaskStep
<1>1. UNCHANGED (cancels > 0 /\ returning = "no")
  <2>1. returning # "no" /\ ~(cancels' > 0)
    BY DEF ReturnInIdle
  <2> QED
    BY <2>1, Zenon
<1>2. is_open \in BOOLEAN /\ is_open' \in BOOLEAN
  BY DEF IInv, DeviceTypeOK, LifeTypeOK, ReturnInIdle
<1>3. is_open' = IF action = "open" THEN returning = "value"
                                    ELSE action # "close" /\ is_open
  <2>1. is_open' <=> \/ action = "open" /\ returning = "value"
                     \/ action \notin {"open", "close"} /\ is_open
    BY DEF ReturnInIdle
  <2>2. CASE action = "open"
    BY <1>2, <2>1, <2>2
  <2>3. CASE action # "open"
    BY <1>2, <2>1, <2>3
  <2> QED
    BY <2>2, <2>3
<1>4. Task!Return
  BY <1>1, <1>3 DEF ReturnInIdle, Task!Return
<1>5. given = "no"
  BY DEF IInv, TaskOK, ReturnInIdle, MainLoop
<1>6. given' = Task!Seen
  BY DEF ReturnInIdle, Outcome, Task!Seen
<1>7. cancellation_reason' = "none" /\ is_removed' = is_removed
  BY DEF ReturnInIdle
<1>8. Task!CallBack
  BY <1>4, <1>5, <1>6, <1>7 DEF Task!CallBack
<1> QED
  BY <1>8 DEF TaskStep, Task!ResultNext

LEMMA CallbackIsStep == ASSUME IInv, CallbackReturns PROVE TaskStep
<1>1. given # "no"
  BY DEF IInv, TaskOK, CallbackReturns
<1>2. Task!CallbackReturns
  BY <1>1 DEF CallbackReturns, Task!CallbackReturns, Task!taskVars
<1> QED
  BY <1>2 DEF TaskStep, Task!ResultNext

LEMMA RemoveIsStep == ASSUME IInv, Remove PROVE TaskStep
<1>1. Task!Lose
  BY DEF Remove, Task!Lose, Task!taskVars
<1> QED
  BY <1>1 DEF TaskStep, Task!ResultNext

LEMMA OtherIsStep ==
  ASSUME \/ \E op \in {"open", "close"} \cup Operations : TooHot(op)
         \/ Resume \/ DriverResumes \/ CriticalEnter \/ CriticalLeave
         \/ SignalRemoved \/ ShortCompleted \/ SuspendCompleted
         \/ FlushResume \/ FlushEnds \/ UNCHANGED deviceVars
  PROVE  TaskStep
<1>1. TaskKept
  BY DEF TooHot, Resume, DriverResumes, CriticalEnter, CriticalLeave, SignalRemoved,
    ShortCompleted, SuspendCompleted, Notified, FlushResume, FlushEnds, deviceVars, TaskKept
<1> QED
  BY <1>1, KeptIsStep

LEMMA StepKeepsTask ==
  ASSUME IInv, [DeviceNext]_deviceVars PROVE TaskStep
BY StartIsStep, CancelIsStep, SuspendIsStep, CompletesIsStep, CallbackIsStep,
   CancelInIdleIsStep, ReturnIsStep, TempTimeoutIsStep, RemoveIsStep, OtherIsStep
   DEF DeviceNext, Application, Driver, Handlers, Sources, Flush

(* Each task has one callback, called before the next one returns, which    *)
(* gets a value that the driver returned, and for an error the first reason *)
(* the library had to cancel this very task, or else that of the driver;    *)
(* but of a removed device anything other than a successful open is told    *)
(* to be its removal (fp_device_task_return_in_idle_cb).  The driver is     *)
(* told of a cancellation once at most, and open and close alternate.       *)
THEOREM DeviceKeepsTask == NoClearStorage /\ DeviceSpec => KeepsTask
<1>1. DeviceInit => Task!ResultInit
  BY DEF DeviceInit, Task!ResultInit, Task!TaskInit
<1>2. IInv /\ [DeviceNext]_deviceVars => [Task!ResultNext]_Task!resultVars
  BY StepKeepsTask DEF TaskStep
<1> QED
  BY <1>1, <1>2, Invariant, PTL DEF DeviceSpec, KeepsTask, Task!ResultSpec

-----------------------------------------------------------------------------
(* The context.                                                             *)

(* Where the device is between its removal and its end in the list.         *)
ContextInv ==
  /\ enumeration \in {"pending", "listed", "failed", "gone"}
  /\ removing \in 0 .. 1 /\ watching \in BOOLEAN
  /\ is_removed => enumeration \in {"listed", "gone"}
  /\ enumeration = "gone" => ~is_open /\ removed_signals = 1
  /\ removed_signals = 1 => IF is_open THEN watching /\ removing = 0
                                       ELSE enumeration = "listed" <=> removing = 1
  /\ removed_signals = 0 => ~watching /\ removing = 0
  /\ action = "open" => ~is_open
  /\ is_removed /\ action = "open" => "removed" \in waiting

LEMMA ContextInitOK == NoClearStorage /\ ContextInit => IInv /\ ContextInv
<1> SUFFICES ASSUME NoClearStorage, ContextInit PROVE IInv /\ ContextInv
  OBVIOUS
<1>1. IInv
  BY InitInv DEF ContextInit
<1>2. ContextInv
  <2>1. 0 \in 0 .. 1 /\ 0 # 1
    OBVIOUS
  <2> QED
    BY <2>1, Zenon DEF ContextInit, DeviceInit, ContextInv
<1> QED
  BY <1>1, <1>2

(* A step of the context is one of the device, or none of it.               *)
LEMMA ContextRefines == [ContextNext]_contextVars => [DeviceNext]_deviceVars
BY DEF ContextNext, contextVars, InitDone, DeviceStep, Unplug, RemoveInIdle, DeviceNext

(* What a step of the device does to what the context looks at.             *)
Untouched ==
  /\ UNCHANGED <<is_open, is_removed, removed_signals>>
  /\ "removed" \in waiting => "removed" \in waiting'

LEMMA DeviceStepEffect ==
  ASSUME IInv, Application \/ Driver \/ Handlers \/ Sources
  PROVE  \/ Untouched /\ (action' = "open" => action = "open" \/ (~is_open /\ ~is_removed))
         \/ ReturnInIdle
         \/ SignalRemoved
<1>1. CASE \E op \in {"open", "close"} \cup Operations : Start(op)
  BY <1>1 DEF Start, Permitted, Untouched
<1>2. CASE \E op \in {"open", "close"} \cup Operations : TooHot(op)
  BY <1>2 DEF TooHot, Untouched
<1>3. CASE Cancel \/ Suspend \/ Resume
  BY <1>3 DEF Cancel, Suspend, SuspendDevice, SuspendComplete, Resume, Untouched
<1>4. CASE Driver
  BY <1>4 DEF Driver, DriverCompletes, Complete, DriverSuspends, SuspendComplete,
      DriverResumes,
    CriticalEnter, CriticalLeave, Untouched
<1>5. CASE Handlers
  BY <1>5 DEF Handlers, CallbackReturns, ShortCompleted, SuspendCompleted, Notified,
    Untouched
<1>6. CASE Sources
  BY <1>6 DEF Sources, Flush, CancelInIdle, TempTimeout, FlushCancel, FlushSuspend,
    SuspendDevice, SuspendComplete, FlushResume, FlushEnds, Untouched
<1> QED
  BY <1>1, <1>2, <1>3, <1>4, <1>5, <1>6 DEF Application

LEMMA DeviceStepOK ==
  ASSUME IInv, ContextInv, DeviceStep
  PROVE  ContextInv'
<1>1. removed_signals = 0 \/ removed_signals = 1
  BY DEF IInv, DeviceTypeOK, LifeTypeOK
<1>2. removed_signals = 1 => is_removed
  BY DEF IInv, RemovalOK
<1>3. CASE Untouched /\ (action' = "open" => action = "open" \/ (~is_open /\ ~is_removed))
  <2>1. /\ UNCHANGED <<is_open, is_removed, removed_signals>>
        /\ UNCHANGED <<enumeration, watching, removing>>
        /\ "removed" \in waiting => "removed" \in waiting'
    BY <1>3 DEF ContextInv, DeviceStep, Reaction, Untouched
  <2> QED
    BY <1>1, <1>2, <1>3, <2>1 DEF ContextInv
<1>4. CASE ReturnInIdle
  <2>1. action' = "none" /\ UNCHANGED <<is_removed, removed_signals, enumeration>>
    BY <1>4 DEF ReturnInIdle, DeviceStep
  <2>2. is_open \in BOOLEAN /\ is_open' \in BOOLEAN
    BY <1>4 DEF ReturnInIdle, IInv, DeviceTypeOK, LifeTypeOK
  <2>3. (watching' \in BOOLEAN) /\ (watching' <=> watching)
    BY <2>1 DEF ContextInv, DeviceStep, Reaction
  <2>4. removing' = IF watching /\ is_open' # is_open THEN removing + 1 ELSE removing
    BY <2>1 DEF DeviceStep, Reaction
  <2>5. CASE removed_signals = 0
    BY <2>1, <2>3, <2>4, <2>5 DEF ContextInv
  <2>6. CASE removed_signals = 1 /\ is_open' = is_open
    BY <1>4, <2>1, <2>2, <2>3, <2>4, <2>6 DEF ContextInv
  <2>7. CASE removed_signals = 1 /\ is_open' # is_open
    <3>1. action # "open"
      BY <1>2, <2>7 DEF IInv, RemovalOK, ContextInv
    <3>2. is_open /\ ~is_open'
      BY <1>4, <2>2, <2>7, <3>1 DEF ReturnInIdle
    <3>3. enumeration = "listed"
      BY <1>2, <2>7, <3>2 DEF ContextInv
    <3>4. removing' = 1
      BY <2>4, <2>7, <3>2 DEF ContextInv
    <3> QED
      BY <2>1, <2>2, <2>3, <2>7, <3>2, <3>3, <3>4 DEF ContextInv
  <2> QED
    BY <1>1, <2>5, <2>6, <2>7
<1>5. CASE SignalRemoved
  <2>1. removed_signals = 0 /\ removed_signals' = 1 /\ is_removed
    BY <1>1, <1>5 DEF IInv, RemovalOK, SignalRemoved, Notified
  <2>2. UNCHANGED <<is_open, is_removed, action, enumeration>>
    BY <1>5 DEF SignalRemoved, Notified, DeviceStep
  <2>3. /\ watching = FALSE /\ removing = 0 /\ enumeration = "listed" /\ action # "open"
        /\ is_open \in BOOLEAN
    BY <1>5, <2>1 DEF IInv, DeviceTypeOK, LifeTypeOK, RemovalOK, ContextInv, SignalRemoved,
      Notified
  <2>4. watching' = is_open /\ removing' = IF is_open THEN 0 ELSE 1
    BY <2>1, <2>2, <2>3 DEF DeviceStep, Reaction
  <2> QED
    BY <2>1, <2>2, <2>3, <2>4 DEF ContextInv
<1> QED
  BY <1>3, <1>4, <1>5, DeviceStepEffect DEF DeviceStep

LEMMA UnplugOK ==
  ASSUME IInv, ContextInv, Unplug
  PROVE  ContextInv'
<1>1. CASE enumeration = "listed"
  <2>1. /\ is_removed = FALSE /\ removed_signals = 0
        /\ removed_signals' = (IF action = "none" THEN 1 ELSE 0)
    BY <1>1 DEF IInv, DeviceTypeOK, LifeTypeOK, RemovalOK, Unplug, Remove
  <2>2. /\ is_removed' = TRUE /\ UNCHANGED <<is_open, action, enumeration>>
        /\ action # "none" => "removed" \in waiting'
    BY <1>1 DEF Unplug, Remove
  <2>3. watching = FALSE /\ removing = 0
    BY <2>1 DEF ContextInv
  <2>4. CASE action = "none"
    <3>1. is_open \in BOOLEAN
      BY DEF IInv, DeviceTypeOK, LifeTypeOK
    <3>2. /\ removed_signals' = 1 /\ watching' = is_open
          /\ removing' = IF is_open THEN 0 ELSE 1
      BY <1>1, <2>1, <2>2, <2>3, <2>4, <3>1 DEF Unplug, Reaction
    <3>3. removing' \in 0 .. 1
      BY <3>2
    <3>4. enumeration' = "listed" /\ action' # "open" /\ removed_signals' # 0
      BY <1>1, <2>2, <2>4, <3>2
    <3>5. IF is_open' THEN watching' /\ removing' = 0 ELSE removing' = 1
      BY <2>2, <3>2
    <3> QED
      BY <3>2, <3>1, <3>3, <3>4, <3>5, <2>2, Zenon DEF ContextInv
  <2>5. CASE action # "none"
    <3>1. removed_signals' = 0 /\ watching' = FALSE /\ removing' = 0
      BY <1>1, <2>1, <2>2, <2>3, <2>5 DEF Unplug, Reaction
    <3>2. removing' \in 0 .. 1 /\ removed_signals' # 1
      BY <3>1
    <3>3. enumeration' = "listed" /\ (action' = "open" => ~is_open')
      BY <1>1, <2>2 DEF ContextInv
    <3> QED
      BY <2>2, <2>5, <3>1, <3>2, <3>3, Zenon DEF ContextInv
  <2> QED
    BY <2>4, <2>5
<1>2. CASE enumeration # "listed"
  BY <1>2 DEF ContextInv, Unplug, deviceVars
<1> QED
  BY <1>1, <1>2

LEMMA ContextStepOK ==
  ASSUME IInv, ContextInv, [ContextNext]_contextVars
  PROVE  ContextInv'
<1>1. CASE DeviceStep
  BY <1>1, DeviceStepOK
<1>2. CASE Unplug
  BY <1>2, UnplugOK
<1>3. CASE InitDone
  <2>1. removed_signals \in 0 .. 1 /\ ~is_removed
    BY <1>3 DEF IInv, DeviceTypeOK, LifeTypeOK, ContextInv, InitDone
  <2>2. removed_signals = 0
    BY <2>1 DEF IInv, RemovalOK
  <2> QED
    BY <1>3, <2>1, <2>2 DEF ContextInv, InitDone, deviceVars
<1>4. CASE RemoveInIdle
  <2>1. removing = 1 /\ removing' = 0 /\ enumeration' = "gone" /\ watching' = watching
    BY <1>4 DEF ContextInv, RemoveInIdle
  <2>2. UNCHANGED <<is_open, is_removed, removed_signals, action, waiting>>
    BY <1>4 DEF RemoveInIdle, deviceVars
  <2>3. removed_signals = 1
    BY <2>1 DEF IInv, DeviceTypeOK, LifeTypeOK, ContextInv
  <2>4. ~is_open
    BY <2>1, <2>3 DEF ContextInv
  <2> QED
    BY <2>1, <2>2, <2>3, <2>4 DEF ContextInv
<1>5. CASE UNCHANGED contextVars
  BY <1>5 DEF ContextInv, contextVars, deviceVars
<1> QED
  BY <1>1, <1>2, <1>3, <1>4, <1>5 DEF ContextNext

LEMMA ContextInvariant == NoClearStorage /\ ContextSpec => [](IInv /\ ContextInv)
<1>1. IInv /\ ContextInv /\ [ContextNext]_contextVars => (IInv /\ ContextInv)'
  BY StepInv, ContextRefines, ContextStepOK
<1> QED
  BY <1>1, ContextInitOK, PTL DEF ContextSpec

-----------------------------------------------------------------------------
(* The device of the context is a device as FpDevice describes it: all that *)
(* is proved of DeviceSpec holds of it.                                     *)
THEOREM ContextImplementsDevice == ContextSpec => DeviceSpec
<1>1. ContextInit => DeviceInit
  BY DEF ContextInit
<1> QED
  BY <1>1, ContextRefines, PTL DEF ContextSpec, DeviceSpec

(* device_removed_cb, device_remove_on_notify_open_cb and                   *)
(* remove_device_idle_cb take the device from the list once, when it is     *)
(* closed and its removal was signalled.                                    *)
THEOREM RemovedIsGone == NoClearStorage /\ ContextSpec => []RemovedWhenClosed
<1>1. ContextInv /\ RemovalKept => RemovedWhenClosed
  BY DEF ContextInv, RemovedWhenClosed
<1> QED
  BY <1>1, ContextInvariant, ContextImplementsDevice, RemovalIsKept, PTL

(* What is proved of the device above is true of the device of a context.   *)
THEOREM ContextProperties ==
  NoClearStorage /\ ContextSpec =>
    /\ [](DeviceTypeOK /\ AssertionsHold /\ NothingForgotten /\ SuspendedAtRest
           /\ TemperatureWatched)
    /\ DriverUndisturbed /\ KeepsTask
BY ContextImplementsDevice, DeviceTypeCorrect, AssertionsAlwaysHold, NothingIsForgotten,
   SuspendedIsAtRest, TemperatureIsWatched, DriverIsUndisturbed, DeviceKeepsTask, PTL
=============================================================================
