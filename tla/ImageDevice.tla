----------------------------- MODULE ImageDevice -----------------------------
(***************************************************************************)
(* The image device of libfprint (fpi-image-device.c, fp-image-device.c)   *)
(* over the part of FpDevice it uses (fp-device.c, fpi-device.c): one      *)
(* action at a time, its cancellation, and its completion in an idle       *)
(* callback.                                                               *)
(*                                                                         *)
(* The image device and its driver call each other synchronously.  Every   *)
(* such call is the last thing its caller does, so a call is made in two   *)
(* steps: `call' names a call that was made and has not run yet, and the   *)
(* main loop dispatches nothing until it has.  This keeps each change of   *)
(* `state' a step of its own.                                              *)
(*                                                                         *)
(* The driver is here any driver that keeps the contract of the API: see   *)
(* DriverNext.  Goodix55x4 puts the real one in its place.                 *)
(***************************************************************************)
EXTENDS Naturals

CONSTANTS
  Actions,     \* the capture actions the application may start
  NrStages,    \* nr_enroll_stages
  Faults       \* what may fail in the driver: "open", "close", "activate",
               \* "session", "deactivate"

CaptureActions == {"enroll", "verify", "identify", "capture"}

ASSUME ActionsAssumption == Actions \subseteq CaptureActions
ASSUME NrStagesAssumption == NrStages \in Nat \ {0}

VARIABLES
  is_open,         \* FpDevice: the device is open
  action,          \* FpDevice: current_action
  cancelled,       \* FpDevice: current_cancellable was cancelled
  cancel_idle,     \* FpDevice: current_idle_cancel_source is attached
  returned,        \* FpDevice: the result waiting in the idle return source
  reported,        \* FpDevice: the result the driver reported early, if any
  state, active, finger_present, enroll_stage, action_error,
  minutiae,        \* minutiae_scan_active
  call             \* the synchronous call in progress, or "none"

device == <<is_open, action, cancelled, cancel_idle, returned>>
image == <<state, active, finger_present, minutiae, enroll_stage, action_error>>
imageVars == <<is_open, action, cancelled, cancel_idle, returned, reported,
               state, active, finger_present, enroll_stage, action_error,
               minutiae, call>>

States == {"INACTIVE", "ACTIVATING", "DEACTIVATING", "IDLE",
           "AWAIT_FINGER_ON", "CAPTURE", "AWAIT_FINGER_OFF"}

Results == {"ok", "error", "retry", "cancelled"}

(* The virtual functions of the driver, and the second halves of           *)
(* fpi_image_device_activate_complete and _report_finger_status.           *)
VFuncs == {"img_open", "img_close", "activate", "deactivate", "change_state"}
Calls == VFuncs \cup {"none", "finger_on", "finger_off"}

ImageTypeOK ==
  /\ {is_open, cancelled, cancel_idle, active, finger_present, minutiae}
       \subseteq BOOLEAN
  /\ action \in CaptureActions \cup {"none", "open", "close"}
  /\ returned \in Results \cup {"none"}
  /\ reported \in {"no", "match", "retry"}
  /\ state \in States
  /\ enroll_stage \in 0 .. NrStages
  /\ action_error \in (Results \ {"ok"}) \cup {"none"}
  /\ call \in Calls

ImageInit ==
  /\ is_open = FALSE /\ action = "none" /\ returned = "none"
  /\ cancelled = FALSE /\ cancel_idle = FALSE /\ reported = "no"
  /\ state = "INACTIVE" /\ active = FALSE /\ finger_present = FALSE
  /\ minutiae = FALSE /\ enroll_stage = 0 /\ action_error = "none"
  /\ call = "none"

MainLoop == call = "none"
Capturing == action \in CaptureActions

-----------------------------------------------------------------------------
(* FpDevice: start, cancel, return.                                         *)

(* fp_device_open, fp_device_close                                          *)
StartOpenClose ==
  /\ MainLoop /\ action = "none"
  /\ \/ ~is_open /\ action' = "open" /\ call' = "img_open"
     \/ is_open /\ action' = "close" /\ call' = "img_close"
  /\ cancelled' = FALSE
  /\ UNCHANGED <<is_open, cancel_idle, returned, reported, image>>

(* fp_device_enroll and its kin, and fp_image_device_start_capture_action.  *)
Start ==
  /\ MainLoop /\ is_open /\ action = "none"
  /\ action' \in Actions
  /\ cancelled' = FALSE
  /\ reported' = "no"
  /\ enroll_stage' = 0
  /\ state' = "ACTIVATING"
  /\ call' = "activate"
  /\ UNCHANGED <<is_open, cancel_idle, returned, active, finger_present,
                 minutiae, action_error>>

(* A capture without waiting for a finger is refused at once.               *)
StartRawCapture ==
  /\ MainLoop /\ is_open /\ action = "none"
  /\ "capture" \in Actions
  /\ action' = "capture" /\ returned' = "error"
  /\ cancelled' = FALSE /\ reported' = "no"
  /\ UNCHANGED <<is_open, cancel_idle, image, call>>

(* Mutation: an action that has completed is cancelled, too.                *)
RequestCancelCompleted ==
  /\ Capturing /\ ~cancelled
  /\ cancelled' = TRUE /\ cancel_idle' = TRUE
  /\ UNCHANGED <<is_open, action, returned, reported, image, call>>

(* The application cancels the action, from any context.                    *)
RequestCancel ==
  /\ Capturing /\ returned = "none" /\ ~cancelled
  /\ cancelled' = TRUE /\ cancel_idle' = TRUE
  /\ UNCHANGED <<is_open, action, returned, reported, image, call>>

(* fp_device_task_return_in_idle_cb                                         *)
ReturnInIdle ==
  /\ MainLoop /\ returned # "none"
  /\ is_open' = CASE action = "open" -> (is_open \/ returned = "ok")
                  [] action = "close" -> FALSE
                  [] OTHER -> is_open
  /\ action' = "none" /\ returned' = "none" /\ cancelled' = FALSE
  /\ UNCHANGED <<cancel_idle, reported, image, call>>

(* Mutation: a success is returned without the result it should report.     *)
ResultOfUnreported(error, rep) == IF error = "none" THEN "ok" ELSE error

(* The fpi_device_*_complete functions: the result of the action, given the *)
(* error the image device ends it with.                                     *)
ResultOf(error, rep) ==
  LET reports == action \in {"verify", "identify"}
  IN  IF error # "none"
      THEN IF reports /\ error = "retry" THEN "error" ELSE error
      ELSE IF ~reports THEN "ok"
      ELSE CASE rep = "no"    -> "error"
             [] rep = "retry" -> "retry"
             [] rep = "match" -> "ok"

ReturnTask(result) == returned' = result /\ cancel_idle' = FALSE

-----------------------------------------------------------------------------
(* Static helpers of fpi-image-device.c.                                    *)

(* Mutation: the action completes before the extraction of minutiae ends.   *)
MaybeCompleteEarly(error, act, scanning, rep) ==
  IF act
  THEN action_error' = error /\ UNCHANGED <<returned, cancel_idle>>
  ELSE action_error' = "none" /\ ReturnTask(ResultOf(error, rep))

(* Mutation: a cancellation without another error is not seen.              *)
MaybeCompleteUncancelled(error, act, scanning, rep) ==
  LET first == IF error # "none" /\ action_error \in {"none", "retry"}
               THEN error ELSE action_error
  IN  IF act \/ scanning
      THEN action_error' = first /\ UNCHANGED <<returned, cancel_idle>>
      ELSE action_error' = "none" /\ ReturnTask(ResultOf(first, rep))

(* fp_image_device_maybe_complete_action, given the values of active, of    *)
(* minutiae and of reported after the step.                                 *)
MaybeComplete(error, act, scanning, rep) ==
  LET first == IF error # "none" /\ action_error \in {"none", "retry"}
               THEN error ELSE action_error
      final == IF first = "none" /\ cancelled THEN "cancelled" ELSE first
  IN  IF act \/ scanning
      THEN action_error' = first /\ UNCHANGED <<returned, cancel_idle>>
      ELSE action_error' = "none" /\ ReturnTask(ResultOf(final, rep))

(* Mutation: an inactive device is deactivated too.                         *)
DeactivateAlways == state' = "DEACTIVATING" /\ call' = "deactivate"

(* fpi_image_device_deactivate: ignored unless the device is active.        *)
Deactivate ==
  IF active /\ state # "DEACTIVATING"
  THEN state' = "DEACTIVATING" /\ call' = "deactivate"
  ELSE UNCHANGED state /\ call' = "none"

(* Mutation: the extraction is not waited for.                              *)
MaybeAwaitIgnoresScan(scanning, present) ==
  IF present
  THEN UNCHANGED state /\ call' = "none"
  ELSE state' = "AWAIT_FINGER_ON" /\ call' = "change_state"

(* fp_image_device_enroll_maybe_await_finger_on                             *)
MaybeAwaitFingerOn(scanning, present) ==
  IF scanning \/ present
  THEN UNCHANGED state /\ call' = "none"
  ELSE state' = "AWAIT_FINGER_ON" /\ call' = "change_state"

-----------------------------------------------------------------------------
(* fp_image_device_cancel_action, from fp_device_cancel_in_idle_cb.         *)
CancelInIdle ==
  /\ MainLoop /\ cancel_idle
  /\ cancel_idle' = FALSE
  /\ Deactivate
  /\ UNCHANGED <<is_open, action, cancelled, returned, reported, active,
                 finger_present, minutiae, enroll_stage, action_error>>

(* fpi_image_device_minutiae_detected.  The extraction ends with "ok", with *)
(* "retry" (no minutiae found), with "fail" (the print cannot be built) or  *)
(* with "nomatch" (the matcher fails); if the action was cancelled meanwhile*)
(* its result is the cancellation.                                          *)
Extracted(result, error, rep, stage) ==
  /\ MainLoop /\ minutiae
  /\ minutiae' = FALSE
  /\ reported' = rep
  /\ enroll_stage' = stage
  /\ MaybeComplete(error, active, FALSE, rep)
  /\ UNCHANGED <<is_open, action, cancelled, active, finger_present>>

ExtractionAborts ==
  \/ /\ cancelled
     /\ Extracted("cancelled", "cancelled", reported, enroll_stage)
     /\ Deactivate
  \/ /\ ~cancelled /\ action # "capture"
     /\ Extracted("fail", "error", reported, enroll_stage)
     /\ Deactivate

CaptureExtracted ==
  /\ ~cancelled /\ action = "capture"
  /\ \/ Extracted("ok", "none", reported, enroll_stage)
     \/ Extracted("retry", "retry", reported, enroll_stage)
  /\ UNCHANGED <<state, call>>

MatchExtracted ==
  /\ ~cancelled /\ action \in {"verify", "identify"}
  /\ \/ Extracted("ok", "none", "match", enroll_stage)
     \/ Extracted("retry", "none", "retry", enroll_stage)
     \/ Extracted("nomatch", "error", reported, enroll_stage)
  /\ UNCHANGED <<state, call>>

(* Mutation: the last stage is counted one early.                           *)
LastStageEarly ==
  /\ ~cancelled /\ action = "enroll" /\ enroll_stage + 2 = NrStages
  /\ Extracted("ok", "none", reported, enroll_stage + 1)
  /\ Deactivate

(* The last stage of an enrollment ends the session; any other waits for    *)
(* the finger to be lifted, or starts the next scan if it was.              *)
LastStageExtracted ==
  /\ ~cancelled /\ action = "enroll" /\ enroll_stage + 1 = NrStages
  /\ Extracted("ok", "none", reported, NrStages)
  /\ Deactivate

StageExtracted ==
  /\ ~cancelled /\ action = "enroll"
  /\ MainLoop /\ minutiae
  /\ minutiae' = FALSE
  /\ \/ enroll_stage + 1 < NrStages /\ enroll_stage' = enroll_stage + 1
     \/ UNCHANGED enroll_stage
  /\ MaybeAwaitFingerOn(FALSE, finger_present)
  /\ UNCHANGED <<device, reported, active, finger_present, action_error>>

MinutiaeDetected ==
  \/ ExtractionAborts \/ CaptureExtracted \/ MatchExtracted
  \/ LastStageExtracted \/ StageExtracted

-----------------------------------------------------------------------------
(* The API of the driver, as the driver may call it: `mine' is the virtual  *)
(* function that calls it, or "none" for a call from the main loop.         *)

(* fpi_image_device_open_complete, fpi_image_device_close_complete          *)
OpenComplete(error) ==
  /\ action = "open" /\ ~active
  /\ state' = "INACTIVE"
  /\ ReturnTask(ResultOf(error, reported))
  /\ call' = "none"
  /\ UNCHANGED <<is_open, action, cancelled, reported, active, finger_present,
                 minutiae, enroll_stage, action_error>>

CloseComplete(error) ==
  /\ action = "close" /\ ~active
  /\ state' = "INACTIVE"
  /\ ReturnTask(ResultOf(error, reported))
  /\ call' = "none"
  /\ UNCHANGED <<is_open, action, cancelled, reported, active, finger_present,
                 minutiae, enroll_stage, action_error>>

(* fpi_image_device_activate_complete: a failure ends the action and leaves *)
(* the state as it is; the success goes on in FingerOnWanted.               *)
ActivateComplete(error) ==
  /\ Capturing /\ ~active /\ state = "ACTIVATING"
  /\ \/ /\ error # "none"
        /\ ReturnTask(ResultOf(error, reported))
        /\ call' = "none"
        /\ UNCHANGED <<active, state>>
     \/ /\ error = "none"
        /\ active' = TRUE
        /\ state' = "IDLE"
        /\ call' = "finger_on"
        /\ UNCHANGED <<returned, cancel_idle>>
  /\ UNCHANGED <<is_open, action, cancelled, reported, finger_present,
                 minutiae, enroll_stage, action_error>>

FingerOnWanted ==
  /\ call = "finger_on"
  /\ state' = "AWAIT_FINGER_ON"
  /\ call' = "change_state"
  /\ UNCHANGED <<device, reported, active, finger_present, minutiae,
                 enroll_stage, action_error>>

(* fpi_image_device_deactivate_complete                                     *)
DeactivateComplete(error) ==
  /\ active /\ state = "DEACTIVATING"
  /\ active' = FALSE /\ finger_present' = FALSE
  /\ state' = "INACTIVE"
  /\ MaybeComplete(error, FALSE, minutiae, reported)
  /\ call' = "none"
  /\ UNCHANGED <<is_open, action, cancelled, reported, minutiae, enroll_stage>>

(* fpi_image_device_report_finger_status: ignored while inactive; a lifted  *)
(* finger goes on in FingerLifted.                                          *)
ReportFinger(present) ==
  /\ state # "INACTIVE"
  /\ finger_present' = present
  /\ \/ /\ present /\ state = "AWAIT_FINGER_ON"
        /\ state' = "CAPTURE" /\ call' = "none"
     \/ /\ ~present /\ state = "AWAIT_FINGER_OFF"
        /\ state' = "IDLE" /\ call' = "finger_off"
     \/ /\ state # IF present THEN "AWAIT_FINGER_ON" ELSE "AWAIT_FINGER_OFF"
        /\ UNCHANGED state /\ call' = "none"
  /\ UNCHANGED <<device, reported, active, minutiae, enroll_stage, action_error>>

FingerLifted ==
  /\ call = "finger_off"
  /\ IF action = "enroll" THEN MaybeAwaitFingerOn(minutiae, finger_present)
                          ELSE Deactivate
  /\ UNCHANGED <<device, reported, active, finger_present, minutiae,
                 enroll_stage, action_error>>

(* fpi_image_device_image_captured: dropped unless an image is awaited.     *)
ImageCaptured ==
  /\ Capturing /\ state = "CAPTURE"
  /\ minutiae' = TRUE
  /\ state' = "AWAIT_FINGER_OFF"
  /\ call' = "none"
  /\ UNCHANGED <<device, reported, active, finger_present, enroll_stage,
                 action_error>>

(* fpi_image_device_retry_scan                                              *)
RetryScan ==
  /\ Capturing /\ state # "INACTIVE"
  /\ \/ /\ action = "enroll"
        /\ state' = "AWAIT_FINGER_OFF" /\ call' = "none"
        /\ UNCHANGED <<returned, cancel_idle, reported, action_error>>
     \/ /\ action # "enroll"
        /\ reported' = IF action = "capture" THEN reported ELSE "retry"
        /\ MaybeComplete(IF action = "capture" THEN "retry" ELSE "none",
                         active, minutiae, reported')
        /\ Deactivate
  /\ UNCHANGED <<is_open, action, cancelled, active, finger_present, minutiae,
                 enroll_stage>>

(* fpi_image_device_session_error, of a driver that is active.              *)
SessionError(error) ==
  /\ active
  /\ MaybeComplete(error, active, minutiae, reported)
  /\ Deactivate
  /\ UNCHANGED <<is_open, action, cancelled, reported, active, finger_present,
                 minutiae, enroll_stage>>

-----------------------------------------------------------------------------
(* Any driver: it answers each call it owes an answer, at once or later,    *)
(* and reports fingers, images and errors while it is active.               *)
Error(kind) == {"none"} \cup (IF kind \in Faults THEN {"error"} ELSE {})

Answers(vfunc) == call \in {"none", vfunc}

DriverOpens == call = "img_open" /\ \E e \in Error("open") : OpenComplete(e)

DriverCloses == call = "img_close" /\ \E e \in Error("close") : CloseComplete(e)

(* A virtual function that only starts something, or does nothing.          *)
DriverReturns ==
  /\ call \in {"activate", "deactivate", "change_state"}
  /\ call' = "none"
  /\ UNCHANGED <<device, reported, image>>

DriverActivated ==
  /\ Answers("activate") /\ returned = "none"
  /\ \E e \in Error("activate") : ActivateComplete(e)

DriverDeactivated ==
  /\ Answers("deactivate")
  /\ \E e \in Error("deactivate") : DeactivateComplete(e)

(* In an enrollment, a finger is reported lifted only after its image.       *)
DriverReports ==
  /\ MainLoop /\ active
  /\ \/ ReportFinger(TRUE)
     \/ (action # "enroll" \/ state # "CAPTURE") /\ ReportFinger(FALSE)
     \/ ImageCaptured
     \/ state = "CAPTURE" /\ RetryScan

(* In an enrollment, a session fails only between two extractions.           *)
DriverFails ==
  /\ "session" \in Faults
  /\ Answers("change_state") /\ active /\ state # "DEACTIVATING"
  /\ action # "enroll" \/ ~minutiae
  /\ SessionError("error")

DriverNext ==
  \/ DriverOpens \/ DriverCloses \/ DriverReturns
  \/ DriverActivated \/ DriverDeactivated \/ DriverReports \/ DriverFails

LibraryNext ==
  \/ StartOpenClose \/ Start \/ StartRawCapture \/ RequestCancel
  \/ ReturnInIdle \/ CancelInIdle \/ MinutiaeDetected
  \/ FingerOnWanted \/ FingerLifted

ImageNext == LibraryNext \/ DriverNext

ImageSpec == ImageInit /\ [][ImageNext]_imageVars

-----------------------------------------------------------------------------
(* Properties.                                                              *)

ValidTransitions ==
  {<<"INACTIVE", "ACTIVATING">>,
   <<"ACTIVATING", "IDLE">>, <<"ACTIVATING", "INACTIVE">>,
   <<"IDLE", "AWAIT_FINGER_ON">>, <<"IDLE", "CAPTURE">>,
   <<"IDLE", "DEACTIVATING">>,
   <<"AWAIT_FINGER_ON", "CAPTURE">>, <<"AWAIT_FINGER_ON", "DEACTIVATING">>,
   <<"CAPTURE", "AWAIT_FINGER_OFF">>, <<"CAPTURE", "IDLE">>,
   <<"CAPTURE", "DEACTIVATING">>,
   <<"AWAIT_FINGER_OFF", "IDLE">>, <<"AWAIT_FINGER_OFF", "DEACTIVATING">>,
   <<"DEACTIVATING", "INACTIVE">>}

(* The steps that call fp_image_device_change_state: those that change the  *)
(* state, and those that leave it as it is and go on with a call that only  *)
(* follows a change.  An open and a close set the state themselves.         *)
ChangesState ==
  /\ action \notin {"open", "close"}
  /\ \/ state' # state
     \/ call' # call /\ call' \notin {"none", "img_open", "img_close"}

(* A failed activation leaves the device ACTIVATING, and the next action    *)
(* activates it again, from there.                                          *)
Reactivates ==
  action = "none" /\ call' = "activate" /\ state = "ACTIVATING" /\ state' = "ACTIVATING"

(* The internal state machine follows its table, also where a change is to  *)
(* the same state: the warning of fp_image_device_change_state, "should not *)
(* happen!", is given in one case only, for the first action after a failed *)
(* activation.                                                              *)
ValidChange ==
  ChangesState => <<state, state'>> \in ValidTransitions \/ Reactivates
StateMachine == [][ValidChange]_imageVars

(* Between actions nothing of the last one is left: the assertions of       *)
(* fp_image_device_start_capture_action, fpi_image_device_activate and      *)
(* fp_image_device_close hold whenever an action may start or returns, no   *)
(* minutiae are being extracted for it and no cancellation waits to be      *)
(* dispatched to the next one.                                              *)
NothingLeft ==
  (action = "none" \/ returned # "none") =>
    /\ ~active /\ ~finger_present /\ ~minutiae /\ ~cancel_idle
    /\ action_error = "none" /\ call = "none"

(* An action completes once: its result never changes while it waits to be  *)
(* returned.                                                                *)
CompletesOnce ==
  [][returned # "none" => returned' \in {returned, "none"}]_returned

(* No image is requested while the last one is still being processed, the   *)
(* race fpi_image_device_minutiae_detected warns of.                        *)
OneImageAtATime ==
  state \in {"ACTIVATING", "AWAIT_FINGER_ON", "CAPTURE"} => ~minutiae

(* A verification or identification that completes reported a result, and   *)
(* the result it reported is the one it returns.                            *)
ReportedFirst ==
  action \in {"verify", "identify"} =>
    /\ returned = "ok" => reported = "match"
    /\ returned = "retry" => reported = "retry"
    /\ minutiae => reported = "no"

(* A successful enrollment has all its stages.                              *)
EnrollsAllStages ==
  action = "enroll" /\ returned = "ok" => enroll_stage = NrStages

(* A cancelled action never returns success, however its result and the     *)
(* cancellation cross: also when the cancellation comes after the match was  *)
(* reported, or is dispatched when the device is already deactivating.      *)
CancelledEnds ==
  [][cancelled /\ returned = "none" => returned' # "ok"]_returned

(* The image device keeps the promises that FpDevice makes of its tasks,    *)
(* though it decides itself when an action completes, is completed from the *)
(* extraction of minutiae or from the driver, and cancels by deactivating:  *)
(* the driver is told no more than once.                                    *)
Task == INSTANCE DeviceTask WITH
  Operations <- Actions, open <- is_open, running <- action,
  result <- CASE returned = "none" -> "no" [] returned = "ok" -> "value"
              [] OTHER -> "error",
  told <- cancelled /\ ~cancel_idle /\ returned = "none"
KeepsTask == Task!TaskSpec
=============================================================================
