------------------------- MODULE ImageDevice_proofs -------------------------
(***************************************************************************)
(* Proofs about the image device, for every set of capture actions, every  *)
(* number of enrollment stages and every set of faults of the driver.      *)
(*                                                                         *)
(* The inductive invariant says, state by state, which of the flags may be *)
(* set: `state' alone does not tell whether an extraction is running, a    *)
(* finger is reported or a call is on its way.                             *)
(***************************************************************************)
EXTENDS ImageDevice, TLAPS

MayReport == action \in {"verify", "identify"}

(* Nothing is left of an action that has not started or has ended.          *)
AtRest ==
  /\ ~active /\ ~finger_present /\ ~minutiae /\ ~cancel_idle
  /\ action_error = "none"
  /\ state \in {"INACTIVE", "ACTIVATING"}

RestOK ==
  /\ ~Capturing => AtRest /\ ~cancelled
  /\ action = "none" => returned = "none" /\ call = "none"
  /\ returned # "none" => AtRest /\ call = "none"
  /\ action = "open" => ~is_open /\ call \in {"none", "img_open"}
  /\ action = "close" => call \in {"none", "img_close"}

Running == Capturing /\ returned = "none"

ActivatingOK ==
  Running /\ state = "ACTIVATING" =>
    /\ ~active /\ ~finger_present /\ ~minutiae /\ action_error = "none"
    /\ call \in {"none", "activate"}

InactiveOK ==
  Running /\ state = "INACTIVE" =>
    ~active /\ ~finger_present /\ minutiae /\ call = "none"

ActiveOK ==
  Running /\ state \notin {"ACTIVATING", "INACTIVE"} => active

CallOK ==
  /\ call \in {"finger_on", "finger_off"} => state = "IDLE" /\ ~finger_present
  /\ call = "finger_on" => ~minutiae
  /\ call = "change_state" => state = "AWAIT_FINGER_ON"
  /\ call = "activate" => state = "ACTIVATING"
  /\ call = "deactivate" => state = "DEACTIVATING"
  /\ call \in {"img_open", "img_close"} => ~Capturing
  /\ state = "IDLE" /\ action # "enroll" => call \in {"finger_on", "finger_off"}

FingerOK ==
  /\ state = "AWAIT_FINGER_ON" => ~finger_present
  /\ action = "enroll" /\ state \in {"CAPTURE", "AWAIT_FINGER_OFF"}
       => finger_present

(* What an action has reported, while it runs.                              *)
ReportOK ==
  /\ MayReport /\ Running /\ reported # "no" =>
       /\ ~minutiae
       /\ \/ state \in {"AWAIT_FINGER_OFF", "DEACTIVATING"}
          \/ state = "IDLE" /\ call = "finger_off"

(* An enrollment deactivates with all its stages, an error or cancelled.    *)
EnrollOK ==
  action = "enroll" /\ Running /\ state \in {"DEACTIVATING", "INACTIVE"} =>
    /\ minutiae => cancelled
    /\ cancelled \/ action_error # "none" \/ enroll_stage = NrStages

IInv ==
  /\ ImageTypeOK
  /\ cancel_idle => cancelled
  /\ RestOK /\ ActivatingOK /\ InactiveOK /\ ActiveOK /\ CallOK /\ FingerOK
  /\ OneImageAtATime /\ ReportOK /\ ReportedFirst
  /\ EnrollOK /\ EnrollsAllStages

-----------------------------------------------------------------------------
(* Each action, and each function the driver calls, preserves the invariant. *)
(* The lemmas about those functions do not depend on who calls them, so that *)
(* they serve any driver.                                                    *)
USE DEF IInv, ImageTypeOK, RestOK, AtRest, Running, Capturing, CaptureActions,
        ActivatingOK, InactiveOK, ActiveOK, CallOK, FingerOK, OneImageAtATime,
        ReportOK, MayReport, ReportedFirst, EnrollOK, EnrollsAllStages,
        States, Results, Calls, VFuncs

LEMMA Stages == NrStages \in Nat /\ 0 \in 0 .. NrStages /\ NrStages \in 0 .. NrStages
BY NrStagesAssumption

LEMMA StartOpenCloseOK == ASSUME IInv, StartOpenClose PROVE IInv'
BY DEF StartOpenClose, image, MainLoop

LEMMA StartOK == ASSUME IInv, Start PROVE IInv'
<1>1. action' \in CaptureActions
  BY ActionsAssumption DEF Start
<1>2. /\ state' = "ACTIVATING" /\ call' = "activate" /\ enroll_stage' \in 0 .. NrStages
      /\ returned' = "none" /\ reported' = "no" /\ cancelled' = FALSE
      /\ ~active' /\ ~finger_present' /\ minutiae' = FALSE /\ ~cancel_idle'
      /\ action_error' = "none"
      /\ UNCHANGED <<is_open, cancel_idle, active, finger_present, minutiae>>
  BY Stages DEF Start
<1>3. ImageTypeOK'
  BY <1>1, <1>2
<1> QED
  BY <1>1, <1>2, <1>3

LEMMA StartRawCaptureOK == ASSUME IInv, StartRawCapture PROVE IInv'
BY DEF StartRawCapture, image, MainLoop

LEMMA RequestCancelOK == ASSUME IInv, RequestCancel PROVE IInv'
BY DEF RequestCancel, image

LEMMA ReturnInIdleOK == ASSUME IInv, ReturnInIdle PROVE IInv'
BY DEF ReturnInIdle, image, MainLoop

LEMMA CancelInIdleOK == ASSUME IInv, CancelInIdle PROVE IInv'
BY DEF CancelInIdle, Deactivate, MainLoop

(* What maybe_complete_action does to an action that runs: it goes on, or   *)
(* returns without an error left.                                           *)
LEMMA MaybeCompleteOK ==
  ASSUME IInv, Running,
         NEW error \in (Results \ {"ok"}) \cup {"none"}, NEW act \in BOOLEAN,
         NEW scanning \in BOOLEAN, NEW rep \in {"no", "match", "retry"},
         MaybeComplete(error, act, scanning, rep)
  PROVE  \/ /\ act \/ scanning
            /\ action_error' \in (Results \ {"ok"}) \cup {"none"}
            /\ error # "none" \/ action_error # "none" => action_error' # "none"
            /\ returned' = "none" /\ cancel_idle' = cancel_idle
         \/ /\ ~act /\ ~scanning
            /\ action_error' = "none" /\ cancel_idle' = FALSE
            /\ returned' \in Results
            /\ error # "none" \/ action_error # "none" \/ cancelled => returned' # "ok"
            /\ MayReport /\ returned' = "ok" => rep = "match"
            /\ MayReport /\ returned' = "retry" => rep = "retry"
BY DEF MaybeComplete, ReturnTask, ResultOf

LEMMA ExtractionRuns ==
  ASSUME IInv, MainLoop, minutiae
  PROVE  Running /\ state \in {"INACTIVE", "IDLE", "AWAIT_FINGER_OFF", "DEACTIVATING"}
BY DEF MainLoop

LEMMA ExtractionAbortsOK == ASSUME IInv, ExtractionAborts PROVE IInv'
<1>1. /\ MainLoop /\ minutiae /\ minutiae' = FALSE
      /\ UNCHANGED <<is_open, action, cancelled, active, finger_present, reported,
                     enroll_stage>>
      /\ Deactivate
  BY DEF ExtractionAborts, Extracted
<1>2. Running /\ state \in {"INACTIVE", "IDLE", "AWAIT_FINGER_OFF", "DEACTIVATING"}
  BY <1>1, ExtractionRuns
<1>3. PICK error \in {"cancelled", "error"} : MaybeComplete(error, active, FALSE, reported)
  BY DEF ExtractionAborts, Extracted
<1>4. \/ active /\ action_error' \in (Results \ {"ok"}) /\ returned' = "none"
         /\ cancel_idle' = cancel_idle
      \/ ~active /\ action_error' = "none" /\ cancel_idle' = FALSE
         /\ returned' \in Results \ {"ok"}
         /\ (MayReport /\ returned' = "retry" => reported = "retry")
  BY <1>2, <1>3, MaybeCompleteOK
<1>5. \/ active /\ state' = "DEACTIVATING" /\ call' \in {"none", "deactivate"}
      \/ ~active /\ state' = "INACTIVE" /\ call' = "none"
  BY <1>1, <1>2 DEF Deactivate, MainLoop
<1>6. CASE active
  <2>1. /\ state' = "DEACTIVATING" /\ call' \in {"none", "deactivate"}
        /\ returned' = "none" /\ action_error' \in (Results \ {"ok"}) \cup {"none"}
        /\ active' = TRUE /\ cancel_idle' = cancel_idle
    BY <1>1, <1>2, <1>4, <1>5, <1>6 DEF MainLoop
  <2>2. ImageTypeOK'
    BY <1>1, <2>1
  <2>3. RestOK' /\ CallOK' /\ FingerOK'
    BY <1>1, <1>2, <2>1
  <2> QED
    BY <1>1, <1>2, <1>4, <1>5, <1>6, <2>1, <2>2, <2>3
<1>7. CASE ~active
  <2>1. /\ state' = "INACTIVE" /\ call' = "none" /\ returned' \in Results
        /\ action_error' = "none" /\ cancel_idle' = FALSE
        /\ active' = FALSE /\ finger_present' = FALSE
    BY <1>1, <1>2, <1>4, <1>5, <1>7 DEF MainLoop
  <2>2. ImageTypeOK'
    BY <1>1, <2>1
  <2>3. RestOK' /\ CallOK' /\ FingerOK'
    BY <1>1, <1>2, <2>1
  <2> QED
    BY <1>1, <1>2, <1>4, <1>5, <1>7, <2>1, <2>2, <2>3
<1> QED
  BY <1>6, <1>7

LEMMA CaptureExtractedOK == ASSUME IInv, CaptureExtracted PROVE IInv'
<1>1. /\ MainLoop /\ minutiae /\ minutiae' = FALSE /\ action = "capture"
      /\ UNCHANGED <<is_open, action, cancelled, active, finger_present, reported,
                     enroll_stage, state, call>>
  BY DEF CaptureExtracted, Extracted
<1>2. Running /\ state \in {"INACTIVE", "IDLE", "AWAIT_FINGER_OFF", "DEACTIVATING"}
  BY <1>1, ExtractionRuns
<1>3. PICK error \in {"none", "retry"} : MaybeComplete(error, active, FALSE, reported)
  BY DEF CaptureExtracted, Extracted
<1>4. \/ /\ active /\ action_error' \in (Results \ {"ok"}) \cup {"none"}
         /\ returned' = "none" /\ cancel_idle' = cancel_idle
      \/ /\ ~active /\ action_error' = "none" /\ cancel_idle' = FALSE
         /\ returned' \in Results
  BY <1>2, <1>3, MaybeCompleteOK
<1>6. CASE active
  <2>1. /\ state' = state /\ call' = "none"
        /\ returned' = "none" /\ action_error' \in (Results \ {"ok"}) \cup {"none"}
        /\ active' = TRUE /\ cancel_idle' = cancel_idle
    BY <1>1, <1>2, <1>4, <1>6 DEF MainLoop
  <2>2. ImageTypeOK'
    BY <1>1, <2>1
  <2>3. RestOK' /\ CallOK' /\ FingerOK'
    BY <1>1, <1>2, <2>1
  <2> QED
    BY <1>1, <1>2, <1>4, <1>6, <2>1, <2>2, <2>3
<1>7. CASE ~active
  <2>1. /\ state' = "INACTIVE" /\ call' = "none" /\ returned' \in Results
        /\ action_error' = "none" /\ cancel_idle' = FALSE
        /\ active' = FALSE /\ finger_present' = FALSE
    BY <1>1, <1>2, <1>4, <1>7 DEF MainLoop
  <2>2. ImageTypeOK'
    BY <1>1, <2>1
  <2>3. RestOK' /\ CallOK' /\ FingerOK'
    BY <1>1, <1>2, <2>1
  <2> QED
    BY <1>1, <1>2, <1>4, <1>7, <2>1, <2>2, <2>3
<1> QED
  BY <1>6, <1>7

LEMMA MatchExtractedOK == ASSUME IInv, MatchExtracted PROVE IInv'
<1>1. /\ MainLoop /\ minutiae /\ minutiae' = FALSE /\ MayReport
      /\ UNCHANGED <<is_open, action, cancelled, active, finger_present,
                     enroll_stage, state, call>>
  BY DEF MatchExtracted, Extracted
<1>2. Running /\ state \in {"INACTIVE", "IDLE", "AWAIT_FINGER_OFF", "DEACTIVATING"}
  BY <1>1, ExtractionRuns
<1>3. PICK error \in {"none", "error"} :
        /\ MaybeComplete(error, active, FALSE, reported')
        /\ reported' \in {"no", "match", "retry"}
  BY DEF MatchExtracted, Extracted
<1>4. \/ /\ active /\ action_error' \in (Results \ {"ok"}) \cup {"none"}
         /\ returned' = "none" /\ cancel_idle' = cancel_idle
      \/ /\ ~active /\ action_error' = "none" /\ cancel_idle' = FALSE
         /\ returned' \in Results
         /\ returned' = "ok" => reported' = "match"
         /\ returned' = "retry" => reported' = "retry"
  BY <1>1, <1>2, <1>3, MaybeCompleteOK
<1>5. state = "IDLE" => FALSE
  BY <1>1, <1>2 DEF MainLoop
<1>6. CASE active
  <2>1. /\ state' = state /\ call' = "none"
        /\ returned' = "none" /\ action_error' \in (Results \ {"ok"}) \cup {"none"}
        /\ active' = TRUE /\ cancel_idle' = cancel_idle
    BY <1>1, <1>2, <1>3, <1>4, <1>5, <1>6 DEF MainLoop
  <2>2. ImageTypeOK'
    BY <1>1, <1>3, <2>1
  <2>3. RestOK' /\ CallOK' /\ FingerOK'
    BY <1>1, <1>2, <2>1
  <2> QED
    BY <1>1, <1>2, <1>3, <1>4, <1>5, <1>6, <2>1, <2>2, <2>3
<1>7. CASE ~active
  <2>1. /\ state' = "INACTIVE" /\ call' = "none" /\ returned' \in Results
        /\ action_error' = "none" /\ cancel_idle' = FALSE
        /\ active' = FALSE /\ finger_present' = FALSE
    BY <1>1, <1>2, <1>3, <1>4, <1>5, <1>7 DEF MainLoop
  <2>2. ImageTypeOK'
    BY <1>1, <1>3, <2>1
  <2>3. RestOK' /\ CallOK' /\ FingerOK'
    BY <1>1, <1>2, <2>1
  <2> QED
    BY <1>1, <1>2, <1>3, <1>4, <1>5, <1>7, <2>1, <2>2, <2>3
<1> QED
  BY <1>6, <1>7

LEMMA LastStageExtractedOK == ASSUME IInv, LastStageExtracted PROVE IInv'
<1>1. /\ MainLoop /\ minutiae /\ minutiae' = FALSE /\ action = "enroll" /\ ~cancelled
      /\ enroll_stage' = NrStages /\ enroll_stage' \in 0 .. NrStages
      /\ UNCHANGED <<is_open, action, cancelled, active, finger_present, reported>>
      /\ Deactivate /\ MaybeComplete("none", active, FALSE, reported)
  BY Stages DEF LastStageExtracted, Extracted
<1>2. Running /\ active /\ state \in {"IDLE", "AWAIT_FINGER_OFF"}
  BY <1>1, ExtractionRuns
<1>3. /\ action_error' \in (Results \ {"ok"}) \cup {"none"}
      /\ returned' = "none" /\ cancel_idle' = cancel_idle
  BY <1>2, <1>1, MaybeCompleteOK
<1>4. state' = "DEACTIVATING" /\ call' = "deactivate"
  BY <1>1, <1>2 DEF Deactivate
<1> QED
  BY <1>1, <1>2, <1>3, <1>4 DEF MainLoop

LEMMA StageExtractedOK == ASSUME IInv, StageExtracted PROVE IInv'
<1>1. /\ MainLoop /\ minutiae /\ minutiae' = FALSE /\ action = "enroll" /\ ~cancelled
      /\ UNCHANGED <<is_open, action, cancelled, cancel_idle, returned, active,
                     finger_present, reported, action_error>>
      /\ MaybeAwaitFingerOn(FALSE, finger_present)
  BY DEF StageExtracted, device
<1>2. Running /\ active /\ state \in {"IDLE", "AWAIT_FINGER_OFF"}
  BY <1>1, ExtractionRuns
<1>3. enroll_stage' \in 0 .. NrStages
  BY Stages DEF StageExtracted
<1>4. \/ finger_present /\ state' = state /\ call' = "none"
      \/ ~finger_present /\ state = "IDLE" /\ state' = "AWAIT_FINGER_ON"
         /\ call' = "change_state"
  BY <1>1, <1>2 DEF MaybeAwaitFingerOn
<1> QED
  BY <1>1, <1>2, <1>3, <1>4 DEF MainLoop

LEMMA FingerOnWantedOK == ASSUME IInv, FingerOnWanted PROVE IInv'
BY DEF FingerOnWanted, device

LEMMA FingerLiftedOK == ASSUME IInv, FingerLifted PROVE IInv'
BY DEF FingerLifted, MaybeAwaitFingerOn, Deactivate, device

-----------------------------------------------------------------------------
(* The functions the driver calls.                                          *)
DriverErrors == {"none", "error"}

LEMMA OpenCompleteOK ==
  ASSUME IInv, NEW error \in DriverErrors, call = "img_open", OpenComplete(error)
  PROVE  IInv'
BY DEF DriverErrors, OpenComplete, ReturnTask, ResultOf

LEMMA CloseCompleteOK ==
  ASSUME IInv, NEW error \in DriverErrors, call = "img_close", CloseComplete(error)
  PROVE  IInv'
BY DEF DriverErrors, CloseComplete, ReturnTask, ResultOf

LEMMA ActivateCompleteOK ==
  ASSUME IInv, NEW error \in DriverErrors, Answers("activate"), returned = "none",
         ActivateComplete(error)
  PROVE  IInv'
<1>1. /\ Running /\ state = "ACTIVATING" /\ ~active /\ ~finger_present /\ ~minutiae
      /\ action_error = "none"
      /\ UNCHANGED <<is_open, action, cancelled, reported, finger_present, minutiae,
                     enroll_stage, action_error>>
  BY DEF ActivateComplete
<1>2. CASE error = "none"
  <2>1. active' = TRUE /\ state' = "IDLE" /\ call' = "finger_on"
        /\ UNCHANGED <<returned, cancel_idle>>
    BY <1>2 DEF ActivateComplete
  <2> QED
    BY <1>1, <2>1
<1>3. CASE error = "error"
  <2>1. /\ returned' = "error" /\ cancel_idle' = FALSE /\ call' = "none"
        /\ UNCHANGED <<active, state>>
    BY <1>3 DEF ActivateComplete, ReturnTask, ResultOf
  <2> QED
    BY <1>1, <2>1
<1> QED
  BY <1>2, <1>3 DEF DriverErrors

LEMMA DeactivateCompleteOK ==
  ASSUME IInv, NEW error \in DriverErrors, Answers("deactivate"),
         DeactivateComplete(error)
  PROVE  IInv'
BY DEF DriverErrors, DeactivateComplete, MaybeComplete, Answers, ReturnTask, ResultOf

LEMMA ReportFingerOK ==
  ASSUME IInv, NEW present \in BOOLEAN, MainLoop, active, ReportFinger(present),
         present \/ action # "enroll" \/ state # "CAPTURE"
  PROVE  IInv'
BY DEF ReportFinger, MainLoop, device

LEMMA ImageCapturedOK == ASSUME IInv, MainLoop, active, ImageCaptured PROVE IInv'
BY DEF ImageCaptured, MainLoop, device

LEMMA RetryScanOK ==
  ASSUME IInv, MainLoop, active, state = "CAPTURE", RetryScan
  PROVE  IInv'
BY DEF RetryScan, MainLoop, Deactivate, MaybeComplete, ReturnTask, ResultOf

LEMMA SessionErrorOK ==
  ASSUME IInv, Answers("change_state"), active, state # "DEACTIVATING",
         action # "enroll" \/ ~minutiae, SessionError("error")
  PROVE  IInv'
BY DEF SessionError, Answers, Deactivate, MaybeComplete, ReturnTask, ResultOf

LEMMA DriverReturnsOK == ASSUME IInv, DriverReturns PROVE IInv'
BY DEF DriverReturns, device, image

-----------------------------------------------------------------------------
(* The invariant is inductive.                                              *)
LEMMA InitOK == ImageInit => IInv
BY Stages DEF ImageInit

LEMMA ErrorKinds == ASSUME NEW kind PROVE Error(kind) \subseteq DriverErrors
BY DEF Error, DriverErrors

LEMMA LibraryNextOK == ASSUME IInv, LibraryNext PROVE IInv'
BY StartOpenCloseOK, StartOK, StartRawCaptureOK, RequestCancelOK, ReturnInIdleOK,
   CancelInIdleOK, ExtractionAbortsOK, CaptureExtractedOK, MatchExtractedOK,
   LastStageExtractedOK, StageExtractedOK, FingerOnWantedOK, FingerLiftedOK
   DEF LibraryNext, MinutiaeDetected

(* The drivers that any set of faults allows.                               *)
AnyDriver ==
  \/ \E error \in DriverErrors :
       \/ call = "img_open" /\ OpenComplete(error)
       \/ call = "img_close" /\ CloseComplete(error)
       \/ Answers("activate") /\ returned = "none" /\ ActivateComplete(error)
       \/ Answers("deactivate") /\ DeactivateComplete(error)
  \/ DriverReturns
  \/ DriverReports
  \/ /\ Answers("change_state") /\ active /\ state # "DEACTIVATING"
     /\ action # "enroll" \/ ~minutiae
     /\ SessionError("error")

LEMMA DriverIsAny == DriverNext => AnyDriver
BY ErrorKinds DEF DriverNext, DriverOpens, DriverCloses, DriverActivated,
   DriverDeactivated, DriverFails, AnyDriver

LEMMA AnyDriverOK == ASSUME IInv, AnyDriver PROVE IInv'
<1>1. CASE DriverReports
  BY <1>1, ReportFingerOK, ImageCapturedOK, RetryScanOK DEF DriverReports
<1>2. CASE ~DriverReports
  BY <1>2, OpenCompleteOK, CloseCompleteOK, ActivateCompleteOK, DeactivateCompleteOK,
     DriverReturnsOK, SessionErrorOK DEF AnyDriver
<1> QED
  BY <1>1, <1>2

LEMMA DriverNextOK == ASSUME IInv, DriverNext PROVE IInv'
BY DriverIsAny, AnyDriverOK

LEMMA StepOK == IInv /\ [ImageNext]_imageVars => IInv'
<1>1. ASSUME IInv, ImageNext PROVE IInv'
  BY <1>1, LibraryNextOK, DriverNextOK DEF ImageNext
<1>2. ASSUME IInv, UNCHANGED imageVars PROVE IInv'
  BY <1>2 DEF imageVars
<1> QED
  BY <1>1, <1>2

-----------------------------------------------------------------------------
(* What the steps may not do.                                               *)
ReturnsOnce ==
  /\ returned # "none" => returned' \in {returned, "none"}
  /\ cancelled /\ returned = "none" => returned' # "ok"

LEMMA LibraryChanges ==
  ASSUME IInv, LibraryNext PROVE ValidChange /\ ReturnsOnce
<1> USE DEF ReturnsOnce, ValidChange, ChangesState, Reactivates, ValidTransitions
<1>1. CASE StartOpenClose \/ Start \/ StartRawCapture
  BY <1>1 DEF StartOpenClose, Start, StartRawCapture, image
<1>2. CASE RequestCancel \/ ReturnInIdle \/ CancelInIdle
  BY <1>2 DEF RequestCancel, ReturnInIdle, CancelInIdle, Deactivate, image
<1>3. CASE FingerOnWanted \/ FingerLifted
  BY <1>3 DEF FingerOnWanted, FingerLifted, MaybeAwaitFingerOn, Deactivate, device
<1>4. CASE ExtractionAborts
  BY <1>4 DEF ExtractionAborts, Extracted, MaybeComplete, ReturnTask, ResultOf,
              Deactivate, MainLoop
<1>5. CASE CaptureExtracted \/ MatchExtracted
  BY <1>5 DEF CaptureExtracted, MatchExtracted, Extracted, MaybeComplete, ReturnTask,
              ResultOf, MainLoop
<1>6. CASE LastStageExtracted
  BY <1>6 DEF LastStageExtracted, Extracted, MaybeComplete, ReturnTask, ResultOf,
              Deactivate, MainLoop
<1>7. CASE StageExtracted
  BY <1>7 DEF StageExtracted, MaybeAwaitFingerOn, MainLoop, device
<1> QED
  BY <1>1, <1>2, <1>3, <1>4, <1>5, <1>6, <1>7 DEF LibraryNext, MinutiaeDetected

LEMMA DriverChanges ==
  ASSUME IInv, AnyDriver PROVE ValidChange /\ ReturnsOnce
<1> USE DEF ReturnsOnce, ValidChange, ChangesState, Reactivates, ValidTransitions, ReturnTask, ResultOf
<1>1. CASE \E error \in DriverErrors :
             \/ call = "img_open" /\ OpenComplete(error)
             \/ call = "img_close" /\ CloseComplete(error)
  BY <1>1 DEF OpenComplete, CloseComplete
<1>2. CASE DriverReturns
  BY <1>2 DEF DriverReturns, device, image
<1>3. CASE \E error \in DriverErrors :
             Answers("activate") /\ returned = "none" /\ ActivateComplete(error)
  BY <1>3 DEF ActivateComplete, DriverErrors
<1>4. CASE \E error \in DriverErrors :
             Answers("deactivate") /\ DeactivateComplete(error)
  BY <1>4 DEF DeactivateComplete, DriverErrors, MaybeComplete
<1>5. CASE DriverReports
  BY <1>5 DEF DriverReports, ReportFinger, ImageCaptured, RetryScan, MaybeComplete,
              Deactivate, device
<1>6. CASE active /\ state # "DEACTIVATING" /\ SessionError("error")
  BY <1>6 DEF SessionError, MaybeComplete, Deactivate
<1> QED
  BY <1>1, <1>2, <1>3, <1>4, <1>5, <1>6 DEF AnyDriver

-----------------------------------------------------------------------------
(* What the steps do to the task, as DeviceTask sees it.                    *)

(* All but those that begin a task, cancel it and return its result leave   *)
(* it alone, tell the driver of a cancellation, or end it.                  *)
TaskKept ==
  /\ UNCHANGED <<is_open, action, cancelled>>
  /\ \/ UNCHANGED <<returned, cancel_idle>>
     \/ cancel_idle /\ ~cancel_idle' /\ UNCHANGED returned
     \/ returned = "none" /\ action # "none" /\ returned' \in Results /\ ~cancel_idle'

LEMMA MaybeCompleteKept ==
  ASSUME IInv, Running, NEW error, NEW act, NEW scanning, NEW rep,
         error \in (Results \ {"ok"}) \cup {"none"}, rep \in {"no", "match", "retry"},
         MaybeComplete(error, act, scanning, rep),
         UNCHANGED <<is_open, action, cancelled>>
  PROVE  TaskKept
BY DEF MaybeComplete, ReturnTask, ResultOf, TaskKept

LEMMA LibraryKeepsTask ==
  ASSUME IInv, CancelInIdle \/ MinutiaeDetected \/ FingerOnWanted \/ FingerLifted
  PROVE  TaskKept
<1>1. CASE CancelInIdle
  BY <1>1 DEF CancelInIdle, TaskKept
<1>2. CASE FingerOnWanted \/ FingerLifted \/ StageExtracted
  BY <1>2 DEF FingerOnWanted, FingerLifted, StageExtracted, TaskKept, device
<1>3. CASE ExtractionAborts \/ CaptureExtracted \/ MatchExtracted \/ LastStageExtracted
  <2>1. MainLoop /\ minutiae /\ UNCHANGED <<is_open, action, cancelled>>
    BY <1>3 DEF ExtractionAborts, CaptureExtracted, MatchExtracted, LastStageExtracted,
      Extracted
  <2>2. \E error \in (Results \ {"ok"}) \cup {"none"} :
          \E rep \in {"no", "match", "retry"} : MaybeComplete(error, active, FALSE, rep)
    BY <1>3 DEF ExtractionAborts, CaptureExtracted, MatchExtracted, LastStageExtracted,
      Extracted
  <2> QED
    BY <2>1, <2>2, ExtractionRuns, MaybeCompleteKept
<1> QED
  BY <1>1, <1>2, <1>3 DEF MinutiaeDetected

LEMMA DriverKeepsTask == ASSUME IInv, AnyDriver PROVE TaskKept
<1>1. CASE \E error \in DriverErrors :
             \/ call = "img_open" /\ OpenComplete(error)
             \/ call = "img_close" /\ CloseComplete(error)
  BY <1>1 DEF OpenComplete, CloseComplete, TaskKept, ReturnTask, ResultOf, DriverErrors
<1>2. CASE DriverReturns
  BY <1>2 DEF DriverReturns, TaskKept, device
<1>3. CASE \E error \in DriverErrors :
             Answers("activate") /\ returned = "none" /\ ActivateComplete(error)
  BY <1>3 DEF ActivateComplete, TaskKept, ReturnTask, ResultOf, DriverErrors
<1>4. CASE \E error \in DriverErrors :
             Answers("deactivate") /\ DeactivateComplete(error)
  BY <1>4, MaybeCompleteKept DEF DeactivateComplete, DriverErrors
<1>5. CASE DriverReports
  <2>1. CASE RetryScan /\ action # "enroll"
    BY <1>5, <2>1, MaybeCompleteKept DEF DriverReports, RetryScan
  <2>2. CASE ~(RetryScan /\ action # "enroll")
    BY <1>5, <2>2 DEF DriverReports, ReportFinger, ImageCaptured, RetryScan, TaskKept,
      device
  <2> QED
    BY <2>1, <2>2
<1>6. CASE active /\ state # "DEACTIVATING" /\ SessionError("error")
  BY <1>6, MaybeCompleteKept DEF SessionError
<1> QED
  BY <1>1, <1>2, <1>3, <1>4, <1>5, <1>6 DEF AnyDriver

HIDE DEF IInv, ImageTypeOK, RestOK, AtRest, Running, Capturing, CaptureActions,
         ActivatingOK, InactiveOK, ActiveOK, CallOK, FingerOK, OneImageAtATime,
         ReportOK, MayReport, ReportedFirst, EnrollOK, EnrollsAllStages,
         States, Results, Calls, VFuncs

LEMMA Invariant == ImageSpec => []IInv
BY InitOK, StepOK, PTL DEF ImageSpec

LEMMA Changes ==
  IInv /\ [LibraryNext \/ AnyDriver]_imageVars =>
    [ValidChange]_imageVars /\ (ReturnsOnce \/ UNCHANGED returned)
<1>1. ASSUME IInv, LibraryNext \/ AnyDriver
      PROVE  ValidChange /\ ReturnsOnce
  BY <1>1, LibraryChanges, DriverChanges
<1> QED
  BY <1>1 DEF imageVars

LEMMA KeptIsTask ==
  ASSUME IInv, TaskKept PROVE [Task!TaskNext]_Task!taskVars
<1> USE DEF TaskKept, IInv, ImageTypeOK, Results, RestOK, AtRest
<1>1. CASE UNCHANGED <<returned, cancel_idle>>
  BY <1>1 DEF Task!taskVars
<1>2. CASE cancel_idle /\ ~cancel_idle' /\ UNCHANGED returned
  <2>1. returned = "none" /\ cancelled
    BY <1>2
  <2>2. (cancelled /\ ~cancel_idle /\ returned = "none") = FALSE
    BY <1>2, Zenon
  <2>3. (cancelled /\ ~cancel_idle /\ returned = "none")' = TRUE
    BY <1>2, <2>1
  <2>4. Task!Tell
    BY <1>2, <2>1, <2>2, <2>3 DEF Task!Tell
  <2> QED
    BY <2>4 DEF Task!TaskNext
<1>3. CASE /\ returned = "none" /\ action # "none" /\ returned' \in Results
           /\ ~cancel_idle'
  <2>1. (cancelled /\ ~cancel_idle /\ returned = "none")' = FALSE
    BY <1>3, Zenon
  <2>2. Task!End
    BY <1>3, <2>1 DEF Task!End
  <2> QED
    BY <2>2 DEF Task!TaskNext
<1> QED
  BY <1>1, <1>2, <1>3

LEMMA StepKeepsTask ==
  IInv /\ [LibraryNext \/ AnyDriver]_imageVars => [Task!TaskNext]_Task!taskVars
<1> SUFFICES ASSUME IInv, [LibraryNext \/ AnyDriver]_imageVars
             PROVE  [Task!TaskNext]_Task!taskVars
  OBVIOUS
<1> USE DEF IInv, ImageTypeOK, RestOK, AtRest, Capturing, CaptureActions
<1>1. CASE StartOpenClose
  <2>1. PICK op \in {"open", "close"} : action' = op /\ (op = "open") = ~is_open
    BY <1>1 DEF StartOpenClose
  <2>2. Task!Begin(op)
    BY <1>1, <2>1 DEF StartOpenClose, Task!Begin
  <2> QED
    BY <2>2 DEF Task!TaskNext
<1>2. CASE Start \/ StartRawCapture
  <2>1. action' \in Actions /\ action' # "open" /\ is_open
    BY <1>2, ActionsAssumption DEF Start, StartRawCapture
  <2>2. Task!Begin(action')
    BY <1>2, <2>1 DEF Start, StartRawCapture, Task!Begin
  <2> QED
    BY <2>1, <2>2 DEF Task!TaskNext
<1>3. CASE RequestCancel
  <2>1. Task!GiveUp
    BY <1>3 DEF RequestCancel, Task!GiveUp
  <2> QED
    BY <2>1 DEF Task!TaskNext
<1>4. CASE ReturnInIdle
  <2>1. Task!Return
    BY <1>4 DEF ReturnInIdle, Task!Return
  <2> QED
    BY <2>1 DEF Task!TaskNext
<1>5. CASE UNCHANGED imageVars
  BY <1>5 DEF imageVars, Task!taskVars
<1>6. CASE \/ CancelInIdle \/ MinutiaeDetected \/ FingerOnWanted \/ FingerLifted
           \/ AnyDriver
  BY <1>6, LibraryKeepsTask, DriverKeepsTask, KeptIsTask
<1> QED
  BY <1>1, <1>2, <1>3, <1>4, <1>5, <1>6 DEF LibraryNext

LEMMA StepIsAny == [ImageNext]_imageVars => [LibraryNext \/ AnyDriver]_imageVars
BY DriverIsAny DEF ImageNext

-----------------------------------------------------------------------------
(* Every variable keeps its type, and the stage of an enrollment its bound. *)
THEOREM TypeCorrect == ImageSpec => []ImageTypeOK
<1>1. IInv => ImageTypeOK
  BY DEF IInv
<1> QED
  BY <1>1, Invariant, PTL

(* Whenever an action may start or has completed, nothing of the last one   *)
(* is left: the assertions that fp_image_device_start_capture_action and    *)
(* fp_image_device_close make of the device hold.                           *)
THEOREM NothingIsLeft == ImageSpec => []NothingLeft
<1>1. IInv => NothingLeft
  BY DEF IInv, NothingLeft, RestOK, AtRest, Capturing, CaptureActions, CallOK
<1> QED
  BY <1>1, Invariant, PTL

(* fpi_image_device_image_captured is never reached by a second image while *)
(* the minutiae of the first are being extracted.                           *)
THEOREM OneImage == ImageSpec => []OneImageAtATime
<1>1. IInv => OneImageAtATime
  BY DEF IInv
<1> QED
  BY <1>1, Invariant, PTL

(* A verification or an identification returns the result it reported: the  *)
(* fallbacks of fpi_device_verify_complete are for a driver's bugs only.    *)
THEOREM ResultsAreReported == ImageSpec => []ReportedFirst
<1>1. IInv => ReportedFirst
  BY DEF IInv
<1> QED
  BY <1>1, Invariant, PTL

(* An enrollment that succeeds has the stages the driver asked for, however *)
(* many those are.                                                          *)
THEOREM EnrollmentsAreWhole == ImageSpec => []EnrollsAllStages
<1>1. IInv => EnrollsAllStages
  BY DEF IInv
<1> QED
  BY <1>1, Invariant, PTL

(* fp_image_device_change_state meets no transition its table lacks but the *)
(* one from ACTIVATING to ACTIVATING, of the action after a failed          *)
(* activation.                                                              *)
THEOREM FollowsTheTable == ImageSpec => StateMachine
<1>1. IInv /\ [ImageNext]_imageVars => [ValidChange]_imageVars
  BY Changes, StepIsAny
<1> QED
  BY <1>1, Invariant, PTL DEF ImageSpec, StateMachine

(* A result that waits in the idle return source is returned as it is.      *)
THEOREM ReturnsOneResult == ImageSpec => CompletesOnce
<1>1. IInv /\ [ImageNext]_imageVars =>
        [returned # "none" => returned' \in {returned, "none"}]_returned
  BY Changes, StepIsAny DEF ReturnsOnce
<1> QED
  BY <1>1, Invariant, PTL DEF ImageSpec, CompletesOnce

(* An action that was cancelled before it completed does not succeed.       *)
THEOREM CancellationsEnd == ImageSpec => CancelledEnds
<1>1. IInv /\ [ImageNext]_imageVars =>
        [cancelled /\ returned = "none" => returned' # "ok"]_returned
  BY Changes, StepIsAny DEF ReturnsOnce
<1> QED
  BY <1>1, Invariant, PTL DEF ImageSpec, CancelledEnds

(* The image device keeps the promises of FpDevice's tasks, with any driver *)
(* that keeps its own contract.                                             *)
THEOREM ImageDeviceKeepsTask == ImageSpec => KeepsTask
<1>1. ImageInit => Task!TaskInit
  BY DEF ImageInit, Task!TaskInit
<1>2. IInv /\ [ImageNext]_imageVars => [Task!TaskNext]_Task!taskVars
  BY StepKeepsTask, StepIsAny
<1> QED
  BY <1>1, <1>2, Invariant, PTL DEF ImageSpec, KeepsTask, Task!TaskSpec

=============================================================================
