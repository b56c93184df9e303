------------------------- MODULE Goodix55x4_proofs -------------------------
(***************************************************************************)
(* The 55x4 driver under the image device, for every set of capture        *)
(* actions, every number of stages and every set of faults, but for one    *)
(* pair: an enrollment whose scans may fail breaks the contract of the     *)
(* image device (see NoLateFailure).                                       *)
(*                                                                         *)
(* The invariant adds to that of the image device what each of its states  *)
(* says of the driver: whose command is outstanding, and whether the       *)
(* session is warm.                                                        *)
(***************************************************************************)
EXTENDS Goodix55x4, ImageDevice_proofs

(* A scan that fails while the minutiae of an earlier image are extracted   *)
(* breaks the contract.  Only an enrollment has an earlier image.           *)
NoLateFailure == "enroll" \notin Actions \/ "enroll_scan" \notin Faults

FirstStages == {"enable_chip", "firmware_version", "preset_psk_read",
                "preset_psk_write", "reset", "idle_mode", "upload_config_mcu"}
BeforeFinger == {"calibrate", "fdt_mode", "fdt_down"}
AfterImage == {"fdt_mode2", "fdt_up_no_reply", "fdt_up"}

(* The outstanding command is the one of the sequence that is running.      *)
SlotOK ==
  /\ pending = "activation" <=> act # "none"
  /\ pending = "scan" <=> scan # "none"
  /\ pending = "idle" <=> deactivating /\ scan = "none"

(* A sequence runs only in an action that needs it.                         *)
SequencesOK ==
  /\ act # "none" => Running /\ state = "ACTIVATING" /\ call = "none" /\ ~warm
  /\ scan # "none" => Running /\ active
  /\ deactivating => Running /\ state = "DEACTIVATING" /\ call = "none"

(* In each state of the image device, what the driver is doing.             *)
StatesOK ==
  Running =>
    /\ state = "ACTIVATING" =>
         (call = "activate" /\ pending = "none") \/ act # "none"
    /\ state = "IDLE" =>
         /\ scan = "none" /\ ~finger_present
         /\ call \in {"finger_on", "finger_off"} \/ minutiae
    /\ state = "AWAIT_FINGER_ON" =>
         \/ call = "change_state" /\ scan = "none"
         \/ call = "none" /\ scan \in BeforeFinger
    /\ state = "CAPTURE" => scan = "get_img" /\ call = "none"
    /\ state = "AWAIT_FINGER_OFF" => scan \in AfterImage /\ call = "none"
    /\ state = "DEACTIVATING" =>
         \/ call = "deactivate" /\ ~deactivating
              /\ (scan # "none" => cancelled \/ scan \in AfterImage)
         \/ deactivating /\ scan \in AfterImage \cup {"none"}
    /\ state \in {"IDLE", "AWAIT_FINGER_ON", "CAPTURE", "AWAIT_FINGER_OFF"} => warm

(* The warm session, its background and its TLS server.                     *)
SessionOK ==
  /\ warm => is_open /\ tls = "connected" /\ (action = "close" => returned = "none")
  /\ Capturing => is_open
  /\ action = "open" => ~is_open
  /\ action = "close" => is_open
  /\ empty_img_valid => warm
  /\ scan # "none" => warm
  /\ scan \in {"fdt_mode", "fdt_down", "get_img"} => empty_img_valid
  /\ act \in FirstStages => tls = "none"

DriverInv ==
  /\ DriverTypeOK
  /\ NoLateFailure
  /\ action = "enroll" => "enroll" \in Actions
  /\ SlotOK /\ SequencesOK /\ StatesOK /\ SessionOK

-----------------------------------------------------------------------------
(* Each call the driver makes is one the contract allows, and preserves the *)
(* invariant of the image device.                                           *)
Kept == [Contract!ImageNext]_imageVars /\ IInv'

LEMMA ContractErrors ==
  ASSUME NEW kind \in {"open", "close", "activate", "session", "deactivate"}
  PROVE  Contract!Error(kind) = DriverErrors
BY DEF Contract!Error, DriverErrors

(* The instance says what ImageDevice says of everything but the faults.    *)
USE DEF MainLoop, Capturing, CaptureActions, device, image, Deactivate,
         MaybeComplete, ReturnTask, ResultOf, MaybeAwaitFingerOn,
         Contract!MainLoop, Contract!Capturing, Contract!CaptureActions,
         Contract!device, Contract!image, Contract!Deactivate,
         Contract!MaybeComplete, Contract!ReturnTask, Contract!ResultOf,
         Contract!MaybeAwaitFingerOn

LEMMA LibraryKept == ASSUME IInv, LibraryNext PROVE Kept
<1>1. StartOpenClose => Contract!StartOpenClose
  BY DEF StartOpenClose, Contract!StartOpenClose
<1>2. Start => Contract!Start
  BY DEF Start, Contract!Start
<1>3. StartRawCapture => Contract!StartRawCapture
  BY DEF StartRawCapture, Contract!StartRawCapture
<1>4. RequestCancel => Contract!RequestCancel
  BY DEF RequestCancel, Contract!RequestCancel
<1>5. ReturnInIdle => Contract!ReturnInIdle
  BY DEF ReturnInIdle, Contract!ReturnInIdle
<1>6. CancelInIdle => Contract!CancelInIdle
  BY DEF CancelInIdle, Contract!CancelInIdle
<1>7. MinutiaeDetected => Contract!MinutiaeDetected
  <2>1. ExtractionAborts => Contract!ExtractionAborts
    BY DEF ExtractionAborts, Extracted, Contract!ExtractionAborts, Contract!Extracted
  <2>2. CaptureExtracted => Contract!CaptureExtracted
    BY DEF CaptureExtracted, Extracted, Contract!CaptureExtracted, Contract!Extracted
  <2>3. MatchExtracted => Contract!MatchExtracted
    BY DEF MatchExtracted, Extracted, Contract!MatchExtracted, Contract!Extracted
  <2>4. LastStageExtracted => Contract!LastStageExtracted
    BY DEF LastStageExtracted, Extracted, Contract!LastStageExtracted, Contract!Extracted
  <2>5. StageExtracted => Contract!StageExtracted
    BY DEF StageExtracted, Contract!StageExtracted
  <2> QED
    BY <2>1, <2>2, <2>3, <2>4, <2>5 DEF MinutiaeDetected, Contract!MinutiaeDetected
<1>8. FingerOnWanted => Contract!FingerOnWanted
  BY DEF FingerOnWanted, Contract!FingerOnWanted
<1>9. FingerLifted => Contract!FingerLifted
  BY DEF FingerLifted, Contract!FingerLifted
<1>10. Contract!LibraryNext
  BY <1>1, <1>2, <1>3, <1>4, <1>5, <1>6, <1>7, <1>8, <1>9
     DEF LibraryNext, Contract!LibraryNext
<1> QED
  BY <1>10, LibraryNextOK DEF Kept, Contract!ImageNext

(* The contract is that of AnyDriver, so that what ImageDevice_proofs says  *)
(* of the steps of any driver holds of those of this one.                   *)
LEMMA ContractLibrary == Contract!LibraryNext => LibraryNext
<1>1. Contract!MinutiaeDetected => MinutiaeDetected
  BY DEF MinutiaeDetected, ExtractionAborts, CaptureExtracted, MatchExtracted,
     LastStageExtracted, StageExtracted, Extracted,
     Contract!MinutiaeDetected, Contract!ExtractionAborts, Contract!CaptureExtracted,
     Contract!MatchExtracted, Contract!LastStageExtracted, Contract!StageExtracted,
     Contract!Extracted
<1> QED
  BY <1>1 DEF LibraryNext, StartOpenClose, Start, StartRawCapture, RequestCancel,
     ReturnInIdle, CancelInIdle, FingerOnWanted, FingerLifted,
     Contract!LibraryNext, Contract!StartOpenClose, Contract!Start,
     Contract!StartRawCapture, Contract!RequestCancel, Contract!ReturnInIdle,
     Contract!CancelInIdle, Contract!FingerOnWanted, Contract!FingerLifted

LEMMA ContractDriver == Contract!DriverNext => AnyDriver
<1> USE ContractErrors DEF AnyDriver, Answers, Contract!Answers
<1>1. Contract!DriverOpens \/ Contract!DriverCloses => AnyDriver
  BY DEF Contract!DriverOpens, Contract!DriverCloses, OpenComplete, CloseComplete,
     Contract!OpenComplete, Contract!CloseComplete
<1>2. Contract!DriverActivated => AnyDriver
  BY DEF Contract!DriverActivated, ActivateComplete, Contract!ActivateComplete
<1>3. Contract!DriverDeactivated => AnyDriver
  BY DEF Contract!DriverDeactivated, DeactivateComplete, Contract!DeactivateComplete
<1>4. Contract!DriverReturns => AnyDriver
  BY DEF Contract!DriverReturns, DriverReturns
<1>5. Contract!DriverReports => AnyDriver
  BY DEF Contract!DriverReports, DriverReports, ReportFinger, Contract!ReportFinger,
     ImageCaptured, Contract!ImageCaptured, RetryScan, Contract!RetryScan
<1>6. Contract!DriverFails => AnyDriver
  BY DEF Contract!DriverFails, SessionError, Contract!SessionError
<1> QED
  BY <1>1, <1>2, <1>3, <1>4, <1>5, <1>6 DEF Contract!DriverNext

LEMMA OpenKept ==
  ASSUME IInv, NEW error \in DriverErrors, call = "img_open", OpenComplete(error)
  PROVE  Kept
<1>1. Contract!OpenComplete(error) /\ error \in Contract!Error("open")
  BY ContractErrors DEF OpenComplete, Contract!OpenComplete
<1> QED
  BY <1>1, OpenCompleteOK
     DEF Kept, Contract!ImageNext, Contract!DriverNext, Contract!DriverOpens

LEMMA CloseKept ==
  ASSUME IInv, NEW error \in DriverErrors, call = "img_close", CloseComplete(error)
  PROVE  Kept
<1>1. Contract!CloseComplete(error) /\ error \in Contract!Error("close")
  BY ContractErrors DEF CloseComplete, Contract!CloseComplete
<1> QED
  BY <1>1, CloseCompleteOK
     DEF Kept, Contract!ImageNext, Contract!DriverNext, Contract!DriverCloses

LEMMA ReturnsKept == ASSUME IInv, DriverReturns PROVE Kept
BY DriverReturnsOK DEF Kept, Contract!ImageNext, Contract!DriverNext,
                       DriverReturns, Contract!DriverReturns

LEMMA ActivatedKept ==
  ASSUME IInv, NEW error \in DriverErrors, call \in {"none", "activate"},
         returned = "none", ActivateComplete(error)
  PROVE  Kept
<1>1. Contract!ActivateComplete(error) /\ error \in Contract!Error("activate")
  BY ContractErrors DEF ActivateComplete, Contract!ActivateComplete
<1>2. Contract!DriverActivated
  BY <1>1 DEF Contract!DriverActivated, Contract!Answers
<1> QED
  BY <1>2, ActivateCompleteOK
     DEF Kept, Answers, Contract!ImageNext, Contract!DriverNext

LEMMA DeactivatedKept ==
  ASSUME IInv, NEW error \in DriverErrors, call \in {"none", "deactivate"},
         DeactivateComplete(error)
  PROVE  Kept
<1>1. Contract!DeactivateComplete(error) /\ error \in Contract!Error("deactivate")
  BY ContractErrors DEF DeactivateComplete, Contract!DeactivateComplete
<1>2. Contract!DriverDeactivated
  BY <1>1 DEF Contract!DriverDeactivated, Contract!Answers
<1> QED
  BY <1>2, DeactivateCompleteOK
     DEF Kept, Answers, Contract!ImageNext, Contract!DriverNext

LEMMA FingerKept ==
  ASSUME IInv, NEW present \in BOOLEAN, MainLoop, active, ReportFinger(present),
         present \/ state # "CAPTURE"
  PROVE  Kept
<1>1. Contract!ReportFinger(present)
  BY DEF ReportFinger, Contract!ReportFinger
<1>2. Contract!DriverReports
  BY <1>1 DEF Contract!DriverReports
<1> QED
  BY <1>2, ReportFingerOK DEF Kept, Contract!ImageNext, Contract!DriverNext

LEMMA ImageKept == ASSUME IInv, MainLoop, active, ImageCaptured PROVE Kept
<1>1. Contract!DriverReports
  BY DEF Contract!DriverReports, ImageCaptured, Contract!ImageCaptured
<1> QED
  BY <1>1, ImageCapturedOK DEF Kept, Contract!ImageNext, Contract!DriverNext

LEMMA FailedKept ==
  ASSUME IInv, MainLoop, active, state # "DEACTIVATING", action # "enroll",
         SessionError("error")
  PROVE  Kept
<1>1. Contract!DriverFails
  BY DEF Contract!DriverFails, Contract!Answers, SessionError, Contract!SessionError
<1> QED
  BY <1>1, SessionErrorOK DEF Kept, Answers, Contract!ImageNext, Contract!DriverNext

LEMMA StutterKept == ASSUME IInv, UNCHANGED imageVars PROVE Kept
<1>1. [ImageNext]_imageVars
  OBVIOUS
<1> QED
  BY <1>1, StepOK DEF Kept

HIDE DEF MainLoop, Capturing, CaptureActions, device, image, Deactivate,
         MaybeComplete, ReturnTask, ResultOf, MaybeAwaitFingerOn,
         Contract!MainLoop, Contract!Capturing, Contract!CaptureActions,
         Contract!device, Contract!image, Contract!Deactivate,
         Contract!MaybeComplete, Contract!ReturnTask, Contract!ResultOf,
         Contract!MaybeAwaitFingerOn

-----------------------------------------------------------------------------
(* Each action of the driver does so.                                       *)
USE DEF DriverInv, DriverTypeOK, SlotOK, SequencesOK, StatesOK, SessionOK, Running,
        Capturing, CaptureActions, ActStages, ScanStages, FirstStages, BeforeFinger,
        AfterImage, cache, driver, device, image, MainLoop

LEMMA DevInitOK == ASSUME IInv, DriverInv, DevInit PROVE Kept /\ DriverInv'
<1>1. PICK error \in DriverErrors : call = "img_open" /\ OpenComplete(error)
  BY ErrorKinds DEF DevInit
<1>2. Kept
  BY <1>1, OpenKept
<1>3. DriverInv'
  BY <1>1 DEF DevInit, OpenComplete, ReturnTask, IInv, CallOK, RestOK
<1> QED
  BY <1>2, <1>3

LEMMA DevDeinitOK == ASSUME IInv, DriverInv, DevDeinit PROVE Kept /\ DriverInv'
<1>1. PICK error \in DriverErrors : call = "img_close" /\ CloseComplete(error)
  BY ErrorKinds DEF DevDeinit
<1>2. Kept
  BY <1>1, CloseKept
<1>3. DriverInv'
  BY <1>1 DEF DevDeinit, CloseComplete, ReturnTask, ResultOf, DriverErrors, IInv,
              CallOK, RestOK
<1> QED
  BY <1>2, <1>3

LEMMA ActivateOK ==
  ASSUME IInv, DriverInv, ActivateWarm \/ ActivateCold PROVE Kept /\ DriverInv'
<1>1. call = "activate" /\ state = "ACTIVATING" /\ Running
  BY DEF ActivateWarm, ActivateCold, IInv, ImageTypeOK, Calls, VFuncs, CallOK, RestOK
<1>2. CASE ActivateWarm
  <2>1. Kept
    BY <1>1, <1>2, ActivatedKept DEF ActivateWarm, DriverErrors
  <2>2. DriverInv'
    BY <1>1, <1>2 DEF ActivateWarm, ActivateComplete, IInv, ActivatingOK
  <2> QED
    BY <2>1, <2>2
<1>3. CASE ActivateCold
  <2>1. Kept
    BY <1>3, ReturnsKept DEF ActivateCold
  <2>2. DriverInv'
    BY <1>1, <1>3 DEF ActivateCold, DriverReturns, IInv, ActivatingOK
  <2> QED
    BY <2>1, <2>2
<1> QED
  BY <1>2, <1>3

LEMMA ActivationProgressOK ==
  ASSUME IInv, DriverInv, ActivationAdvances \/ TlsStarts \/ AcceptEnds
  PROVE  Kept /\ DriverInv'
<1>1. Kept
  BY StutterKept DEF ActivationAdvances, TlsStarts, AcceptEnds
<1>2. CASE ActivationAdvances
  BY <1>1, <1>2 DEF ActivationAdvances, Follows, imageVars
<1>3. CASE TlsStarts
  BY <1>1, <1>3 DEF TlsStarts, imageVars
<1>4. CASE AcceptEnds
  BY <1>1, <1>4 DEF AcceptEnds, imageVars
<1> QED
  BY <1>2, <1>3, <1>4

LEMMA ActivationEndsOK ==
  ASSUME IInv, DriverInv, ActivationFails \/ Established PROVE Kept /\ DriverInv'
<1>1. /\ MainLoop /\ pending = "activation" /\ act # "none" /\ ~active
      /\ Running /\ state = "ACTIVATING" /\ ~finger_present /\ scan = "none"
  BY DEF ActivationFails, Established, IInv, ActivatingOK
<1>2. /\ act' = "none" /\ pending' = "none"
      /\ UNCHANGED <<empty_img_valid, scan, deactivating, tls>>
  BY DEF ActivationFails, Established
<1>3. \/ warm' = TRUE /\ tls = "connected" /\ ActivateComplete("none")
      \/ warm' = FALSE /\ ActivateComplete("error")
  BY <1>1 DEF ActivationFails, Established
<1>4. Kept
  BY <1>1, <1>3, ActivatedKept DEF DriverErrors
<1>5. CASE warm' = TRUE /\ tls = "connected" /\ ActivateComplete("none")
  <2>1. /\ state' = "IDLE" /\ call' = "finger_on" /\ active' = TRUE
        /\ UNCHANGED <<is_open, action, returned, finger_present>>
    BY <1>5 DEF ActivateComplete
  <2>2. DriverTypeOK' /\ SlotOK'
    BY <1>1, <1>2, <1>5
  <2>3. SequencesOK' /\ StatesOK'
    BY <1>1, <1>2, <1>5, <2>1
  <2>4. SessionOK'
    BY <1>1, <1>2, <1>5, <2>1
  <2> QED
    BY <1>4, <2>1, <2>2, <2>3, <2>4
<1>6. CASE warm' = FALSE /\ ActivateComplete("error")
  <2>1. /\ returned' = "error" /\ call' = "none"
        /\ UNCHANGED <<is_open, action, state, active>>
    BY <1>6 DEF ActivateComplete, ReturnTask, ResultOf
  <2>2. DriverTypeOK' /\ SlotOK'
    BY <1>1, <1>2, <1>6
  <2>3. SequencesOK' /\ StatesOK'
    BY <1>1, <1>2, <1>6, <2>1
  <2>4. SessionOK'
    BY <1>1, <1>2, <1>6, <2>1
  <2> QED
    BY <1>4, <2>1, <2>2, <2>3, <2>4
<1> QED
  BY <1>3, <1>4, <1>5, <1>6

LEMMA ScanStartOK == ASSUME IInv, DriverInv, ScanStart PROVE Kept /\ DriverInv'
<1>1. Kept
  BY ReturnsKept DEF ScanStart
<1>2. state = "AWAIT_FINGER_ON" /\ call = "change_state" /\ Running /\ active
  BY DEF ScanStart, IInv, ImageTypeOK, CallOK, RestOK, ActiveOK
<1>3. DriverInv'
  BY <1>2 DEF ScanStart, DriverReturns
<1> QED
  BY <1>1, <1>3

LEMMA ScanProgressOK ==
  ASSUME IInv, DriverInv, Calibrated \/ ScanAdvances PROVE Kept /\ DriverInv'
<1>1. Kept
  BY StutterKept DEF Calibrated, ScanAdvances
<1>2. CASE Calibrated
  BY <1>1, <1>2 DEF Calibrated, ScanReply, imageVars
<1>3. CASE ScanAdvances
  BY <1>1, <1>3 DEF ScanAdvances, ScanFollows, ScanReply, imageVars
<1> QED
  BY <1>2, <1>3

LEMMA ScanReportsOK ==
  ASSUME IInv, DriverInv, FingerDown \/ ImageRead PROVE Kept /\ DriverInv'
<1>1. CASE FingerDown
  <2>1. MainLoop /\ active /\ state = "AWAIT_FINGER_ON"
    BY <1>1 DEF FingerDown, ScanReply, IInv, ImageTypeOK, States, ActivatingOK, InactiveOK
  <2>2. Kept
    BY <1>1, <2>1, FingerKept DEF FingerDown
  <2>3. DriverInv'
    BY <1>1, <2>1 DEF FingerDown, ScanReply, ReportFinger
  <2> QED
    BY <2>2, <2>3
<1>2. CASE ImageRead
  <2>1. MainLoop /\ active /\ state = "CAPTURE"
    BY <1>2 DEF ImageRead, ScanReply, ImageCaptured
  <2>2. Kept
    BY <1>2, <2>1, ImageKept DEF ImageRead
  <2>3. DriverInv'
    BY <1>2, <2>1 DEF ImageRead, ScanReply, ImageCaptured
  <2> QED
    BY <2>2, <2>3
<1> QED
  BY <1>1, <1>2

(* A deactivation completes: whatever the driver has left is at rest.       *)
LEMMA IdleCompleteOK ==
  ASSUME IInv, DriverInv, NEW error \in DriverErrors, call \in {"none", "deactivate"},
         Running, active, state = "DEACTIVATING", act = "none",
         DeactivateIdleComplete(error), UNCHANGED <<act, tls>>,
         scan' = "none", pending' = "none"
  PROVE  Kept /\ DriverInv'
<1>1. Kept
  BY DeactivatedKept DEF DeactivateIdleComplete
<1>2. /\ state' = "INACTIVE" /\ active' = FALSE /\ call' = "none" /\ deactivating' = FALSE
      /\ warm' \in BOOLEAN /\ empty_img_valid' \in BOOLEAN
      /\ UNCHANGED <<is_open, action>>
  BY DEF DeactivateIdleComplete, DeactivateComplete
<1>3. (warm' => warm) /\ (empty_img_valid' => empty_img_valid /\ warm')
  BY DEF DeactivateIdleComplete
<1>4. DriverTypeOK'
  <2>1. /\ act' \in ActStages \cup {"none"}
        /\ tls' \in {"none", "accepting", "connected", "failed"}
    OBVIOUS
  <2> QED
    BY <1>2, <2>1
<1>5. SlotOK' /\ SequencesOK'
  BY <1>2
<1>6. StatesOK' /\ SessionOK'
  BY <1>2, <1>3
<1>7. DriverInv'
  BY <1>2, <1>4, <1>5, <1>6
<1> QED
  BY <1>1, <1>7

LEMMA ScanEndsOK ==
  ASSUME IInv, DriverInv, FingerUp \/ ScanFails PROVE Kept /\ DriverInv'
<1>1. /\ MainLoop /\ pending = "scan" /\ scan # "none" /\ Running /\ active
      /\ act = "none" /\ warm
      /\ scan' = "none" /\ pending' = "none" /\ UNCHANGED <<act, tls>>
  BY DEF FingerUp, ScanFails, ScanReply
<1>2. CASE deactivating
  <2>1. PICK error \in DriverErrors : DeactivateIdleComplete(error)
    BY <1>2 DEF FingerUp, ScanFails, DriverErrors
  <2> QED
    BY <1>1, <1>2, <2>1, IdleCompleteOK
<1>3. CASE ~deactivating /\ FingerUp
  <2>1. state = "AWAIT_FINGER_OFF"
    BY <1>1, <1>3 DEF FingerUp, IInv, ImageTypeOK, States, ActivatingOK, InactiveOK
  <2>2. Kept
    BY <1>1, <1>3, <2>1, FingerKept DEF FingerUp
  <2>3. /\ state' = "IDLE" /\ call' = "finger_off" /\ finger_present' = FALSE
        /\ UNCHANGED <<is_open, action, returned, cancelled, active, warm,
                       empty_img_valid, deactivating>>
    BY <1>1, <1>3, <2>1 DEF FingerUp, ReportFinger
  <2>4. DriverInv'
    BY <1>1, <1>3, <2>1, <2>3
  <2> QED
    BY <2>2, <2>4
<1>4. CASE ~deactivating /\ ScanFails
  <2>1. action # "enroll" /\ state # "DEACTIVATING" /\ SessionError("error")
    BY <1>1, <1>4 DEF ScanFails, ScanFault, NoLateFailure
  <2>2. Kept
    BY <1>1, <2>1, FailedKept
  <2>3. /\ state' = "DEACTIVATING" /\ call' = "deactivate"
        /\ warm' = FALSE /\ empty_img_valid' = FALSE
        /\ UNCHANGED <<is_open, action, returned, cancelled, active, deactivating>>
    BY <1>1, <1>4, <2>1 DEF ScanFails, SessionError, MaybeComplete, Deactivate
  <2>4. DriverInv'
    BY <1>1, <1>4, <2>1, <2>3
  <2> QED
    BY <2>2, <2>4
<1> QED
  BY <1>2, <1>3, <1>4

LEMMA DeactivateOK ==
  ASSUME IInv, DriverInv, Drain \/ SwitchToIdle PROVE Kept /\ DriverInv'
<1>1. /\ call = "deactivate" /\ state = "DEACTIVATING" /\ Running /\ active
      /\ act = "none" /\ ~deactivating
  BY DEF Drain, SwitchToIdle, IInv, ImageTypeOK, CallOK, RestOK, ActiveOK
<1>2. CASE Drain /\ scan = "none"
  <2>1. DeactivateIdleComplete("none") /\ UNCHANGED <<act, scan, pending, tls>>
    BY <1>2 DEF Drain
  <2> QED
    BY <1>1, <1>2, <2>1, IdleCompleteOK DEF DriverErrors
<1>3. CASE Drain /\ scan # "none"
  <2>1. Kept
    BY <1>3, ReturnsKept DEF Drain
  <2>2. /\ deactivating' = TRUE /\ call' = "none" /\ scan \in AfterImage
        /\ UNCHANGED <<is_open, action, returned, state, active, warm, empty_img_valid,
                       act, scan, pending, tls>>
    BY <1>1, <1>3 DEF Drain, DriverReturns
  <2>3. DriverTypeOK' /\ SlotOK'
    BY <1>1, <1>3, <2>2
  <2>4. SequencesOK' /\ StatesOK' /\ SessionOK'
    BY <1>1, <1>3, <2>2
  <2> QED
    BY <2>1, <2>2, <2>3, <2>4
<1>4. CASE SwitchToIdle
  <2>1. Kept
    BY <1>4, ReturnsKept DEF SwitchToIdle
  <2>2. DriverInv'
    BY <1>1, <1>4 DEF SwitchToIdle, DriverReturns
  <2> QED
    BY <2>1, <2>2
<1> QED
  BY <1>2, <1>3, <1>4

LEMMA IdleEndsOK == ASSUME IInv, DriverInv, IdleEnds PROVE Kept /\ DriverInv'
<1>1. /\ MainLoop /\ state = "DEACTIVATING" /\ Running /\ active
      /\ act = "none" /\ scan = "none" /\ pending' = "none"
      /\ UNCHANGED <<act, scan, tls>>
  BY DEF IdleEnds, IInv, ActiveOK
<1>2. PICK error \in DriverErrors : DeactivateIdleComplete(error)
  BY DEF IdleEnds, Error, DriverErrors
<1> QED
  BY <1>1, <1>2, IdleCompleteOK

(* The library's steps leave the driver alone, and it keeps up with them.   *)
LEMMA ExtractionOK ==
  ASSUME IInv, DriverInv, MinutiaeDetected, UNCHANGED driver PROVE DriverInv'
<1>1. /\ MainLoop /\ minutiae
      /\ UNCHANGED <<is_open, action, cancelled, active, finger_present>>
  BY DEF MinutiaeDetected, ExtractionAborts, CaptureExtracted, MatchExtracted,
         LastStageExtracted, StageExtracted, Extracted
<1>2. Running /\ state \in {"INACTIVE", "IDLE", "AWAIT_FINGER_OFF", "DEACTIVATING"}
  BY <1>1, ExtractionRuns
<1>3. CASE ~active
  <2>1. state = "INACTIVE"
    BY <1>2, <1>3 DEF IInv, ActiveOK
  <2>2. state' = "INACTIVE" /\ call' = "none"
    BY <1>1, <1>2, <1>3, <2>1 DEF MinutiaeDetected, ExtractionAborts, CaptureExtracted,
       MatchExtracted, LastStageExtracted, StageExtracted, Extracted, Deactivate,
       IInv, EnrollOK
  <2>3. act = "none" /\ scan = "none" /\ ~deactivating
    BY <1>3, <2>1
  <2> QED
    BY <1>1, <1>2, <2>2, <2>3
<1>4. CASE active
  <2>1. state # "INACTIVE"
    BY <1>2, <1>4 DEF IInv, InactiveOK
  <2>2. returned' = "none"
    BY <1>2, <1>4 DEF MinutiaeDetected, ExtractionAborts, CaptureExtracted,
       MatchExtracted, LastStageExtracted, StageExtracted, Extracted, MaybeComplete
  <2>3. state = "IDLE" => action = "enroll"
    BY <1>1 DEF IInv, CallOK
  <2>4. \/ state # "IDLE" /\ state' = state /\ call' = "none"
        \/ /\ state \in {"IDLE", "AWAIT_FINGER_OFF"}
           /\ state' = "DEACTIVATING" /\ call' = "deactivate"
        \/ state = "IDLE" /\ state' = "AWAIT_FINGER_ON" /\ call' = "change_state"
    <3>1. CASE ExtractionAborts \/ LastStageExtracted
      BY <1>1, <1>2, <1>4, <2>1, <3>1
         DEF ExtractionAborts, LastStageExtracted, Extracted, Deactivate
    <3>2. CASE CaptureExtracted \/ MatchExtracted
      BY <1>1, <2>3, <3>2 DEF CaptureExtracted, MatchExtracted
    <3>3. CASE StageExtracted
      <4>1. /\ state \in {"IDLE", "AWAIT_FINGER_OFF"}
            /\ MaybeAwaitFingerOn(FALSE, finger_present)
        BY <1>1, <1>2, <2>1, <3>3 DEF StageExtracted, IInv, EnrollOK
      <4>2. finger_present <=> state = "AWAIT_FINGER_OFF"
        BY <1>2, <3>3, <4>1 DEF StageExtracted, IInv, FingerOK
      <4> QED
        BY <4>1, <4>2 DEF MaybeAwaitFingerOn
    <3> QED
      BY <3>1, <3>2, <3>3 DEF MinutiaeDetected
  <2>5. /\ act = "none"
        /\ UNCHANGED <<warm, empty_img_valid, act, scan, deactivating, pending, tls>>
    BY <1>2
  <2>6. DriverTypeOK' /\ SlotOK' /\ SessionOK'
    BY <1>1, <1>2, <2>2, <2>5
  <2>7. SequencesOK'
    BY <1>1, <1>2, <1>4, <2>2, <2>4, <2>5
  <2>8. StatesOK'
    BY <1>1, <1>2, <1>4, <2>2, <2>4, <2>5
  <2> QED
    BY <1>1, <2>6, <2>7, <2>8
<1> QED
  BY <1>3, <1>4

LEMMA LibraryOK == ASSUME IInv, DriverInv, Library PROVE Kept /\ DriverInv'
<1>1. LibraryNext /\ UNCHANGED driver /\ Kept
  BY LibraryKept DEF Library
<1>2. CASE StartOpenClose \/ Start \/ StartRawCapture
  BY <1>1, <1>2, ActionsAssumption
     DEF StartOpenClose, Start, StartRawCapture, IInv, RestOK, AtRest
<1>3. CASE RequestCancel
  BY <1>1, <1>3 DEF RequestCancel
<1>4. CASE ReturnInIdle
  <2>1. act = "none" /\ scan = "none" /\ ~deactivating /\ action # "none"
    BY <1>4 DEF ReturnInIdle, IInv, RestOK
  <2>2. /\ action' = "none"
        /\ UNCHANGED <<warm, empty_img_valid, act, scan, deactivating, pending, tls>>
    BY <1>1, <1>4 DEF ReturnInIdle
  <2>3. DriverTypeOK' /\ SlotOK' /\ SequencesOK' /\ StatesOK'
    BY <2>1, <2>2
  <2>4. SessionOK'
    BY <1>4, <2>1, <2>2 DEF ReturnInIdle
  <2> QED
    BY <1>1, <2>2, <2>3, <2>4
<1>5. CASE CancelInIdle
  <2>1. /\ MainLoop /\ cancelled /\ call' \in {"none", "deactivate"}
        /\ UNCHANGED <<is_open, action, returned, cancelled, active, minutiae,
                       finger_present, warm, empty_img_valid, act, scan, deactivating, pending, tls>>
    BY <1>1, <1>5 DEF CancelInIdle, Deactivate, IInv
  <2>2. CASE active /\ state # "DEACTIVATING"
    <3>1. state' = "DEACTIVATING" /\ call' = "deactivate"
      BY <1>5, <2>2 DEF CancelInIdle, Deactivate
    <3>2. Running /\ act = "none" /\ ~deactivating
      BY <2>2 DEF IInv, RestOK, AtRest, ActivatingOK
    <3> QED
      BY <1>1, <2>1, <2>2, <3>1, <3>2
  <2>3. CASE ~(active /\ state # "DEACTIVATING")
    <3>1. state' = state /\ call' = "none"
      BY <1>5, <2>3 DEF CancelInIdle, Deactivate
    <3> QED
      BY <1>1, <2>1, <3>1
  <2> QED
    BY <2>2, <2>3
<1>6. CASE MinutiaeDetected
  BY <1>1, <1>6, ExtractionOK
<1>7. CASE FingerOnWanted
  <2>1. state = "IDLE" /\ ~finger_present /\ action # "none" /\ Running
    BY <1>7 DEF FingerOnWanted, IInv, ImageTypeOK, CallOK, RestOK, AtRest
  <2>2. /\ state' = "AWAIT_FINGER_ON" /\ call' = "change_state"
        /\ UNCHANGED <<is_open, action, returned, active>>
    BY <1>7 DEF FingerOnWanted
  <2> QED
    BY <1>1, <2>1, <2>2
<1>8. CASE FingerLifted
  <2>1. state = "IDLE" /\ ~finger_present /\ Running /\ active
    BY <1>8 DEF FingerLifted, IInv, ImageTypeOK, CallOK, RestOK, AtRest, ActiveOK
  <2>2. UNCHANGED <<is_open, action, returned, cancelled, active, minutiae,
                    finger_present, warm, empty_img_valid, act, scan, deactivating, pending, tls>>
    BY <1>1, <1>8 DEF FingerLifted
  <2>3. \/ minutiae /\ state' = "IDLE" /\ call' = "none"
        \/ state' = "AWAIT_FINGER_ON" /\ call' = "change_state"
        \/ state' = "DEACTIVATING" /\ call' = "deactivate"
    BY <1>8, <2>1 DEF FingerLifted, MaybeAwaitFingerOn, Deactivate
  <2> QED
    BY <1>1, <2>1, <2>2, <2>3
<1> QED
  BY <1>1, <1>2, <1>3, <1>4, <1>5, <1>6, <1>7, <1>8 DEF LibraryNext

-----------------------------------------------------------------------------
(* The invariant is inductive.                                              *)
LEMMA GoodixInitOK == NoLateFailure /\ GoodixInit => IInv /\ DriverInv
BY InitOK DEF GoodixInit, ImageInit, DriverInit

LEMMA GoodixStepOK ==
  IInv /\ DriverInv /\ [GoodixNext]_goodixVars => Kept /\ DriverInv'
<1>1. ASSUME IInv, DriverInv, GoodixNext PROVE Kept /\ DriverInv'
  <2>1. CASE Library
    BY <1>1, <2>1, LibraryOK
  <2>2. CASE VFunc
    BY <1>1, <2>2, DevInitOK, DevDeinitOK, ActivateOK, ScanStartOK, DeactivateOK DEF VFunc
  <2>3. CASE ActivationStep
    BY <1>1, <2>3, ActivationProgressOK, ActivationEndsOK DEF ActivationStep
  <2>4. CASE AcceptEnds
    BY <1>1, <2>4, ActivationProgressOK
  <2>5. CASE ScanStep
    BY <1>1, <2>5, ScanProgressOK, ScanReportsOK, ScanEndsOK DEF ScanStep
  <2>6. CASE IdleEnds
    BY <1>1, <2>6, IdleEndsOK
  <2> QED
    BY <1>1, <2>1, <2>2, <2>3, <2>4, <2>5, <2>6 DEF GoodixNext
<1>2. ASSUME IInv, DriverInv, UNCHANGED goodixVars PROVE Kept /\ DriverInv'
  <2>1. UNCHANGED imageVars /\ UNCHANGED driver
    BY <1>2 DEF goodixVars
  <2>2. Kept
    BY <1>2, <2>1, StutterKept
  <2> QED
    BY <1>2, <2>1, <2>2 DEF imageVars
<1> QED
  BY <1>1, <1>2

HIDE DEF DriverInv, DriverTypeOK, SlotOK, SequencesOK, StatesOK, SessionOK, Running,
        Capturing, CaptureActions, ActStages, ScanStages, FirstStages, BeforeFinger,
        AfterImage, cache, driver, device, image, MainLoop

LEMMA GoodixInvariant == NoLateFailure /\ GoodixSpec => [](IInv /\ DriverInv)
<1>1. IInv /\ DriverInv /\ [GoodixNext]_goodixVars => (IInv /\ DriverInv)'
  BY GoodixStepOK DEF Kept
<1> QED
  BY <1>1, GoodixInitOK, PTL DEF GoodixSpec

-----------------------------------------------------------------------------
(* The 55x4 driver is a driver the image device's contract allows: what     *)
(* ImageDevice_proofs proves of any driver holds of it.                     *)
THEOREM ImplementsImageDevice == NoLateFailure /\ GoodixSpec => KeepsContract
<1>1. GoodixInit => Contract!ImageInit
  BY DEF GoodixInit, ImageInit, Contract!ImageInit
<1>2. IInv /\ DriverInv /\ [GoodixNext]_goodixVars => [Contract!ImageNext]_Contract!imageVars
  BY GoodixStepOK DEF Kept, imageVars, Contract!imageVars
<1> QED
  BY <1>1, <1>2, GoodixInvariant, PTL DEF GoodixSpec, KeepsContract, Contract!ImageSpec

(* What ImageDevice_proofs proves of any driver that keeps the contract is   *)
(* true of this one: in particular every task ends in one result.           *)
THEOREM ContractProperties ==
  NoLateFailure /\ GoodixSpec =>
    /\ [](NothingLeft /\ OneImageAtATime /\ ReportedFirst /\ EnrollsAllStages)
    /\ StateMachine /\ CompletesOnce /\ CancelledEnds
    /\ KeepsTask
<1>1. IInv => NothingLeft /\ OneImageAtATime /\ ReportedFirst /\ EnrollsAllStages
  BY DEF IInv, NothingLeft, RestOK, AtRest, CallOK, Capturing, CaptureActions
<1>2. IInv /\ DriverInv /\ [GoodixNext]_goodixVars => [LibraryNext \/ AnyDriver]_imageVars
  BY GoodixStepOK, ContractLibrary, ContractDriver DEF Kept, Contract!ImageNext
<1>3. IInv /\ DriverInv /\ [GoodixNext]_goodixVars => [ValidChange]_imageVars
  BY <1>2, Changes
<1>4. IInv /\ DriverInv /\ [GoodixNext]_goodixVars =>
        [returned # "none" => returned' \in {returned, "none"}]_returned
  BY <1>2, Changes DEF ReturnsOnce
<1>5. IInv /\ DriverInv /\ [GoodixNext]_goodixVars =>
        [cancelled /\ returned = "none" => returned' # "ok"]_returned
  BY <1>2, Changes DEF ReturnsOnce
<1>6. IInv /\ DriverInv /\ [GoodixNext]_goodixVars => [Task!TaskNext]_Task!taskVars
  BY <1>2, StepKeepsTask
<1>7. GoodixInit => Task!TaskInit
  BY DEF GoodixInit, ImageInit, Task!TaskInit
<1> QED
  BY <1>1, <1>3, <1>4, <1>5, <1>6, <1>7, GoodixInvariant, PTL
     DEF GoodixSpec, StateMachine, CompletesOnce, CancelledEnds, KeepsTask, Task!TaskSpec

(* The driver keeps the types of its state.                                 *)
THEOREM DriverTypeCorrect == NoLateFailure /\ GoodixSpec => []DriverTypeOK
<1>1. IInv /\ DriverInv => DriverTypeOK
  BY DEF DriverInv
<1> QED
  BY <1>1, GoodixInvariant, PTL

(* While an action runs, dev_activate, scan_complete, dev_deactivate or the *)
(* extraction still has a callback to be called that goes on with it.       *)
THEOREM SomeoneAlwaysCompletes == NoLateFailure /\ GoodixSpec => []SomeoneCompletes
<1>1. IInv /\ DriverInv => SomeoneCompletes
  BY DEF SomeoneCompletes, IInv, DriverInv, ImageTypeOK, States, InactiveOK, SlotOK,
         SequencesOK, StatesOK, Running, MainLoop, BeforeFinger, AfterImage
<1> QED
  BY <1>1, GoodixInvariant, PTL

(* dev_activate, dev_change_state and dev_deactivate never find the command *)
(* slot taken by anything but the scan they drain or cancel, and an action  *)
(* that completes leaves no command and no sequence behind.                 *)
THEOREM SlotIsFree == NoLateFailure /\ GoodixSpec => []NeverBusy
<1>1. IInv /\ DriverInv => NeverBusy
  <2> SUFFICES ASSUME IInv, DriverInv PROVE NeverBusy
    OBVIOUS
  <2>1. call \in {"activate", "change_state", "deactivate"} => Running
    BY DEF IInv, ImageTypeOK, RestOK, Running, Capturing
  <2>2. call # "none" => act = "none" /\ ~deactivating
    BY DEF DriverInv, SequencesOK
  <2>3. call = "activate" => pending = "none" /\ scan = "none"
    BY <2>1, <2>2 DEF IInv, CallOK, ActivatingOK, DriverInv, SequencesOK, SlotOK, StatesOK
  <2>4. call = "change_state" => pending = "none" /\ scan = "none"
    BY <2>1, <2>2 DEF IInv, CallOK, DriverInv, DriverTypeOK, SlotOK, StatesOK
  <2>5. call = "deactivate" =>
          \/ pending = "none" /\ scan = "none"
          \/ pending = "scan" /\ scan # "none" /\ (warm \/ cancelled)
    BY <2>2 DEF DriverInv, DriverTypeOK, SlotOK, SessionOK
  <2>6. returned # "none" =>
          pending = "none" /\ scan = "none" /\ act = "none" /\ ~deactivating
    BY DEF DriverInv, SlotOK, SequencesOK, Running, DriverTypeOK
  <2> QED
    BY <2>3, <2>4, <2>5, <2>6 DEF NeverBusy
<1> QED
  BY <1>1, GoodixInvariant, PTL

(* fpi_image_device_image_captured is called only when an image is wanted,  *)
(* and the finger awaited only in AWAIT_FINGER_ON.                          *)
THEOREM ScanInStep == NoLateFailure /\ GoodixSpec => []InStep
<1>1. IInv /\ DriverInv => InStep
  BY DEF InStep, IInv, DriverInv, ImageTypeOK, States, ActivatingOK, InactiveOK, SlotOK,
         SequencesOK, StatesOK, Running, MainLoop, BeforeFinger, AfterImage
<1> QED
  BY <1>1, GoodixInvariant, PTL

(* dev_activate skips the handshake only with a connected session of this   *)
(* open, a background is never used in another session than its own, and    *)
(* goodix_tls never starts a second server.                                 *)
THEOREM SessionsLive == NoLateFailure /\ GoodixSpec => []SessionLives
<1>1. IInv /\ DriverInv => SessionLives
  BY DEF SessionLives, DriverInv, SessionOK, FirstStages
<1> QED
  BY <1>1, GoodixInvariant, PTL

=============================================================================
