----------------------------- MODULE Goodix55x4 -----------------------------
(***************************************************************************)
(* The driver of the Goodix 55x4 sensor (drivers/goodixtls/goodix55x4.c)   *)
(* under the image device: its activation sequence with the TLS handshake  *)
(* (goodix.c), its scan sequence, the warm session it keeps between two    *)
(* actions, and its deactivation, which drains or cancels the scan.        *)
(*                                                                         *)
(* The command channel is taken at the level of CommandSlot: one command   *)
(* is outstanding at most, and ends at some point, well or badly.  Which   *)
(* callback it will call is `pending'.  A command that fails before it is  *)
(* outstanding is one that fails at once.                                  *)
(***************************************************************************)
EXTENDS ImageDevice

VARIABLES
  warm,             \* `active' of the driver: the session is kept warm
  empty_img_valid,  \* the background frame is cached
  act,              \* stage of the activation whose command is outstanding
  scan,             \* stage of scan_ssm whose command is outstanding
  deactivating,
  pending,          \* whose callback the outstanding command will call
  tls               \* tls_hop and its thread: none, accepting, connected, failed

cache == <<warm, empty_img_valid>>
driver == <<warm, empty_img_valid, act, scan, deactivating, pending, tls>>
goodixVars == <<imageVars, driver>>

ActStages ==
  {"enable_chip", "firmware_version", "preset_psk_read", "preset_psk_write",
   "reset", "idle_mode", "upload_config_mcu", "request_tls_connection",
   "kh_exchange", "change_cipher_c", "handshake_c",
   "tls_successfully_established"}

ScanStages == {"calibrate", "fdt_mode", "fdt_down", "get_img", "fdt_mode2",
               "fdt_up_no_reply", "fdt_up"}

DriverTypeOK ==
  /\ {warm, empty_img_valid, deactivating} \subseteq BOOLEAN
  /\ act \in ActStages \cup {"none"}
  /\ scan \in ScanStages \cup {"none"}
  /\ pending \in {"none", "activation", "scan", "idle"}
  /\ tls \in {"none", "accepting", "connected", "failed"}

DriverInit ==
  /\ warm = FALSE /\ empty_img_valid = FALSE /\ act = "none" /\ scan = "none"
  /\ deactivating = FALSE /\ pending = "none" /\ tls = "none"

-----------------------------------------------------------------------------
(* Open and close: dev_init and dev_deinit with goodix_dev_init/_deinit.    *)

DevInit ==
  /\ call = "img_open"
  /\ warm' = FALSE /\ empty_img_valid' = FALSE /\ pending' = "none"
  /\ \E e \in Error("open") : OpenComplete(e)
  /\ UNCHANGED <<act, scan, deactivating, tls>>

DevDeinit ==
  /\ call = "img_close"
  /\ warm' = FALSE /\ empty_img_valid' = FALSE
  /\ pending' = "none" /\ tls' = "none"
  /\ \E e \in Error("close") : CloseComplete(e)
  /\ UNCHANGED <<act, scan, deactivating>>

-----------------------------------------------------------------------------
(* Activation: dev_activate, activate_run_state and the TLS handshake.      *)

ActivateWarm ==
  /\ call = "activate" /\ warm
  /\ ActivateComplete("none")
  /\ UNCHANGED driver

(* The TLS session of the past is shut down, the read loop started, and the *)
(* first command sent after a NOP.                                          *)
ActivateCold ==
  /\ call = "activate" /\ ~warm
  /\ empty_img_valid' = FALSE
  /\ tls' = "none"
  /\ act' = "enable_chip" /\ pending' = "activation"
  /\ DriverReturns
  /\ UNCHANGED <<warm, scan, deactivating>>

(* The stages that may follow a stage: the PSK is written only if the one   *)
(* that was read does not match.                                            *)
Follows(stage) ==
  CASE stage = "enable_chip"            -> {"firmware_version"}
    [] stage = "firmware_version"       -> {"preset_psk_read"}
    [] stage = "preset_psk_read"        -> {"preset_psk_write", "reset"}
    [] stage = "preset_psk_write"       -> {"reset"}
    [] stage = "reset"                  -> {"idle_mode"}
    [] stage = "idle_mode"              -> {"upload_config_mcu"}
    [] stage = "request_tls_connection" -> {"kh_exchange"}
    [] stage = "kh_exchange"            -> {"change_cipher_c"}
    [] stage = "change_cipher_c"        -> {"handshake_c"}
    [] stage = "handshake_c"            -> {"tls_successfully_established"}
    [] OTHER                            -> {}

ActivationAdvances ==
  /\ MainLoop /\ pending = "activation"
  /\ act' \in Follows(act)
  /\ UNCHANGED <<imageVars, cache, scan, deactivating, pending, tls>>

(* goodix_tls, from activate_complete: the server thread is started.        *)
TlsStarts ==
  /\ MainLoop /\ pending = "activation" /\ act = "upload_config_mcu"
  /\ tls' = "accepting"
  /\ act' = "request_tls_connection"
  /\ UNCHANGED <<imageVars, cache, scan, deactivating, pending>>

(* The server thread: its handshake ends well only once every message of    *)
(* the sensor was forwarded to it.                                          *)
AcceptEnds ==
  /\ tls = "accepting"
  /\ \/ act = "tls_successfully_established" /\ tls' = "connected"
     \/ "tls" \in Faults /\ tls' = "failed"
  /\ UNCHANGED <<imageVars, cache, act, scan, deactivating, pending>>

(* A command of the activation or of the handshake fails, or its answer is  *)
(* refused: the TLS server, if it was started, is left as it is.            *)
ActivationFails ==
  /\ MainLoop /\ pending = "activation" /\ "activate" \in Faults
  /\ act' = "none" /\ pending' = "none"
  /\ ActivateComplete("error")
  /\ UNCHANGED <<cache, scan, deactivating, tls>>

(* Mutation: the result of the server thread is not looked at.              *)
EstablishedUnchecked ==
  /\ MainLoop /\ pending = "activation" /\ act = "tls_successfully_established"
  /\ act' = "none" /\ pending' = "none"
  /\ warm' = TRUE
  /\ ActivateComplete("none")
  /\ UNCHANGED <<empty_img_valid, scan, deactivating, tls>>

(* on_tls_successfully_established joins the server thread, then            *)
(* tls_activation_complete.                                                 *)
Established ==
  /\ MainLoop /\ pending = "activation" /\ act = "tls_successfully_established"
  /\ tls # "accepting"
  /\ act' = "none" /\ pending' = "none"
  /\ \/ tls = "connected" /\ warm' = TRUE /\ ActivateComplete("none")
     \/ tls # "connected" /\ UNCHANGED warm /\ ActivateComplete("error")
  /\ UNCHANGED <<empty_img_valid, scan, deactivating, tls>>

-----------------------------------------------------------------------------
(* Scan: scan_start, scan_run_state, scan_complete.                         *)

(* dev_change_state to AWAIT_FINGER_ON.                                     *)
ScanStart ==
  /\ call = "change_state"
  /\ scan' = IF empty_img_valid THEN "fdt_mode" ELSE "calibrate"
  /\ pending' = "scan"
  /\ DriverReturns
  /\ UNCHANGED <<cache, act, deactivating, tls>>

ScanReply == MainLoop /\ pending = "scan"

(* on_scan_empty_img                                                        *)
Calibrated ==
  /\ ScanReply /\ scan = "calibrate"
  /\ empty_img_valid' = TRUE
  /\ scan' = "fdt_mode"
  /\ UNCHANGED <<imageVars, warm, act, deactivating, pending, tls>>

(* The stages that only send the next command.                              *)
ScanFollows ==
  [fdt_mode |-> "fdt_down", fdt_mode2 |-> "fdt_up_no_reply",
   fdt_up_no_reply |-> "fdt_up"]

ScanAdvances ==
  /\ ScanReply /\ scan \in DOMAIN ScanFollows
  /\ scan' = ScanFollows[scan]
  /\ UNCHANGED <<imageVars, cache, act, deactivating, pending, tls>>

(* FDT_DOWN is answered when a finger touches the sensor.                   *)
FingerDown ==
  /\ ScanReply /\ scan = "fdt_down"
  /\ ReportFinger(TRUE)
  /\ scan' = "get_img"
  /\ UNCHANGED <<cache, act, deactivating, pending, tls>>

(* scan_on_read_img                                                         *)
ImageRead ==
  /\ ScanReply /\ scan = "get_img"
  /\ ImageCaptured
  /\ scan' = "fdt_mode2"
  /\ UNCHANGED <<cache, act, deactivating, pending, tls>>

(* deactivate_idle_complete                                                 *)
DeactivateIdleComplete(error) ==
  /\ warm' = (warm /\ error = "none")
  /\ empty_img_valid' = (empty_img_valid /\ error = "none")
  /\ deactivating' = FALSE
  /\ DeactivateComplete(error)

(* Mutation: a drained deactivation is not completed.                       *)
FingerUpForgets ==
  /\ ScanReply /\ scan = "fdt_up"
  /\ scan' = "none" /\ pending' = "none"
  /\ ReportFinger(FALSE)
  /\ UNCHANGED <<cache, deactivating, act, tls>>

(* FDT_UP is answered when the finger is lifted: the scan completes, and    *)
(* with it a deactivation that waited for it.                               *)
FingerUp ==
  /\ ScanReply /\ scan = "fdt_up"
  /\ scan' = "none" /\ pending' = "none"
  /\ \/ deactivating /\ DeactivateIdleComplete("none")
     \/ ~deactivating /\ ReportFinger(FALSE) /\ UNCHANGED <<cache, deactivating>>
  /\ UNCHANGED <<act, tls>>

(* The scans of an enrollment are a fault of their own: they may fail while *)
(* the image before is still looked at.                                     *)
ScanFault == IF action = "enroll" THEN "enroll_scan" ELSE "scan"

(* scan_complete with an error that is not the cancellation of the scan.    *)
ScanFails ==
  /\ ScanReply /\ ScanFault \in Faults
  /\ scan' = "none" /\ pending' = "none"
  /\ \/ deactivating /\ DeactivateIdleComplete("error")
     \/ /\ ~deactivating
        /\ warm' = FALSE /\ empty_img_valid' = FALSE
        /\ SessionError("error")
        /\ UNCHANGED deactivating
  /\ UNCHANGED <<act, tls>>

-----------------------------------------------------------------------------
(* Deactivation: dev_deactivate.                                            *)

(* Mutation: the deactivation completes while the scan goes on.             *)
DrainAtOnce ==
  /\ call = "deactivate" /\ warm /\ ~cancelled
  /\ DeactivateIdleComplete("none")
  /\ UNCHANGED <<act, scan, pending, tls>>

(* A normal deactivation of a warm session waits for the scan, if any.      *)
Drain ==
  /\ call = "deactivate" /\ warm /\ ~cancelled
  /\ \/ scan = "none" /\ DeactivateIdleComplete("none")
     \/ scan # "none" /\ deactivating' = TRUE /\ DriverReturns /\ UNCHANGED cache
  /\ UNCHANGED <<act, scan, pending, tls>>

(* Mutation: the cancelled scan keeps its command.                          *)
SwitchToIdleKeepsScan ==
  /\ call = "deactivate" /\ (cancelled \/ ~warm)
  /\ deactivating' = TRUE
  /\ pending' = IF scan = "none" THEN "idle" ELSE "scan"
  /\ DriverReturns
  /\ UNCHANGED <<cache, act, scan, tls>>

(* Any other ends the scan, if any, with a cancellation, and sends the      *)
(* sensor to idle.                                                          *)
SwitchToIdle ==
  /\ call = "deactivate" /\ (cancelled \/ ~warm)
  /\ deactivating' = TRUE
  /\ scan' = "none"
  /\ pending' = "idle"
  /\ DriverReturns
  /\ UNCHANGED <<cache, act, tls>>

(* Mutation: the failure of the idle command is reported as one of the scan. *)
IdleEndsReports ==
  /\ MainLoop /\ pending = "idle"
  /\ pending' = "none"
  /\ deactivating' = FALSE
  /\ \E e \in Error("idle") :
       IF e = "none" THEN DeactivateComplete(e) ELSE SessionError(e)
  /\ UNCHANGED <<cache, act, scan, tls>>

(* The idle command ends, and with it the deactivation that sent it.        *)
IdleEnds ==
  /\ MainLoop /\ pending = "idle"
  /\ pending' = "none"
  /\ \E e \in Error("idle") : DeactivateIdleComplete(e)
  /\ UNCHANGED <<act, scan, tls>>

-----------------------------------------------------------------------------
VFunc ==
  \/ DevInit \/ DevDeinit \/ ActivateWarm \/ ActivateCold
  \/ ScanStart \/ Drain \/ SwitchToIdle

ActivationStep == ActivationAdvances \/ TlsStarts \/ ActivationFails \/ Established

ScanStep ==
  \/ Calibrated \/ ScanAdvances \/ FingerDown \/ ImageRead \/ FingerUp \/ ScanFails

Library == LibraryNext /\ UNCHANGED driver

GoodixInit == ImageInit /\ DriverInit

GoodixNext ==
  \/ Library \/ VFunc \/ ActivationStep \/ AcceptEnds \/ ScanStep \/ IdleEnds

GoodixSpec == GoodixInit /\ [][GoodixNext]_goodixVars

(* The main loop dispatches its idle sources, the threads of the extraction *)
(* and of the TLS server end, a synchronous call runs, and a command that   *)
(* is timed ends.  Nothing is assumed of the finger, nor of the commands    *)
(* that have no timer: FDT and request_tls_connection.                      *)
GoodixFairness ==
  /\ WF_goodixVars(VFunc)
  /\ WF_goodixVars(AcceptEnds)
  /\ WF_goodixVars(IdleEnds)
  /\ WF_goodixVars(ActivationStep /\ act # "request_tls_connection")
  /\ WF_goodixVars(ScanStep /\ scan \in {"calibrate", "get_img"})
  /\ WF_goodixVars(Library /\ (CancelInIdle \/ MinutiaeDetected \/ ReturnInIdle
                                 \/ FingerOnWanted \/ FingerLifted))

GoodixFairSpec == GoodixSpec /\ GoodixFairness

-----------------------------------------------------------------------------
(* Properties.                                                              *)

(* An action that has not completed always waits for something that will    *)
(* call it back: a command with the right callback, the extraction of its   *)
(* minutiae, or a call that is about to run.  In particular a deactivation  *)
(* waits for the scan it drains or for the idle command, never for nothing. *)
SomeoneCompletes ==
  Capturing /\ returned = "none" /\ MainLoop =>
    /\ state = "ACTIVATING" => pending = "activation" /\ act # "none"
    /\ state = "DEACTIVATING" =>
         \/ pending = "idle" /\ scan = "none"
         \/ pending = "scan" /\ scan # "none" /\ deactivating
    /\ state \notin {"ACTIVATING", "DEACTIVATING"} =>
         minutiae \/ (pending = "scan" /\ scan # "none")

(* No command of the driver is refused because another one is running: the  *)
(* slot is free whenever a virtual function is about to send one, or holds  *)
(* the scan that the virtual function cancels or drains (the assertion of   *)
(* scan_start holds), and nothing of the driver outlives the action.        *)
NeverBusy ==
  /\ call \in {"activate", "change_state"} => pending = "none" /\ scan = "none"
  /\ call = "deactivate" =>
       \/ pending = "none" /\ scan = "none"
       \/ pending = "scan" /\ scan # "none" /\ (warm \/ cancelled)
  /\ returned # "none" => pending = "none" /\ scan = "none" /\ act = "none" /\ ~deactivating

(* The scan sequence and the image device advance together: an image is     *)
(* read only while the image device wants one, so none is dropped, and the  *)
(* finger is awaited only while it waits for it.                            *)
InStep ==
  /\ scan \in {"calibrate", "fdt_mode", "fdt_down"} /\ MainLoop =>
       state = "AWAIT_FINGER_ON"
  /\ scan = "get_img" /\ MainLoop => state = "CAPTURE"
  /\ scan \in {"fdt_mode2", "fdt_up_no_reply", "fdt_up"} =>
       state \in {"AWAIT_FINGER_OFF", "DEACTIVATING"}
  /\ deactivating => state = "DEACTIVATING"

(* A session lives from its handshake to its shutdown: one that is reused   *)
(* is connected, the cached background was captured in it, and when a       *)
(* handshake begins there is none, as goodix_tls asserts.                   *)
SessionLives ==
  /\ warm => tls = "connected" /\ (is_open \/ action = "open")
  /\ empty_img_valid => warm
  /\ scan \in {"fdt_down", "get_img"} => empty_img_valid
  /\ act = "upload_config_mcu" => tls = "none"

Contract == INSTANCE ImageDevice
  WITH Faults <- {"open", "close", "activate", "session", "deactivate"}

(* The driver keeps the contract of the image device API: it answers each   *)
(* call once, reports no error while it deactivates, and reports fingers    *)
(* and images only while it is active.                                      *)
KeepsContract == Contract!ImageSpec

(* A cancellation that reaches a scan ends the action, whatever the sensor  *)
(* and the finger do.                                                       *)
CancelledScanEnds ==
  (cancel_idle /\ MainLoop /\ state \in {"AWAIT_FINGER_ON", "CAPTURE"})
    ~> action = "none"

(* Drivers must handle cancellation of any operation that requires          *)
(* capturing (fpi-device.h): a cancelled action that is active ends.        *)
CancelEnds == (cancelled /\ active) ~> action = "none"
=============================================================================
