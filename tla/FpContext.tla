------------------------------ MODULE FpContext ------------------------------
(***************************************************************************)
(* The context (fp-context.c) around one device: its probe, its removal    *)
(* from the bus, and from the list of devices once it is closed.  Devices  *)
(* do not interact: each has its own signals and its own idle source.      *)
(***************************************************************************)
EXTENDS FpDevice

VARIABLES
  plugged,      \* the device is on the bus
  enumeration,  \* pending while it is probed, then failed or listed, then gone
  watching,     \* device_remove_on_notify_open_cb is connected
  removing      \* idle sources of remove_device

contextVars == <<deviceVars, plugged, enumeration, watching, removing>>

ContextInit ==
  /\ DeviceInit
  /\ plugged = TRUE /\ enumeration = "pending"
  /\ watching = FALSE /\ removing = 0

(* async_device_init_done_cb                                                *)
InitDone ==
  /\ enumeration = "pending"
  /\ enumeration' \in {"listed", "failed"}
  /\ UNCHANGED <<deviceVars, plugged, watching, removing>>

(* Mutation: a device that is open is taken from the list at once.          *)
ReactionAtOnce ==
  /\ UNCHANGED watching
  /\ removing' = IF removed_signals' # removed_signals THEN removing + 1 ELSE removing

(* What the context does in the signals of a step of the device:            *)
(* device_removed_cb and device_remove_on_notify_open_cb.                   *)
Reaction ==
  LET removed == removed_signals' # removed_signals
      notified == watching /\ is_open' # is_open IN
  /\ watching' = (watching \/ (removed /\ is_open'))
  /\ removing' = IF (removed /\ ~is_open') \/ notified THEN removing + 1 ELSE removing

(* A step of the device, which the application may hold on to when the      *)
(* context no longer lists it.                                              *)
DeviceStep ==
  /\ enumeration \in {"listed", "gone"}
  /\ Application \/ Driver \/ Handlers \/ Sources
  /\ Reaction
  /\ UNCHANGED <<plugged, enumeration>>

(* usb_device_removed_cb looks for the device among those that are listed.  *)
Unplug ==
  /\ MainLoop /\ plugged
  /\ plugged' = FALSE
  /\ IF enumeration = "listed"
       THEN Remove /\ Reaction
       ELSE UNCHANGED <<deviceVars, watching, removing>>
  /\ UNCHANGED enumeration

(* remove_device_idle_cb                                                    *)
RemoveInIdle ==
  /\ MainLoop /\ ~flush /\ removing > 0
  /\ removing' = removing - 1
  /\ enumeration' = "gone"
  /\ UNCHANGED <<deviceVars, plugged, watching>>

ContextNext == InitDone \/ DeviceStep \/ Unplug \/ RemoveInIdle

ContextSpec == ContextInit /\ [][ContextNext]_contextVars

ContextFairSpec == ContextSpec /\ DeviceFairness /\ WF_contextVars(RemoveInIdle)

-----------------------------------------------------------------------------
(* Properties.                                                              *)

(* A removal takes its course: it is signalled once, when no task of the    *)
(* application is left that it interrupted; then the device leaves the list *)
(* once, as soon as it is closed and never while it is open.                *)
RemovedWhenClosed ==
  /\ RemovalKept
  /\ enumeration = "gone" => ~is_open
  /\ removing \in 0 .. 1
  /\ removed_signals = 1 => IF is_open THEN watching /\ removing = 0
                                       ELSE enumeration = "listed" <=> removing = 1
  /\ removed_signals = 0 => ~watching /\ removing = 0
=============================================================================
