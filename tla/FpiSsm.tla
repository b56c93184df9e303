------------------------------- MODULE FpiSsm -------------------------------
(***************************************************************************)
(* The sequential state machines of the drivers (fpi-ssm.c): their states, *)
(* their cleanup states, delayed transitions, and machines that run as a   *)
(* state of another one.                                                   *)
(*                                                                         *)
(* A transition calls the handler of the next state, and a completion the  *)
(* callback, from within the call that makes it.  Such a call is the last  *)
(* thing its caller does, so the handlers and callbacks below it on the    *)
(* stack only return: `phase' says which machine is the innermost one, and *)
(* the machines that completed are freed when the stack unwinds.           *)
(*                                                                         *)
(* The handlers, the callbacks and the answers that a machine waits for    *)
(* are those of any driver that calls a machine only while it may (see     *)
(* Acts), and starts each machine once.                                    *)
(***************************************************************************)
EXTENDS Integers

CONSTANTS
  Machines,
  NrStates,      \* nr_states of each machine
  StartCleanup,  \* start_cleanup of each machine
  None           \* NULL: no machine, no error

(* What fpi_ssm_new_full asks for.                                          *)
ASSUME StatesAssumption ==
  /\ NrStates \in [Machines -> Nat] /\ StartCleanup \in [Machines -> Nat]
  /\ \A m \in Machines : 1 <= StartCleanup[m] /\ StartCleanup[m] <= NrStates[m]
ASSUME NoneAssumption == None \notin Machines

VARIABLES
  cur_state, completed, parentsm,
  error,       \* the machine whose failure it is
  timeout,     \* what the timer will do, see Timers
  phase,       \* where the machine is, see Phases
  finishing,   \* the machines that a call below on the stack will free
  entered,     \* history: the cleanup states whose handler was called
  bypassed     \* history: the cleanup states that the driver jumped over

progress == <<cur_state, completed, error, timeout, finishing, entered>>
ssmVars == <<progress, parentsm, phase, bypassed>>

(* A timer jumps to a state, or does one of these.                          *)
NoTimer == -1
ToNext == -2
ToCompletion == -3
Timers(m) == {NoTimer, ToNext, ToCompletion} \cup 0 .. NrStates[m]

CleanupStates(m) == StartCleanup[m] .. NrStates[m] - 1

(* A machine waits for an answer, for a timer or for a machine it started.  *)
Phases == {"new", "handler", "waits", "subsm", "callback", "ended", "freed"}

SsmInit ==
  /\ cur_state = [m \in Machines |-> 0]
  /\ completed = [m \in Machines |-> TRUE]
  /\ parentsm = [m \in Machines |-> None]
  /\ error = [m \in Machines |-> None]
  /\ timeout = [m \in Machines |-> NoTimer]
  /\ phase = [m \in Machines |-> "new"]
  /\ finishing = {}
  /\ entered = [m \in Machines |-> {}]
  /\ bypassed = [m \in Machines |-> {}]

Innermost(m) == phase[m] \in {"handler", "callback"}

(* The stack is empty: the main loop dispatches the next source.            *)
MainLoop == finishing = {} /\ \A m \in Machines : ~Innermost(m)

(* The driver may call the machine: from its handler, or from the callback  *)
(* of a transfer that it waits for.                                         *)
Acts(m) == phase[m] = "handler" \/ (phase[m] = "waits" /\ MainLoop)

(* A callback that makes its last call.                                     *)
Left == [m \in Machines |-> IF phase[m] = "callback" THEN "ended" ELSE phase[m]]

-----------------------------------------------------------------------------
(* Mutation: the timer is not cleared.                                      *)
EnterKeepsTimer(m, s) ==
  /\ cur_state' = [cur_state EXCEPT ![m] = s]
  /\ phase' = [Left EXCEPT ![m] = "handler"]
  /\ entered' = [entered EXCEPT ![m] = @ \cup ({s} \cap CleanupStates(m))]
  /\ UNCHANGED <<timeout, completed, finishing>>

(* __ssm_call_handler, for the state s; any timer is gone by then.          *)
Enter(m, s) ==
  /\ cur_state' = [cur_state EXCEPT ![m] = s]
  /\ timeout' = [timeout EXCEPT ![m] = NoTimer]
  /\ phase' = [Left EXCEPT ![m] = "handler"]
  /\ entered' = [entered EXCEPT ![m] = @ \cup ({s} \cap CleanupStates(m))]
  /\ UNCHANGED <<completed, finishing>>

(* The callback is called, and then fpi_ssm_free.                           *)
Finish(m, s) ==
  /\ cur_state' = [cur_state EXCEPT ![m] = s]
  /\ timeout' = [timeout EXCEPT ![m] = NoTimer]
  /\ completed' = [completed EXCEPT ![m] = TRUE]
  /\ phase' = [Left EXCEPT ![m] = "callback"]
  /\ finishing' = finishing \cup {m}
  /\ UNCHANGED entered

(* Mutation: a completion in a cleanup state ends the machine.              *)
CompleteSkipsCleanup(m, s) ==
  IF s < StartCleanup[m] /\ StartCleanup[m] < NrStates[m]
    THEN Enter(m, StartCleanup[m]) ELSE Finish(m, s)

(* fpi_ssm_mark_completed, of a machine in the state s.                     *)
Complete(m, s) ==
  LET next == IF s < StartCleanup[m] THEN StartCleanup[m] ELSE s + 1
  IN  IF next < NrStates[m] THEN Enter(m, next) ELSE Finish(m, s)

(* fpi_ssm_jump_to_state; one further is fpi_ssm_next_state.                *)
Go(m, s) == IF s = NrStates[m] THEN Complete(m, s) ELSE Enter(m, s)

(* Mutation: the last error is kept.                                        *)
FailLast(m, e) ==
  /\ error' = [error EXCEPT ![m] = e]
  /\ Complete(m, cur_state[m])

(* fpi_ssm_mark_failed: the first error is kept.  Outside of the cleanup, a *)
(* machine that has one ignores the call, and whoever made it returns.      *)
Fail(m, e) ==
  IF error[m] # None /\ cur_state[m] < StartCleanup[m]
    THEN /\ phase' = [Left EXCEPT ![m] = "waits"]
         /\ UNCHANGED progress
    ELSE /\ error' = [error EXCEPT ![m] = IF @ = None THEN e ELSE @]
         /\ Complete(m, cur_state[m])

(* The cleanup states that a jump leaves out.                               *)
Over(m, s) == {x \in CleanupStates(m) : cur_state[m] < x /\ x < s}

-----------------------------------------------------------------------------
(* Calls of the driver.                                                     *)

(* fpi_ssm_start: of a new machine, in the main loop or as the last thing   *)
(* in the callback of another one.                                          *)
Starting(m) ==
  /\ cur_state' = [cur_state EXCEPT ![m] = 0]
  /\ completed' = [completed EXCEPT ![m] = FALSE]
  /\ error' = [error EXCEPT ![m] = None]
  /\ entered' = [entered EXCEPT ![m] = {}]
  /\ UNCHANGED <<finishing, bypassed>>

Start(m) ==
  /\ phase[m] = "new"
  /\ MainLoop \/ \E c \in Machines : phase[c] = "callback" /\ parentsm[c] = None
  /\ Starting(m)
  /\ phase' = [Left EXCEPT ![m] = "handler"]
  /\ UNCHANGED <<timeout, parentsm>>

(* Mutation: the delayed transition of the parent is forgotten.             *)
StartSubsmKeepsTimer(p, m) ==
  /\ Acts(p) /\ phase[m] = "new"
  /\ Starting(m)
  /\ parentsm' = [parentsm EXCEPT ![m] = p]
  /\ phase' = [phase EXCEPT ![p] = "subsm", ![m] = "handler"]
  /\ UNCHANGED timeout

(* fpi_ssm_start_subsm                                                      *)
StartSubsm(p, m) ==
  /\ Acts(p) /\ phase[m] = "new"
  /\ Starting(m)
  /\ parentsm' = [parentsm EXCEPT ![m] = p]
  /\ timeout' = [timeout EXCEPT ![p] = NoTimer, ![m] = NoTimer]
  /\ phase' = [phase EXCEPT ![p] = "subsm", ![m] = "handler"]

(* fpi_ssm_next_state, or fpi_ssm_usb_transfer_cb                           *)
NextState(m) ==
  /\ Acts(m)
  /\ Go(m, cur_state[m] + 1)
  /\ UNCHANGED <<error, parentsm, bypassed>>

(* The states a driver jumps to: after a failure, none before the cleanup.  *)
Jumps(m) == {s \in 0 .. NrStates[m] : error[m] = None \/ s >= StartCleanup[m]}

Jump(m, s) ==
  /\ Go(m, s)
  /\ bypassed' = [bypassed EXCEPT ![m] = @ \cup Over(m, s)]

JumpToState(m) ==
  /\ Acts(m)
  /\ \E s \in Jumps(m) : Jump(m, s)
  /\ UNCHANGED <<error, parentsm>>

MarkCompleted(m) ==
  /\ Acts(m)
  /\ Complete(m, cur_state[m])
  /\ UNCHANGED <<error, parentsm, bypassed>>

MarkFailed(m) ==
  /\ Acts(m)
  /\ Fail(m, m)
  /\ UNCHANGED <<parentsm, bypassed>>

(* fpi_ssm_next_state_delayed, fpi_ssm_mark_completed_delayed and           *)
(* fpi_ssm_jump_to_state_delayed: a timer that was set before is replaced.  *)
Delay(m) ==
  /\ Acts(m)
  /\ \E t \in {ToNext, ToCompletion} \cup Jumps(m) :
       timeout' = [timeout EXCEPT ![m] = t]
  /\ phase' = [phase EXCEPT ![m] = "waits"]
  /\ UNCHANGED <<cur_state, completed, error, finishing, entered, parentsm, bypassed>>

(* fpi_ssm_cancel_delayed_state_change                                      *)
CancelDelayed(m) ==
  /\ MainLoop /\ phase[m] = "waits" /\ timeout[m] # NoTimer
  /\ timeout' = [timeout EXCEPT ![m] = NoTimer]
  /\ UNCHANGED <<cur_state, completed, error, finishing, entered, parentsm,
                 phase, bypassed>>

(* The handler has started something and returns.                           *)
HandlerReturns(m) ==
  /\ phase[m] = "handler"
  /\ phase' = [phase EXCEPT ![m] = "waits"]
  /\ UNCHANGED <<progress, parentsm, bypassed>>

(* The callback returns.                                                    *)
CallbackReturns(m) ==
  /\ phase[m] = "callback" /\ parentsm[m] = None
  /\ phase' = Left
  /\ UNCHANGED <<progress, parentsm, bypassed>>

-----------------------------------------------------------------------------
(* What the library does.                                                   *)

(* The delayed transitions: nobody asks whether the machine still waits.    *)

(* on_device_timeout_next_state                                             *)
TimeoutNextState(m) ==
  timeout[m] = ToNext /\ Go(m, cur_state[m] + 1) /\ UNCHANGED bypassed

(* on_device_timeout_complete                                               *)
TimeoutComplete(m) ==
  timeout[m] = ToCompletion /\ Complete(m, cur_state[m]) /\ UNCHANGED bypassed

(* on_device_timeout_jump_to_state                                          *)
TimeoutJumpToState(m) == timeout[m] >= 0 /\ Jump(m, timeout[m])

Timeout(m) ==
  /\ MainLoop
  /\ TimeoutNextState(m) \/ TimeoutComplete(m) \/ TimeoutJumpToState(m)
  /\ UNCHANGED <<error, parentsm>>

(* __subsm_complete, the callback of a child                                *)
SubsmComplete(m) ==
  /\ phase[m] = "callback" /\ parentsm[m] # None
  /\ IF error[m] # None
       THEN Fail(parentsm[m], error[m])
       ELSE Go(parentsm[m], cur_state[parentsm[m]] + 1) /\ UNCHANGED error
  /\ UNCHANGED <<parentsm, bypassed>>

(* fpi_ssm_free, when the stack unwinds or of a machine that was not started *)
Free(m) ==
  /\ \A o \in Machines : ~Innermost(o)
  /\ m \in finishing \/ (finishing = {} /\ phase[m] = "new")
  /\ finishing' = finishing \ {m}
  /\ timeout' = [timeout EXCEPT ![m] = NoTimer]
  /\ error' = [error EXCEPT ![m] = None]
  /\ phase' = [phase EXCEPT ![m] = "freed"]
  /\ cur_state' = [cur_state EXCEPT ![m] = 0]
  /\ parentsm' = [parentsm EXCEPT ![m] = None]
  /\ entered' = [entered EXCEPT ![m] = {}] /\ bypassed' = [bypassed EXCEPT ![m] = {}]
  /\ UNCHANGED completed

-----------------------------------------------------------------------------
Driver(m) ==
  \/ Start(m) \/ \E p \in Machines : StartSubsm(p, m)
  \/ NextState(m) \/ JumpToState(m) \/ MarkCompleted(m) \/ MarkFailed(m)
  \/ Delay(m) \/ CancelDelayed(m) \/ HandlerReturns(m) \/ CallbackReturns(m)

Library(m) == Timeout(m) \/ SubsmComplete(m) \/ Free(m)

SsmNext == \E m \in Machines : Driver(m) \/ Library(m)

SsmSpec == SsmInit /\ [][SsmNext]_ssmVars

-----------------------------------------------------------------------------
(* Properties.                                                              *)

SsmTypeOK ==
  /\ cur_state \in [Machines -> Int]
  /\ \A m \in Machines : cur_state[m] \in 0 .. NrStates[m]
  /\ completed \in [Machines -> BOOLEAN]
  /\ parentsm \in [Machines -> Machines \cup {None}]
  /\ error \in [Machines -> Machines \cup {None}]
  /\ timeout \in [Machines -> Int]
  /\ \A m \in Machines : timeout[m] \in Timers(m)
  /\ phase \in [Machines -> Phases]
  /\ finishing \subseteq Machines
  /\ entered \in [Machines -> SUBSET Nat]
  /\ bypassed \in [Machines -> SUBSET Nat]

(* The machine was started, and has not called its callback to the end.     *)
Alive(m) == phase[m] \in {"handler", "waits", "subsm", "callback"}

(* The machines that a machine has started and that will call it back.      *)
Children(p) == {c \in Machines : parentsm[c] = p /\ Alive(c)}

(* A machine that started another one waits for it, and for it only: it is  *)
(* there when __subsm_complete calls it, nobody has advanced or freed it.   *)
ParentsWait ==
  \A p \in Machines :
    /\ Children(p) # {} <=> phase[p] = "subsm"
    /\ \A c, d \in Children(p) : c = d

(* A timer belongs to a machine that waits for it: none is left to one that *)
(* went on, that started a machine, that completed or was freed.            *)
TimersAreAwaited ==
  \A m \in Machines : timeout[m] # NoTimer => phase[m] = "waits" /\ ~completed[m]

(* The cleanup states "will never be skipped when marking the SSM as        *)
(* completed" (fpi-ssm.c:39): whatever path it took, also through jumps,    *)
(* delays and failures of other machines, a machine that completes has      *)
(* entered every one of them but those that its driver jumped over.         *)
CleanupIsDone ==
  \A m \in Machines :
    phase[m] \in {"callback", "ended"} =>
      CleanupStates(m) \subseteq entered[m] \cup bypassed[m]

(* After a failure, its own or that of a machine it started, a machine only *)
(* cleans up.                                                               *)
FailedCleansUp ==
  \A m \in Machines :
    error[m] # None /\ phase[m] \in {"handler", "waits", "subsm"} =>
      cur_state[m] >= StartCleanup[m]

(* A machine returns the first error it got, and its parent gets it, unless *)
(* that has one already.                                                    *)
FirstErrorIsKept ==
  [][\A m \in Machines :
       /\ error[m] # None /\ phase'[m] # "freed" => error'[m] = error[m]
       /\ phase[m] = "callback" /\ phase'[m] = "ended" /\ parentsm[m] # None =>
            error'[parentsm[m]] =
              IF error[parentsm[m]] = None THEN error[m] ELSE error[parentsm[m]]]_ssmVars
=============================================================================
