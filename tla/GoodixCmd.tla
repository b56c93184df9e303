------------------------------ MODULE GoodixCmd ------------------------------
(***************************************************************************)
(* The command channel of the Goodix TLS drivers (drivers/goodixtls/       *)
(* goodix.c): one command at a time over a USB pipe, matched with its ACK  *)
(* and its reply by command byte only, timed by a GLib timer, and read by  *)
(* a loop of bulk transfers that resubmits itself.                         *)
(*                                                                         *)
(* Every step is one callback of the GLib main loop or one synchronous     *)
(* call made inside it: while the callback of a command runs (fired) or    *)
(* goodix_send_nop has still to call goodix_receive_done (in_nop), the     *)
(* main loop dispatches nothing else.                                      *)
(*                                                                         *)
(* The driver is any client that issues commands from the main loop or     *)
(* from a callback, and NOPs only on an idle channel, as the activation    *)
(* sequence of goodix55x4.c does.  The sensor is any device that ACKs and  *)
(* answers the commands it receives, in its own time or never.             *)
(***************************************************************************)
EXTENDS Naturals, Sequences, FiniteSets, GoodixCommands

CONSTANTS
  Requests,   \* the commands the client issues, among Commands
  MaxCalls,   \* bound on the calls of one behaviour
  MaxWire,    \* bound on the packs in flight from the sensor to the host
  MaxOpens    \* bound on the times the device is opened

ASSUME RequestsAssumption == Requests \subseteq Commands \ {read_tls}
ASSUME BoundsAssumption == {MaxCalls, MaxWire, MaxOpens} \subseteq Nat

VARIABLES
  ack, reply,  \* what the outstanding command still waits for
  timeout,     \* its timer is armed
  cmd,         \* byte of the last command sent (kept when it completes)
  callback,    \* the call whose callback is registered, or 0
  fired,       \* the call whose callback is running, or 0
  in_nop,      \* goodix_send_nop is between its two calls
  calls,       \* every call made so far: request, outcome and answer
  wire,        \* packs the sensor sent and the host has not read
  unacked,     \* calls the sensor received and has not ACKed
  owed,        \* owed[c]: replies the sensor still owes to call c
  inited,      \* the read loop was started since the device was opened
  reads,       \* bulk reads in flight that deliver to the current session
  opens        \* 2n-1 while the device is open for the nth time, else 2n

chan == <<ack, reply, timeout, cmd, callback>>
host == <<fired, in_nop>>
sensor == <<unacked, owed>>
session == <<inited, reads, opens>>
vars == <<ack, reply, timeout, cmd, callback, fired, in_nop, calls, wire,
          unacked, owed, inited, reads, opens>>

-----------------------------------------------------------------------------
Ids == 1 .. MaxCalls

(* A call that is refused is "busy", one that a close discards without its  *)
(* callback is "dropped", one that ends with any other error "failed".      *)
Outcomes == {"pending", "ok", "busy", "failed", "dropped"}

(* A call: its request, how it ended, the handshake it belongs to (its own  *)
(* number, unless it is a read_tls) and the tag of the pack that ended it.  *)
Call == [req: Commands, outcome: Outcomes, tag: Ids, by: 0 .. MaxCalls]

Pack == [kind: {"ack", "protocol", "tls", "tls data"},
         byte: {c.byte : c \in Commands}, tag: Ids]

TypeOK ==
  /\ {ack, reply, timeout, in_nop, inited} \subseteq BOOLEAN
  /\ cmd \in {c.byte : c \in Commands}
  /\ {callback, fired} \subseteq 0 .. Len(calls)
  /\ calls \in Seq(Call) /\ Len(calls) <= MaxCalls
  /\ wire \in Seq(Pack)
  /\ unacked \in Seq(Ids)
  /\ owed \in [Ids -> Nat]
  /\ reads \in Nat /\ opens \in Nat

Init ==
  /\ ack = FALSE /\ reply = FALSE /\ timeout = FALSE
  /\ in_nop = FALSE /\ inited = FALSE
  /\ cmd = nop.byte
  /\ callback = 0 /\ fired = 0
  /\ calls = << >> /\ wire = << >> /\ unacked = << >>
  /\ owed = [i \in Ids |-> 0]
  /\ reads = 0 /\ opens = 0

Opened == opens % 2 = 1
Busy == ack \/ reply
MainLoop == fired = 0 /\ ~in_nop

-----------------------------------------------------------------------------
(* Mutation: the timer of the command survives it.                          *)
ResetStateKeepsTimer ==
  /\ ack' = FALSE /\ reply' = FALSE /\ callback' = 0
  /\ UNCHANGED timeout

(* goodix_reset_state: cmd is not cleared.                                  *)
ResetState ==
  /\ ack' = FALSE /\ reply' = FALSE /\ timeout' = FALSE /\ callback' = 0

(* Mutation: the state is reset but the callback is not called.             *)
ReceiveDoneSilent(outcome, by) ==
  IF Busy
  THEN /\ ResetState
       /\ calls' = [calls EXCEPT ![callback].outcome = outcome,
                                 ![callback].by = by]
       /\ UNCHANGED fired
  ELSE UNCHANGED <<ack, reply, timeout, callback, fired, calls>>

(* goodix_receive_done: the outstanding command ends with this outcome and  *)
(* its callback is called; without one, the result is dropped.              *)
ReceiveDone(outcome, by) ==
  IF Busy
  THEN /\ ResetState
       /\ fired' = callback
       /\ calls' = [calls EXCEPT ![callback].outcome = outcome,
                                 ![callback].by = by]
  ELSE UNCHANGED <<ack, reply, timeout, callback, fired, calls>>

-----------------------------------------------------------------------------
(* goodix_send_protocol and the callers that reach it.                      *)

NewCall == Len(calls) + 1

AddCall(r, outcome, tag) ==
  /\ Len(calls) < MaxCalls
  /\ calls' = Append(calls,
                     [req |-> r, outcome |-> outcome, tag |-> tag, by |-> 0])

(* A command is already running, or its timer is.                           *)
SendBusy(r) ==
  /\ Busy \/ timeout
  /\ AddCall(r, "busy", NewCall)
  /\ fired' = NewCall
  /\ UNCHANGED <<chan, wire, sensor>>

SendOk(r) ==
  /\ ~(Busy \/ timeout)
  /\ AddCall(r, "pending", NewCall)
  /\ timeout' = r.timed
  /\ cmd' = r.byte
  /\ ack' = TRUE
  /\ reply' = r.reply
  /\ callback' = NewCall
  /\ fired' = 0
  /\ unacked' = Append(unacked, NewCall)
  /\ UNCHANGED <<wire, owed>>

(* The USB transfer fails: goodix_receive_done undoes the registration.     *)
SendFails(r) ==
  /\ ~(Busy \/ timeout)
  /\ AddCall(r, "failed", NewCall)
  /\ cmd' = r.byte
  /\ ResetState
  /\ fired' = NewCall
  /\ UNCHANGED <<wire, sensor>>

(* Mutation: nobody looks whether a command is already running.             *)
SendProtocolUnguarded(r) ==
  /\ AddCall(r, "pending", NewCall)
  /\ timeout' = r.timed /\ cmd' = r.byte
  /\ ack' = TRUE /\ reply' = r.reply
  /\ callback' = NewCall /\ fired' = 0
  /\ unacked' = Append(unacked, NewCall)
  /\ UNCHANGED <<wire, owed>>

SendProtocol(r) == SendBusy(r) \/ SendOk(r) \/ SendFails(r)

(* goodix_send_nop calls goodix_receive_done as soon as the NOP is sent.    *)
SendNop == ~Busy /\ SendProtocol(nop) /\ in_nop' = TRUE

NopDone ==
  /\ in_nop /\ fired = 0
  /\ in_nop' = FALSE
  /\ ReceiveDone("ok", 0)
  /\ UNCHANGED <<cmd, wire, sensor, session>>

(* Mutation: the wait for a TLS message arms no timer.                      *)
ReadTlsUntimed(tag) ==
  /\ AddCall(read_tls, "pending", tag)
  /\ reply' = TRUE
  /\ cmd' = read_tls.byte
  /\ callback' = NewCall
  /\ fired' = 0
  /\ UNCHANGED <<ack, timeout, wire, unacked>>

(* goodix_read_tls: waits for a TLS message without sending anything, and   *)
(* without looking whether a command is outstanding.                        *)
ReadTls(tag) ==
  /\ AddCall(read_tls, "pending", tag)
  /\ reply' = TRUE
  /\ cmd' = read_tls.byte
  /\ timeout' = TRUE
  /\ callback' = NewCall
  /\ fired' = 0
  /\ UNCHANGED <<ack, wire, unacked>>

-----------------------------------------------------------------------------
(* The client.                                                              *)

Issue(r) ==
  IF r = nop THEN SendNop
  ELSE SendProtocol(r) /\ UNCHANGED in_nop

(* A command issued from the main loop: the start of an activation or of a  *)
(* scan, or the idle command of a deactivation.                             *)
ClientIssues ==
  /\ Opened /\ MainLoop
  /\ \E r \in Requests : Issue(r)
  /\ UNCHANGED session

(* The TLS handshake reads this many messages from the sensor after the     *)
(* ClientHello that answers request_tls_connection.                         *)
TlsMessages == 3

ReadsDone(tag) ==
  Cardinality({i \in DOMAIN calls : calls[i].tag = tag /\ calls[i].req = read_tls
                                    /\ calls[i].outcome = "ok"})

InHandshake(c) ==
  /\ calls[c].req \in {request_tls_connection, read_tls}
  /\ calls[c].outcome = "ok"
  /\ ReadsDone(calls[c].tag) < TlsMessages

(* The callback returns: it only marks its SSM as failed or finished.       *)
CallbackReturns ==
  /\ fired # 0
  /\ fired' = 0
  /\ UNCHANGED <<chan, in_nop, calls, wire, sensor, session>>

(* The callback issues the next command of its SSM.  The NOP that failed is *)
(* in an activation that ends there: its callback issues nothing.           *)
CallbackIssues ==
  /\ fired # 0 /\ ~in_nop
  /\ ~InHandshake(fired)
  /\ \E r \in Requests : Issue(r)
  /\ UNCHANGED session

(* The handshake: the answer to request_tls_connection sends the ServerHello *)
(* to the sensor, which then owes its three messages; every read_tls but the *)
(* last is followed by another.                                             *)
CallbackReadsTls ==
  /\ fired # 0
  /\ InHandshake(fired)
  /\ ReadTls(calls[fired].tag)
  /\ owed' = [owed EXCEPT ![calls[fired].tag] =
                IF calls[fired].req = request_tls_connection
                THEN @ + TlsMessages ELSE @]
  /\ UNCHANGED <<in_nop, session>>

(* dev_deactivate ends the command of the scan it cancels.                  *)
CancelPending ==
  /\ MainLoop /\ Busy
  /\ ReceiveDone("failed", 0)
  /\ UNCHANGED <<cmd, in_nop, wire, sensor, session>>

(* goodix_receive_timeout_cb                                                *)
ReceiveTimeout ==
  /\ MainLoop /\ timeout
  /\ ReceiveDone("failed", 0)
  /\ UNCHANGED <<cmd, in_nop, wire, sensor, session>>

-----------------------------------------------------------------------------
(* The session: open, the read loop, close.                                 *)

(* goodix_dev_init: a new cancellable for the reads.                        *)
DevInit ==
  /\ MainLoop /\ ~Opened /\ opens < 2 * MaxOpens
  /\ opens' = opens + 1
  /\ ResetState
  /\ UNCHANGED <<cmd, host, calls, wire, sensor, inited, reads>>

(* goodix_start_read_loop, at the start of every cold activation.           *)
StartReadLoop ==
  /\ Opened /\ MainLoop
  /\ ~inited
  /\ inited' = TRUE
  /\ reads' = reads + 1
  /\ UNCHANGED <<chan, host, calls, wire, sensor, opens>>

(* goodix_dev_deinit: the command state is dropped with its callback, and   *)
(* the reads in flight are cancelled: each ends with an error that stops    *)
(* its loop (goodix_receive_data_cb), so none counts any more.              *)
DevDeinit ==
  /\ Opened /\ MainLoop
  /\ opens' = opens + 1
  /\ calls' = IF Busy THEN [calls EXCEPT ![callback].outcome = "dropped"]
                      ELSE calls
  /\ ResetState
  /\ inited' = FALSE
  /\ reads' = 0
  /\ UNCHANGED <<cmd, host, wire, sensor>>

-----------------------------------------------------------------------------
(* goodix_receive_pack: the first pack on the wire, by its flags.           *)

(* Mutation: an ACK acknowledges whatever command is outstanding.           *)
ReceiveAckOfAny(p) ==
  /\ p.kind = "ack"
  /\ IF ack /\ reply
     THEN /\ ack' = FALSE
          /\ UNCHANGED <<reply, timeout, callback, fired, calls>>
     ELSE ReceiveDone("ok", p.tag)

ReceiveAck(p) ==
  /\ p.kind = "ack"
  /\ IF p.byte = cmd /\ ack
     THEN IF reply
          THEN /\ ack' = FALSE
               /\ UNCHANGED <<reply, timeout, callback, fired, calls>>
          ELSE ReceiveDone("ok", p.tag)
     ELSE UNCHANGED <<ack, reply, timeout, callback, fired, calls>>

ReceiveProtocol(p) ==
  /\ p.kind = "protocol"
  /\ IF p.byte = cmd /\ reply
     THEN ReceiveDone("ok", p.tag)
     ELSE UNCHANGED <<ack, reply, timeout, callback, fired, calls>>

(* A TLS message ends whatever command is outstanding.                      *)
ReceiveTls(p) ==
  /\ p.kind = "tls"
  /\ ReceiveDone("ok", p.tag)

ReceiveTlsData(p) ==
  /\ p.kind = "tls data"
  /\ IF cmd = mcu_get_image.byte /\ reply
     THEN ReceiveDone("ok", p.tag)
     ELSE UNCHANGED <<ack, reply, timeout, callback, fired, calls>>

ReceivePack(p) ==
  ReceiveAck(p) \/ ReceiveProtocol(p) \/ ReceiveTls(p) \/ ReceiveTlsData(p)

ReceiveData ==
  /\ MainLoop /\ reads > 0 /\ wire # << >>
  /\ ReceivePack(Head(wire))
  /\ wire' = Tail(wire)
  /\ UNCHANGED <<cmd, in_nop, sensor, session>>

(* What was received exceeds the largest pack: it is dropped, and with it   *)
(* the outstanding command.                                                 *)
ReceiveOversized ==
  /\ MainLoop /\ reads > 0
  /\ ReceiveDone("failed", 0)
  /\ UNCHANGED <<cmd, in_nop, wire, sensor, session>>

-----------------------------------------------------------------------------
(* The sensor (external) and the pipe.                                      *)

PackOf(kind, c) == [kind |-> kind, byte |-> calls[c].req.byte, tag |-> c]

AnswerKind(r) ==
  IF r = request_tls_connection THEN "tls"
  ELSE IF r = mcu_get_image THEN "tls data" ELSE "protocol"

(* It ACKs the oldest command it has not ACKed, or ignores it.              *)
SensorAcks ==
  /\ unacked # << >> /\ Len(wire) < MaxWire
  /\ wire' = Append(wire, PackOf("ack", Head(unacked)))
  /\ unacked' = Tail(unacked)
  /\ owed' = IF calls[Head(unacked)].req.reply
             THEN [owed EXCEPT ![Head(unacked)] = @ + 1] ELSE owed
  /\ UNCHANGED <<chan, host, calls, session>>

SensorIgnores ==
  /\ unacked # << >>
  /\ unacked' = Tail(unacked)
  /\ UNCHANGED <<chan, host, calls, wire, owed, session>>

SensorAnswers ==
  /\ Len(wire) < MaxWire
  /\ \E c \in DOMAIN calls :
       /\ owed[c] > 0
       /\ owed' = [owed EXCEPT ![c] = @ - 1]
       /\ wire' = Append(wire, PackOf(AnswerKind(calls[c].req), c))
  /\ UNCHANGED <<chan, host, calls, unacked, session>>

(* A pack is lost, or cannot be decoded, or is too short to be used.        *)
PackLost ==
  /\ wire # << >>
  /\ wire' = Tail(wire)
  /\ UNCHANGED <<chan, host, calls, sensor, session>>

-----------------------------------------------------------------------------
HostNext ==
  \/ ClientIssues \/ CallbackReturns \/ CallbackIssues \/ CallbackReadsTls
  \/ CancelPending \/ ReceiveTimeout \/ NopDone
  \/ DevInit \/ StartReadLoop \/ DevDeinit \/ ReceiveData \/ ReceiveOversized

SensorNext == SensorAcks \/ SensorIgnores \/ SensorAnswers \/ PackLost

Next == HostNext \/ SensorNext

Spec == Init /\ [][Next]_vars

(* A callback that is running returns, in a single-threaded main loop, and  *)
(* an armed GLib timer fires.  Nothing is assumed of the sensor, nor of the *)
(* client.                                                                  *)
Fairness ==
  /\ WF_vars(CallbackReturns \/ CallbackIssues \/ CallbackReadsTls)
  /\ WF_vars(NopDone)
  /\ WF_vars(ReceiveTimeout)

FairSpec == Spec /\ Fairness

-----------------------------------------------------------------------------
(* Properties.                                                              *)

Pending == {i \in DOMAIN calls : calls[i].outcome = "pending"}

(* No callback is forgotten: a call that has not ended is the one whose     *)
(* callback goodix_receive_done would call, and the channel is never busy   *)
(* on behalf of a call that has ended.                                      *)
NoLostCallback == Pending = IF Busy THEN {callback} ELSE {}

(* The armed timer is the timer of the outstanding command: the timer of a  *)
(* command that ended never fires into a later one, and a timed command     *)
(* never waits without its timer.                                           *)
TimerOfPending ==
  timeout <=> \E i \in Pending : calls[i].req.timed

(* A command ends with success only on a pack the sensor sent in answer to  *)
(* it, or on a late one whose own command ended without it (timed out,      *)
(* cancelled, dropped by a close, or itself ended by a late answer) and had *)
(* the same command byte or was a TLS handshake given up part-way.  The     *)
(* late ACK of a NOP, which never waits for it, ends nothing.               *)
EndedWithout(tag) ==
  \E j \in DOMAIN calls :
    /\ calls[j].tag = tag
    /\ calls[j].outcome \in Outcomes \ {"pending", "ok"} \/ calls[j].by # tag

AnswerIsOwn ==
  \A i \in DOMAIN calls :
    calls[i].outcome = "ok" /\ calls[i].req # nop =>
      LET by == calls[i].by IN
      \/ by = calls[i].tag
      \/ /\ by \in 1 .. (i - 1)
         /\ calls[by].req # nop
         /\ \/ EndedWithout(by) /\ calls[by].req.byte = calls[i].req.byte
            \/ /\ calls[by].req = request_tls_connection
               /\ EndedWithout(by) \/ ReadsDone(by) < TlsMessages

(* The read loop never runs twice over one session, and never survives the  *)
(* session it was started in.                                               *)
OneReader == reads = IF inited THEN 1 ELSE 0

(* A timed command always ends, whatever the sensor does.                   *)
TimedCommandsEnd ==
  \A i \in Ids :
    (i \in Pending /\ calls[i].req.timed) ~> (i \in DOMAIN calls /\ i \notin Pending)

Slot == INSTANCE CommandSlot
          WITH open <- Opened,
               slot <- IF Busy THEN callback ELSE 0,
               running <- fired,
               ended <- DOMAIN calls \ Pending

(* The channel keeps the promise of CommandSlot.                            *)
KeepsSlot == Slot!SlotSpec
=============================================================================
