-------------------------- MODULE GoodixCmd_proofs --------------------------
(***************************************************************************)
(* Proofs about the command channel, for every set of requests and every   *)
(* value of the bounds: the channel never forgets a callback and its timer *)
(* is always the timer of the outstanding command.                         *)
(*                                                                         *)
(* Neither is inductive alone.  The step that would break both is          *)
(* CallbackReadsTls, which takes the slot without looking at it: what      *)
(* saves it is that the callback it runs in was not called to refuse a     *)
(* command (RefusedOnly), so that the slot is free.                        *)
(*                                                                         *)
(* On the same invariant rests the refinement of CommandSlot: whatever the *)
(* sensor does, a command ends in exactly one call of its callback.        *)
(***************************************************************************)
EXTENDS GoodixCmd, SequenceTheorems, FiniteSetTheorems, TLAPS

(* The slot holds exactly the call that has not ended.                      *)
SlotHolds ==
  /\ Busy => callback \in DOMAIN calls
  /\ \A i \in DOMAIN calls :
       calls[i].outcome = "pending" <=> (Busy /\ i = callback)

TimerArmed == timeout <=> (Busy /\ calls[callback].req.timed)

(* While the callback of a call that was not refused runs, the slot is free. *)
RefusedOnly ==
  fired # 0 /\ calls[fired].outcome # "busy" => ~Busy

(* The inductive invariant, in two parts: the host and the pipe.            *)
HostOK ==
  /\ ack \in BOOLEAN /\ reply \in BOOLEAN /\ timeout \in BOOLEAN
  /\ calls \in Seq(Call) /\ Len(calls) <= MaxCalls
  /\ callback \in 0 .. Len(calls) /\ fired \in 0 .. Len(calls)
  /\ SlotHolds /\ TimerArmed /\ RefusedOnly

Bytes == {c.byte : c \in Commands}

PipeOK ==
  /\ in_nop \in BOOLEAN /\ inited \in BOOLEAN
  /\ cmd \in Bytes
  /\ wire \in Seq(Pack)
  /\ unacked \in Seq(1 .. Len(calls))
  /\ owed \in [Ids -> Nat]
  /\ reads \in Nat /\ opens \in Nat

IInv == HostOK /\ PipeOK

(* A closed device has no command, and its main loop is at rest.            *)
ClosedOK == ~Opened => fired = 0 /\ ~in_nop /\ ~Busy

-----------------------------------------------------------------------------
(* The command table.                                                       *)
LEMMA CommandsTyped ==
  /\ \A c \in Commands : c.reply \in BOOLEAN /\ c.timed \in BOOLEAN
  /\ \A c \in Commands : c.byte \in Bytes
  /\ nop \in Commands /\ read_tls \in Commands
  /\ read_tls.timed
  /\ mcu_get_image \in Commands /\ request_tls_connection \in Commands
<1> DEFINE Typed(c) == c.reply \in BOOLEAN /\ c.timed \in BOOLEAN
<1>1. \A c \in Commands : Typed(c)
  <2>1. \A b : /\ Typed(Command(b, FALSE, FALSE)) /\ Typed(Command(b, FALSE, TRUE))
               /\ Typed(Command(b, TRUE, FALSE)) /\ Typed(Command(b, TRUE, TRUE))
    BY DEF Command
  <2> HIDE DEF Typed
  <2> QED
    BY <2>1
    DEF Commands, nop, enable_chip, firmware_version, preset_psk_read,
        preset_psk_write, reset, idle_mode, upload_config_mcu,
        request_tls_connection, read_tls, tls_successfully_established,
        mcu_get_image, fdt_mode, fdt_down, fdt_up_no_reply, fdt_up
<1>2. \A c \in Commands : c.byte \in Bytes
  BY DEF Bytes
<1>3. read_tls.timed
  BY DEF read_tls, Command
<1>4. /\ nop \in Commands /\ read_tls \in Commands
      /\ mcu_get_image \in Commands /\ request_tls_connection \in Commands
  BY DEF Commands
<1> QED
  BY <1>1, <1>2, <1>3, <1>4

(* Appending a call that has ended or not.                                  *)
LEMMA AddCallTyped ==
  ASSUME calls \in Seq(Call), NEW r \in Commands, NEW outcome \in Outcomes,
         NEW tag \in Ids, AddCall(r, outcome, tag)
  PROVE  /\ calls' \in Seq(Call)
         /\ Len(calls') = Len(calls) + 1
         /\ Len(calls') <= MaxCalls
         /\ \A i \in DOMAIN calls : calls'[i] = calls[i]
         /\ DOMAIN calls' = DOMAIN calls \cup {NewCall}
         /\ calls'[NewCall] =
              [req |-> r, outcome |-> outcome, tag |-> tag, by |-> 0]
<1> DEFINE c == [req |-> r, outcome |-> outcome, tag |-> tag, by |-> 0]
<1>1. MaxCalls \in Nat
  BY BoundsAssumption
<1>2. c \in Call
  BY <1>1 DEF Call
<1>3. calls' = Append(calls, c) /\ Len(calls) < MaxCalls /\ Len(calls) \in Nat
  BY DEF AddCall
<1> QED
  BY <1>1, <1>2, <1>3 DEF NewCall

(* A call ends: only its own record changes.                                *)
LEMMA EndCallTyped ==
  ASSUME calls \in Seq(Call), NEW c \in DOMAIN calls, NEW outcome \in Outcomes,
         NEW by \in 0 .. MaxCalls,
         calls' = [calls EXCEPT ![c].outcome = outcome, ![c].by = by]
  PROVE  /\ calls' \in Seq(Call)
         /\ Len(calls') = Len(calls)
         /\ \A i \in DOMAIN calls : i # c => calls'[i] = calls[i]
         /\ calls'[c].outcome = outcome
<1> DEFINE e == [calls[c] EXCEPT !.outcome = outcome, !.by = by]
<1>1. calls[c] \in Call
  OBVIOUS
<1>2. e \in Call /\ e.outcome = outcome
  BY <1>1 DEF Call
<1>3. calls' = [calls EXCEPT ![c] = e]
  OBVIOUS
<1>4. Len(calls) \in Nat /\ DOMAIN calls = 1 .. Len(calls)
  OBVIOUS
<1> HIDE DEF e
<1>5. calls' \in Seq(Call) /\ Len(calls') = Len(calls)
  <2>1. c \in 1 .. Len(calls) /\ e \in Call
    BY <1>2, <1>4
  <2>2. /\ [calls EXCEPT ![c] = e] \in Seq(Call)
        /\ Len([calls EXCEPT ![c] = e]) = Len(calls)
    BY <2>1, ExceptSeq, Zenon
  <2> QED
    BY <1>3, <2>2, Zenon
<1>6. \A i \in DOMAIN calls : calls'[i] = IF i = c THEN e ELSE calls[i]
  BY <1>3
<1> QED
  BY <1>2, <1>5, <1>6

-----------------------------------------------------------------------------
(* The helpers of the actions preserve the host part.                       *)
LEMMA HostUnchanged ==
  ASSUME HostOK, UNCHANGED <<ack, reply, timeout, callback, fired, calls>>
  PROVE  HostOK'
BY DEF HostOK, SlotHolds, TimerArmed, RefusedOnly, Busy

LEMMA ReceiveDoneHost ==
  ASSUME HostOK, NEW outcome \in Outcomes \ {"pending"},
         NEW by \in 0 .. MaxCalls, ReceiveDone(outcome, by)
  PROVE  HostOK' /\ Len(calls') = Len(calls)
<1>1. CASE ~Busy
  <2>1. UNCHANGED <<ack, reply, timeout, callback, fired, calls>>
    BY <1>1 DEF ReceiveDone
  <2> QED
    BY <2>1, HostUnchanged
<1>2. CASE Busy
  <2>1. callback \in DOMAIN calls /\ calls \in Seq(Call)
    BY <1>2 DEF HostOK, SlotHolds
  <2>2. /\ ~ack' /\ ~reply' /\ ~timeout' /\ callback' = 0 /\ fired' = callback
        /\ ack' \in BOOLEAN /\ reply' \in BOOLEAN /\ timeout' \in BOOLEAN
        /\ calls' = [calls EXCEPT ![callback].outcome = outcome,
                                  ![callback].by = by]
    BY <1>2 DEF ReceiveDone, ResetState
  <2>3. /\ calls' \in Seq(Call) /\ Len(calls') = Len(calls)
        /\ \A i \in DOMAIN calls : i # callback => calls'[i] = calls[i]
        /\ calls'[callback].outcome = outcome
    BY <2>1, <2>2, EndCallTyped
  <2>4. ~Busy'
    BY <2>2 DEF Busy
  <2>5. \A i \in DOMAIN calls' : calls'[i].outcome # "pending"
    BY <1>2, <2>1, <2>3 DEF HostOK, SlotHolds
  <2>6. SlotHolds' /\ TimerArmed' /\ RefusedOnly'
    BY <2>2, <2>4, <2>5 DEF SlotHolds, TimerArmed, RefusedOnly
  <2> QED
    BY <2>1, <2>2, <2>3, <2>6 DEF HostOK
<1> QED
  BY <1>1, <1>2

(* A call that takes the free slot, with its timer.                         *)
LEMMA TakeSlotHost ==
  ASSUME HostOK, ~Busy, NEW r \in Commands, NEW tag \in Ids,
         AddCall(r, "pending", tag), ack' \in BOOLEAN, reply' \in BOOLEAN,
         Busy', timeout' = r.timed, callback' = NewCall, fired' = 0
  PROVE  HostOK' /\ Len(calls') = Len(calls) + 1
<1>1. calls \in Seq(Call) /\ Len(calls) \in Nat
  BY DEF HostOK
<1>2. /\ calls' \in Seq(Call)
      /\ Len(calls') = Len(calls) + 1 /\ Len(calls') <= MaxCalls
      /\ \A i \in DOMAIN calls : calls'[i] = calls[i]
      /\ DOMAIN calls' = DOMAIN calls \cup {NewCall}
      /\ calls'[NewCall] = [req |-> r, outcome |-> "pending", tag |-> tag, by |-> 0]
  BY <1>1, AddCallTyped DEF Outcomes
<1>3. NewCall \notin DOMAIN calls /\ DOMAIN calls = 1 .. Len(calls)
  BY <1>1 DEF NewCall
<1>4. \A i \in DOMAIN calls : calls[i].outcome # "pending"
  BY DEF HostOK, SlotHolds
<1>5. SlotHolds'
  BY <1>2, <1>3, <1>4 DEF SlotHolds
<1>6. TimerArmed' /\ RefusedOnly'
  BY <1>2 DEF TimerArmed, RefusedOnly
<1>7. timeout' \in BOOLEAN
  BY CommandsTyped
<1> QED
  BY <1>1, <1>2, <1>5, <1>6, <1>7 DEF HostOK, NewCall

(* A call that never takes the slot.                                        *)
LEMMA NeverOutstandingHost ==
  ASSUME HostOK, NEW r \in Commands, NEW outcome \in {"busy", "failed"},
         AddCall(r, outcome, NewCall), fired' = NewCall,
         \/ outcome = "busy" /\ UNCHANGED <<ack, reply, timeout, callback>>
         \/ outcome = "failed" /\ ~Busy /\ ResetState
  PROVE  HostOK' /\ Len(calls') = Len(calls) + 1
<1>1. calls \in Seq(Call) /\ Len(calls) \in Nat /\ MaxCalls \in Nat
  BY BoundsAssumption DEF HostOK
<1>2. NewCall \in Ids
  BY <1>1 DEF NewCall, Ids, AddCall
<1>3. /\ calls' \in Seq(Call)
      /\ Len(calls') = Len(calls) + 1 /\ Len(calls') <= MaxCalls
      /\ \A i \in DOMAIN calls : calls'[i] = calls[i]
      /\ DOMAIN calls' = DOMAIN calls \cup {NewCall}
      /\ calls'[NewCall] = [req |-> r, outcome |-> outcome, tag |-> NewCall, by |-> 0]
  BY <1>1, <1>2, AddCallTyped DEF Outcomes
<1>4. NewCall \notin DOMAIN calls /\ DOMAIN calls = 1 .. Len(calls)
  BY <1>1 DEF NewCall
<1>5. calls'[NewCall].outcome = outcome /\ outcome # "pending"
  BY <1>3
<1>6. CASE outcome = "busy" /\ UNCHANGED <<ack, reply, timeout, callback>>
  <2>1. Busy' = Busy
    BY <1>6 DEF Busy
  <2>2. SlotHolds'
    BY <1>3, <1>4, <1>5, <1>6, <2>1 DEF HostOK, SlotHolds
  <2>3. TimerArmed'
    BY <1>3, <1>6, <2>1 DEF HostOK, SlotHolds, TimerArmed
  <2>4. RefusedOnly'
    BY <1>5, <1>6 DEF RefusedOnly
  <2> QED
    BY <1>1, <1>3, <1>6, <2>2, <2>3, <2>4 DEF HostOK, NewCall
<1>7. CASE outcome = "failed" /\ ~Busy /\ ResetState
  <2>1. /\ ~Busy' /\ ~timeout' /\ callback' = 0
        /\ ack' \in BOOLEAN /\ reply' \in BOOLEAN /\ timeout' \in BOOLEAN
    BY <1>7 DEF ResetState, Busy
  <2>2. SlotHolds'
    BY <1>3, <1>4, <1>5, <1>7, <2>1 DEF HostOK, SlotHolds
  <2>3. TimerArmed' /\ RefusedOnly'
    BY <2>1 DEF TimerArmed, RefusedOnly
  <2> QED
    BY <1>1, <1>3, <2>1, <2>2, <2>3 DEF HostOK, NewCall
<1> QED
  BY <1>6, <1>7

LEMMA SeqGrows ==
  ASSUME NEW m \in Nat, NEW n \in Nat, m <= n, NEW q \in Seq(1 .. m)
  PROVE  q \in Seq(1 .. n)
<1>1. 1 .. m \subseteq 1 .. n
  OBVIOUS
<1> QED
  BY <1>1, SeqMonotonic

(* goodix_send_protocol, whatever becomes of the command.                   *)
LEMMA SendProtocolOK ==
  ASSUME IInv, NEW r \in Commands, SendProtocol(r)
  PROVE  /\ HostOK'
         /\ cmd' \in Bytes
         /\ unacked' \in Seq(1 .. Len(calls'))
         /\ wire' = wire /\ owed' = owed
<1>1. HostOK /\ calls \in Seq(Call) /\ Len(calls) \in Nat /\ MaxCalls \in Nat
      /\ cmd \in Bytes /\ unacked \in Seq(1 .. Len(calls))
  BY BoundsAssumption DEF IInv, HostOK, PipeOK
<1>2. CASE SendBusy(r)
  <2>1. HostOK' /\ Len(calls') = Len(calls) + 1
    BY <1>1, <1>2, NeverOutstandingHost DEF SendBusy, chan
  <2>2. cmd' = cmd /\ unacked' = unacked /\ wire' = wire /\ owed' = owed
    BY <1>2 DEF SendBusy, chan, sensor
  <2> QED
    BY <1>1, <2>1, <2>2, SeqGrows
<1>3. CASE SendOk(r)
  <2>1. NewCall \in Ids
    BY <1>1, <1>3 DEF SendOk, AddCall, NewCall, Ids
  <2>2. HostOK' /\ Len(calls') = Len(calls) + 1
    <3>1. ~Busy /\ AddCall(r, "pending", NewCall) /\ ack' /\ ack' \in BOOLEAN
          /\ reply' \in BOOLEAN /\ timeout' = r.timed /\ callback' = NewCall
          /\ fired' = 0
      BY <1>3, CommandsTyped DEF SendOk
    <3>2. Busy'
      BY <3>1 DEF Busy
    <3> QED
      BY <1>1, <2>1, <3>1, <3>2, TakeSlotHost
  <2>3. unacked' = Append(unacked, NewCall) /\ NewCall \in 1 .. Len(calls')
    BY <1>1, <1>3, <2>2 DEF SendOk, NewCall
  <2>4. unacked \in Seq(1 .. Len(calls'))
    BY <1>1, <2>2, SeqGrows
  <2>5. cmd' \in Bytes /\ wire' = wire /\ owed' = owed
    BY <1>3, CommandsTyped DEF SendOk
  <2> QED
    BY <2>2, <2>3, <2>4, <2>5
<1>4. CASE SendFails(r)
  <2>1. HostOK' /\ Len(calls') = Len(calls) + 1
    BY <1>1, <1>4, NeverOutstandingHost DEF SendFails
  <2>2. cmd' \in Bytes /\ unacked' = unacked /\ wire' = wire /\ owed' = owed
    BY <1>4, CommandsTyped DEF SendFails, sensor
  <2> QED
    BY <1>1, <2>1, <2>2, SeqGrows
<1> QED
  BY <1>2, <1>3, <1>4 DEF SendProtocol

LEMMA IssueOK ==
  ASSUME IInv, NEW r \in Requests, Issue(r), UNCHANGED session
  PROVE  IInv'
<1>1. r \in Commands /\ SendProtocol(r) /\ in_nop' \in BOOLEAN
  BY RequestsAssumption DEF Issue, SendNop, IInv, PipeOK
<1>2. /\ HostOK' /\ cmd' \in Bytes
      /\ unacked' \in Seq(1 .. Len(calls'))
      /\ wire' = wire /\ owed' = owed
  BY <1>1, SendProtocolOK
<1> QED
  BY <1>1, <1>2 DEF IInv, PipeOK, session

(* A command that ends, in a step that touches the pipe only as shown.      *)
LEMMA DoneOK ==
  ASSUME IInv, NEW outcome \in Outcomes \ {"pending"}, NEW by \in 0 .. MaxCalls,
         ReceiveDone(outcome, by), in_nop' \in BOOLEAN, wire' \in Seq(Pack),
         UNCHANGED <<cmd, unacked, owed, session>>
  PROVE  IInv'
<1>1. HostOK' /\ Len(calls') = Len(calls)
  BY ReceiveDoneHost DEF IInv
<1> QED
  BY <1>1 DEF IInv, PipeOK, session

(* A step that leaves the host alone.                                       *)
LEMMA HostAloneOK ==
  ASSUME IInv, UNCHANGED <<chan, host, calls>>, PipeOK'
  PROVE  IInv'
BY HostUnchanged DEF IInv, chan, host

-----------------------------------------------------------------------------
LEMMA InitIInv == Init => IInv
<1> SUFFICES ASSUME Init PROVE IInv
  OBVIOUS
<1> USE DEF Init
<1>1. /\ << >> \in Seq(Call) /\ << >> \in Seq(Pack) /\ << >> \in Seq(1 .. Len(calls))
      /\ Len(calls) = 0 /\ DOMAIN calls = {}
  OBVIOUS
<1>2. MaxCalls \in Nat /\ nop.byte \in Bytes
  BY BoundsAssumption, CommandsTyped
<1>3. HostOK
  <2>1. ~Busy /\ ack \in BOOLEAN /\ reply \in BOOLEAN /\ timeout \in BOOLEAN
    BY DEF Busy
  <2>2. SlotHolds /\ TimerArmed /\ RefusedOnly
    BY <1>1, <2>1 DEF SlotHolds, TimerArmed, RefusedOnly
  <2>3. callback \in 0 .. Len(calls) /\ fired \in 0 .. Len(calls)
    BY <1>1
  <2> QED
    BY <1>1, <1>2, <2>1, <2>2, <2>3 DEF HostOK
<1>4. PipeOK
  BY <1>1, <1>2 DEF PipeOK
<1> QED
  BY <1>3, <1>4 DEF IInv

(* The four kinds of packs.                                                 *)
LEMMA ReceiveDataOK == ASSUME IInv, ReceiveData PROVE IInv'
<1> DEFINE p == Head(wire)
<1>1. /\ wire \in Seq(Pack) /\ wire # << >> /\ MaxCalls \in Nat
      /\ fired = 0 /\ wire' = Tail(wire) /\ UNCHANGED <<cmd, in_nop, sensor, session>>
      /\ ReceivePack(p)
  BY BoundsAssumption DEF ReceiveData, MainLoop, IInv, PipeOK
<1>2. p \in Pack /\ wire' \in Seq(Pack)
  BY <1>1
<1>4. in_nop' \in BOOLEAN /\ UNCHANGED <<cmd, unacked, owed, session>>
  BY <1>1 DEF IInv, PipeOK, sensor
<1> HIDE DEF p
<1>3. p.tag \in 0 .. MaxCalls
  <2>1. p.tag \in Ids
    BY <1>2 DEF Pack
  <2> QED
    BY <1>1, <2>1 DEF Ids
<1>5. CASE ReceiveDone("ok", p.tag)
  BY <1>2, <1>3, <1>4, <1>5, DoneOK DEF Outcomes
<1>6. CASE UNCHANGED <<ack, reply, timeout, callback, fired, calls>>
  <2>1. HostOK'
    BY <1>6, HostUnchanged DEF IInv
  <2> QED
    BY <1>2, <1>4, <1>6, <2>1 DEF IInv, PipeOK, session
<1>7. CASE reply /\ ~ack' /\ ack' \in BOOLEAN
           /\ UNCHANGED <<reply, timeout, callback, fired, calls>>
  <2>1. Busy /\ Busy'
    BY <1>7 DEF Busy
  <2>2. HostOK'
    BY <1>1, <1>7, <2>1 DEF IInv, HostOK, SlotHolds, TimerArmed, RefusedOnly
  <2> QED
    BY <1>2, <1>4, <1>7, <2>2 DEF IInv, PipeOK, session
<1> QED
  BY <1>1, <1>5, <1>6, <1>7
  DEF ReceivePack, ReceiveAck, ReceiveProtocol, ReceiveTls, ReceiveTlsData

LEMMA CallbackReadsTlsOK == ASSUME IInv, CallbackReadsTls PROVE IInv'
<1> DEFINE tag == calls[fired].tag
<1>1. /\ calls \in Seq(Call) /\ Len(calls) \in Nat /\ MaxCalls \in Nat
      /\ fired \in DOMAIN calls
  BY BoundsAssumption DEF IInv, HostOK, CallbackReadsTls
<1>2. tag \in Ids
  <2>1. calls[fired] \in Call
    BY <1>1
  <2> QED
    BY <2>1 DEF Call
<1>3. ~Busy
  BY DEF CallbackReadsTls, InHandshake, IInv, HostOK, RefusedOnly
<1>4. HostOK' /\ Len(calls') = Len(calls) + 1
  <2>1. /\ AddCall(read_tls, "pending", tag) /\ reply' /\ reply' \in BOOLEAN
        /\ ack' = ack /\ timeout' /\ callback' = NewCall /\ fired' = 0
    BY DEF CallbackReadsTls, ReadTls
  <2>2. ack' \in BOOLEAN /\ timeout' = read_tls.timed /\ Busy'
    BY <2>1, CommandsTyped
    DEF CallbackReadsTls, ReadTls, IInv, HostOK, Busy, read_tls, Command
  <2> HIDE DEF tag
  <2> QED
    BY <1>2, <1>3, <2>1, <2>2, CommandsTyped, TakeSlotHost DEF IInv
<1>5. /\ cmd' = read_tls.byte /\ wire' = wire /\ unacked' = unacked
      /\ UNCHANGED <<in_nop, session>>
  BY DEF CallbackReadsTls, ReadTls
<1>6. owed' \in [Ids -> Nat]
  BY <1>2 DEF CallbackReadsTls, IInv, PipeOK, TlsMessages
<1>7. unacked' \in Seq(1 .. Len(calls'))
  BY <1>1, <1>4, <1>5, SeqGrows DEF IInv, PipeOK
<1> QED
  BY <1>4, <1>5, <1>6, <1>7, CommandsTyped DEF IInv, PipeOK, session

(* A close: the outstanding call, if any, is dropped.                       *)
LEMMA DevDeinitOK == ASSUME IInv, DevDeinit PROVE IInv'
<1>1. /\ calls \in Seq(Call) /\ Len(calls) \in Nat /\ fired = 0 /\ fired' = 0
      /\ UNCHANGED <<cmd, host, wire, sensor>>
  BY DEF IInv, HostOK, DevDeinit, MainLoop, host
<1>2. /\ ~Busy' /\ ~timeout' /\ callback' = 0
      /\ ack' \in BOOLEAN /\ reply' \in BOOLEAN /\ timeout' \in BOOLEAN
  BY DEF DevDeinit, ResetState, Busy
<1>3. /\ calls' \in Seq(Call) /\ Len(calls') = Len(calls)
      /\ \A i \in DOMAIN calls' : calls'[i].outcome # "pending"
  <2>1. CASE ~Busy
    BY <1>1, <2>1 DEF DevDeinit, IInv, HostOK, SlotHolds
  <2>2. CASE Busy
    <3>1. callback \in DOMAIN calls
      BY <2>2 DEF IInv, HostOK, SlotHolds
    <3>2. calls[callback] \in Call
      BY <1>1, <3>1
    <3>3. calls' = [calls EXCEPT ![callback].outcome = "dropped",
                                 ![callback].by = calls[callback].by]
      BY <1>1, <2>2, <3>1, <3>2 DEF DevDeinit, Call
    <3>4. calls[callback].by \in 0 .. MaxCalls
      BY <3>2 DEF Call
    <3>5. /\ calls' \in Seq(Call) /\ Len(calls') = Len(calls)
          /\ \A i \in DOMAIN calls : i # callback => calls'[i] = calls[i]
          /\ calls'[callback].outcome = "dropped"
      BY <1>1, <3>1, <3>3, <3>4, EndCallTyped DEF Outcomes
    <3> QED
      BY <1>1, <2>2, <3>1, <3>5 DEF IInv, HostOK, SlotHolds
  <2> QED
    BY <2>1, <2>2
<1>4. HostOK'
  BY <1>1, <1>2, <1>3 DEF IInv, HostOK, SlotHolds, TimerArmed, RefusedOnly
<1>5. PipeOK'
  <2>1. /\ opens' = opens + 1 /\ reads' = 0
        /\ UNCHANGED <<cmd, wire, unacked, owed>>
    BY DEF DevDeinit, sensor
  <2>2. inited' \in BOOLEAN /\ in_nop' \in BOOLEAN
    BY DEF DevDeinit, host, IInv, PipeOK
  <2>3. Len(calls') = Len(calls)
    BY <1>3
  <2> QED
    BY <2>1, <2>2, <2>3 DEF IInv, PipeOK
<1> QED
  BY <1>4, <1>5 DEF IInv

LEMMA HostNextOK == ASSUME IInv, ClosedOK, HostNext PROVE IInv'
<1>0. 0 \in 0 .. MaxCalls /\ {"ok", "failed"} \subseteq Outcomes \ {"pending"}
  BY BoundsAssumption DEF Outcomes
<1>1. CASE ClientIssues
  BY <1>1, IssueOK DEF ClientIssues
<1>2. CASE CallbackIssues
  BY <1>2, IssueOK DEF CallbackIssues
<1>3. CASE CallbackReadsTls
  BY <1>3, CallbackReadsTlsOK
<1>4. CASE CallbackReturns
  <2>1. fired' = 0 /\ UNCHANGED <<chan, in_nop, calls, wire, sensor, session>>
    BY <1>4 DEF CallbackReturns
  <2>2. HostOK'
    BY <2>1 DEF IInv, HostOK, SlotHolds, TimerArmed, RefusedOnly, Busy, chan
  <2>3. PipeOK'
    BY <2>1 DEF IInv, PipeOK, sensor, session, chan
  <2> QED
    BY <2>2, <2>3 DEF IInv
<1>5. CASE CancelPending \/ ReceiveTimeout \/ ReceiveOversized
  <2>1. ReceiveDone("failed", 0) /\ UNCHANGED <<cmd, in_nop, wire, sensor, session>>
    BY <1>5 DEF CancelPending, ReceiveTimeout, ReceiveOversized
  <2>2. in_nop' \in BOOLEAN /\ wire' \in Seq(Pack)
        /\ UNCHANGED <<cmd, unacked, owed, session>>
    BY <2>1 DEF IInv, PipeOK, sensor
  <2> QED
    BY <1>0, <2>1, <2>2, DoneOK
<1>6. CASE NopDone
  <2>1. /\ ReceiveDone("ok", 0)
        /\ in_nop' \in BOOLEAN /\ wire' \in Seq(Pack)
        /\ UNCHANGED <<cmd, unacked, owed, session>>
    BY <1>6 DEF NopDone, IInv, PipeOK, sensor
  <2> QED
    BY <1>0, <2>1, DoneOK
<1>7. CASE DevInit
  <2>1. HostOK'
    <3>1. fired' = 0 /\ UNCHANGED calls /\ calls \in Seq(Call)
      BY <1>7 DEF DevInit, host, MainLoop, IInv, HostOK
    <3>2. /\ ~Busy' /\ ~timeout' /\ callback' = 0
          /\ ack' \in BOOLEAN /\ reply' \in BOOLEAN /\ timeout' \in BOOLEAN
      BY <1>7 DEF DevInit, ResetState, Busy
    <3>3. ~Busy
      BY <1>7 DEF DevInit, ClosedOK
    <3>4. SlotHolds' /\ TimerArmed' /\ RefusedOnly'
      BY <3>1, <3>2, <3>3 DEF SlotHolds, TimerArmed, RefusedOnly, IInv, HostOK
    <3> QED
      BY <3>1, <3>2, <3>4 DEF IInv, HostOK
  <2>2. PipeOK'
    <3>1. opens' = opens + 1 /\ UNCHANGED <<calls, cmd, wire, sensor, host, inited, reads>>
      BY <1>7 DEF DevInit
    <3>2. in_nop' \in BOOLEAN /\ inited' \in BOOLEAN
      BY <3>1 DEF host, IInv, PipeOK
    <3> QED
      BY <3>1, <3>2 DEF IInv, PipeOK, sensor
  <2> QED
    BY <2>1, <2>2 DEF IInv
<1>8. CASE StartReadLoop
  <2>1. PipeOK'
    <3>1. reads' = reads + 1 /\ inited' = TRUE /\ UNCHANGED <<calls, cmd, wire, opens>>
          /\ UNCHANGED sensor /\ UNCHANGED host
      BY <1>8 DEF StartReadLoop, chan
    <3>2. in_nop' \in BOOLEAN /\ inited' \in BOOLEAN
      BY <3>1 DEF host, IInv, PipeOK
    <3> QED
      BY <3>1, <3>2 DEF IInv, PipeOK, sensor
  <2> QED
    BY <1>8, <2>1, HostAloneOK DEF StartReadLoop
<1>9. CASE DevDeinit
  BY <1>9, DevDeinitOK
<1>10. CASE ReceiveData
  BY <1>10, ReceiveDataOK
<1> QED
  BY <1>1, <1>2, <1>3, <1>4, <1>5, <1>6, <1>7, <1>8, <1>9, <1>10 DEF HostNext

Kinds == {"ack", "protocol", "tls", "tls data"}

LEMMA PackOfTyped ==
  ASSUME IInv, NEW c \in DOMAIN calls, NEW kind \in Kinds
  PROVE  c \in Ids /\ PackOf(kind, c) \in Pack
<1>1. calls \in Seq(Call) /\ Len(calls) <= MaxCalls /\ Len(calls) \in Nat /\ MaxCalls \in Nat
  BY BoundsAssumption DEF IInv, HostOK
<1>2. calls[c] \in Call
  BY <1>1
<1>3. calls[c].req.byte \in Bytes
  BY <1>2, CommandsTyped DEF Call
<1>4. c \in Ids
  BY <1>1 DEF Ids
<1> QED
  BY <1>3, <1>4 DEF PackOf, Pack, Bytes, Kinds

LEMMA SensorNextOK == ASSUME IInv, SensorNext PROVE IInv'
<1>0. /\ wire \in Seq(Pack) /\ unacked \in Seq(1 .. Len(calls))
      /\ DOMAIN calls = 1 .. Len(calls) /\ owed \in [Ids -> Nat]
      /\ in_nop \in BOOLEAN /\ inited \in BOOLEAN
  BY DEF IInv, PipeOK, HostOK
<1>1. CASE SensorAcks
  <2> DEFINE c == Head(unacked)
  <2>1. c \in DOMAIN calls /\ Tail(unacked) \in Seq(1 .. Len(calls))
    BY <1>0, <1>1 DEF SensorAcks
  <2>2. PackOf("ack", c) \in Pack /\ c \in Ids
    BY <2>1, PackOfTyped DEF Kinds
  <2>3. wire' \in Seq(Pack) /\ unacked' \in Seq(1 .. Len(calls))
    BY <1>0, <1>1, <2>1, <2>2 DEF SensorAcks
  <2>4. owed' \in [Ids -> Nat]
    BY <1>0, <1>1, <2>2 DEF SensorAcks
  <2>5. UNCHANGED <<chan, host, calls, session>>
    BY <1>1 DEF SensorAcks
  <2>6. PipeOK'
    BY <1>0, <2>3, <2>4, <2>5 DEF IInv, PipeOK, session, chan, host
  <2> QED
    BY <2>5, <2>6, HostAloneOK
<1>2. CASE SensorIgnores
  <2>1. unacked' \in Seq(1 .. Len(calls))
    BY <1>0, <1>2 DEF SensorIgnores
  <2>2. UNCHANGED <<chan, host, calls, wire, owed, session>>
    BY <1>2 DEF SensorIgnores
  <2>3. PipeOK'
    BY <1>0, <2>1, <2>2 DEF IInv, PipeOK, session, chan, host
  <2> QED
    BY <2>2, <2>3, HostAloneOK
<1>3. CASE SensorAnswers
  <2>1. PICK c \in DOMAIN calls :
          /\ owed[c] > 0
          /\ owed' = [owed EXCEPT ![c] = @ - 1]
          /\ wire' = Append(wire, PackOf(AnswerKind(calls[c].req), c))
    BY <1>3 DEF SensorAnswers
  <2>2. AnswerKind(calls[c].req) \in Kinds
    BY DEF AnswerKind, Kinds
  <2>3. c \in Ids /\ PackOf(AnswerKind(calls[c].req), c) \in Pack
    BY <2>2, PackOfTyped
  <2>4. wire' \in Seq(Pack)
    BY <1>0, <2>1, <2>3
  <2>5. owed' \in [Ids -> Nat]
    BY <1>0, <2>1, <2>3
  <2>6. UNCHANGED <<chan, host, calls, unacked, session>>
    BY <1>3 DEF SensorAnswers
  <2>7. PipeOK'
    BY <1>0, <2>4, <2>5, <2>6 DEF IInv, PipeOK, session, chan, host
  <2> QED
    BY <2>6, <2>7, HostAloneOK
<1>4. CASE PackLost
  <2>1. wire' \in Seq(Pack) /\ UNCHANGED <<chan, host, calls, sensor, session>>
    BY <1>0, <1>4 DEF PackLost
  <2>2. PipeOK'
    BY <1>0, <2>1 DEF IInv, PipeOK, session, chan, host, sensor
  <2> QED
    BY <2>1, <2>2, HostAloneOK
<1> QED
  BY <1>1, <1>2, <1>3, <1>4 DEF SensorNext

(* Who touches the session: its opening, its read loop and its end.         *)
LEMMA SessionSteps ==
  [Next]_vars => UNCHANGED session \/ StartReadLoop \/ DevInit \/ DevDeinit
  BY DEF Next, HostNext, SensorNext, ClientIssues, CallbackReturns, CallbackIssues,
         CallbackReadsTls, CancelPending, ReceiveTimeout, NopDone, ReceiveData,
         ReceiveOversized, SensorAcks, SensorIgnores, SensorAnswers, PackLost,
         vars, session

LEMMA ClosedStep == ASSUME IInv, ClosedOK, [Next]_vars PROVE ClosedOK'
<1>1. CASE UNCHANGED session
  <2>1. Opened' = Opened
    BY <1>1 DEF session, Opened
  <2>2. SUFFICES ASSUME ~Opened PROVE fired' = 0 /\ ~in_nop' /\ ~Busy'
    BY <2>1 DEF ClosedOK
  <2>3. fired = 0 /\ ~in_nop /\ ~Busy
    BY <2>2 DEF ClosedOK
  <2>4. UNCHANGED <<chan, host>> => fired' = 0 /\ ~in_nop' /\ ~Busy'
    BY <2>3 DEF chan, host, Busy
  <2>5. ASSUME NEW o, NEW b, ReceiveDone(o, b), UNCHANGED in_nop
        PROVE  fired' = 0 /\ ~in_nop' /\ ~Busy'
    BY <2>3, <2>5 DEF ReceiveDone, Busy
  <2>6. CASE HostNext
    <3>1. ~ClientIssues /\ ~CallbackReturns /\ ~CallbackIssues /\ ~CallbackReadsTls
          /\ ~NopDone
      BY <2>2, <2>3 DEF ClientIssues, CallbackReturns, CallbackIssues,
                        CallbackReadsTls, NopDone
    <3>2. CASE CancelPending \/ ReceiveTimeout \/ ReceiveOversized
      <4>1. ReceiveDone("failed", 0) /\ UNCHANGED in_nop
        BY <3>2 DEF CancelPending, ReceiveTimeout, ReceiveOversized
      <4> QED
        BY <2>5, <4>1
    <3>3. CASE ReceiveData
      <4>1. UNCHANGED in_nop
        BY <3>3 DEF ReceiveData
      <4>2. CASE ReceiveDone("ok", Head(wire).tag)
        BY <2>5, <4>1, <4>2
      <4>3. CASE UNCHANGED <<ack, reply, timeout, callback, fired, calls>>
        BY <2>3, <4>1, <4>3 DEF Busy
      <4>4. ~ack /\ ~reply
        BY <2>3 DEF Busy
      <4> QED
        BY <3>3, <4>2, <4>3, <4>4
        DEF ReceiveData, ReceivePack, ReceiveAck, ReceiveProtocol, ReceiveTls,
            ReceiveTlsData
    <3>4. ~DevInit /\ ~DevDeinit
      BY <1>1 DEF DevInit, DevDeinit, session, IInv, PipeOK
    <3>5. CASE StartReadLoop
      BY <2>4, <3>5 DEF StartReadLoop
    <3> QED
      BY <2>6, <3>1, <3>2, <3>3, <3>4, <3>5 DEF HostNext
  <2>7. CASE SensorNext
    BY <2>4, <2>7 DEF SensorNext, SensorAcks, SensorIgnores, SensorAnswers, PackLost
  <2>8. CASE UNCHANGED vars
    BY <2>4, <2>8 DEF vars, chan, host
  <2> QED
    BY <2>6, <2>7, <2>8 DEF Next
<1>2. CASE StartReadLoop
  <2>1. Opened /\ Opened' = Opened
    BY <1>2 DEF StartReadLoop, Opened
  <2> QED
    BY <2>1 DEF ClosedOK
<1>3. CASE DevInit \/ DevDeinit
  <2>1. fired' = 0 /\ ~in_nop'
    BY <1>3 DEF DevInit, DevDeinit, MainLoop, host
  <2>2. ~Busy'
    BY <1>3 DEF DevInit, DevDeinit, ResetState, Busy
  <2> QED
    BY <2>1, <2>2 DEF ClosedOK
<1> QED
  BY <1>1, <1>2, <1>3, SessionSteps

-----------------------------------------------------------------------------
(* The theorems.                                                            *)

LEMMA Invariant == Spec => [](IInv /\ ClosedOK)
<1>1. Init => IInv /\ ClosedOK
  <2>1. Init => ClosedOK
    BY DEF Init, ClosedOK, Busy
  <2> QED
    BY <2>1, InitIInv
<1>2. IInv /\ ClosedOK /\ [Next]_vars => (IInv /\ ClosedOK)'
  <2> SUFFICES ASSUME IInv, ClosedOK, [Next]_vars
               PROVE  IInv' /\ ClosedOK'
    OBVIOUS
  <2>1. CASE UNCHANGED vars
    <3>1. PipeOK'
      BY <2>1 DEF IInv, PipeOK, vars
    <3> QED
      BY <2>1, <3>1, HostAloneOK, ClosedStep DEF vars, chan, host
  <2> QED
    BY <2>1, HostNextOK, SensorNextOK, ClosedStep DEF Next
<1> QED
  BY <1>1, <1>2, PTL DEF Spec

(* The channel's state keeps its types: the type invariant of the runs.     *)
THEOREM TypeCorrect == Spec => []TypeOK
<1>1. IInv => TypeOK
  <2> SUFFICES ASSUME IInv PROVE TypeOK
    OBVIOUS
  <2>1. calls \in Seq(Call) /\ Len(calls) <= MaxCalls /\ Len(calls) \in Nat
        /\ MaxCalls \in Nat
    BY BoundsAssumption DEF IInv, HostOK
  <2>2. 1 .. Len(calls) \subseteq Ids
    BY <2>1 DEF Ids
  <2>3. unacked \in Seq(Ids)
    BY <2>2, SeqMonotonic DEF IInv, PipeOK
  <2> QED
    BY <2>1, <2>3 DEF IInv, HostOK, PipeOK, TypeOK, Bytes
<1> QED
  BY <1>1, Invariant, PTL

(* No callback is forgotten by goodix.c, whatever commands the driver sends *)
(* and whatever the sensor answers: the calls that have not ended are the   *)
(* one goodix_receive_done would call back.                                 *)
THEOREM CallbacksKept == Spec => []NoLostCallback
<1>1. IInv => NoLostCallback
  BY DEF IInv, HostOK, SlotHolds, NoLostCallback, Pending
<1> QED
  BY <1>1, Invariant, PTL

(* The timer that is armed is the timer of the command that waits for it.   *)
THEOREM TimersMatch == Spec => []TimerOfPending
<1>1. IInv => TimerOfPending
  BY DEF IInv, HostOK, SlotHolds, TimerArmed, TimerOfPending, Pending
<1> QED
  BY <1>1, Invariant, PTL

(* The bulk read is never in flight twice: a session starts its read loop   *)
(* once, and ends it before the next one.                                   *)
THEOREM OneReadLoop == Spec => []OneReader
<1>1. Init => OneReader
  BY DEF Init, OneReader
<1>2. OneReader /\ [Next]_vars => OneReader'
  <2> SUFFICES ASSUME OneReader, [Next]_vars PROVE OneReader'
    OBVIOUS
  <2>1. CASE UNCHANGED session
    BY <2>1 DEF OneReader, session
  <2>2. CASE StartReadLoop
    BY <2>2 DEF OneReader, StartReadLoop
  <2>3. CASE DevInit
    BY <2>3 DEF OneReader, DevInit
  <2>4. CASE DevDeinit
    BY <2>4 DEF OneReader, DevDeinit
  <2> QED
    BY <2>1, <2>2, <2>3, <2>4, SessionSteps
<1> QED
  BY <1>1, <1>2, PTL DEF Spec

-----------------------------------------------------------------------------
(* The channel implements CommandSlot.  Under the inductive invariant the    *)
(* calls are numbered 1 .. Len(calls), and all but the one in the slot have  *)
(* ended (SlotView).  With that, each action of the channel is one action of *)
(* CommandSlot or a stutter.                                                *)

(* The refinement mapping.                                                  *)
SlotBar == IF Busy THEN callback ELSE 0
EndedBar == DOMAIN calls \ Pending

Stutter == UNCHANGED <<Opened, SlotBar, fired, EndedBar>>

View ==
  /\ Len(calls) \in Nat
  /\ SlotBar \in 0 .. Len(calls)
  /\ Busy <=> SlotBar # 0
  /\ EndedBar = (1 .. Len(calls)) \ {SlotBar}

LEMMA SlotView == HostOK => View
<1> SUFFICES ASSUME HostOK PROVE View
  OBVIOUS
<1>1. /\ calls \in Seq(Call) /\ Len(calls) \in Nat /\ DOMAIN calls = 1 .. Len(calls)
      /\ callback \in 0 .. Len(calls)
  BY DEF HostOK
<1>2. Busy => callback \in 1 .. Len(calls)
  BY <1>1 DEF HostOK, SlotHolds
<1>3. Pending = IF Busy THEN {callback} ELSE {}
  BY <1>1 DEF HostOK, SlotHolds, Pending
<1>4. CASE Busy
  BY <1>1, <1>2, <1>3, <1>4 DEF View, SlotBar, EndedBar
<1>5. CASE ~Busy
  BY <1>1, <1>3, <1>5 DEF View, SlotBar, EndedBar
<1> QED
  BY <1>4, <1>5

LEMMA SlotViewNext == HostOK' => View'
BY SlotView, PTL

(* The parity of opens.                                                     *)
LEMMA OpenAlternates ==
  ASSUME opens \in Nat, opens' = opens + 1
  PROVE  Opened' <=> ~Opened
BY DEF Opened

-----------------------------------------------------------------------------
(* The helpers, as steps of the slot.                                       *)

(* A command ends: the call in the slot finishes, or nothing happens.       *)
LEMMA DoneIsFinish ==
  ASSUME HostOK, HostOK', NEW outcome \in Outcomes \ {"pending"},
         NEW by \in 0 .. MaxCalls, ReceiveDone(outcome, by),
         fired = 0, UNCHANGED session
  PROVE  Slot!Finish \/ Stutter
<1>1. Opened' = Opened
  BY DEF session, Opened
<1>2. CASE ~Busy
  <2>1. UNCHANGED <<ack, reply, callback, fired, calls>>
    BY <1>2 DEF ReceiveDone
  <2>2. SlotBar' = SlotBar /\ EndedBar' = EndedBar
    BY <2>1 DEF SlotBar, EndedBar, Busy, Pending
  <2> QED
    BY <1>1, <2>1, <2>2 DEF Stutter
<1>3. CASE Busy
  <2>1. fired' = SlotBar /\ ~Busy' /\ SlotBar # 0
    BY <1>3, SlotView DEF View, ReceiveDone, ResetState, SlotBar, Busy
  <2>2. Len(calls') = Len(calls)
    BY ReceiveDoneHost
  <2>3. SlotBar' = 0
    BY <2>1 DEF SlotBar
  <2>4. EndedBar' = EndedBar \cup {SlotBar}
    BY <2>2, <2>3, SlotView, SlotViewNext, <2>1 DEF View
  <2> QED
    BY <1>1, <2>1, <2>3, <2>4 DEF Slot!Finish, Slot!NoCall, SlotBar, EndedBar
<1> QED
  BY <1>2, <1>3

(* A new call that takes the free slot.                                     *)
LEMMA TakeIsIssue ==
  ASSUME HostOK, HostOK', ~Busy, Busy', Opened, Opened', callback' = NewCall,
         fired' = 0, Len(calls') = Len(calls) + 1
  PROVE  Slot!Issue
<1>1. SlotBar = 0 /\ SlotBar' = NewCall /\ NewCall = Len(calls) + 1
  BY DEF SlotBar, NewCall
<1>2. EndedBar' = EndedBar /\ EndedBar = 1 .. Len(calls) /\ Len(calls) \in Nat
  <2>1. /\ Len(calls) \in Nat
        /\ EndedBar = (1 .. Len(calls)) \ {0}
        /\ EndedBar' = (1 .. Len(calls) + 1) \ {Len(calls) + 1}
    BY <1>1, SlotView, SlotViewNext DEF View
  <2> QED
    BY <2>1
<1>3. SlotBar' \in (Nat \ {0}) \ EndedBar /\ SlotBar' # SlotBar
  BY <1>1, <1>2
<1> QED
  BY <1>1, <1>2, <1>3
  DEF Slot!Issue, Slot!Fresh, Slot!Calls, Slot!NoCall, SlotBar, EndedBar

(* A new call that never takes the slot.                                    *)
LEMMA NeverOutstandingIsRefuse ==
  ASSUME HostOK, HostOK', Opened, Opened', fired' = NewCall,
         SlotBar' = SlotBar, Len(calls') = Len(calls) + 1
  PROVE  Slot!Refuse
<1>1. /\ Len(calls) \in Nat /\ NewCall = Len(calls) + 1
      /\ SlotBar \in 0 .. Len(calls)
      /\ EndedBar = (1 .. Len(calls)) \ {SlotBar}
      /\ EndedBar' = (1 .. Len(calls) + 1) \ {SlotBar}
  BY SlotView, SlotViewNext DEF View, NewCall
<1>2. EndedBar' = EndedBar \cup {fired'}
  BY <1>1
<1>3. fired' \in (Nat \ {0}) \ EndedBar /\ fired' # SlotBar
  BY <1>1
<1> QED
  BY <1>2, <1>3 DEF Slot!Refuse, Slot!Fresh, Slot!Calls, SlotBar, EndedBar

LEMMA IssueIsStep ==
  ASSUME IInv, IInv', NEW r \in Requests, Issue(r), Opened, UNCHANGED session
  PROVE  Slot!Issue \/ Slot!Refuse
<1>1. r \in Commands /\ SendProtocol(r) /\ HostOK /\ HostOK'
  BY RequestsAssumption DEF Issue, SendNop, IInv
<1>2. Opened'
  BY DEF session, Opened
<1>3. ASSUME NEW outcome, AddCall(r, outcome, NewCall)
      PROVE  Len(calls') = Len(calls) + 1
  BY <1>1, <1>3 DEF AddCall, HostOK
<1>4. CASE SendBusy(r)
  <2>1. SlotBar' = SlotBar
    BY <1>4 DEF SendBusy, chan, SlotBar, Busy
  <2>2. fired' = NewCall /\ Len(calls') = Len(calls) + 1
    BY <1>3, <1>4 DEF SendBusy
  <2> QED
    BY <1>1, <1>2, <2>1, <2>2, NeverOutstandingIsRefuse
<1>5. CASE SendFails(r)
  <2>1. SlotBar = 0 /\ SlotBar' = 0
    BY <1>5 DEF SendFails, ResetState, SlotBar, Busy
  <2>2. fired' = NewCall /\ Len(calls') = Len(calls) + 1
    BY <1>3, <1>5 DEF SendFails
  <2> QED
    BY <1>1, <1>2, <2>1, <2>2, NeverOutstandingIsRefuse
<1>6. CASE SendOk(r)
  <2>1. ~Busy /\ Busy' /\ callback' = NewCall /\ fired' = 0
        /\ Len(calls') = Len(calls) + 1
    BY <1>3, <1>6 DEF SendOk, Busy
  <2> QED
    BY <1>1, <1>2, <2>1, TakeIsIssue
<1> QED
  BY <1>1, <1>4, <1>5, <1>6 DEF SendProtocol

(* goodix_read_tls takes the slot, which is free in a handshake.            *)
LEMMA ReadTlsIsIssue ==
  ASSUME IInv, IInv', CallbackReadsTls, Opened
  PROVE  Slot!Issue
<1>1. ~Busy
  BY DEF CallbackReadsTls, InHandshake, IInv, HostOK, RefusedOnly
<1>2. Busy' /\ callback' = NewCall /\ fired' = 0 /\ Opened'
  BY DEF CallbackReadsTls, ReadTls, Busy, session, Opened
<1>3. Len(calls') = Len(calls) + 1
  BY DEF CallbackReadsTls, ReadTls, AddCall, IInv, HostOK
<1> QED
  BY <1>1, <1>2, <1>3, TakeIsIssue DEF IInv

LEMMA DevDeinitIsClose ==
  ASSUME IInv, IInv', DevDeinit
  PROVE  Slot!Close
<1>1. /\ HostOK /\ HostOK' /\ calls \in Seq(Call)
      /\ Opened /\ ~Opened' /\ fired = 0 /\ fired' = fired
  BY OpenAlternates DEF IInv, HostOK, PipeOK, DevDeinit, MainLoop, host
<1>2. SlotBar' = 0
  BY DEF DevDeinit, ResetState, SlotBar, Busy
<1>3. Len(calls') = Len(calls)
  BY <1>1 DEF DevDeinit
<1>4. EndedBar' = EndedBar \cup ({SlotBar} \ {0})
  BY <1>1, <1>2, <1>3, SlotView, SlotViewNext DEF View
<1>5. Opened \in BOOLEAN /\ Opened' = FALSE
  BY <1>1 DEF Opened
<1> QED
  BY <1>1, <1>2, <1>4, <1>5 DEF Slot!Close, Slot!NoCall, SlotBar, EndedBar

LEMMA DevInitIsOpen ==
  ASSUME IInv, ClosedOK, DevInit
  PROVE  Slot!Open
<1>1. ~Opened /\ Opened' /\ fired' = fired /\ calls' = calls /\ ~Busy
  BY OpenAlternates DEF IInv, PipeOK, DevInit, host, ClosedOK
<1>2. SlotBar' = SlotBar /\ EndedBar' = EndedBar
  BY <1>1 DEF DevInit, ResetState, SlotBar, EndedBar, Busy, Pending
<1>3. Opened' = TRUE
  BY <1>1 DEF Opened
<1> QED
  BY <1>1, <1>2, <1>3 DEF Slot!Open, SlotBar, EndedBar

(* A pack that the host reads ends the call in the slot or changes nothing  *)
(* there: an ACK of a command with a reply only clears ack.                 *)
LEMMA ReceiveDataIsStep ==
  ASSUME IInv, IInv', ReceiveData
  PROVE  Slot!Finish \/ Stutter
<1> DEFINE p == Head(wire)
<1>1. HostOK /\ HostOK' /\ fired = 0 /\ UNCHANGED session /\ ReceivePack(p)
  BY DEF IInv, ReceiveData, MainLoop
<1>2. p \in Pack
  BY DEF IInv, PipeOK, ReceiveData
<1>3. Opened' = Opened
  BY <1>1 DEF session, Opened
<1> HIDE DEF p
<1>4. p.tag \in 0 .. MaxCalls
  <2>1. p.tag \in Ids
    BY <1>2 DEF Pack
  <2> QED
    BY <2>1, BoundsAssumption DEF Ids
<1>5. CASE ReceiveDone("ok", p.tag)
  BY <1>1, <1>4, <1>5, DoneIsFinish DEF Outcomes
<1>6. CASE UNCHANGED <<ack, reply, timeout, callback, fired, calls>>
  BY <1>3, <1>6 DEF Stutter, SlotBar, EndedBar, Busy, Pending
<1>7. CASE reply /\ UNCHANGED <<reply, timeout, callback, fired, calls>>
  BY <1>3, <1>7 DEF Stutter, SlotBar, EndedBar, Busy, Pending
<1> QED
  BY <1>1, <1>5, <1>6, <1>7
  DEF ReceivePack, ReceiveAck, ReceiveProtocol, ReceiveTls, ReceiveTlsData

-----------------------------------------------------------------------------
LEMMA StepIsStep ==
  ASSUME IInv, ClosedOK, IInv', [Next]_vars
  PROVE  Slot!SlotNext \/ Stutter
<1>0. /\ HostOK /\ HostOK' /\ 0 \in 0 .. MaxCalls
      /\ {"ok", "failed"} \subseteq Outcomes \ {"pending"}
  BY BoundsAssumption DEF IInv, Outcomes
<1>1. CASE UNCHANGED <<chan, fired, calls, opens>>
  BY <1>1 DEF Stutter, SlotBar, EndedBar, Busy, Pending, Opened, chan
<1>2. CASE SensorNext \/ StartReadLoop \/ UNCHANGED vars
  <2>1. UNCHANGED <<chan, fired, calls, opens>>
    BY <1>2 DEF SensorNext, SensorAcks, SensorIgnores, SensorAnswers, PackLost,
                StartReadLoop, vars, chan, host, session
  <2> QED
    BY <1>1, <2>1
<1>3. CASE ClientIssues
  BY <1>3, IssueIsStep DEF ClientIssues, Slot!SlotNext
<1>4. CASE CallbackIssues
  <2>1. Opened
    BY <1>4 DEF ClosedOK, CallbackIssues
  <2> QED
    BY <1>4, <2>1, IssueIsStep DEF CallbackIssues, Slot!SlotNext
<1>5. CASE CallbackReadsTls
  <2>1. Opened
    BY <1>5 DEF ClosedOK, CallbackReadsTls
  <2> QED
    BY <1>5, <2>1, ReadTlsIsIssue DEF Slot!SlotNext
<1>6. CASE CallbackReturns
  <2>1. fired # 0 /\ fired' = 0 /\ UNCHANGED <<chan, calls, session>>
    BY <1>6 DEF CallbackReturns
  <2>2. SlotBar' = SlotBar /\ EndedBar' = EndedBar /\ Opened' = Opened
    BY <2>1 DEF SlotBar, EndedBar, Busy, Pending, Opened, chan, session
  <2> QED
    BY <2>1, <2>2
    DEF Slot!Return, Slot!NoCall, Slot!SlotNext, SlotBar, EndedBar
<1>7. CASE CancelPending \/ ReceiveTimeout \/ ReceiveOversized
  <2>1. ReceiveDone("failed", 0) /\ fired = 0 /\ UNCHANGED session
    BY <1>7 DEF CancelPending, ReceiveTimeout, ReceiveOversized, MainLoop
  <2> QED
    BY <1>0, <2>1, DoneIsFinish DEF Slot!SlotNext
<1>8. CASE NopDone
  BY <1>0, <1>8, DoneIsFinish DEF NopDone, Slot!SlotNext
<1>9. CASE DevInit
  BY <1>9, DevInitIsOpen DEF Slot!SlotNext
<1>10. CASE DevDeinit
  BY <1>10, DevDeinitIsClose DEF Slot!SlotNext
<1>11. CASE ReceiveData
  BY <1>11, ReceiveDataIsStep DEF Slot!SlotNext
<1> QED
  BY <1>2, <1>3, <1>4, <1>5, <1>6, <1>7, <1>8, <1>9, <1>10, <1>11
  DEF Next, HostNext

(* The channel of goodix.c keeps the promise of CommandSlot: one command at *)
(* a time, a refused one does not disturb it, and each callback is called   *)
(* exactly once unless the device is closed.                                *)
THEOREM ImplementsSlot == Spec => KeepsSlot
<1>1. Init => Slot!SlotInit
  <2> SUFFICES ASSUME Init PROVE Slot!SlotInit
    OBVIOUS
  <2>1. ~Busy /\ fired = 0 /\ DOMAIN calls = {}
    BY DEF Init, Busy
  <2>2. Opened = FALSE
    BY DEF Init, Opened
  <2> QED
    BY <2>1, <2>2 DEF Slot!SlotInit, Slot!NoCall
<1>2. IInv /\ ClosedOK /\ (IInv /\ ClosedOK)' /\ [Next]_vars
        => [Slot!SlotNext]_(Slot!slotVars)
  BY StepIsStep DEF Slot!slotVars, Stutter, SlotBar, EndedBar
<1> QED
  BY <1>1, <1>2, Invariant, PTL DEF Spec, KeepsSlot, Slot!SlotSpec

-----------------------------------------------------------------------------
(***************************************************************************)
(* A command succeeds only on its own answer, or on one that came too late *)
(* for its own command (AnswerIsOwn), for every set of requests and every  *)
(* value of the bounds.                                                    *)
(*                                                                         *)
(* The channel compares command bytes only, so what is to be shown is that *)
(* a pack with the byte of the outstanding command that is not its answer  *)
(* has missed its own.  The sensor sends to each call one pack that can    *)
(* end it, four to a handshake: those on their way and those that ended a  *)
(* call are never more (Budget).  A call that ended with its own pack has  *)
(* therefore none left to end another, except its ACK, which comes before  *)
(* its reply (AckFirst).                                                   *)
(***************************************************************************)

(* How many elements of the sequence s are in P.                            *)
Count(s, P) == Cardinality({k \in 1 .. Len(s) : s[k] \in P})

LEMMA CountAppend ==
  ASSUME NEW S, NEW s \in Seq(S), NEW x \in S, NEW P
  PROVE  /\ Count(s, P) \in Nat
         /\ x \in P => Count(Append(s, x), P) = Count(s, P) + 1
         /\ x \notin P => Count(Append(s, x), P) = Count(s, P)
<1> DEFINE K(q) == {k \in 1 .. Len(q) : q[k] \in P}
           n == Len(s) + 1
           e == Append(s, x)
<1>1. Len(s) \in Nat /\ n \in Nat /\ n \notin 1 .. Len(s)
  OBVIOUS
<1>2. Len(e) = n /\ e[n] = x /\ \A k \in 1 .. Len(s) : e[k] = s[k]
  OBVIOUS
<1>3. 1 .. n = (1 .. Len(s)) \cup {n}
  BY <1>1
<1>4. IsFiniteSet(K(s)) /\ n \notin K(s)
  <2>1. IsFiniteSet(1 .. Len(s)) /\ K(s) \subseteq 1 .. Len(s)
    BY <1>1, FS_Interval
  <2> QED
    BY <1>1, <2>1, FS_Subset
<1>5. K(e) = IF x \in P THEN K(s) \cup {n} ELSE K(s)
  <2> HIDE DEF e, n
  <2> QED
    BY <1>2, <1>3
<1>6. Cardinality(K(s)) \in Nat
  BY <1>4, FS_CardinalityType
<1>7. Cardinality(K(s) \cup {n}) = Cardinality(K(s)) + 1
  BY <1>4, FS_AddElement
<1>8. Count(s, P) = Cardinality(K(s)) /\ Count(e, P) = Cardinality(K(e))
  BY DEF Count
<1> HIDE DEF K, e, n
<1>9. /\ Count(s, P) \in Nat
      /\ x \in P => Count(e, P) = Count(s, P) + 1
      /\ x \notin P => Count(e, P) = Count(s, P)
  BY <1>5, <1>6, <1>7, <1>8
<1> QED
  BY <1>9 DEF e

LEMMA CountTail ==
  ASSUME NEW S, NEW s \in Seq(S), s # << >>, NEW P
  PROVE  /\ Count(s, P) \in Nat /\ Count(Tail(s), P) \in Nat
         /\ Head(s) \in P => Count(Tail(s), P) + 1 <= Count(s, P)
         /\ Count(Tail(s), P) <= Count(s, P)
<1> DEFINE t == Tail(s)
           K(q) == {k \in 1 .. Len(q) : q[k] \in P}
           R == K(s) \ {1}
           f == [k \in K(t) |-> k + 1]
<1>1. Len(s) \in Nat /\ Len(s) >= 1 /\ Len(t) = Len(s) - 1 /\ Len(t) \in Nat
      /\ \A k \in 1 .. Len(t) : t[k] = s[k + 1]
  OBVIOUS
<1>2. IsFiniteSet(K(s)) /\ IsFiniteSet(K(t))
  <2>1. /\ IsFiniteSet(1 .. Len(s)) /\ K(s) \subseteq 1 .. Len(s)
        /\ IsFiniteSet(1 .. Len(t)) /\ K(t) \subseteq 1 .. Len(t)
    BY <1>1, FS_Interval
  <2> QED
    BY <2>1, FS_Subset
<1>3. IsFiniteSet(R) /\ Cardinality(R) = IF 1 \in K(s) THEN Cardinality(K(s)) - 1
                                         ELSE Cardinality(K(s))
  BY <1>2, FS_RemoveElement
<1>4. f \in Injection(K(t), R)
  <2>1. \A k \in K(t) : k \in Nat /\ k + 1 \in R
    BY <1>1
  <2>2. \A k, l \in K(t) : k + 1 = l + 1 => k = l
    BY <2>1
  <2>3. f \in [K(t) -> R] /\ \A k, l \in DOMAIN f : f[k] = f[l] => k = l
    BY <2>1, <2>2
  <2> QED
    BY <2>3 DEF Injection, IsInjective
<1>5. Cardinality(K(t)) <= Cardinality(R)
  <2> HIDE DEF f, R, K, t
  <2> QED
    BY <1>3, <1>4, FS_Injection
<1>6. Cardinality(K(s)) \in Nat /\ Cardinality(K(t)) \in Nat /\ Cardinality(R) \in Nat
  BY <1>2, <1>3, FS_CardinalityType
<1>7. Head(s) \in P <=> 1 \in K(s)
  BY <1>1
<1>8. Count(s, P) = Cardinality(K(s)) /\ Count(t, P) = Cardinality(K(t))
  BY DEF Count
<1> HIDE DEF K, R, f, t
<1>9. /\ Count(s, P) \in Nat /\ Count(t, P) \in Nat
      /\ Head(s) \in P => Count(t, P) + 1 <= Count(s, P)
      /\ Count(t, P) <= Count(s, P)
  BY <1>3, <1>5, <1>6, <1>7, <1>8
<1> QED
  BY <1>9 DEF t

LEMMA CountNone ==
  ASSUME NEW S, NEW s \in Seq(S), NEW P, \A k \in 1 .. Len(s) : s[k] \notin P
  PROVE  Count(s, P) = 0
<1>1. {k \in 1 .. Len(s) : s[k] \in P} = {}
  OBVIOUS
<1> QED
  BY <1>1, FS_EmptySet DEF Count

LEMMA CountOne ==
  ASSUME NEW S, NEW s \in Seq(S), NEW P, NEW k \in 1 .. Len(s), s[k] \in P
  PROVE  Count(s, P) \in Nat /\ Count(s, P) >= 1
<1> DEFINE K == {l \in 1 .. Len(s) : s[l] \in P}
<1>1. IsFiniteSet(1 .. Len(s)) /\ K \subseteq 1 .. Len(s) /\ k \in K
  BY FS_Interval
<1>2. IsFiniteSet(K)
  BY <1>1, FS_Subset
<1>3. Cardinality(K) \in Nat /\ Cardinality(K) # 0
  BY <1>1, <1>2, FS_CardinalityType, FS_EmptySet
<1> QED
  BY <1>3 DEF Count

-----------------------------------------------------------------------------
(* Whose answers are on their way.                                          *)

Req(c) == calls[c].req

(* A call keeps its own number as tag, a read_tls that of its handshake, and *)
(* is ended by the answer of a call that was made.                          *)
Tagged ==
  \A i \in DOMAIN calls :
    /\ calls[i].by \in 0 .. Len(calls)
    /\ calls[i].outcome = "pending" => calls[i].by = 0
    /\ Req(i) # read_tls => calls[i].tag = i
    /\ Req(i) = read_tls => /\ calls[i].tag \in 1 .. (i - 1)
                            /\ Req(calls[i].tag) = request_tls_connection

(* The sensor has something to send to call t, or has sent it.              *)
InPipe(t) ==
  \/ \E k \in 1 .. Len(unacked) : unacked[k] = t
  \/ owed[t] > 0
  \/ \E k \in 1 .. Len(wire) : wire[k].tag = t

PipeTagged ==
  /\ \A t \in Ids : InPipe(t) =>
       t \in DOMAIN calls /\ Req(t) # read_tls /\ (Busy => t <= callback)
  /\ \A t \in Ids : owed[t] > 0 => Req(t).reply
  /\ \A k \in 1 .. Len(wire) :
       /\ wire[k].byte = Req(wire[k].tag).byte
       /\ \/ wire[k].kind = "ack"
          \/ wire[k].kind = AnswerKind(Req(wire[k].tag)) /\ Req(wire[k].tag).reply

SlotOf == Busy => cmd = Req(callback).byte /\ (reply => Req(callback).reply)
                  /\ (Req(callback).reply => reply)

NopOK == in_nop => (Busy => Req(callback) = nop) /\ (fired # 0 => Req(fired) = nop)

(* The messages of a handshake that were waited for.                        *)
ReadsOf(t) == {j \in DOMAIN calls : calls[j].tag = t /\ j # t}

(* The packs that can end call t, those that did, and how many there are.   *)
Enders(t) == {p \in Pack : p.tag = t /\ (p.kind = "ack" <=> ~Req(t).reply)}
Used(t) ==
  {j \in DOMAIN calls :
     calls[j].by = t /\ (calls[j].tag = t \/ Req(t) = request_tls_connection)}
Allowed(t) == IF ReadsOf(t) = {} THEN 1 ELSE 1 + TlsMessages

Budget ==
  \A t \in DOMAIN calls :
    Count(unacked, {t}) + owed[t] + Count(wire, Enders(t)) + Cardinality(Used(t))
      <= Allowed(t)

(* The ACK of a call comes before its reply.                                *)
AckFirst ==
  \A t \in DOMAIN calls : \A k \in 1 .. Len(wire) :
    Req(t).reply /\ Req(t) # request_tls_connection
      /\ wire[k].tag = t /\ wire[k].kind = "ack" =>
        /\ calls[t].by # t
        /\ \A l \in 1 .. Len(wire) : wire[l].tag = t /\ wire[l].kind # "ack" => l > k

(* A handshake in whose own callback we are has read nothing yet.           *)
FreshOK ==
  \A t \in DOMAIN calls : t = fired \/ (Busy /\ t = callback) => ReadsOf(t) = {}

(* Call b ended, and not with its own answer.                               *)
Late(b) == calls[b].outcome # "pending" /\ (calls[b].outcome # "ok" \/ calls[b].by # b)

LateOK ==
  \A i \in DOMAIN calls :
    calls[i].outcome = "ok" /\ Req(i) # nop /\ calls[i].by # calls[i].tag =>
      /\ calls[i].by \in 1 .. (i - 1)
      /\ Req(calls[i].by) # nop /\ Req(calls[i].by) # read_tls
      /\ \/ Req(calls[i].by) = request_tls_connection
         \/ Req(calls[i].by).byte = Req(i).byte /\ Late(calls[i].by)

ChannelTags == Tagged /\ SlotOf /\ NopOK /\ FreshOK
PipeTags == PipeTagged /\ Budget /\ AckFirst
AnswerInv == ChannelTags /\ PipeTags /\ LateOK

LEMMA CommandTable ==
  /\ \A r \in Commands : r.byte = request_tls_connection.byte => r = request_tls_connection
  /\ \A r \in Commands : r.byte = nop.byte => r \in {nop, read_tls}
  /\ request_tls_connection.reply /\ read_tls.reply /\ mcu_get_image.reply /\ ~nop.reply
  /\ nop # read_tls /\ read_tls # request_tls_connection /\ nop # request_tls_connection
  /\ \A r \in Commands :
       /\ AnswerKind(r) # "ack"
       /\ AnswerKind(r) = "tls" => r = request_tls_connection
       /\ AnswerKind(r) = "tls data" => r = mcu_get_image
       /\ AnswerKind(r) = "protocol" => r # request_tls_connection
<1> DEFINE A(c) == c.byte = "d0" => c = request_tls_connection
           B(c) == c.byte = "00" => c \in {nop, read_tls}
<1>1. \A r \in Commands : A(r) /\ B(r)
  <2>1. \A b, x, y : Command(b, x, y).byte = b
    BY DEF Command
  <2>2. \A c : c.byte \notin {"d0", "00"} => A(c) /\ B(c)
    OBVIOUS
  <2>3. A(request_tls_connection) /\ B(nop) /\ B(read_tls)
    OBVIOUS
  <2>4. request_tls_connection.byte = "d0" /\ nop.byte = "00" /\ read_tls.byte = "00"
    BY <2>1 DEF nop, read_tls, request_tls_connection
  <2>5. A(nop) /\ A(read_tls) /\ B(request_tls_connection)
    BY <2>4
  <2>6. \A r \in Commands \ {nop, read_tls, request_tls_connection} : r.byte \notin {"d0", "00"}
    <3> DEFINE Other(c) == c.byte \notin {"d0", "00"}
    <3>1. \A b, x, y : b \notin {"d0", "00"} => Other(Command(b, x, y))
      BY <2>1
    <3> HIDE DEF Other
    <3>2. /\ Other(enable_chip) /\ Other(firmware_version) /\ Other(preset_psk_read)
          /\ Other(preset_psk_write) /\ Other(reset) /\ Other(idle_mode)
          /\ Other(upload_config_mcu) /\ Other(tls_successfully_established)
          /\ Other(mcu_get_image) /\ Other(fdt_mode) /\ Other(fdt_down)
          /\ Other(fdt_up_no_reply) /\ Other(fdt_up)
      BY <3>1
      DEF enable_chip, firmware_version, preset_psk_read, preset_psk_write, reset,
             idle_mode, upload_config_mcu, tls_successfully_established, mcu_get_image,
             fdt_mode, fdt_down, fdt_up_no_reply, fdt_up
    <3>3. \A r \in Commands \ {nop, read_tls, request_tls_connection} : Other(r)
      BY <3>2 DEF Commands
    <3> QED
      BY <3>3 DEF Other
  <2> HIDE DEF A, B
  <2>7. SUFFICES ASSUME NEW r \in Commands PROVE A(r) /\ B(r)
    OBVIOUS
  <2>8. CASE r \in {nop, read_tls, request_tls_connection}
    BY <2>3, <2>5, <2>8
  <2>9. CASE r \notin {nop, read_tls, request_tls_connection}
    BY <2>2, <2>6, <2>9
  <2> QED
    BY <2>8, <2>9
<1>2. request_tls_connection.byte = "d0" /\ nop.byte = "00"
  BY DEF request_tls_connection, nop, Command
<1>3. request_tls_connection.reply /\ read_tls.reply /\ mcu_get_image.reply /\ ~nop.reply
  BY DEF request_tls_connection, read_tls, nop, mcu_get_image, Command
<1>4. read_tls.byte = "00"
  BY DEF read_tls, Command
<1>5. nop # read_tls /\ read_tls # request_tls_connection /\ nop # request_tls_connection
  BY <1>2, <1>3, <1>4
<1>6. \A r \in Commands :
       /\ AnswerKind(r) # "ack"
       /\ AnswerKind(r) = "tls" => r = request_tls_connection
       /\ AnswerKind(r) = "tls data" => r = mcu_get_image
       /\ AnswerKind(r) = "protocol" => r # request_tls_connection
  BY DEF AnswerKind
<1> QED
  BY <1>1, <1>2, <1>3, <1>5, <1>6

(* The types of the state, as the lemmas below use them.                    *)
LEMMA Types ==
  ASSUME IInv
  PROVE  /\ calls \in Seq(Call) /\ Len(calls) \in Nat /\ DOMAIN calls = 1 .. Len(calls)
         /\ MaxCalls \in Nat /\ Len(calls) <= MaxCalls /\ DOMAIN calls \subseteq Ids
         /\ \A i \in DOMAIN calls :
              calls[i] \in Call /\ Req(i) \in Commands /\ calls[i].tag \in Ids
                /\ calls[i].by \in 0 .. MaxCalls
         /\ wire \in Seq(Pack) /\ unacked \in Seq(1 .. Len(calls))
         /\ \A k \in 1 .. Len(wire) : wire[k] \in Pack /\ wire[k].tag \in Ids
         /\ \A k \in 1 .. Len(unacked) : unacked[k] \in DOMAIN calls
         /\ owed \in [Ids -> Nat]
         /\ (Busy => callback \in DOMAIN calls)
<1>1. /\ calls \in Seq(Call) /\ Len(calls) \in Nat /\ DOMAIN calls = 1 .. Len(calls)
      /\ MaxCalls \in Nat /\ Len(calls) <= MaxCalls
      /\ wire \in Seq(Pack) /\ unacked \in Seq(1 .. Len(calls))
      /\ owed \in [Ids -> Nat] /\ (Busy => callback \in DOMAIN calls)
  BY BoundsAssumption DEF IInv, HostOK, PipeOK, SlotHolds
<1>2. DOMAIN calls \subseteq Ids
  BY <1>1 DEF Ids
<1>3. \A i \in DOMAIN calls : calls[i] \in Call
  BY <1>1
<1>4. \A i \in DOMAIN calls :
        Req(i) \in Commands /\ calls[i].tag \in Ids /\ calls[i].by \in 0 .. MaxCalls
  BY <1>3 DEF Call, Req
<1>5. \A k \in 1 .. Len(wire) : wire[k] \in Pack
  BY <1>1
<1>6. \A k \in 1 .. Len(wire) : wire[k].tag \in Ids
  BY <1>5 DEF Pack
<1>7. \A k \in 1 .. Len(unacked) : unacked[k] \in DOMAIN calls
  BY <1>1
<1> QED
  BY <1>1, <1>2, <1>3, <1>4, <1>5, <1>6, <1>7

-----------------------------------------------------------------------------
(* What a new call and the end of one do to the tags.                       *)

LEMMA Grows ==
  ASSUME IInv, Tagged, NEW r \in Commands, NEW outcome \in Outcomes \ {"ok"},
         NEW tag \in Ids, AddCall(r, outcome, tag),
         \/ r # read_tls /\ tag = NewCall
         \/ r = read_tls /\ tag \in DOMAIN calls /\ Req(tag) = request_tls_connection
  PROVE  /\ DOMAIN calls' = DOMAIN calls \cup {NewCall} /\ NewCall \notin DOMAIN calls
         /\ NewCall = Len(calls) + 1 /\ NewCall \in Ids /\ Len(calls') = Len(calls) + 1
         /\ \A i \in DOMAIN calls : calls'[i] = calls[i] /\ i < NewCall
         /\ calls'[NewCall] = [req |-> r, outcome |-> outcome, tag |-> tag, by |-> 0]
         /\ Tagged'
         /\ LateOK => LateOK'
         /\ \A t \in DOMAIN calls :
              /\ Used(t)' = Used(t) /\ Enders(t)' = Enders(t) /\ Req(t)' = Req(t)
              /\ tag # t => ReadsOf(t)' = ReadsOf(t)
              /\ tag = t => ReadsOf(t)' # {}
         /\ \A t \in {NewCall} : Used(t)' = {} /\ ReadsOf(t)' = {}
<1> DEFINE n == NewCall
<1>0. /\ calls \in Seq(Call) /\ Len(calls) \in Nat /\ DOMAIN calls = 1 .. Len(calls)
      /\ n = Len(calls) + 1 /\ MaxCalls \in Nat
  BY Types DEF NewCall
<1>1. /\ DOMAIN calls' = DOMAIN calls \cup {n} /\ Len(calls') = Len(calls) + 1
      /\ Len(calls') <= MaxCalls
      /\ \A i \in DOMAIN calls : calls'[i] = calls[i]
      /\ calls'[n] = [req |-> r, outcome |-> outcome, tag |-> tag, by |-> 0]
  BY <1>0, AddCallTyped
<1>2. n \in Ids /\ n \notin DOMAIN calls /\ \A i \in DOMAIN calls : i < n /\ i \in Nat \ {0}
  BY <1>0, <1>1 DEF Ids
<1>3. /\ calls'[n].req = r /\ calls'[n].outcome = outcome
      /\ calls'[n].tag = tag /\ calls'[n].by = 0
  BY <1>1
<1> HIDE DEF n
<1>4. \A i \in DOMAIN calls : calls[i].tag \in DOMAIN calls /\ calls[i].by \in 0 .. Len(calls)
                              /\ calls[i].by # n /\ calls[i].tag # n
  <2> SUFFICES ASSUME NEW i \in DOMAIN calls
               PROVE  calls[i].tag \in DOMAIN calls /\ calls[i].by \in 0 .. Len(calls)
                      /\ calls[i].by # n /\ calls[i].tag # n
    OBVIOUS
  <2>1. calls[i].tag \in DOMAIN calls /\ calls[i].by \in 0 .. Len(calls)
    BY <1>0 DEF Tagged
  <2> QED
    BY <1>0, <2>1
<1>5. Tagged'
  <2> SUFFICES ASSUME NEW i \in DOMAIN calls'
               PROVE  /\ calls'[i].by \in 0 .. Len(calls')
                      /\ calls'[i].outcome = "pending" => calls'[i].by = 0
                      /\ calls'[i].req # read_tls => calls'[i].tag = i
                      /\ calls'[i].req = read_tls =>
                           /\ calls'[i].tag \in 1 .. (i - 1)
                           /\ calls'[calls'[i].tag].req = request_tls_connection
    BY DEF Tagged, Req
  <2>1. CASE i \in DOMAIN calls
    <3>1. calls'[i] = calls[i] /\ calls'[calls[i].tag] = calls[calls[i].tag]
      BY <1>1, <1>4, <2>1
    <3>2. calls[i].by \in 0 .. Len(calls')
      BY <1>0, <1>1, <1>4, <2>1
    <3> QED
      BY <2>1, <3>1, <3>2 DEF Tagged, Req
  <2>2. CASE i = n
    <3>1. tag \in DOMAIN calls => tag \in 1 .. (i - 1) /\ calls'[tag] = calls[tag]
      BY <1>0, <1>1, <2>2
    <3>2. 0 \in 0 .. Len(calls')
      BY <1>0, <1>1
    <3> QED
      BY <1>3, <2>2, <3>1, <3>2 DEF Req, n
  <2> QED
    BY <1>1, <2>1, <2>2
<1>6. ASSUME LateOK PROVE LateOK'
  <2> SUFFICES ASSUME NEW i \in DOMAIN calls',
                      calls'[i].outcome = "ok" /\ calls'[i].req # nop
                        /\ calls'[i].by # calls'[i].tag
               PROVE  /\ calls'[i].by \in 1 .. (i - 1)
                      /\ LET b == calls'[calls'[i].by] IN
                         /\ b.req # nop /\ b.req # read_tls
                         /\ \/ b.req = request_tls_connection
                            \/ /\ b.req.byte = calls'[i].req.byte /\ b.outcome # "pending"
                               /\ b.outcome # "ok" \/ b.by # calls'[i].by
    BY DEF LateOK, Req, Late
  <2>1. i \in DOMAIN calls /\ calls'[i] = calls[i]
    BY <1>1, <1>3
  <2>2. calls[i].by \in 1 .. (i - 1) /\ calls[i].by \in DOMAIN calls
    BY <1>0, <1>6, <2>1 DEF LateOK, Req
  <2>3. calls'[calls[i].by] = calls[calls[i].by]
    BY <1>1, <2>2
  <2> QED
    BY <1>6, <2>1, <2>2, <2>3 DEF LateOK, Req, Late
<1>7. ASSUME NEW t \in DOMAIN calls
      PROVE  /\ Used(t)' = Used(t) /\ Enders(t)' = Enders(t) /\ Req(t)' = Req(t)
             /\ tag # t => ReadsOf(t)' = ReadsOf(t)
             /\ tag = t => ReadsOf(t)' # {}
  <2>1. Req(t)' = Req(t)
    BY <1>1, <1>7 DEF Req
  <2>2. Enders(t)' = Enders(t)
    BY <2>1 DEF Enders
  <2>3. Used(t)' = Used(t)
    <3>1. t # 0 /\ t # n
      BY <1>2
    <3> QED
      BY <1>1, <1>2, <1>3, <2>1, <3>1 DEF Used
  <2>4. tag # t => ReadsOf(t)' = ReadsOf(t)
    BY <1>1, <1>2, <1>3 DEF ReadsOf
  <2>5. tag = t => n \in ReadsOf(t)'
    BY <1>1, <1>2, <1>3 DEF ReadsOf
  <2> QED
    BY <2>1, <2>2, <2>3, <2>4, <2>5
<1>8. ASSUME NEW t \in {n} PROVE Used(t)' = {} /\ ReadsOf(t)' = {}
  <2>1. n # 0
    BY <1>0
  <2>2. \A i \in DOMAIN calls' : calls'[i].by # n
    BY <1>1, <1>3, <1>4, <2>1
  <2>3. \A i \in DOMAIN calls' : i = n \/ calls'[i].tag # n
    BY <1>1, <1>3, <1>4
  <2> QED
    BY <1>8, <2>2, <2>3 DEF Used, ReadsOf
<1> QED
  BY <1>0, <1>1, <1>2, <1>5, <1>6, <1>7, <1>8 DEF n

LEMMA Ends ==
  ASSUME IInv, Tagged, Busy, NEW outcome \in Outcomes \ {"pending"},
         NEW by \in 0 .. Len(calls),
         calls' = [calls EXCEPT ![callback].outcome = outcome, ![callback].by = by]
  PROVE  /\ DOMAIN calls' = DOMAIN calls /\ Len(calls') = Len(calls)
         /\ callback \in DOMAIN calls /\ calls[callback].outcome = "pending"
         /\ \A i \in DOMAIN calls :
              /\ calls'[i].req = calls[i].req /\ calls'[i].tag = calls[i].tag
              /\ i # callback => calls'[i] = calls[i]
         /\ calls'[callback].outcome = outcome /\ calls'[callback].by = by
         /\ Tagged'
         /\ \A t \in DOMAIN calls :
              /\ ReadsOf(t)' = ReadsOf(t) /\ Enders(t)' = Enders(t) /\ Req(t)' = Req(t)
              /\ Used(t)' \in {Used(t), Used(t) \cup {callback}}
              /\ by # t => Used(t)' = Used(t)
              /\ calls[callback].tag # t /\ Req(t) # request_tls_connection =>
                   Used(t)' = Used(t)
<1> DEFINE c == callback
<1>0. /\ calls \in Seq(Call) /\ Len(calls) \in Nat /\ DOMAIN calls = 1 .. Len(calls)
      /\ c \in DOMAIN calls /\ MaxCalls \in Nat /\ Len(calls) <= MaxCalls
      /\ \A i \in DOMAIN calls : calls[i] \in Call
  BY Types
<1>1. calls[c].outcome = "pending" /\ calls[c].by = 0
  BY <1>0 DEF IInv, HostOK, SlotHolds, Tagged
<1>2. /\ DOMAIN calls' = DOMAIN calls
      /\ \A i \in DOMAIN calls : i # c => calls'[i] = calls[i]
      /\ calls'[c] = [calls[c] EXCEPT !.outcome = outcome, !.by = by]
  BY <1>0
<1>3. /\ calls'[c].req = calls[c].req /\ calls'[c].tag = calls[c].tag
      /\ calls'[c].outcome = outcome /\ calls'[c].by = by
  BY <1>0, <1>2 DEF Call
<1>4. Len(calls') = Len(calls)
  <2>1. by \in 0 .. MaxCalls
    BY <1>0
  <2> QED
    BY <1>0, <2>1, EndCallTyped
<1> HIDE DEF c
<1>5. \A i \in DOMAIN calls : calls'[i].req = calls[i].req /\ calls'[i].tag = calls[i].tag
  BY <1>2, <1>3
<1>6. Tagged'
  <2> SUFFICES ASSUME NEW i \in DOMAIN calls
               PROVE  /\ calls'[i].by \in 0 .. Len(calls)
                      /\ calls'[i].outcome = "pending" => calls'[i].by = 0
                      /\ calls'[i].req # read_tls => calls'[i].tag = i
                      /\ calls'[i].req = read_tls =>
                           /\ calls'[i].tag \in 1 .. (i - 1)
                           /\ calls'[calls'[i].tag].req = request_tls_connection
    BY <1>2, <1>4 DEF Tagged, Req
  <2>1. calls[i].req = read_tls => calls[i].tag \in DOMAIN calls
    BY <1>0 DEF Tagged, Req
  <2>2. calls'[i].by \in 0 .. Len(calls) /\ (calls'[i].outcome = "pending" => calls'[i].by = 0)
    BY <1>2, <1>3 DEF Tagged
  <2> QED
    BY <1>5, <2>1, <2>2 DEF Tagged, Req
<1>7. ASSUME NEW t \in DOMAIN calls
      PROVE  /\ ReadsOf(t)' = ReadsOf(t) /\ Enders(t)' = Enders(t) /\ Req(t)' = Req(t)
             /\ Used(t)' \in {Used(t), Used(t) \cup {c}}
             /\ by # t => Used(t)' = Used(t)
             /\ calls[c].tag # t /\ Req(t) # request_tls_connection => Used(t)' = Used(t)
  <2>1. Req(t)' = Req(t)
    BY <1>5 DEF Req
  <2>2. Enders(t)' = Enders(t)
    BY <2>1 DEF Enders
  <2>3. ReadsOf(t)' = ReadsOf(t)
    BY <1>2, <1>5 DEF ReadsOf
  <2>4. c \notin Used(t) /\ t # 0
    BY <1>0, <1>1 DEF Used
  <2>5. \A j \in DOMAIN calls \ {c} : j \in Used(t)' <=> j \in Used(t)
    BY <1>2, <2>1 DEF Used
  <2>6. Used(t) \subseteq DOMAIN calls /\ Used(t)' \subseteq DOMAIN calls
    BY <1>2 DEF Used
  <2>7. c \in Used(t)' <=> by = t /\ (calls[c].tag = t \/ Req(t) = request_tls_connection)
    BY <1>0, <1>2, <1>3, <2>1 DEF Used
  <2>8. c \in Used(t)' => Used(t)' = Used(t) \cup {c}
    BY <1>0, <2>5, <2>6
  <2>9. c \notin Used(t)' => Used(t)' = Used(t)
    <3>1. c \notin Used(t)' => \A j : j \in Used(t)' <=> j \in Used(t)
      BY <2>4, <2>5, <2>6
    <3> QED
      BY <3>1, Zenon
  <2> QED
    BY <2>1, <2>2, <2>3, <2>7, <2>8, <2>9
<1> QED
  BY <1>0, <1>1, <1>2, <1>3, <1>4, <1>5, <1>6, <1>7 DEF c

-----------------------------------------------------------------------------
(* What a new call does to the packs on their way.                          *)

LEMMA CountNat ==
  ASSUME NEW S, NEW s \in Seq(S), NEW P
  PROVE  Count(s, P) \in Nat
<1> DEFINE K == {k \in 1 .. Len(s) : s[k] \in P}
<1>1. IsFiniteSet(1 .. Len(s)) /\ K \subseteq 1 .. Len(s)
  BY FS_Interval
<1>2. IsFiniteSet(K)
  BY <1>1, FS_Subset
<1> QED
  BY <1>2, FS_CardinalityType DEF Count

LEMMA BudgetTyped ==
  ASSUME IInv, NEW t \in DOMAIN calls
  PROVE  /\ Count(unacked, {t}) \in Nat /\ owed[t] \in Nat
         /\ Count(wire, Enders(t)) \in Nat
         /\ IsFiniteSet(Used(t)) /\ Cardinality(Used(t)) \in Nat
<1>1. /\ wire \in Seq(Pack) /\ unacked \in Seq(1 .. Len(calls)) /\ t \in Ids
      /\ owed \in [Ids -> Nat] /\ Len(calls) \in Nat /\ DOMAIN calls = 1 .. Len(calls)
  BY Types
<1>2. Count(unacked, {t}) \in Nat /\ Count(wire, Enders(t)) \in Nat
  BY <1>1, CountNat
<1>3. IsFiniteSet(DOMAIN calls) /\ Used(t) \subseteq DOMAIN calls
  BY <1>1, FS_Interval DEF Used
<1>4. IsFiniteSet(Used(t))
  BY <1>3, FS_Subset
<1> QED
  BY <1>1, <1>2, <1>4, FS_CardinalityType

(* Nothing is on its way to a call that was not made.                       *)
LEMMA NothingForNew ==
  ASSUME IInv, PipeTagged, NEW n \in Ids \ DOMAIN calls, NEW P, \A p \in P : p.tag = n
  PROVE  ~InPipe(n) /\ Count(unacked, {n}) = 0 /\ owed[n] = 0 /\ Count(wire, P) = 0
<1>1. /\ wire \in Seq(Pack) /\ unacked \in Seq(1 .. Len(calls)) /\ owed \in [Ids -> Nat]
  BY Types
<1>2. ~InPipe(n)
  BY DEF PipeTagged
<1>3. owed[n] = 0 /\ (\A k \in 1 .. Len(unacked) : unacked[k] \notin {n})
                  /\ (\A k \in 1 .. Len(wire) : wire[k] \notin P)
  BY <1>1, <1>2 DEF InPipe
<1> QED
  BY <1>1, <1>2, <1>3, CountNone

(* A step that adds a call keeps what is said of the packs on the wire.     *)
LEMMA WireKept ==
  ASSUME IInv, PipeTagged, AckFirst, wire' = wire,
         DOMAIN calls \subseteq DOMAIN calls',
         \A i \in DOMAIN calls : calls'[i] = calls[i]
  PROVE  /\ \A k \in 1 .. Len(wire) :
              /\ wire[k].tag \in DOMAIN calls
              /\ wire[k].byte = Req(wire[k].tag)'.byte
              /\ \/ wire[k].kind = "ack"
                 \/ wire[k].kind = AnswerKind(Req(wire[k].tag)') /\ Req(wire[k].tag)'.reply
         /\ AckFirst'
<1>1. \A k \in 1 .. Len(wire) : wire[k].tag \in DOMAIN calls
  BY Types DEF PipeTagged, InPipe
<1>2. \A k \in 1 .. Len(wire) : calls'[wire[k].tag].req = Req(wire[k].tag)
  BY <1>1 DEF Req
<1>3. AckFirst'
  <2> SUFFICES ASSUME NEW t \in DOMAIN calls', NEW k \in 1 .. Len(wire),
                      calls'[t].req.reply, calls'[t].req # request_tls_connection,
                      wire[k].tag = t, wire[k].kind = "ack"
               PROVE  calls'[t].by # t
                      /\ \A l \in 1 .. Len(wire) : wire[l].tag = t /\ wire[l].kind # "ack" => l > k
    BY DEF AckFirst, Req
  <2>1. t \in DOMAIN calls /\ calls'[t] = calls[t]
    BY <1>1
  <2> QED
    BY <2>1 DEF AckFirst, Req
<1> QED
  BY <1>1, <1>2, <1>3 DEF PipeTagged, Req

(* A command that is sent, refused or fails to be sent.                     *)
LEMMA SentPipe ==
  ASSUME IInv, Tagged, PipeTags, NEW r \in Commands \ {read_tls},
         NEW outcome \in Outcomes \ {"ok"}, AddCall(r, outcome, NewCall),
         wire' = wire, owed' = owed,
         \/ unacked' = unacked /\ (Busy' => Busy /\ callback' = callback)
         \/ unacked' = Append(unacked, NewCall) /\ callback' = NewCall
  PROVE  PipeTags'
<1>0. NewCall \in Ids
  BY Types DEF NewCall, AddCall, Ids
<1>1. PICK n \in Ids : n = NewCall
  BY <1>0
<1>2. AddCall(r, outcome, n)
  BY <1>1
<1>3. /\ DOMAIN calls' = DOMAIN calls \cup {n} /\ n \notin DOMAIN calls
      /\ \A i \in DOMAIN calls : calls'[i] = calls[i] /\ i < n
      /\ calls'[n] = [req |-> r, outcome |-> outcome, tag |-> n, by |-> 0]
      /\ \A t \in DOMAIN calls :
           /\ Used(t)' = Used(t) /\ Enders(t)' = Enders(t) /\ Req(t)' = Req(t)
           /\ n # t => ReadsOf(t)' = ReadsOf(t)
      /\ Used(n)' = {} /\ ReadsOf(n)' = {}
  BY <1>1, <1>2, Grows
<1>4. /\ wire \in Seq(Pack) /\ unacked \in Seq(1 .. Len(calls)) /\ owed \in [Ids -> Nat]
      /\ unacked \in Seq(Ids) /\ DOMAIN calls = 1 .. Len(calls) /\ DOMAIN calls \subseteq Ids
  <2>1. 1 .. Len(calls) \subseteq Ids
    BY Types
  <2> QED
    BY <2>1, Types, SeqMonotonic
<1>5. \A p \in Enders(n)' : p.tag = n
  BY DEF Enders
<1>6. ~InPipe(n) /\ Count(unacked, {n}) = 0 /\ owed[n] = 0 /\ Count(wire, Enders(n)') = 0
  <2>1. n \in Ids \ DOMAIN calls
    BY <1>3
  <2> QED
    BY <1>5, <2>1, NothingForNew DEF PipeTags
<1>7. \A t \in Ids : InPipe(t)' => InPipe(t) \/ (t = n /\ callback' = n)
  <2> SUFFICES ASSUME NEW t \in Ids, InPipe(t)', ~InPipe(t)
               PROVE  t = n /\ callback' = n
    OBVIOUS
  <2>1. \E k \in 1 .. Len(unacked') : unacked'[k] = t
    BY DEF InPipe
  <2>2. unacked' # unacked
    BY <2>1 DEF InPipe
  <2>3. unacked' = Append(unacked, n) /\ callback' = n
    BY <1>1, <2>2
  <2>4. \A k \in 1 .. Len(Append(unacked, n)) :
          Append(unacked, n)[k] = n
            \/ (k \in 1 .. Len(unacked) /\ Append(unacked, n)[k] = unacked[k])
    BY <1>4
  <2> QED
    BY <2>1, <2>3, <2>4 DEF InPipe
<1>8. PipeTagged' /\ AckFirst'
  <2>1. /\ \A k \in 1 .. Len(wire) :
             /\ wire[k].byte = Req(wire[k].tag)'.byte
             /\ \/ wire[k].kind = "ack"
                \/ wire[k].kind = AnswerKind(Req(wire[k].tag)') /\ Req(wire[k].tag)'.reply
        /\ AckFirst'
    BY <1>3, WireKept DEF PipeTags
  <2>2. ASSUME NEW t \in Ids, InPipe(t)'
        PROVE  t \in DOMAIN calls' /\ Req(t)' # read_tls /\ (Busy' => t <= callback')
    <3>1. CASE InPipe(t)
      <4>1. t \in DOMAIN calls /\ Req(t) # read_tls /\ (Busy => t <= callback) /\ t < n
        BY <1>3, <3>1 DEF PipeTags, PipeTagged
      <4>2. Busy' => t <= callback'
        BY <1>1, <4>1 DEF Ids
      <4> QED
        BY <1>3, <4>1, <4>2
    <3>2. CASE t = n /\ callback' = n
      <4>1. calls'[n].req = r
        BY <1>3
      <4>2. n <= n
        BY DEF Ids
      <4> QED
        BY <1>3, <3>2, <4>1, <4>2 DEF Req
    <3> QED
      BY <1>7, <2>2, <3>1, <3>2
  <2>3. ASSUME NEW t \in Ids, owed'[t] > 0 PROVE Req(t)'.reply
    <3>1. owed[t] > 0 /\ t \in DOMAIN calls /\ Req(t).reply
      BY <2>3 DEF PipeTags, PipeTagged, InPipe
    <3> QED
      BY <1>3, <3>1
  <2> QED
    BY <2>1, <2>2, <2>3 DEF PipeTagged
<1>9. Budget'
  <2> SUFFICES ASSUME NEW t \in DOMAIN calls'
               PROVE  Count(unacked', {t}) + owed'[t] + Count(wire', Enders(t)')
                        + Cardinality(Used(t)') <= Allowed(t)'
    BY DEF Budget
  <2>1. CASE t \in DOMAIN calls
    <3>1. Count(unacked', {t}) = Count(unacked, {t})
      <4>1. n \notin {t}
        BY <1>3, <2>1
      <4>2. Count(Append(unacked, n), {t}) = Count(unacked, {t})
        BY <1>4, <4>1, CountAppend
      <4> QED
        BY <1>1, <4>2
    <3>2. Allowed(t)' = Allowed(t)
      BY <1>3, <2>1 DEF Allowed, TlsMessages
    <3> QED
      BY <1>3, <2>1, <3>1, <3>2 DEF PipeTags, Budget
  <2>2. CASE t = n
    <3>1. Count(unacked', {n}) \in {0, 1}
      <4>1. Count(Append(unacked, n), {n}) = Count(unacked, {n}) + 1
        BY <1>4, CountAppend
      <4>2. Count(Append(unacked, n), {n}) = 1
        BY <1>6, <4>1
      <4> QED
        BY <1>1, <1>6, <4>2
    <3>2. Cardinality(Used(n)') = 0
      BY <1>3, FS_EmptySet
    <3>3. Allowed(n)' = 1
      BY <1>3 DEF Allowed
    <3> QED
      BY <1>6, <2>2, <3>1, <3>2, <3>3
  <2> QED
    BY <1>3, <2>1, <2>2
<1> QED
  BY <1>8, <1>9 DEF PipeTags

(* The slot is free in the callback that continues a handshake.             *)
LEMMA HandshakeOf ==
  ASSUME IInv, Tagged, fired # 0, InHandshake(fired)
  PROVE  /\ fired \in DOMAIN calls /\ ~Busy /\ calls[fired].tag \in DOMAIN calls
         /\ Req(calls[fired].tag) = request_tls_connection
         /\ Req(fired) = request_tls_connection => calls[fired].tag = fired
         /\ Req(fired) # request_tls_connection => fired \in ReadsOf(calls[fired].tag)
         /\ Req(fired) \in {request_tls_connection, read_tls}
<1>1. fired \in DOMAIN calls /\ DOMAIN calls = 1 .. Len(calls) /\ Len(calls) \in Nat
  BY Types DEF IInv, HostOK
<1>2. ~Busy
  BY DEF InHandshake, IInv, HostOK, RefusedOnly
<1>3. Req(fired) \in {request_tls_connection, read_tls}
  BY DEF InHandshake, Req
<1>4. Req(fired) = request_tls_connection => calls[fired].tag = fired
  BY <1>1, CommandTable DEF Tagged
<1>5. Req(fired) = read_tls => calls[fired].tag \in 1 .. (fired - 1)
                               /\ Req(calls[fired].tag) = request_tls_connection
  BY <1>1 DEF Tagged
<1>6. Req(fired) = read_tls => calls[fired].tag \in DOMAIN calls /\ calls[fired].tag # fired
  BY <1>1, <1>5
<1> QED
  BY <1>1, <1>2, <1>3, <1>4, <1>5, <1>6 DEF ReadsOf

LEMMA ReadTlsPipe ==
  ASSUME IInv, Tagged, PipeTags, FreshOK, CallbackReadsTls
  PROVE  PipeTags'
<1>0. NewCall \in Ids /\ calls[fired].tag \in Ids
  BY Types, HandshakeOf DEF NewCall, AddCall, Ids, CallbackReadsTls, ReadTls
<1>1. PICK n \in Ids, b \in Ids : n = NewCall /\ b = calls[fired].tag
  BY <1>0
<1>2. /\ AddCall(read_tls, "pending", b) /\ wire' = wire /\ unacked' = unacked
      /\ callback' = n
      /\ owed' = [owed EXCEPT ![b] = IF Req(fired) = request_tls_connection
                                     THEN @ + TlsMessages ELSE @]
  BY <1>1 DEF CallbackReadsTls, ReadTls, Req
<1>3. /\ fired \in DOMAIN calls /\ b \in DOMAIN calls /\ Req(b) = request_tls_connection
      /\ Req(fired) = request_tls_connection => b = fired
      /\ Req(fired) # request_tls_connection => fired \in ReadsOf(b)
  BY <1>1, HandshakeOf DEF CallbackReadsTls
<1>4. /\ DOMAIN calls' = DOMAIN calls \cup {n} /\ n \notin DOMAIN calls
      /\ \A i \in DOMAIN calls : calls'[i] = calls[i] /\ i < n
      /\ calls'[n] = [req |-> read_tls, outcome |-> "pending", tag |-> b, by |-> 0]
      /\ \A t \in DOMAIN calls :
           /\ Used(t)' = Used(t) /\ Enders(t)' = Enders(t) /\ Req(t)' = Req(t)
           /\ b # t => ReadsOf(t)' = ReadsOf(t)
           /\ b = t => ReadsOf(t)' # {}
      /\ Used(n)' = {} /\ ReadsOf(n)' = {}
  <2>1. "pending" \in Outcomes \ {"ok"} /\ read_tls \in Commands
    BY CommandsTyped DEF Outcomes
  <2>2. AddCall(read_tls, "pending", b) /\ b \in DOMAIN calls
        /\ Req(b) = request_tls_connection
    BY <1>2, <1>3
  <2> QED
    BY <1>1, <2>1, <2>2, Grows
<1>5. /\ wire \in Seq(Pack) /\ unacked \in Seq(1 .. Len(calls)) /\ owed \in [Ids -> Nat]
      /\ DOMAIN calls = 1 .. Len(calls) /\ DOMAIN calls \subseteq Ids
  BY Types
<1>6. Count(unacked, {n}) = 0 /\ owed[n] = 0 /\ Count(wire, Enders(n)') = 0
  <2>1. n \in Ids \ DOMAIN calls /\ \A p \in Enders(n)' : p.tag = n
    BY <1>4 DEF Enders
  <2> QED
    BY <2>1, NothingForNew DEF PipeTags
<1>7. \A t \in Ids : t # b => owed'[t] = owed[t]
  BY <1>2, <1>5
<1>8. PipeTagged' /\ AckFirst'
  <2>1. /\ \A k \in 1 .. Len(wire) :
             /\ wire[k].byte = Req(wire[k].tag)'.byte
             /\ \/ wire[k].kind = "ack"
                \/ wire[k].kind = AnswerKind(Req(wire[k].tag)') /\ Req(wire[k].tag)'.reply
        /\ AckFirst'
    BY <1>2, <1>4, WireKept DEF PipeTags
  <2>2. ASSUME NEW t \in Ids, InPipe(t)'
        PROVE  t \in DOMAIN calls' /\ Req(t)' # read_tls /\ (Busy' => t <= callback')
    <3>1. InPipe(t) \/ t = b
      BY <1>2, <1>7, <2>2 DEF InPipe
    <3>2. t \in DOMAIN calls /\ Req(t) # read_tls
      BY <1>3, <3>1, CommandTable DEF PipeTags, PipeTagged
    <3>3. t < n
      BY <1>4, <3>2
    <3>4. t <= n
      BY <3>3 DEF Ids
    <3> QED
      BY <1>2, <1>4, <3>2, <3>4
  <2>3. ASSUME NEW t \in Ids, owed'[t] > 0 PROVE Req(t)'.reply
    <3>1. CASE t = b
      BY <1>3, <1>4, <3>1, CommandTable
    <3>2. CASE t # b
      <4>1. owed[t] > 0 /\ t \in DOMAIN calls /\ Req(t).reply
        BY <1>7, <2>3, <3>2 DEF PipeTags, PipeTagged, InPipe
      <4> QED
        BY <1>4, <4>1
    <3> QED
      BY <3>1, <3>2
  <2> QED
    BY <1>2, <2>1, <2>2, <2>3 DEF PipeTagged
<1>9. Budget'
  <2> SUFFICES ASSUME NEW t \in DOMAIN calls'
               PROVE  Count(unacked', {t}) + owed'[t] + Count(wire', Enders(t)')
                        + Cardinality(Used(t)') <= Allowed(t)'
    BY DEF Budget
  <2>1. CASE t \in DOMAIN calls /\ t # b
    <3>1. Allowed(t)' = Allowed(t)
      BY <1>4, <2>1 DEF Allowed, TlsMessages
    <3>2. owed'[t] = owed[t]
      BY <1>5, <1>7, <2>1
    <3> QED
      BY <1>2, <1>4, <2>1, <3>1, <3>2 DEF PipeTags, Budget
  <2>2. CASE t = b
    <3>1. Count(unacked, {b}) + owed[b] + Count(wire, Enders(b)) + Cardinality(Used(b))
            <= Allowed(b)
      BY <1>3 DEF PipeTags, Budget
    <3>2. Allowed(b)' = 4
      BY <1>3, <1>4 DEF Allowed, TlsMessages
    <3>3. IF Req(fired) = request_tls_connection
          THEN Allowed(b) = 1 /\ owed'[b] = owed[b] + 3
          ELSE Allowed(b) = 4 /\ owed'[b] = owed[b]
      <4>1. Req(fired) = request_tls_connection => ReadsOf(b) = {}
        BY <1>3 DEF FreshOK
      <4> QED
        BY <1>2, <1>3, <1>5, <4>1 DEF Allowed, TlsMessages
    <3>4. /\ Count(unacked, {b}) \in Nat /\ owed[b] \in Nat
          /\ Count(wire, Enders(b)) \in Nat /\ Cardinality(Used(b)) \in Nat
      BY <1>3, BudgetTyped
    <3>5. Count(unacked, {b}) + owed'[b] + Count(wire, Enders(b)) + Cardinality(Used(b)) <= 4
      BY <3>1, <3>3, <3>4
    <3> QED
      BY <1>2, <1>3, <1>4, <2>2, <3>2, <3>5
  <2>3. CASE t = n
    <3>1. Cardinality(Used(n)') = 0 /\ Allowed(n)' = 1 /\ owed'[n] = 0 /\ n # b
      BY <1>3, <1>4, <1>6, <1>7, FS_EmptySet DEF Allowed
    <3> QED
      BY <1>2, <1>6, <2>3, <3>1
  <2> QED
    BY <1>4, <2>1, <2>2, <2>3
<1> QED
  BY <1>8, <1>9 DEF PipeTags

LEMMA TailElements ==
  ASSUME NEW S, NEW s \in Seq(S), s # << >>
  PROVE  /\ Len(Tail(s)) = Len(s) - 1 /\ Len(Tail(s)) \in Nat
         /\ \A k \in 1 .. Len(Tail(s)) : k + 1 \in 1 .. Len(s) /\ Tail(s)[k] = s[k + 1]
  OBVIOUS

(* Packs leave the pipe, and calls may end: what is said of the others.     *)
LEMMA FewerTagged ==
  ASSUME IInv, PipeTagged, owed' = owed,
         wire' = wire \/ (wire # << >> /\ wire' = Tail(wire)),
         unacked' = unacked \/ (unacked # << >> /\ unacked' = Tail(unacked)),
         DOMAIN calls' = DOMAIN calls, \A i \in DOMAIN calls : Req(i)' = Req(i),
         Busy' => Busy /\ callback' = callback
  PROVE  PipeTagged'
<1>1. /\ wire \in Seq(Pack) /\ unacked \in Seq(1 .. Len(calls))
      /\ \A k \in 1 .. Len(wire) : wire[k].tag \in Ids
  BY Types
<1>2. \A k \in 1 .. Len(wire') : \E l \in 1 .. Len(wire) : wire'[k] = wire[l]
  <2>1. CASE wire' = wire
    BY <2>1
  <2>2. CASE wire # << >> /\ wire' = Tail(wire)
    BY <1>1, <2>2, TailElements
  <2> QED
    BY <2>1, <2>2
<1>3. \A k \in 1 .. Len(unacked') : \E l \in 1 .. Len(unacked) : unacked'[k] = unacked[l]
  <2>1. CASE unacked' = unacked
    BY <2>1
  <2>2. CASE unacked # << >> /\ unacked' = Tail(unacked)
    BY <1>1, <2>2, TailElements
  <2> QED
    BY <2>1, <2>2
<1>4. \A t \in Ids : InPipe(t)' => InPipe(t)
  BY <1>2, <1>3 DEF InPipe
<1>5. \A k \in 1 .. Len(wire') :
        /\ wire'[k].tag \in DOMAIN calls
        /\ wire'[k].byte = Req(wire'[k].tag).byte
        /\ \/ wire'[k].kind = "ack"
           \/ wire'[k].kind = AnswerKind(Req(wire'[k].tag)) /\ Req(wire'[k].tag).reply
  BY <1>1, <1>2 DEF PipeTagged, InPipe
<1>6. \A k \in 1 .. Len(wire') : calls'[wire'[k].tag].req = Req(wire'[k].tag)
  BY <1>5 DEF Req
<1>7. ASSUME NEW t \in Ids, InPipe(t)'
      PROVE  t \in DOMAIN calls' /\ Req(t)' # read_tls /\ (Busy' => t <= callback')
  <2>1. t \in DOMAIN calls /\ Req(t) # read_tls /\ (Busy => t <= callback)
    BY <1>4, <1>7 DEF PipeTagged
  <2> QED
    BY <2>1
<1>8. ASSUME NEW t \in Ids, owed'[t] > 0 PROVE Req(t)'.reply
  <2>1. t \in DOMAIN calls /\ Req(t).reply
    BY <1>8 DEF PipeTagged, InPipe
  <2> QED
    BY <2>1
<1> QED
  BY <1>5, <1>6, <1>7, <1>8 DEF PipeTagged, Req

LEMMA FewerAckFirst ==
  ASSUME IInv, AckFirst,
         wire' = wire \/ (wire # << >> /\ wire' = Tail(wire)),
         DOMAIN calls' = DOMAIN calls, \A i \in DOMAIN calls : Req(i)' = Req(i),
         \A t \in DOMAIN calls :
           \/ calls'[t].by # t \/ calls[t].by = t
           \/ ~Req(t).reply \/ Req(t) = request_tls_connection
           \/ /\ wire # << >> /\ wire' = Tail(wire)
              /\ Head(wire).tag = t /\ Head(wire).kind # "ack"
  PROVE  AckFirst'
<1> SUFFICES ASSUME NEW t \in DOMAIN calls, NEW k \in 1 .. Len(wire'),
                    Req(t).reply, Req(t) # request_tls_connection,
                    wire'[k].tag = t, wire'[k].kind = "ack"
             PROVE  calls'[t].by # t
                    /\ \A l \in 1 .. Len(wire') :
                         wire'[l].tag = t /\ wire'[l].kind # "ack" => l > k
  BY DEF AckFirst, Req
<1>1. wire \in Seq(Pack) /\ Len(wire) \in Nat
  BY Types
<1>2. CASE wire' = wire
  <2>1. wire = << >> => FALSE
    BY <1>2
  <2>2. /\ calls[t].by # t
        /\ \A l \in 1 .. Len(wire) : wire[l].tag = t /\ wire[l].kind # "ack" => l > k
    BY <1>2 DEF AckFirst
  <2>3. ~(wire # << >> /\ wire' = Tail(wire))
    BY <1>1, <1>2
  <2> QED
    BY <1>2, <2>2, <2>3
<1>3. CASE wire # << >> /\ wire' = Tail(wire)
  <2>1. /\ Len(wire') = Len(wire) - 1 /\ Head(wire) = wire[1] /\ Len(wire) > 0
        /\ \A l \in 1 .. Len(wire') : wire'[l] = wire[l + 1] /\ l + 1 \in 1 .. Len(wire)
    BY <1>1, <1>3
  <2>2. /\ calls[t].by # t
        /\ \A l \in 1 .. Len(wire) : wire[l].tag = t /\ wire[l].kind # "ack" => l > k + 1
    BY <2>1 DEF AckFirst
  <2>3. ~(Head(wire).tag = t /\ Head(wire).kind # "ack")
    BY <1>1, <2>1, <2>2
  <2>4. calls'[t].by # t
    BY <2>2, <2>3
  <2>5. \A l \in 1 .. Len(wire') : wire'[l].tag = t /\ wire'[l].kind # "ack" => l > k
    <3>1. \A l \in 1 .. Len(wire') : l \in Nat /\ k \in Nat /\ (l + 1 > k + 1 => l > k)
      BY <1>1, <2>1
    <3> QED
      BY <2>1, <2>2, <3>1
  <2> QED
    BY <2>4, <2>5
<1> QED
  BY <1>2, <1>3

LEMMA FewerBudget ==
  ASSUME IInv, Budget, owed' = owed,
         wire' = wire \/ (wire # << >> /\ wire' = Tail(wire)),
         unacked' = unacked \/ (unacked # << >> /\ unacked' = Tail(unacked)),
         DOMAIN calls' = DOMAIN calls,
         \A t \in DOMAIN calls :
           /\ ReadsOf(t)' = ReadsOf(t) /\ Enders(t)' = Enders(t)
           /\ \/ Used(t)' = Used(t)
              \/ /\ \E c : Used(t)' = Used(t) \cup {c}
                 /\ wire # << >> /\ wire' = Tail(wire) /\ Head(wire) \in Enders(t)
  PROVE  Budget'
<1> SUFFICES ASSUME NEW t \in DOMAIN calls
             PROVE  Count(unacked', {t}) + owed'[t] + Count(wire', Enders(t)')
                      + Cardinality(Used(t)') <= Allowed(t)'
  BY DEF Budget
<1>1. wire \in Seq(Pack) /\ unacked \in Seq(1 .. Len(calls))
  BY Types
<1>2. /\ Count(unacked, {t}) \in Nat /\ owed[t] \in Nat
      /\ Count(wire, Enders(t)) \in Nat
      /\ IsFiniteSet(Used(t)) /\ Cardinality(Used(t)) \in Nat
  BY BudgetTyped
<1>3. Allowed(t)' = Allowed(t) /\ Allowed(t) \in Nat
  BY DEF Allowed, TlsMessages
<1>4. Count(unacked, {t}) + owed[t] + Count(wire, Enders(t)) + Cardinality(Used(t))
        <= Allowed(t)
  BY DEF Budget
<1>5. Count(unacked', {t}) \in Nat /\ Count(unacked', {t}) <= Count(unacked, {t})
  <2>1. CASE unacked' = unacked
    BY <1>2, <2>1
  <2>2. CASE unacked # << >> /\ unacked' = Tail(unacked)
    BY <1>1, <2>2, CountTail
  <2> QED
    BY <2>1, <2>2
<1>6. Count(wire', Enders(t)) \in Nat /\ Count(wire', Enders(t)) <= Count(wire, Enders(t))
  <2>1. CASE wire' = wire
    BY <1>2, <2>1
  <2>2. CASE wire # << >> /\ wire' = Tail(wire)
    BY <1>1, <2>2, CountTail
  <2> QED
    BY <2>1, <2>2
<1>7. CASE Used(t)' = Used(t)
  BY <1>2, <1>3, <1>4, <1>5, <1>6, <1>7
<1>8. CASE /\ \E c : Used(t)' = Used(t) \cup {c}
           /\ wire # << >> /\ wire' = Tail(wire) /\ Head(wire) \in Enders(t)
  <2>1. Count(wire', Enders(t)) + 1 <= Count(wire, Enders(t))
    BY <1>1, <1>8, CountTail
  <2>2. Cardinality(Used(t)') \in Nat /\ Cardinality(Used(t)') <= Cardinality(Used(t)) + 1
    <3>1. PICK c : Used(t)' = Used(t) \cup {c}
      BY <1>8
    <3>2. Cardinality(Used(t) \cup {c}) \in {Cardinality(Used(t)), Cardinality(Used(t)) + 1}
      BY <1>2, FS_AddElement
    <3> QED
      BY <1>2, <3>1, <3>2
  <2> QED
    BY <1>2, <1>3, <1>4, <1>5, <1>6, <2>1, <2>2
<1> QED
  BY <1>7, <1>8

-----------------------------------------------------------------------------
(* What ends the outstanding command: an ACK of its byte when it has no      *)
(* reply, a TLS message, or a reply of its byte.                            *)
EndedBy(p) ==
  /\ Busy /\ p \in Pack /\ p.tag \in DOMAIN calls /\ p.tag <= callback
  /\ Req(p.tag) # read_tls
  /\ \/ p.kind = "ack" /\ Req(p.tag).byte = Req(callback).byte /\ ~Req(callback).reply
     \/ p.kind = "tls" /\ Req(p.tag) = request_tls_connection
     \/ /\ p.kind # "ack" /\ Req(p.tag).byte = Req(callback).byte
        /\ Req(p.tag).reply /\ Req(p.tag) # request_tls_connection

LEMMA PackCases ==
  ASSUME IInv, PipeTagged, SlotOf, wire # << >>, ReceivePack(Head(wire))
  PROVE  \/ UNCHANGED <<fired, calls>> /\ (Busy' => Busy /\ UNCHANGED <<callback, reply>>)
         \/ EndedBy(Head(wire)) /\ ReceiveDone("ok", Head(wire).tag)
<1> DEFINE p == Head(wire)
<1>1. /\ wire \in Seq(Pack) /\ Len(wire) \in Nat /\ 1 \in 1 .. Len(wire) /\ p = wire[1]
      /\ p \in Pack /\ p.tag \in Ids
  <2>1. wire \in Seq(Pack)
    BY Types
  <2>2. Len(wire) \in Nat /\ 1 \in 1 .. Len(wire) /\ p = wire[1] /\ p \in Pack
    BY <2>1
  <2> QED
    BY <2>1, <2>2 DEF Pack
<1> HIDE DEF p
<1>2. /\ p.tag \in DOMAIN calls /\ Req(p.tag) # read_tls /\ (Busy => p.tag <= callback)
      /\ p.byte = Req(p.tag).byte
      /\ \/ p.kind = "ack"
         \/ p.kind = AnswerKind(Req(p.tag)) /\ Req(p.tag).reply
  <2>1. InPipe(p.tag)
    BY <1>1 DEF InPipe
  <2> QED
    BY <1>1, <2>1 DEF PipeTagged
<1>3. Req(p.tag) \in Commands
  BY <1>2, Types
<1>4. /\ p.kind = "tls" => Req(p.tag) = request_tls_connection
      /\ p.kind = "tls data" => Req(p.tag) = mcu_get_image /\ Req(p.tag).reply
      /\ p.kind = "protocol" => Req(p.tag) # request_tls_connection /\ Req(p.tag).reply
  BY <1>2, <1>3, CommandTable
<1>5. ASSUME ReceiveDone("ok", p.tag), ~Busy
      PROVE  UNCHANGED <<fired, calls>> /\ (Busy' => Busy /\ UNCHANGED <<callback, reply>>)
  BY <1>5 DEF ReceiveDone, Busy
<1>6. CASE UNCHANGED <<ack, reply, timeout, callback, fired, calls>>
  BY <1>6 DEF Busy
<1>7. CASE ReceiveAck(p)
  <2>1. CASE p.byte = cmd /\ ack /\ reply
    BY <1>7, <2>1 DEF ReceiveAck, Busy
  <2>2. CASE p.byte = cmd /\ ack /\ ~reply
    <3>1. ReceiveDone("ok", p.tag) /\ p.kind = "ack" /\ Busy
      BY <1>7, <2>2 DEF ReceiveAck, Busy
    <3>2. ~Req(callback).reply /\ cmd = Req(callback).byte
      BY <2>2, <3>1 DEF SlotOf
    <3> QED
      BY <1>1, <1>2, <2>2, <3>1, <3>2 DEF EndedBy, p
  <2> QED
    BY <1>6, <1>7, <2>1, <2>2 DEF ReceiveAck
<1>8. CASE ReceiveProtocol(p)
  <2>1. CASE p.byte = cmd /\ reply
    <3>1. ReceiveDone("ok", p.tag) /\ p.kind = "protocol" /\ Busy
      BY <1>8, <2>1 DEF ReceiveProtocol, Busy
    <3>2. cmd = Req(callback).byte
      BY <3>1 DEF SlotOf
    <3> QED
      BY <1>1, <1>2, <1>4, <2>1, <3>1, <3>2 DEF EndedBy, p
  <2> QED
    BY <1>6, <1>8, <2>1 DEF ReceiveProtocol
<1>9. CASE ReceiveTls(p)
  <2>1. ReceiveDone("ok", p.tag) /\ p.kind = "tls"
    BY <1>9 DEF ReceiveTls
  <2>2. CASE Busy
    BY <1>1, <1>2, <1>4, <2>1, <2>2 DEF EndedBy, p
  <2> QED
    BY <1>5, <2>1, <2>2
<1>10. CASE ReceiveTlsData(p)
  <2>1. CASE cmd = mcu_get_image.byte /\ reply
    <3>1. ReceiveDone("ok", p.tag) /\ p.kind = "tls data" /\ Busy
      BY <1>10, <2>1 DEF ReceiveTlsData, Busy
    <3>2. cmd = Req(callback).byte
      BY <3>1 DEF SlotOf
    <3>3. Req(p.tag) = mcu_get_image /\ Req(p.tag).reply /\ AnswerKind(Req(p.tag)) = "tls data"
      BY <1>2, <1>4, <3>1
    <3>4. Req(p.tag) # request_tls_connection
      BY <3>3 DEF AnswerKind
    <3> QED
      BY <1>1, <1>2, <2>1, <3>1, <3>2, <3>3, <3>4 DEF EndedBy, p
  <2> QED
    BY <1>6, <1>10, <2>1 DEF ReceiveTlsData
<1> QED
  BY <1>7, <1>8, <1>9, <1>10 DEF ReceivePack, p

(* What makes the tags of a call and of the pack that ends it agree.        *)
LEMMA EndedByOwn ==
  ASSUME IInv, Tagged, PipeTags, wire # << >>, EndedBy(Head(wire))
  PROVE  /\ calls[callback].tag = Head(wire).tag
              \/ Req(Head(wire).tag) = request_tls_connection =>
            Head(wire) \in Enders(Head(wire).tag)
         /\ Head(wire).tag = callback /\ Req(callback).reply => Head(wire).kind # "ack"
<1>1. callback \in DOMAIN calls /\ Req(callback) \in Commands
  BY Types DEF EndedBy
<1>2. Head(wire).kind = "ack" =>
        /\ ~Req(callback).reply /\ Req(callback) # read_tls
        /\ Req(Head(wire).tag) # request_tls_connection
  BY <1>1, CommandTable DEF EndedBy
<1>3. Req(callback) # read_tls => calls[callback].tag = callback
  BY <1>1 DEF Tagged
<1>4. Head(wire).kind # "ack" => Req(Head(wire).tag).reply
  BY CommandTable DEF EndedBy
<1>5. Head(wire) \in Pack
  BY DEF EndedBy
<1> QED
  BY <1>2, <1>3, <1>4, <1>5 DEF Enders

(* A pack that ends a call it does not answer was sent to one that ended    *)
(* without it: its own command had no other pack to end with.               *)
LEMMA EndedByLate ==
  ASSUME IInv, Tagged, PipeTags, wire # << >>, EndedBy(Head(wire)),
         Req(callback) # nop, Head(wire).tag # calls[callback].tag,
         NEW b \in DOMAIN calls, b = Head(wire).tag
  PROVE  /\ b \in 1 .. (callback - 1) /\ Req(b) # nop /\ Req(b) # read_tls
         /\ \/ Req(b) = request_tls_connection
            \/ Req(b).byte = Req(callback).byte /\ Late(b)
<1>1. /\ callback \in DOMAIN calls /\ Req(callback) \in Commands /\ Req(b) \in Commands
      /\ Len(calls) \in Nat /\ DOMAIN calls = 1 .. Len(calls)
      /\ wire \in Seq(Pack) /\ Len(wire) \in Nat
  BY Types DEF EndedBy
<1>2. 1 \in 1 .. Len(wire) /\ wire[1] = Head(wire) /\ Head(wire) \in Pack
  BY <1>1
<1>3. b # callback
  BY <1>1 DEF Tagged, EndedBy
<1>4. b \in 1 .. (callback - 1) /\ Req(b) # read_tls
  BY <1>1, <1>3 DEF EndedBy
<1>5. Req(b) # nop
  <2>1. CASE Head(wire).kind = "ack" /\ ~Req(callback).reply
                /\ Req(b).byte = Req(callback).byte
    BY <1>1, <2>1, CommandTable
  <2>2. CASE Req(b).reply \/ Req(b) = request_tls_connection
    BY <2>2, CommandTable
  <2> QED
    BY <2>1, <2>2 DEF EndedBy
<1>6. ASSUME Req(b) # request_tls_connection, ~Late(b) PROVE FALSE
  <2>1. calls[b].outcome # "pending"
    BY <1>1, <1>3 DEF IInv, HostOK, SlotHolds
  <2>2. calls[b].outcome = "ok" /\ calls[b].by = b
    BY <1>6, <2>1 DEF Late
  <2>3. b \in Used(b)
    BY <1>4, <2>2 DEF Used, Tagged
  <2>4. ReadsOf(b) = {}
    BY <1>6 DEF ReadsOf, Tagged
  <2>5. CASE Head(wire) \in Enders(b)
    <3>1. Count(wire, Enders(b)) >= 1
      BY <1>1, <1>2, <2>5, CountOne
    <3>2. Cardinality(Used(b)) # 0
      BY <2>3, BudgetTyped, FS_EmptySet
    <3>3. Count(unacked, {b}) + owed[b] + Count(wire, Enders(b)) + Cardinality(Used(b)) <= 1
      BY <2>4 DEF PipeTags, Budget, Allowed
    <3>4. /\ Count(unacked, {b}) \in Nat /\ owed[b] \in Nat
          /\ Count(wire, Enders(b)) \in Nat /\ Cardinality(Used(b)) \in Nat
      BY BudgetTyped
    <3> QED
      BY <3>1, <3>2, <3>3, <3>4
  <2>6. CASE Head(wire) \notin Enders(b)
    <3>1. Head(wire).kind = "ack" /\ Req(b).reply
      BY <1>2, <1>6, <2>6 DEF EndedBy, Enders
    <3>2. calls[b].by # b
      BY <1>2, <1>6, <3>1 DEF PipeTags, AckFirst
    <3> QED
      BY <2>2, <3>2
  <2> QED
    BY <2>5, <2>6
<1>7. Req(b) = request_tls_connection \/ Req(b).byte = Req(callback).byte
  BY DEF EndedBy
<1> QED
  BY <1>4, <1>5, <1>6, <1>7

(* The end of a call keeps what is known of late answers.                   *)
LEMMA EndsLate ==
  ASSUME IInv, Tagged, LateOK, Busy, NEW outcome \in Outcomes \ {"pending"},
         NEW by \in 0 .. Len(calls),
         calls' = [calls EXCEPT ![callback].outcome = outcome, ![callback].by = by],
         outcome = "ok" /\ Req(callback) # nop /\ by # calls[callback].tag =>
           /\ by \in 1 .. (callback - 1) /\ Req(by) # nop /\ Req(by) # read_tls
           /\ \/ Req(by) = request_tls_connection
              \/ Req(by).byte = Req(callback).byte /\ Late(by)
  PROVE  LateOK'
<1>1. /\ DOMAIN calls' = DOMAIN calls
      /\ callback \in DOMAIN calls /\ calls[callback].outcome = "pending"
      /\ \A i \in DOMAIN calls :
           /\ calls'[i].req = calls[i].req /\ calls'[i].tag = calls[i].tag
           /\ i # callback => calls'[i] = calls[i]
      /\ calls'[callback].outcome = outcome /\ calls'[callback].by = by
  BY Ends
<1>2. Len(calls) \in Nat /\ DOMAIN calls = 1 .. Len(calls)
  BY Types
<1>3. \A b \in DOMAIN calls : Late(b) => b # callback
  BY <1>1 DEF Late
<1> SUFFICES ASSUME NEW i \in DOMAIN calls,
                    calls'[i].outcome = "ok" /\ calls'[i].req # nop
                      /\ calls'[i].by # calls'[i].tag
             PROVE  /\ calls'[i].by \in 1 .. (i - 1)
                    /\ LET b == calls'[calls'[i].by] IN
                       /\ b.req # nop /\ b.req # read_tls
                       /\ \/ b.req = request_tls_connection
                          \/ /\ b.req.byte = calls'[i].req.byte /\ b.outcome # "pending"
                             /\ b.outcome # "ok" \/ b.by # calls'[i].by
  BY <1>1 DEF LateOK, Req, Late
<1>4. /\ calls'[i].by \in 1 .. (i - 1)
      /\ Req(calls'[i].by) # nop /\ Req(calls'[i].by) # read_tls
      /\ \/ Req(calls'[i].by) = request_tls_connection
         \/ Req(calls'[i].by).byte = Req(i).byte /\ Late(calls'[i].by)
  <2>1. CASE i = callback
    BY <1>1, <2>1 DEF Req
  <2>2. CASE i # callback
    BY <1>1, <2>2 DEF LateOK, Req
  <2> QED
    BY <2>1, <2>2
<1>5. calls'[i].by \in DOMAIN calls
  BY <1>2, <1>4
<1>6. Late(calls'[i].by) => calls'[calls'[i].by] = calls[calls'[i].by]
  BY <1>1, <1>3, <1>5
<1> QED
  BY <1>1, <1>4, <1>5, <1>6 DEF Req, Late

LEMMA EndsFresh ==
  ASSUME FreshOK, DOMAIN calls' = DOMAIN calls,
         \A t \in DOMAIN calls : ReadsOf(t)' = ReadsOf(t),
         \A t \in DOMAIN calls : t = fired' \/ (Busy' /\ t = callback') =>
           t = fired \/ (Busy /\ t = callback)
  PROVE  FreshOK'
BY DEF FreshOK

-----------------------------------------------------------------------------
(* The steps of the host.                                                   *)

(* The end of a call without a pack.                                        *)
LEMMA EndsUnanswered ==
  ASSUME IInv, Tagged, Busy, NEW outcome \in Outcomes \ {"pending"},
         calls' = [calls EXCEPT ![callback].outcome = outcome, ![callback].by = 0]
  PROVE  /\ DOMAIN calls' = DOMAIN calls /\ callback \in DOMAIN calls /\ Tagged'
         /\ \A i \in DOMAIN calls : calls'[i].req = calls[i].req
                                    /\ (i # callback => calls'[i] = calls[i])
         /\ calls'[callback].by = 0
         /\ \A t \in DOMAIN calls :
              /\ ReadsOf(t)' = ReadsOf(t) /\ Enders(t)' = Enders(t) /\ Req(t)' = Req(t)
              /\ Used(t)' = Used(t)
<1>1. 0 \in 0 .. Len(calls) /\ \A t \in DOMAIN calls : t # 0
  BY Types
<1>2. PICK b \in 0 .. Len(calls) : b = 0
  BY <1>1
<1>3. calls' = [calls EXCEPT ![callback].outcome = outcome, ![callback].by = b]
  BY <1>2
<1>4. /\ DOMAIN calls' = DOMAIN calls /\ callback \in DOMAIN calls /\ Tagged'
      /\ \A i \in DOMAIN calls : calls'[i].req = calls[i].req
                                 /\ (i # callback => calls'[i] = calls[i])
      /\ calls'[callback].by = b
  BY <1>3, Ends
<1>5. \A t \in DOMAIN calls :
        /\ ReadsOf(t)' = ReadsOf(t) /\ Enders(t)' = Enders(t) /\ Req(t)' = Req(t)
        /\ Used(t)' \in {Used(t), Used(t) \cup {callback}}
        /\ b # t => Used(t)' = Used(t)
        /\ calls[callback].tag # t /\ Req(t) # request_tls_connection =>
             Used(t)' = Used(t)
  BY <1>3, Ends
<1> QED
  BY <1>1, <1>2, <1>4, <1>5

(* Nothing ends, and the slot is left alone or emptied.                     *)
LEMMA QuietTags ==
  ASSUME IInv, AnswerInv, UNCHANGED <<calls, wire, unacked, owed>>,
         Busy' => Busy /\ UNCHANGED <<callback, cmd, reply>>,
         fired' = fired \/ fired' = 0, in_nop' => in_nop
  PROVE  AnswerInv'
<1>1. \A t \in DOMAIN calls : t # 0
  BY Types
<1>2. Tagged' /\ SlotOf' /\ NopOK' /\ LateOK'
  BY DEF AnswerInv, ChannelTags, Tagged, SlotOf, NopOK, LateOK, Late, Req
<1>3. FreshOK'
  BY <1>1 DEF AnswerInv, ChannelTags, FreshOK, ReadsOf
<1>4. PipeTagged' /\ AckFirst'
  BY DEF AnswerInv, PipeTags, PipeTagged, AckFirst, InPipe, Req
<1>5. Budget'
  BY DEF AnswerInv, PipeTags, Budget, Used, Enders, Allowed, ReadsOf, Req
<1> QED
  BY <1>2, <1>3, <1>4, <1>5 DEF AnswerInv, ChannelTags, PipeTags

(* The outstanding command ends, but not with a pack.                       *)
LEMMA EndsWithoutAnswer ==
  ASSUME IInv, AnswerInv, Busy, NEW outcome \in Outcomes \ {"pending"},
         calls' = [calls EXCEPT ![callback].outcome = outcome, ![callback].by = 0],
         UNCHANGED <<wire, unacked, owed>>, in_nop' => in_nop,
         ~Busy', fired' \in {callback, 0}, outcome = "ok" => Req(callback) = nop
  PROVE  AnswerInv'
<1>1. Tagged /\ FreshOK /\ NopOK /\ LateOK /\ PipeTagged /\ Budget /\ AckFirst
  BY DEF AnswerInv, ChannelTags, PipeTags
<1>2. /\ DOMAIN calls' = DOMAIN calls /\ callback \in DOMAIN calls /\ Tagged'
      /\ \A i \in DOMAIN calls : calls'[i].req = calls[i].req
                                 /\ (i # callback => calls'[i] = calls[i])
      /\ calls'[callback].by = 0
      /\ \A t \in DOMAIN calls :
           /\ ReadsOf(t)' = ReadsOf(t) /\ Enders(t)' = Enders(t) /\ Req(t)' = Req(t)
           /\ Used(t)' = Used(t)
  BY <1>1, EndsUnanswered
<1>3. 0 \in 0 .. Len(calls) /\ \A t \in DOMAIN calls : t # 0
  BY Types
<1>4. FreshOK'
  BY <1>1, <1>2, <1>3, EndsFresh
<1>5. NopOK' /\ SlotOf'
  BY <1>1, <1>2 DEF NopOK, SlotOf, Req
<1>6. LateOK'
  BY <1>1, <1>3, EndsLate
<1>7. PipeTagged' /\ Budget'
  BY <1>1, <1>2, FewerTagged, FewerBudget
<1>8. AckFirst'
  BY <1>1, <1>2, <1>3, FewerAckFirst
<1> QED
  BY <1>2, <1>4, <1>5, <1>6, <1>7, <1>8 DEF AnswerInv, ChannelTags, PipeTags

LEMMA DoneTags ==
  ASSUME IInv, AnswerInv, NEW outcome \in {"ok", "failed"}, ReceiveDone(outcome, 0),
         UNCHANGED <<cmd, wire, unacked, owed>>, in_nop' => in_nop,
         outcome = "ok" /\ Busy => Req(callback) = nop
  PROVE  AnswerInv'
<1>1. CASE ~Busy
  <2>1. UNCHANGED <<ack, reply, timeout, callback, fired, calls>>
    BY <1>1 DEF ReceiveDone
  <2> QED
    BY <2>1, QuietTags DEF Busy
<1>2. CASE Busy
  <2>1. /\ ~Busy' /\ fired' = callback
        /\ calls' = [calls EXCEPT ![callback].outcome = outcome, ![callback].by = 0]
    BY <1>2 DEF ReceiveDone, ResetState, Busy
  <2>2. outcome \in Outcomes \ {"pending"}
    BY DEF Outcomes
  <2> QED
    BY <1>2, <2>1, <2>2, EndsWithoutAnswer
<1> QED
  BY <1>1, <1>2

LEMMA ReceiveDataTags ==
  ASSUME IInv, AnswerInv, ReceiveData PROVE AnswerInv'
<1>1. /\ wire # << >> /\ wire' = Tail(wire) /\ ReceivePack(Head(wire)) /\ ~in_nop
      /\ UNCHANGED <<cmd, in_nop, unacked, owed>>
  BY DEF ReceiveData, MainLoop, sensor
<1>2. /\ Tagged /\ FreshOK /\ SlotOf /\ NopOK /\ LateOK
      /\ PipeTagged /\ Budget /\ AckFirst /\ PipeTags
  BY DEF AnswerInv, ChannelTags, PipeTags
<1>3. CASE UNCHANGED <<fired, calls>> /\ (Busy' => Busy /\ UNCHANGED <<callback, reply>>)
  <2>1. Tagged' /\ NopOK' /\ LateOK'
    BY <1>1, <1>2, <1>3 DEF Tagged, NopOK, LateOK, Late, Req
  <2>2. FreshOK'
    BY <1>2, <1>3 DEF FreshOK, ReadsOf
  <2>3. SlotOf'
    BY <1>1, <1>2, <1>3 DEF SlotOf, Req
  <2>4. \A t \in DOMAIN calls :
          /\ Used(t)' = Used(t) /\ ReadsOf(t)' = ReadsOf(t) /\ Enders(t)' = Enders(t)
          /\ Req(t)' = Req(t)
    BY <1>3 DEF Used, ReadsOf, Enders, Req
  <2>5. PipeTagged'
    BY <1>1, <1>2, <1>3, <2>4, FewerTagged
  <2>6. Budget'
    BY <1>1, <1>2, <1>3, <2>4, FewerBudget
  <2>7. AckFirst'
    BY <1>1, <1>2, <1>3, <2>4, FewerAckFirst
  <2> QED
    BY <2>1, <2>2, <2>3, <2>5, <2>6, <2>7 DEF AnswerInv, ChannelTags, PipeTags
<1>4. CASE EndedBy(Head(wire)) /\ ReceiveDone("ok", Head(wire).tag)
  <2>0. Head(wire).tag \in DOMAIN calls /\ Busy /\ DOMAIN calls = 1 .. Len(calls)
        /\ Len(calls) \in Nat
    BY <1>4, Types DEF EndedBy
  <2>1. PICK b \in DOMAIN calls : b = Head(wire).tag
    BY <2>0
  <2>2. /\ ~ack' /\ ~reply' /\ fired' = callback
        /\ calls' = [calls EXCEPT ![callback].outcome = "ok", ![callback].by = b]
    BY <1>4, <2>0, <2>1 DEF ReceiveDone, ResetState
  <2>3. ~Busy' /\ "ok" \in Outcomes \ {"pending"} /\ b \in 0 .. Len(calls)
    BY <2>0, <2>2 DEF Busy, Outcomes
  <2>4. /\ DOMAIN calls' = DOMAIN calls /\ callback \in DOMAIN calls /\ Tagged'
        /\ \A i \in DOMAIN calls : calls'[i].req = calls[i].req
                                   /\ (i # callback => calls'[i] = calls[i])
        /\ calls'[callback].by = b
        /\ \A t \in DOMAIN calls :
             /\ ReadsOf(t)' = ReadsOf(t) /\ Enders(t)' = Enders(t) /\ Req(t)' = Req(t)
             /\ Used(t)' \in {Used(t), Used(t) \cup {callback}}
             /\ b # t => Used(t)' = Used(t)
             /\ calls[callback].tag # t /\ Req(t) # request_tls_connection =>
                  Used(t)' = Used(t)
    BY <1>2, <2>0, <2>2, <2>3, Ends
  <2>5. FreshOK'
    BY <1>2, <2>0, <2>2, <2>3, <2>4, EndsFresh
  <2>6. NopOK' /\ SlotOf'
    BY <1>1, <2>3 DEF NopOK, SlotOf
  <2>7. LateOK'
    <3>1. Req(callback) # nop /\ b # calls[callback].tag =>
            /\ b \in 1 .. (callback - 1) /\ Req(b) # nop /\ Req(b) # read_tls
            /\ \/ Req(b) = request_tls_connection
               \/ Req(b).byte = Req(callback).byte /\ Late(b)
      BY <1>1, <1>2, <1>4, <2>1, EndedByLate
    <3> QED
      BY <1>2, <2>0, <2>2, <2>3, <3>1, EndsLate
  <2>8. PipeTagged'
    BY <1>1, <1>2, <2>3, <2>4, FewerTagged
  <2>9. /\ calls[callback].tag = b \/ Req(b) = request_tls_connection =>
             Head(wire) \in Enders(b)
        /\ b = callback /\ Req(callback).reply => Head(wire).kind # "ack"
    BY <1>1, <1>2, <1>4, <2>1, EndedByOwn
  <2>10. Budget'
    <3>1. ASSUME NEW t \in DOMAIN calls
          PROVE  \/ Used(t)' = Used(t)
                 \/ (\E c : Used(t)' = Used(t) \cup {c}) /\ Head(wire) \in Enders(t)
      <4>1. CASE t = b /\ Head(wire) \in Enders(b)
        BY <2>4, <4>1
      <4> QED
        BY <2>4, <2>9, <4>1
    <3> QED
      BY <1>1, <1>2, <2>4, <3>1, FewerBudget
  <2>11. AckFirst'
    <3>1. ASSUME NEW t \in DOMAIN calls
          PROVE  \/ calls'[t].by # t \/ calls[t].by = t \/ ~Req(t).reply
                 \/ Head(wire).tag = t /\ Head(wire).kind # "ack"
      BY <2>1, <2>4, <2>9
    <3> QED
      BY <1>1, <1>2, <2>4, <3>1, FewerAckFirst
  <2> QED
    BY <2>4, <2>5, <2>6, <2>7, <2>8, <2>10, <2>11 DEF AnswerInv, ChannelTags, PipeTags
<1> QED
  BY <1>1, <1>2, <1>3, <1>4, PackCases

LEMMA IssueTags ==
  ASSUME IInv, AnswerInv, NEW r \in Commands \ {read_tls}, SendProtocol(r),
         in_nop' => r = nop /\ ~Busy
  PROVE  AnswerInv'
<1>0. NewCall \in Ids
  BY Types DEF NewCall, Ids, SendProtocol, SendBusy, SendOk, SendFails, AddCall
<1>1. PICK n \in Ids : n = NewCall
  BY <1>0
<1>2. PICK outcome \in Outcomes \ {"ok"} :
        /\ AddCall(r, outcome, n) /\ wire' = wire /\ owed' = owed
        /\ \/ /\ outcome = "busy" /\ fired' = n /\ UNCHANGED <<chan, unacked>>
           \/ /\ outcome = "pending" /\ ~Busy /\ cmd' = r.byte /\ reply' = r.reply
              /\ callback' = n /\ fired' = 0 /\ unacked' = Append(unacked, n)
           \/ /\ outcome = "failed" /\ ~Busy' /\ fired' = n /\ unacked' = unacked
  <2>1. {"busy", "pending", "failed"} \subseteq Outcomes \ {"ok"}
    BY DEF Outcomes
  <2>2. CASE SendBusy(r)
    BY <1>1, <2>1, <2>2 DEF SendBusy, sensor
  <2>3. CASE SendOk(r)
    BY <1>1, <2>1, <2>3 DEF SendOk
  <2>4. CASE SendFails(r)
    BY <1>1, <2>1, <2>4 DEF SendFails, sensor, ResetState, Busy
  <2> QED
    BY <2>2, <2>3, <2>4 DEF SendProtocol
<1>3. /\ Tagged /\ FreshOK /\ SlotOf /\ NopOK /\ LateOK /\ PipeTags
  BY DEF AnswerInv, ChannelTags
<1>4. /\ DOMAIN calls' = DOMAIN calls \cup {n} /\ n \notin DOMAIN calls
      /\ \A i \in DOMAIN calls : calls'[i] = calls[i]
      /\ calls'[n] = [req |-> r, outcome |-> outcome, tag |-> n, by |-> 0]
      /\ Tagged' /\ LateOK'
      /\ \A t \in DOMAIN calls : n # t => ReadsOf(t)' = ReadsOf(t)
      /\ ReadsOf(n)' = {}
  BY <1>1, <1>2, <1>3, Grows
<1>5. calls'[n].req = r /\ 0 \notin DOMAIN calls' /\ (Busy => callback \in DOMAIN calls)
  <2>1. 0 \notin DOMAIN calls /\ n # 0 /\ (Busy => callback \in DOMAIN calls)
    BY Types DEF Ids
  <2> QED
    BY <1>4, <2>1
<1>6. PipeTags'
  <2>1. \/ unacked' = unacked /\ (Busy' => Busy /\ callback' = callback)
        \/ unacked' = Append(unacked, NewCall) /\ callback' = NewCall
    BY <1>1, <1>2 DEF chan, Busy
  <2>2. AddCall(r, outcome, NewCall)
    BY <1>1, <1>2
  <2> QED
    BY <1>2, <1>3, <2>1, <2>2, SentPipe
<1>7. SlotOf'
  <2>1. CASE outcome = "busy" /\ UNCHANGED <<chan, unacked>>
    <3>1. SUFFICES ASSUME Busy'
                   PROVE  /\ cmd' = Req(callback)'.byte
                          /\ reply' => Req(callback)'.reply
                          /\ Req(callback)'.reply => reply'
      BY DEF SlotOf
    <3>2. Busy /\ callback' = callback /\ cmd' = cmd /\ reply' = reply
      BY <2>1, <3>1 DEF chan, Busy
    <3>3. calls'[callback'].req = Req(callback)
      BY <1>4, <1>5, <3>2 DEF Req
    <3> QED
      BY <1>3, <3>2, <3>3 DEF SlotOf, Req
  <2> QED
    BY <1>2, <1>5, <2>1 DEF SlotOf, Req
<1>8. FreshOK'
  <2> SUFFICES ASSUME NEW t \in DOMAIN calls', t = fired' \/ (Busy' /\ t = callback')
               PROVE  ReadsOf(t)' = {}
    BY DEF FreshOK
  <2>1. t = n \/ (Busy /\ t = callback /\ t \in DOMAIN calls)
    BY <1>2, <1>4, <1>5 DEF chan, Busy
  <2> QED
    BY <1>3, <1>4, <2>1 DEF FreshOK
<1>9. NopOK'
  <2> SUFFICES ASSUME in_nop' PROVE (Busy' => Req(callback)' = nop)
                                    /\ (fired' # 0 => Req(fired)' = nop)
    BY DEF NopOK
  <2>1. r = nop /\ ~Busy
    OBVIOUS
  <2>2. (Busy' => callback' = n) /\ (fired' # 0 => fired' = n)
    BY <1>2, <2>1 DEF chan, Busy
  <2> QED
    BY <1>5, <2>1, <2>2 DEF Req
<1> QED
  BY <1>4, <1>6, <1>7, <1>8, <1>9 DEF AnswerInv, ChannelTags

LEMMA ReadTlsTags ==
  ASSUME IInv, AnswerInv, CallbackReadsTls
  PROVE  AnswerInv'
<1>1. /\ Tagged /\ FreshOK /\ SlotOf /\ NopOK /\ LateOK /\ PipeTags
  BY DEF AnswerInv, ChannelTags
<1>0. NewCall \in Ids /\ calls[fired].tag \in Ids
  BY <1>1, Types, HandshakeOf DEF NewCall, AddCall, Ids, CallbackReadsTls, ReadTls
<1>2. PICK n \in Ids, b \in Ids : n = NewCall /\ b = calls[fired].tag
  BY <1>0
<1>3. /\ AddCall(read_tls, "pending", b) /\ cmd' = read_tls.byte /\ reply' = TRUE
      /\ callback' = n /\ fired' = 0 /\ in_nop' = in_nop /\ fired # 0
  BY <1>2 DEF CallbackReadsTls, ReadTls
<1>4. /\ b \in DOMAIN calls /\ Req(b) = request_tls_connection
      /\ Req(fired) \in {request_tls_connection, read_tls}
  BY <1>1, <1>2, HandshakeOf DEF CallbackReadsTls
<1>5. /\ DOMAIN calls' = DOMAIN calls \cup {n} /\ n \notin DOMAIN calls
      /\ calls'[n] = [req |-> read_tls, outcome |-> "pending", tag |-> b, by |-> 0]
      /\ Tagged' /\ LateOK' /\ ReadsOf(n)' = {}
  <2>1. "pending" \in Outcomes \ {"ok"} /\ read_tls \in Commands
    BY CommandsTyped DEF Outcomes
  <2> QED
    BY <1>1, <1>2, <1>3, <1>4, <2>1, Grows
<1>6. calls'[n].req = read_tls /\ 0 \notin DOMAIN calls'
  <2>1. 0 \notin DOMAIN calls /\ n # 0
    BY Types DEF Ids
  <2> QED
    BY <1>5, <2>1
<1>7. SlotOf'
  BY <1>3, <1>6, CommandTable DEF SlotOf, Req
<1>8. FreshOK'
  BY <1>3, <1>5, <1>6 DEF FreshOK
<1>9. NopOK'
  <2>1. ~in_nop
    BY <1>1, <1>3, <1>4, CommandTable DEF NopOK
  <2> QED
    BY <1>3, <2>1 DEF NopOK
<1>10. PipeTags'
  BY <1>1, ReadTlsPipe
<1> QED
  BY <1>5, <1>7, <1>8, <1>9, <1>10 DEF AnswerInv, ChannelTags

LEMMA HostTags ==
  ASSUME IInv, ClosedOK, AnswerInv, HostNext
  PROVE  AnswerInv'
<1>1. ASSUME NEW r \in Requests, Issue(r), ~in_nop PROVE AnswerInv'
  <2>1. r \in Commands \ {read_tls} /\ SendProtocol(r) /\ (in_nop' => r = nop /\ ~Busy)
    BY <1>1, RequestsAssumption DEF Issue, SendNop
  <2> QED
    BY <2>1, IssueTags
<1>2. CASE ClientIssues \/ CallbackIssues
  BY <1>1, <1>2 DEF ClientIssues, CallbackIssues, MainLoop
<1>3. CASE CallbackReadsTls
  BY <1>3, ReadTlsTags
<1>4. CASE CallbackReturns \/ StartReadLoop
  <2>1. /\ UNCHANGED <<ack, reply, cmd, callback, in_nop, calls, wire, unacked, owed>>
        /\ fired' = fired \/ fired' = 0
    BY <1>4 DEF CallbackReturns, StartReadLoop, chan, host, sensor
  <2> QED
    BY <2>1, QuietTags DEF Busy
<1>5. CASE CancelPending \/ ReceiveTimeout \/ ReceiveOversized
  <2>1. ReceiveDone("failed", 0) /\ UNCHANGED <<cmd, in_nop, wire, unacked, owed>>
    BY <1>5 DEF CancelPending, ReceiveTimeout, ReceiveOversized, sensor
  <2> QED
    BY <2>1, DoneTags
<1>6. CASE NopDone
  <2>1. /\ ReceiveDone("ok", 0) /\ UNCHANGED <<cmd, wire, unacked, owed>>
        /\ in_nop /\ ~in_nop'
    BY <1>6 DEF NopDone, sensor
  <2>2. Busy => Req(callback) = nop
    BY <2>1 DEF AnswerInv, ChannelTags, NopOK
  <2> QED
    BY <2>1, <2>2, DoneTags
<1>7. CASE DevInit
  <2>1. /\ ~Busy' /\ UNCHANGED <<fired, in_nop, calls, wire, unacked, owed>>
    BY <1>7 DEF DevInit, ResetState, Busy, host, sensor
  <2> QED
    BY <2>1, QuietTags
<1>8. CASE DevDeinit
  <2>1. /\ ~Busy' /\ UNCHANGED <<fired, in_nop, wire, unacked, owed>> /\ fired = 0
        /\ calls' = IF Busy THEN [calls EXCEPT ![callback].outcome = "dropped"] ELSE calls
    BY <1>8 DEF DevDeinit, ResetState, Busy, host, sensor, MainLoop
  <2>2. CASE ~Busy
    BY <2>1, <2>2, QuietTags
  <2>3. CASE Busy
    <3>1. callback \in DOMAIN calls /\ calls[callback] \in Call
          /\ calls[callback].outcome = "pending"
      BY <2>3, Types DEF IInv, HostOK, SlotHolds
    <3>2. calls[callback].by = 0
      BY <3>1 DEF AnswerInv, ChannelTags, Tagged
    <3>3. calls' = [calls EXCEPT ![callback].outcome = "dropped", ![callback].by = 0]
      <4>1. [calls[callback] EXCEPT !.outcome = "dropped"]
              = [calls[callback] EXCEPT !.outcome = "dropped", !.by = 0]
        BY <3>1, <3>2 DEF Call
      <4> QED
        BY <2>1, <2>3, <3>1, <4>1
    <3>4. "dropped" \in Outcomes \ {"pending"}
      BY DEF Outcomes
    <3> QED
      BY <2>1, <2>3, <3>3, <3>4, EndsWithoutAnswer
  <2> QED
    BY <2>2, <2>3
<1>9. CASE ReceiveData
  BY <1>9, ReceiveDataTags
<1> QED
  BY <1>2, <1>3, <1>4, <1>5, <1>6, <1>7, <1>8, <1>9 DEF HostNext

-----------------------------------------------------------------------------
(* The steps of the sensor.                                                 *)

LEMMA NoReads ==
  ASSUME Tagged, NEW t \in DOMAIN calls, Req(t) # request_tls_connection
  PROVE  Allowed(t) = 1
<1>1. ReadsOf(t) = {}
  BY DEF ReadsOf, Tagged
<1> QED
  BY <1>1 DEF Allowed

(* The sensor ACKs a call, and owes the reply if there is one, or replies.  *)
LEMMA PackAdded ==
  ASSUME IInv, Tagged, PipeTags, calls' = calls, Busy' = Busy, callback' = callback,
         \A t \in DOMAIN calls :
           /\ Used(t)' = Used(t) /\ Enders(t)' = Enders(t) /\ Allowed(t)' = Allowed(t),
         NEW c \in DOMAIN calls, NEW p \in Pack,
         p.tag = c, p.byte = Req(c).byte, wire' = Append(wire, p),
         \/ /\ p.kind = "ack" /\ unacked # << >> /\ c = Head(unacked)
            /\ unacked' = Tail(unacked)
            /\ owed' = IF Req(c).reply THEN [owed EXCEPT ![c] = @ + 1] ELSE owed
         \/ /\ p.kind = AnswerKind(Req(c)) /\ unacked' = unacked
            /\ owed[c] > 0 /\ owed' = [owed EXCEPT ![c] = @ - 1]
  PROVE  PipeTags'
<1>0. /\ wire \in Seq(Pack) /\ unacked \in Seq(1 .. Len(calls)) /\ owed \in [Ids -> Nat]
      /\ c \in Ids /\ Req(c) \in Commands
  BY Types
<1>1. /\ Len(wire) \in Nat /\ Len(unacked) \in Nat
      /\ unacked # << >> => 1 \in 1 .. Len(unacked) /\ unacked[1] = Head(unacked)
  BY <1>0
<1>2. PipeTagged /\ Budget /\ AckFirst
  BY DEF PipeTags
<1>3. InPipe(c)
  BY <1>1 DEF InPipe
<1>4. p.kind = "ack" \/ (p.kind = AnswerKind(Req(c)) /\ p.kind # "ack" /\ Req(c).reply)
  BY <1>0, <1>2, CommandTable DEF PipeTagged
<1>5. /\ Len(wire') = Len(wire) + 1 /\ wire'[Len(wire) + 1] = p
      /\ \A k \in 1 .. Len(wire') :
           k = Len(wire) + 1 \/ (k \in 1 .. Len(wire) /\ wire'[k] = wire[k])
  BY <1>0
<1>6. \A t \in Ids : owed'[t] > 0 => owed[t] > 0 \/ (t = c /\ Req(c).reply)
  BY <1>0
<1>7. \A k \in 1 .. Len(unacked') : \E l \in 1 .. Len(unacked) : unacked'[k] = unacked[l]
  <2>1. CASE unacked' = unacked
    BY <2>1
  <2>2. CASE unacked # << >> /\ unacked' = Tail(unacked)
    BY <1>0, <2>2, TailElements
  <2> QED
    BY <2>1, <2>2
<1>8. \A t \in Ids : InPipe(t)' => InPipe(t)
  <2> SUFFICES ASSUME NEW t \in Ids, InPipe(t)' PROVE InPipe(t)
    OBVIOUS
  <2>1. CASE \E k \in 1 .. Len(unacked') : unacked'[k] = t
    BY <1>7, <2>1 DEF InPipe
  <2>2. CASE owed'[t] > 0
    BY <1>3, <1>6, <2>2 DEF InPipe
  <2>3. CASE \E k \in 1 .. Len(wire') : wire'[k].tag = t
    BY <1>3, <1>5, <2>3 DEF InPipe
  <2> QED
    BY <2>1, <2>2, <2>3 DEF InPipe
<1>9. PipeTagged'
  <2>1. \A t \in Ids : owed'[t] > 0 => Req(t).reply
    BY <1>2, <1>6 DEF PipeTagged
  <2>2. ASSUME NEW k \in 1 .. Len(wire')
        PROVE  /\ wire'[k].byte = Req(wire'[k].tag).byte
               /\ \/ wire'[k].kind = "ack"
                  \/ wire'[k].kind = AnswerKind(Req(wire'[k].tag)) /\ Req(wire'[k].tag).reply
    <3>1. CASE k = Len(wire) + 1
      BY <1>4, <1>5, <3>1
    <3>2. CASE k \in 1 .. Len(wire) /\ wire'[k] = wire[k]
      BY <1>2, <3>2 DEF PipeTagged
    <3> QED
      BY <1>5, <3>1, <3>2
  <2> QED
    BY <1>2, <1>8, <2>1, <2>2 DEF PipeTagged, Req
<1>10. Budget'
  <2> SUFFICES ASSUME NEW t \in DOMAIN calls
               PROVE  Count(unacked', {t}) + owed'[t] + Count(wire', Enders(t))
                        + Cardinality(Used(t)) <= Allowed(t)
    BY DEF Budget
  <2>1. /\ Count(unacked, {t}) \in Nat /\ owed[t] \in Nat
        /\ Count(wire, Enders(t)) \in Nat /\ Cardinality(Used(t)) \in Nat
        /\ Allowed(t) \in Nat /\ t \in Ids
    <3>1. Allowed(t) \in Nat
      BY DEF Allowed, TlsMessages
    <3>2. t \in Ids
      BY Types
    <3> QED
      BY <3>1, <3>2, BudgetTyped
  <2>2. Count(unacked, {t}) + owed[t] + Count(wire, Enders(t)) + Cardinality(Used(t))
          <= Allowed(t)
    BY <1>2 DEF Budget
  <2>3. /\ p \in Enders(t) => Count(wire', Enders(t)) = Count(wire, Enders(t)) + 1
        /\ p \notin Enders(t) => Count(wire', Enders(t)) = Count(wire, Enders(t))
    BY <1>0, CountAppend
  <2>4. unacked # << >> /\ unacked' = Tail(unacked) =>
          /\ Count(unacked', {t}) \in Nat /\ Count(unacked', {t}) <= Count(unacked, {t})
          /\ Head(unacked) = t => Count(unacked', {t}) + 1 <= Count(unacked, {t})
    <3> SUFFICES ASSUME unacked # << >>, unacked' = Tail(unacked)
                 PROVE  /\ Count(Tail(unacked), {t}) \in Nat
                        /\ Count(Tail(unacked), {t}) <= Count(unacked, {t})
                        /\ Head(unacked) \in {t} =>
                              Count(Tail(unacked), {t}) + 1 <= Count(unacked, {t})
      OBVIOUS
    <3> QED
      BY <1>0, CountTail
  <2>5. Count(unacked', {t}) \in Nat /\ Count(unacked', {t}) <= Count(unacked, {t})
    BY <2>1, <2>4
  <2>6. CASE t # c
    <3>1. p \notin Enders(t) /\ owed'[t] = owed[t]
      BY <1>0, <2>1, <2>6 DEF Enders
    <3> QED
      BY <2>1, <2>2, <2>3, <2>5, <3>1
  <2>7. CASE t = c
    <3>1. p \in Enders(t) <=> (p.kind = "ack" <=> ~Req(c).reply)
      BY <2>7 DEF Enders
    <3>2. CASE p.kind # "ack"
      <4>1. p \in Enders(t) /\ owed'[t] = owed[t] - 1 /\ unacked' = unacked
        BY <1>0, <1>4, <2>7, <3>1, <3>2
      <4> QED
        BY <2>1, <2>2, <2>3, <4>1
    <3>3. CASE p.kind = "ack" /\ Req(c).reply
      <4>1. /\ p \notin Enders(t) /\ owed'[t] = owed[t] + 1
            /\ Count(unacked', {t}) + 1 <= Count(unacked, {t})
        BY <1>0, <2>4, <2>7, <3>1, <3>3, CommandTable
      <4> QED
        BY <2>1, <2>2, <2>3, <2>5, <4>1
    <3>4. CASE p.kind = "ack" /\ ~Req(c).reply
      <4>1. /\ p \in Enders(t) /\ owed'[t] = owed[t]
            /\ Count(unacked', {t}) + 1 <= Count(unacked, {t})
        BY <1>0, <2>4, <2>7, <3>1, <3>4, CommandTable
      <4> QED
        BY <2>1, <2>2, <2>3, <2>5, <4>1
    <3> QED
      BY <3>2, <3>3, <3>4
  <2> QED
    BY <2>6, <2>7
<1>11. AckFirst'
  <2> SUFFICES ASSUME NEW t \in DOMAIN calls, NEW k \in 1 .. Len(wire'),
                      Req(t).reply, Req(t) # request_tls_connection,
                      wire'[k].tag = t, wire'[k].kind = "ack"
               PROVE  calls[t].by # t
                      /\ \A l \in 1 .. Len(wire') :
                           wire'[l].tag = t /\ wire'[l].kind # "ack" => l > k
    BY DEF AckFirst, Req
  <2>1. CASE k \in 1 .. Len(wire) /\ wire'[k] = wire[k]
    BY <1>1, <1>2, <1>5, <2>1 DEF AckFirst
  <2>2. CASE k = Len(wire) + 1
    <3>1. p.kind = "ack" /\ t = c
      BY <1>5, <2>2
    <3>2. unacked # << >> /\ unacked[1] = t
      BY <1>0, <1>1, <3>1, CommandTable
    <3>3. Count(unacked, {t}) >= 1
      BY <1>0, <1>1, <3>2, CountOne
    <3>4. Count(unacked, {t}) + owed[t] + Count(wire, Enders(t)) + Cardinality(Used(t)) <= 1
      BY <1>2, NoReads DEF Budget
    <3>5. Count(wire, Enders(t)) = 0 /\ Cardinality(Used(t)) = 0
      BY <3>3, <3>4, BudgetTyped
    <3>6. calls[t].by # t
      <4>1. Used(t) = {}
        BY <3>5, BudgetTyped, FS_EmptySet
      <4>2. calls[t].tag = t
        <5>1. Req(t) # read_tls
          BY <1>2, <1>3, <3>1, Types DEF PipeTagged
        <5> QED
          BY <5>1 DEF Tagged
      <4> QED
        BY <4>1, <4>2 DEF Used
    <3>7. ASSUME NEW l \in 1 .. Len(wire'), wire'[l].tag = t, wire'[l].kind # "ack"
          PROVE  FALSE
      <4>1. l \in 1 .. Len(wire) /\ wire'[l] = wire[l]
        BY <1>5, <2>2, <3>7
      <4>2. wire[l] \in Enders(t)
        BY <1>0, <3>7, <4>1 DEF Enders
      <4> QED
        BY <1>0, <3>5, <4>1, <4>2, CountOne
    <3> QED
      BY <3>6, <3>7
  <2> QED
    BY <1>5, <2>1, <2>2
<1> QED
  BY <1>9, <1>10, <1>11 DEF PipeTags

LEMMA SensorTags ==
  ASSUME IInv, AnswerInv, SensorNext
  PROVE  AnswerInv'
<1>0. unacked \in Seq(1 .. Len(calls)) /\ DOMAIN calls = 1 .. Len(calls)
  BY Types
<1>1. /\ Tagged /\ PipeTagged /\ Budget /\ AckFirst
  BY DEF AnswerInv, ChannelTags, PipeTags
<1>2. UNCHANGED <<chan, host, calls>>
  BY DEF SensorNext, SensorAcks, SensorIgnores, SensorAnswers, PackLost
<1>3. Busy' = Busy /\ UNCHANGED <<callback, cmd, reply, fired, in_nop>>
  BY <1>2 DEF chan, host, Busy
<1>4. ChannelTags' /\ LateOK'
  BY <1>2, <1>3
  DEF AnswerInv, ChannelTags, Tagged, SlotOf, NopOK, FreshOK, LateOK, Late, ReadsOf, Req
<1>5. \A t \in DOMAIN calls :
        /\ Used(t)' = Used(t) /\ Enders(t)' = Enders(t) /\ Req(t)' = Req(t)
        /\ ReadsOf(t)' = ReadsOf(t) /\ Allowed(t)' = Allowed(t)
  BY <1>2 DEF Used, Enders, ReadsOf, Allowed, Req
<1>6. CASE SensorIgnores \/ PackLost
  <2>1. /\ wire' = wire \/ (wire # << >> /\ wire' = Tail(wire))
        /\ unacked' = unacked \/ (unacked # << >> /\ unacked' = Tail(unacked))
        /\ owed' = owed
    BY <1>6 DEF SensorIgnores, PackLost, sensor
  <2>2. PipeTags'
    BY <1>1, <1>2, <1>3, <1>5, <2>1, FewerTagged, FewerBudget, FewerAckFirst DEF PipeTags
  <2> QED
    BY <1>4, <2>2 DEF AnswerInv
<1>7. CASE SensorAcks \/ SensorAnswers
  <2>1. PICK c \in DOMAIN calls, p \in Pack :
          /\ p.tag = c /\ p.byte = Req(c).byte /\ wire' = Append(wire, p)
          /\ \/ /\ p.kind = "ack" /\ unacked # << >> /\ c = Head(unacked)
                /\ unacked' = Tail(unacked)
                /\ owed' = IF Req(c).reply THEN [owed EXCEPT ![c] = @ + 1] ELSE owed
             \/ /\ p.kind = AnswerKind(Req(c)) /\ unacked' = unacked
                /\ owed[c] > 0 /\ owed' = [owed EXCEPT ![c] = @ - 1]
    <3>1. CASE SensorAcks
      <4>1. Head(unacked) \in DOMAIN calls
        BY <1>0, <3>1 DEF SensorAcks
      <4>2. PackOf("ack", Head(unacked)) \in Pack
        BY <4>1, PackOfTyped DEF Kinds
      <4> QED
        BY <3>1, <4>1, <4>2 DEF SensorAcks, PackOf, Req
    <3>2. CASE SensorAnswers
      <4>1. PICK c \in DOMAIN calls :
              /\ owed[c] > 0
              /\ owed' = [owed EXCEPT ![c] = @ - 1]
              /\ wire' = Append(wire, PackOf(AnswerKind(calls[c].req), c))
        BY <3>2 DEF SensorAnswers
      <4>2. PackOf(AnswerKind(calls[c].req), c) \in Pack
        <5>1. AnswerKind(calls[c].req) \in Kinds
          BY DEF AnswerKind, Kinds
        <5> QED
          BY <5>1, PackOfTyped
      <4>3. unacked' = unacked
        BY <3>2 DEF SensorAnswers
      <4> QED
        BY <4>1, <4>2, <4>3 DEF PackOf, Req
    <3> QED
      BY <1>7, <3>1, <3>2
  <2>2. PipeTags'
    BY <1>1, <1>2, <1>3, <1>5, <2>1, PackAdded DEF PipeTags
  <2> QED
    BY <1>4, <2>2 DEF AnswerInv
<1> QED
  BY <1>6, <1>7 DEF SensorNext

LEMMA InitTags == Init => AnswerInv
<1> SUFFICES ASSUME Init PROVE AnswerInv
  OBVIOUS
<1>1. /\ calls = << >> /\ DOMAIN calls = {} /\ Len(wire) = 0 /\ Len(unacked) = 0
      /\ ~Busy /\ ~in_nop /\ \A t \in Ids : owed[t] = 0
  BY DEF Init, Busy
<1>2. Tagged /\ SlotOf /\ NopOK /\ FreshOK /\ LateOK /\ Budget /\ AckFirst
  BY <1>1 DEF Tagged, SlotOf, NopOK, FreshOK, LateOK, Budget, AckFirst
<1>3. \A t \in Ids : ~InPipe(t)
  BY <1>1 DEF InPipe
<1>4. PipeTagged
  BY <1>1, <1>3 DEF PipeTagged
<1> QED
  BY <1>2, <1>4 DEF AnswerInv, ChannelTags, PipeTags

(* A handshake none of whose calls ended without its own answer was read at *)
(* most twice, if a pack of its own ended another call.                     *)
LEMMA HandshakeBudget ==
  ASSUME IInv, AnswerInv, NEW i \in DOMAIN calls, NEW b \in DOMAIN calls,
         calls[i].by = b, calls[i].tag # b, Req(b) = request_tls_connection,
         ~EndedWithout(b)
  PROVE  ReadsDone(b) < TlsMessages
<1> DEFINE T == {j \in DOMAIN calls : calls[j].tag = b /\ calls[j].req = read_tls
                                      /\ calls[j].outcome = "ok"}
<1>1. Tagged /\ Budget
  BY DEF AnswerInv, ChannelTags, PipeTags
<1>2. \A j \in DOMAIN calls : calls[j].tag = b => calls[j].by = b
  BY DEF EndedWithout
<1>3. b \notin T /\ calls[b].tag = b
  BY <1>1, CommandTable DEF Tagged, Req
<1>4. i \notin T \cup {b}
  BY <1>3
<1>5. (T \cup {b}) \cup {i} \subseteq Used(b)
  BY <1>2, <1>3 DEF Used
<1>6. IsFiniteSet(Used(b)) /\ Cardinality(Used(b)) \in Nat
  BY BudgetTyped
<1>7. IsFiniteSet(T) /\ IsFiniteSet((T \cup {b}) \cup {i})
  BY <1>5, <1>6, FS_Subset
<1>8. Cardinality(T) \in Nat /\ Cardinality((T \cup {b}) \cup {i}) = Cardinality(T) + 2
  <2>1. Cardinality(T) \in Nat
    BY <1>7, FS_CardinalityType
  <2>2. IsFiniteSet(T \cup {b}) /\ Cardinality(T \cup {b}) = Cardinality(T) + 1
    BY <1>3, <1>7, FS_AddElement
  <2>3. Cardinality((T \cup {b}) \cup {i}) = Cardinality(T \cup {b}) + 1
    BY <1>4, <2>2, FS_AddElement
  <2> QED
    BY <2>1, <2>2, <2>3
<1>9. Cardinality((T \cup {b}) \cup {i}) <= Cardinality(Used(b))
  BY <1>5, <1>6, FS_Subset
<1>10. Cardinality(Used(b)) <= 4
  <2>1. /\ Count(unacked, {b}) \in Nat /\ owed[b] \in Nat
        /\ Count(wire, Enders(b)) \in Nat /\ Cardinality(Used(b)) \in Nat
    BY BudgetTyped
  <2>2. Count(unacked, {b}) + owed[b] + Count(wire, Enders(b)) + Cardinality(Used(b))
          <= Allowed(b)
    BY <1>1 DEF Budget
  <2>3. Allowed(b) \in {1, 4}
    BY DEF Allowed, TlsMessages
  <2> QED
    BY <2>1, <2>2, <2>3
<1>11. ReadsDone(b) = Cardinality(T)
  BY DEF ReadsDone
<1> HIDE DEF T
<1> QED
  BY <1>6, <1>8, <1>9, <1>10, <1>11 DEF TlsMessages

(* A command succeeds only on its own answer, or on a late one of an earlier *)
(* command that ended without it: whatever the client sends, the sensor      *)
(* answers late and the wire loses.                                         *)
THEOREM AnswersMatch == Spec => []AnswerIsOwn
<1>1. IInv /\ ClosedOK /\ AnswerInv /\ [Next]_vars => AnswerInv'
  <2> SUFFICES ASSUME IInv, ClosedOK, AnswerInv, [Next]_vars PROVE AnswerInv'
    OBVIOUS
  <2>1. CASE UNCHANGED vars
    BY <2>1, QuietTags DEF vars, Busy
  <2> QED
    BY <2>1, HostTags, SensorTags DEF Next
<1>2. IInv /\ AnswerInv => AnswerIsOwn
  <2> SUFFICES ASSUME IInv, AnswerInv, NEW i \in DOMAIN calls,
                      calls[i].outcome = "ok", calls[i].req # nop,
                      calls[i].by # calls[i].tag
               PROVE  /\ calls[i].by \in 1 .. (i - 1)
                      /\ calls[calls[i].by].req # nop
                      /\ \/ /\ EndedWithout(calls[i].by)
                            /\ calls[calls[i].by].req.byte = calls[i].req.byte
                         \/ /\ calls[calls[i].by].req = request_tls_connection
                            /\ EndedWithout(calls[i].by)
                                 \/ ReadsDone(calls[i].by) < TlsMessages
    BY DEF AnswerIsOwn
  <2>1. Tagged /\ LateOK /\ Len(calls) \in Nat /\ DOMAIN calls = 1 .. Len(calls)
    BY Types DEF AnswerInv, ChannelTags
  <2>2. /\ calls[i].by \in 1 .. (i - 1) /\ calls[i].by \in DOMAIN calls
        /\ Req(calls[i].by) # nop /\ Req(calls[i].by) # read_tls
        /\ \/ Req(calls[i].by) = request_tls_connection
           \/ Req(calls[i].by).byte = Req(i).byte /\ Late(calls[i].by)
    BY <2>1 DEF LateOK, Req
  <2>3. PICK b \in DOMAIN calls : b = calls[i].by
    BY <2>2
  <2>4. CASE Req(b) = request_tls_connection
    <3>1. EndedWithout(b) \/ ReadsDone(b) < TlsMessages
      BY <2>3, <2>4, HandshakeBudget
    <3> QED
      BY <2>2, <2>3, <2>4, <3>1 DEF Req
  <2>5. CASE Req(b).byte = Req(i).byte /\ Late(b)
    <3>1. calls[b].tag = b
      BY <2>1, <2>2, <2>3 DEF Tagged
    <3>2. calls[b] \in Call
      BY Types
    <3>3. EndedWithout(b)
      BY <2>5, <3>1, <3>2 DEF EndedWithout, Late, Call
    <3> QED
      BY <2>2, <2>3, <2>5, <3>3 DEF Req
  <2> QED
    BY <2>2, <2>3, <2>4, <2>5
<1> QED
  BY <1>1, <1>2, InitTags, Invariant, PTL DEF Spec
=============================================================================
