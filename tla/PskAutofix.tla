------------------------------ MODULE PskAutofix ------------------------------
(***************************************************************************)
(* The boot helper that repairs the key of the sensor                      *)
(* (tools/goodix-psk-autofix): it reads the hash of the key, writes the    *)
(* community key if the hash is another one, and reads it back, three      *)
(* times at most.  Answers carry only the byte of the command they answer, *)
(* so one that comes late, after its exchange was given up, may be taken   *)
(* for that of a later exchange of the same command.                       *)
(*                                                                         *)
(* The sensor is any device that executes the commands it receives in      *)
(* their order and answers in that order; it may refuse a command, answer  *)
(* only in part or not at all, and what a write leaves behind is anybody's *)
(* guess: that is what the key is read back for.                           *)
(***************************************************************************)
EXTENDS Naturals, Sequences

CONSTANTS
  Attempts,     \* how often the key is written, at most (3)
  MaxResponses  \* the answers an exchange looks at, at most (16)

ASSUME AttemptsAssumption == Attempts \in Nat \ {0}
ASSUME ResponsesAssumption == MaxResponses \in Nat \ {0}

VARIABLES
  task,          \* what main is doing
  sending,       \* it has still to send the command of the exchange
  attempt,       \* writes that have failed
  acknowledged,  \* the command of the exchange was acknowledged
  seen,          \* the answers the exchange has looked at
  code,          \* exit code, or "none"
  aborted,       \* exchanges that ended before their reply
  requests,      \* commands the sensor has not executed
  answers,       \* answers the host has not looked at
  psk,           \* the key the sensor holds
  original       \* the one it held at first

helper == <<task, sending, attempt, acknowledged, seen, code, aborted>>
pskVars == <<task, sending, attempt, acknowledged, seen, code, aborted,
             requests, answers, psk, original>>

Keys == {"community", "other"}
Commands == {"nop", "read", "write"}
Ack(cmd, ok) == [kind |-> "ack", cmd |-> cmd, ok |-> ok, key |-> "none"]
Reply(cmd, ok, key) == [kind |-> "reply", cmd |-> cmd, ok |-> ok, key |-> key]
Answers == [kind : {"ack", "reply"}, cmd : Commands, ok : BOOLEAN,
            key : Keys \cup {"none"}]

Command == IF task = "write" THEN "write" ELSE "read"

-----------------------------------------------------------------------------
PskInit ==
  /\ task = "start" /\ sending = FALSE /\ code = "none"
  /\ attempt = 0 /\ acknowledged = FALSE /\ seen = 0 /\ aborted = 0
  /\ requests = <<>> /\ answers = <<>>
  /\ psk \in Keys /\ original = psk

Exit(c) ==
  /\ task' = "done" /\ code' = c
  /\ sending' = FALSE /\ acknowledged' = FALSE /\ seen' = 0
  /\ UNCHANGED attempt

Exchange(t) ==
  /\ task' = t /\ sending' = TRUE
  /\ acknowledged' = FALSE /\ seen' = 0
  /\ UNCHANGED code

(* init_device, and a NOP whose answer nobody waits for.                    *)
Start ==
  /\ task = "start"
  /\ \/ /\ requests' = <<"nop">>
        /\ Exchange("check") /\ UNCHANGED attempt
     \/ Exit("failure") /\ UNCHANGED requests
  /\ UNCHANGED <<aborted, answers, psk, original>>

(* Mutation: a key that cannot be read is taken for another one.            *)
RaiseWrites ==
  \/ task = "check" /\ Exchange("write") /\ UNCHANGED attempt
  \/ /\ task \in {"write", "verify"}
     /\ IF attempt + 1 = Attempts
        THEN Exit("failure")
        ELSE attempt' = attempt + 1 /\ Exchange("write")

(* An exception: it ends the check, or the attempt to write.                *)
Raise ==
  \/ task = "check" /\ Exit("failure")
  \/ /\ task \in {"write", "verify"}
     /\ IF attempt + 1 = Attempts
        THEN Exit("failure")
        ELSE attempt' = attempt + 1 /\ Exchange("write")

(* exchange: send_cmd, which may fail.                                      *)
Send ==
  /\ sending
  /\ \/ /\ requests' = Append(requests, Command)
        /\ sending' = FALSE
        /\ UNCHANGED <<task, attempt, acknowledged, seen, code>>
     \/ Raise /\ UNCHANGED requests
  /\ UNCHANGED <<aborted, answers, psk, original>>

Waiting == task \in {"check", "write", "verify"} /\ ~sending

(* No answer came in time, or the device or the answer is in error.         *)
Abort ==
  /\ Waiting
  /\ Raise
  /\ aborted' = aborted + 1
  /\ UNCHANGED <<requests, answers, psk, original>>

(* One answer is looked at: the rest of exchange, and what its caller does  *)
(* with the payload.                                                        *)
Ignored(a) == a.cmd # Command
Accepted(a) == a.kind = "reply" /\ a.cmd = Command /\ acknowledged
Acknowledges(a) == a.kind = "ack" /\ a.cmd = Command /\ a.ok

GoOn(a) ==
  /\ Ignored(a) \/ Acknowledges(a)
  /\ IF seen + 1 = MaxResponses
     THEN Raise /\ aborted' = aborted + 1
     ELSE /\ seen' = seen + 1
          /\ acknowledged' = (acknowledged \/ Acknowledges(a))
          /\ UNCHANGED <<task, sending, attempt, code, aborted>>

Reject(a) ==
  /\ ~Ignored(a) /\ ~Acknowledges(a) /\ ~Accepted(a)
  /\ Raise
  /\ aborted' = aborted + 1

(* Mutation: the status of the write is enough.                             *)
UseUnverified(a) ==
  \/ task = "check" /\ a.key = "community" /\ Exit("success")
  \/ task = "check" /\ a.key = "other" /\ Exchange("write") /\ UNCHANGED attempt
  \/ task \in {"write", "verify"} /\ Exit("success")

Use(a) ==
  \/ task = "check" /\ a.key = "community" /\ Exit("success")
  \/ task = "check" /\ a.key = "other" /\ Exchange("write") /\ UNCHANGED attempt
  \/ task = "write" /\ Exchange("verify") /\ UNCHANGED attempt
  \/ task = "verify" /\ a.key = "community" /\ Exit("success")
  \/ task = "verify" /\ a.key = "other" /\ Raise

Take(a) ==
  /\ Accepted(a)
  /\ IF a.ok THEN Use(a) ELSE Raise
  /\ UNCHANGED aborted

Response ==
  /\ Waiting
  /\ answers # <<>>
  /\ answers' = Tail(answers)
  /\ LET a == Head(answers) IN GoOn(a) \/ Reject(a) \/ Take(a)
  /\ UNCHANGED <<requests, psk, original>>

-----------------------------------------------------------------------------
(* The sensor executes a command.                                           *)
Replies(cmd, key) ==
  IF cmd = "nop" THEN {<<>>}
  ELSE IF cmd = "read"
       THEN {<<Reply(cmd, TRUE, key)>>, <<Reply(cmd, FALSE, "none")>>, <<>>}
       ELSE {<<Reply(cmd, ok, "none")>> : ok \in BOOLEAN} \cup {<<>>}

Execute ==
  /\ requests # <<>>
  /\ requests' = Tail(requests)
  /\ LET cmd == Head(requests) IN
       \/ /\ psk' \in IF cmd = "write" THEN Keys ELSE {psk}
          /\ \E ack \in {<<Ack(cmd, TRUE)>>, <<>>}, reply \in Replies(cmd, psk') :
               answers' = answers \o ack \o reply
       \/ answers' = Append(answers, Ack(cmd, FALSE)) /\ UNCHANGED psk
  /\ UNCHANGED <<helper, original>>

Finished == task = "done" /\ requests = <<>> /\ UNCHANGED pskVars

PskNext == Start \/ Send \/ Abort \/ Response \/ Execute \/ Finished

PskSpec == PskInit /\ [][PskNext]_pskVars

-----------------------------------------------------------------------------
(* The state keeps its types; the attempts keep their bound.                *)
PskTypeOK ==
  /\ task \in {"start", "check", "write", "verify", "done"}
  /\ sending \in BOOLEAN /\ acknowledged \in BOOLEAN
  /\ attempt \in 0 .. Attempts - 1
  /\ seen \in 0 .. MaxResponses - 1
  /\ code \in {"none", "success", "failure"} /\ (code # "none" <=> task = "done")
  /\ aborted \in Nat
  /\ requests \in Seq(Commands) /\ answers \in Seq(Answers)
  /\ {psk, original} \subseteq Keys

(* A key that is already the community key is never written, whatever goes  *)
(* wrong while it is read.                                                  *)
WritesOther ==
  task \in {"write", "verify"} => original = "other"

(* Success means that the sensor holds the community key and that no write  *)
(* is on its way that may spoil it, unless two exchanges were given up      *)
(* whose answers came late: the read-back can then be that of an earlier    *)
(* attempt.                                                                 *)
SuccessStands ==
  code = "success" /\ aborted <= 1 =>
    psk = "community" /\ \A i \in 1 .. Len(requests) : requests[i] # "write"
=============================================================================
