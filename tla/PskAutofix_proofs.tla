-------------------------- MODULE PskAutofix_proofs --------------------------
(***************************************************************************)
(* Proofs about PskAutofix, for any number of attempts and any limit on    *)
(* the answers an exchange looks at.                                       *)
(*                                                                         *)
(* Until the helper decides to write, nothing it sent changes the key, so  *)
(* every hash that is read, however late it arrives, is that of the key    *)
(* the sensor had at first (Untouched).  Later, what a read-back reads is  *)
(* the truth unless it takes the answer of an earlier one: while at most   *)
(* one exchange was given up there is no other on its way (Tracked).       *)
(***************************************************************************)
EXTENDS PskAutofix, SequenceTheorems, TLAPS

Honest(a) == a.kind = "reply" /\ a.cmd = "read" /\ a.ok => a.key = original

Untouched ==
  task \in {"start", "check"} =>
    /\ psk = original
    /\ \A i \in 1 .. Len(requests) : requests[i] # "write"
    /\ \A i \in 1 .. Len(answers) : Honest(answers[i])

(* A reply to command c that the host has not looked at, a command c that   *)
(* the sensor has not executed.                                             *)
IsReply(a, c) == a.kind = "reply" /\ a.cmd = c
NoReply(c) == \A i \in 1 .. Len(answers) : ~IsReply(answers[i], c)
NoRequest(c) == \A i \in 1 .. Len(requests) : requests[i] # c
Nothing(c) == NoRequest(c) /\ NoReply(c)

(* One command c at most is on its way, and nothing was sent after it.      *)
Last(c) ==
  /\ \A i \in 1 .. Len(requests) : requests[i] = c => i = Len(requests) /\ NoReply(c)
  /\ \A i, j \in 1 .. Len(answers) :
       IsReply(answers[i], c) => requests = <<>> /\ (IsReply(answers[j], c) => j = i)

(* What is to be read is the key the sensor holds.                          *)
Truthful ==
  \A i \in 1 .. Len(answers) :
    IsReply(answers[i], "read") /\ answers[i].ok => answers[i].key = psk

ReadOK == IF sending THEN Nothing("read") ELSE Last("read") /\ Truthful

(* The reads on their way are older than the writes.                        *)
ReadsFirst ==
  /\ \A i, j \in 1 .. Len(requests) :
       requests[i] = "write" /\ requests[j] = "read" => j < i
  /\ \A i, j \in 1 .. Len(answers) :
       IsReply(answers[i], "write") /\ IsReply(answers[j], "read") => j < i
  /\ NoReply("write") \/ NoRequest("read")

(* What is on its way while at most one exchange was given up: a read-back  *)
(* finds no other read, since the late answer of one, if there is any, was  *)
(* passed over before the reply of the write that follows it.               *)
Tracked ==
  /\ sending => task \in {"check", "write", "verify"}
  /\ aborted <= 1 =>
       /\ task = "start" => aborted = 0 /\ Nothing("read") /\ Nothing("write")
       /\ task = "check" => aborted = 0 /\ Nothing("write") /\ ReadOK
       /\ task = "verify" => ReadOK /\ (aborted = 0 => Nothing("write"))
       /\ task = "write" =>
            /\ ReadsFirst
            /\ aborted = 0 =>
                 Nothing("read") /\ IF sending THEN Nothing("write") ELSE Last("write")

-----------------------------------------------------------------------------
(* The part of the type invariant that the helper's own steps can disturb.  *)
HelperTypes ==
  /\ task' \in {"start", "check", "write", "verify", "done"}
  /\ sending' \in BOOLEAN /\ acknowledged' \in BOOLEAN
  /\ attempt' \in 0 .. Attempts - 1
  /\ seen' \in 0 .. MaxResponses - 1
  /\ code' \in {"none", "success", "failure"} /\ (code' # "none" <=> task' = "done")
  /\ aborted' \in Nat

LEMMA Bounds ==
  /\ 0 \in 0 .. Attempts - 1
  /\ 0 \in 0 .. MaxResponses - 1
BY AttemptsAssumption, ResponsesAssumption

(* What an exit, the start of an exchange and an exception leave.           *)
LEMMA ExitTypes ==
  ASSUME PskTypeOK, NEW c \in {"success", "failure"}, Exit(c), aborted' \in Nat
  PROVE  HelperTypes /\ task' = "done"
<1>1. seen' \in 0 .. MaxResponses - 1 /\ attempt' \in 0 .. Attempts - 1
  BY Bounds DEF Exit, PskTypeOK
<1>2. sending' \in BOOLEAN /\ acknowledged' \in BOOLEAN
  BY DEF Exit
<1> QED
  BY <1>1, <1>2 DEF Exit, HelperTypes

LEMMA ExchangeTypes ==
  ASSUME PskTypeOK, NEW t \in {"check", "write", "verify"}, Exchange(t),
         task # "done", attempt' \in 0 .. Attempts - 1, aborted' \in Nat
  PROVE  HelperTypes /\ task' = t
<1>1. seen' \in 0 .. MaxResponses - 1
  BY Bounds DEF Exchange
<1>2. sending' \in BOOLEAN /\ acknowledged' \in BOOLEAN
  BY DEF Exchange
<1>3. code' = "none"
  BY DEF Exchange, PskTypeOK
<1> QED
  BY <1>1, <1>2, <1>3 DEF Exchange, HelperTypes

LEMMA RaiseHelper ==
  ASSUME PskTypeOK, Raise, aborted' \in Nat
  PROVE  HelperTypes /\ task' \in {"write", "done"} /\ (task = "check" => task' = "done")
<1>1. CASE Exit("failure")
  BY <1>1, ExitTypes
<1>2. CASE /\ task \in {"write", "verify"} /\ attempt + 1 # Attempts
           /\ attempt' = attempt + 1 /\ Exchange("write")
  <2>1. attempt' \in 0 .. Attempts - 1
    BY <1>2, AttemptsAssumption DEF PskTypeOK
  <2> QED BY <1>2, <2>1, ExchangeTypes
<1> QED
  BY <1>1, <1>2 DEF Raise

LEMMA AckTypes ==
  ASSUME NEW cmd \in Commands
  PROVE  \A ok \in {TRUE, FALSE} :
           /\ Ack(cmd, ok) \in Answers /\ <<Ack(cmd, ok)>> \in Seq(Answers)
           /\ Ack(cmd, ok).kind = "ack" /\ <<Ack(cmd, ok)>>[1].kind = "ack"
<1>1. ASSUME NEW ok \in {TRUE, FALSE}
      PROVE  Ack(cmd, ok) \in Answers /\ Ack(cmd, ok).kind = "ack"
  <2>1. ok \in BOOLEAN
    OBVIOUS
  <2> QED BY <2>1 DEF Ack, Answers
<1>2. \A a \in Answers : <<a>> \in Seq(Answers) /\ <<a>>[1] = a
  OBVIOUS
<1> QED
  BY <1>1, <1>2

LEMMA ReplyTypes ==
  ASSUME NEW cmd \in Commands, NEW key \in Keys
  PROVE  \A r \in Replies(cmd, key) :
           /\ r \in Seq(Answers) /\ Len(r) \in {0, 1}
           /\ Len(r) = 1 => r[1].cmd = cmd
           /\ Len(r) = 1 /\ r[1].cmd = "read" /\ r[1].ok => r[1].key = key
<1>1. \A c \in Commands, o \in BOOLEAN, k \in Keys \cup {"none"} :
        /\ Reply(c, o, k) \in Answers /\ <<Reply(c, o, k)>> \in Seq(Answers)
        /\ Reply(c, o, k).cmd = c /\ Reply(c, o, k).ok = o /\ Reply(c, o, k).key = k
  BY DEF Reply, Answers
<1>2. ASSUME NEW r \in Replies(cmd, key)
      PROVE  /\ r \in Seq(Answers) /\ Len(r) \in {0, 1}
             /\ Len(r) = 1 => r[1].cmd = cmd
             /\ Len(r) = 1 /\ r[1].cmd = "read" /\ r[1].ok => r[1].key = key
  <2>1. CASE r = <<>>
    BY <2>1
  <2>2. CASE r = <<Reply(cmd, TRUE, key)>>
    <3>1. key \in Keys \cup {"none"} /\ TRUE \in BOOLEAN
      OBVIOUS
    <3> QED BY <1>1, <2>2, <3>1
  <2>3. CASE r = <<Reply(cmd, FALSE, "none")>>
    BY <1>1, <2>3
  <2>4. CASE cmd = "write" /\ \E o \in BOOLEAN : r = <<Reply(cmd, o, "none")>>
    BY <1>1, <2>4
  <2> QED BY <1>2, <2>1, <2>2, <2>3, <2>4 DEF Replies, Commands
<1> QED
  BY <1>2

-----------------------------------------------------------------------------
LEMMA PskTypeInit == PskInit => PskTypeOK /\ Untouched /\ WritesOther
<1> SUFFICES ASSUME PskInit
             PROVE  PskTypeOK /\ Untouched /\ WritesOther
  OBVIOUS
<1>1. requests \in Seq(Commands) /\ answers \in Seq(Answers)
  BY DEF PskInit
<1>2. sending \in BOOLEAN /\ acknowledged \in BOOLEAN
  BY DEF PskInit
<1>3. PskTypeOK
  BY <1>1, <1>2, Bounds DEF PskInit, PskTypeOK
<1> QED
  BY <1>3 DEF PskInit, Untouched, WritesOther

LEMMA TakeHelper ==
  ASSUME PskTypeOK, NEW a, Take(a), Waiting
  PROVE  /\ HelperTypes /\ task' \notin {"start", "check"}
         /\ task = "check" /\ task' \in {"write", "verify"} =>
              /\ a.kind = "reply" /\ a.cmd = "read" /\ a.ok /\ a.key = "other"
<1>1. aborted' \in Nat /\ Accepted(a) /\ ((a.ok /\ Use(a)) \/ Raise)
  BY DEF Take, PskTypeOK
<1>2. CASE Raise
  BY <1>1, <1>2, RaiseHelper
<1>3. CASE a.ok /\ task \in {"check", "verify"} /\ Exit("success")
  BY <1>1, <1>3, ExitTypes
<1>4. CASE a.ok /\ task = "check" /\ a.key = "other" /\ Exchange("write") /\ UNCHANGED attempt
  <2>1. HelperTypes /\ task' = "write"
    BY <1>1, <1>4, ExchangeTypes DEF PskTypeOK
  <2> QED BY <1>1, <1>4, <2>1 DEF Accepted, Command
<1>5. CASE a.ok /\ task = "write" /\ Exchange("verify") /\ UNCHANGED attempt
  BY <1>1, <1>5, ExchangeTypes DEF PskTypeOK
<1> QED
  BY <1>1, <1>2, <1>3, <1>4, <1>5 DEF Use

LEMMA GoOnHelper ==
  ASSUME PskTypeOK, NEW a, GoOn(a), Waiting
  PROVE  HelperTypes /\ (task' = task \/ task' \in {"write", "done"})
         /\ (task = "check" => task' \in {"check", "done"})
<1>1. CASE Raise /\ aborted' = aborted + 1
  BY <1>1, RaiseHelper DEF PskTypeOK
<1>2. CASE /\ seen + 1 # MaxResponses /\ seen' = seen + 1
           /\ acknowledged' = (acknowledged \/ Acknowledges(a))
           /\ UNCHANGED <<task, sending, attempt, code, aborted>>
  <2>1. acknowledged' \in BOOLEAN
    BY <1>2
  <2>2. seen' \in 0 .. MaxResponses - 1
    BY <1>2, ResponsesAssumption DEF PskTypeOK
  <2> QED BY <1>2, <2>1, <2>2 DEF HelperTypes, PskTypeOK
<1> QED
  BY <1>1, <1>2 DEF GoOn

(* What the sensor answers to a command it executes: `more', in which there *)
(* is one reply at most.                                                    *)
Executes(cmd, more) ==
  /\ requests # <<>> /\ cmd = requests[1] /\ requests' \in Seq(Commands)
  /\ Len(requests) \in Nat /\ Len(requests') = Len(requests) - 1
  /\ \A i \in 1 .. Len(requests') : requests'[i] = requests[i + 1]
  /\ Len(answers) \in Nat /\ Len(more) \in Nat
  /\ answers' \in Seq(Answers) /\ Len(answers') = Len(answers) + Len(more)
  /\ \A i \in 1 .. Len(answers) : answers'[i] = answers[i]
  /\ \A i \in 1 .. Len(answers') :
       i <= Len(answers) \/ (i - Len(answers) \in 1 .. Len(more)
                              /\ answers'[i] = more[i - Len(answers)])
  /\ psk' \in Keys /\ (cmd # "write" => psk' = psk)
  /\ \A i \in 1 .. Len(more) : more[i].kind = "reply" => more[i].cmd = cmd
  /\ \A i, j \in 1 .. Len(more) :
       more[i].kind = "reply" /\ more[j].kind = "reply" => i = j
  /\ \A i \in 1 .. Len(more) :
       IsReply(more[i], "read") /\ more[i].ok => more[i].key = psk'

LEMMA ExecuteEffect ==
  ASSUME PskTypeOK, Execute
  PROVE  \E cmd \in Commands, more \in Seq(Answers) : Executes(cmd, more)
<1> DEFINE cmd == Head(requests)
<1>0. /\ requests \in Seq(Commands) /\ answers \in Seq(Answers)
      /\ Len(requests) \in Nat /\ Len(answers) \in Nat /\ psk \in Keys
  BY LenProperties DEF PskTypeOK
<1>1. requests # <<>> /\ requests' = Tail(requests)
  BY DEF Execute
<1>2. /\ cmd \in Commands /\ requests' \in Seq(Commands) /\ cmd = requests[1]
      /\ Len(requests') = Len(requests) - 1
      /\ \A i \in 1 .. Len(requests') : requests'[i] = requests[i + 1]
  BY <1>0, <1>1, HeadTailProperties
<1> HIDE DEF cmd
<1> DEFINE Replied(more) ==
             /\ \A i \in 1 .. Len(more) : more[i].kind = "reply" => more[i].cmd = cmd
             /\ \A i, j \in 1 .. Len(more) :
                  more[i].kind = "reply" /\ more[j].kind = "reply" => i = j
             /\ \A i \in 1 .. Len(more) :
                  IsReply(more[i], "read") /\ more[i].ok => more[i].key = psk'
<1>3. PICK more \in Seq(Answers) :
        /\ answers' = answers \o more
        /\ psk' \in Keys /\ (cmd # "write" => psk' = psk)
        /\ Replied(more)
  <2>1. CASE answers' = Append(answers, Ack(cmd, FALSE)) /\ UNCHANGED psk
    <3> DEFINE one == <<Ack(cmd, FALSE)>>
    <3>1. /\ Ack(cmd, FALSE) \in Answers /\ one \in Seq(Answers)
          /\ Len(one) = 1 /\ one[1].kind = "ack"
      BY <1>2, AckTypes
    <3>2. answers' = answers \o one
      <4>1. \A e \in Answers : Append(answers, e) = answers \o <<e>>
        BY <1>0, AppendIsConcat
      <4> QED BY <2>1, <3>1, <4>1
    <3> HIDE DEF one
    <3>3. Replied(one)
      BY <3>1 DEF IsReply
    <3> QED BY <1>0, <2>1, <3>1, <3>2, <3>3
  <2>2. ASSUME psk' \in (IF cmd = "write" THEN Keys ELSE {psk}),
               NEW ack \in {<<Ack(cmd, TRUE)>>, <<>>}, NEW reply \in Replies(cmd, psk'),
               answers' = answers \o ack \o reply
        PROVE  \E more \in Seq(Answers) :
                 /\ answers' = answers \o more
                 /\ psk' \in Keys /\ (cmd # "write" => psk' = psk)
                 /\ Replied(more)
    <3>1. psk' \in Keys /\ (cmd # "write" => psk' = psk)
      BY <1>0, <2>2
    <3>2. /\ ack \in Seq(Answers) /\ Len(ack) \in {0, 1}
          /\ Len(ack) = 1 => ack[1].kind = "ack"
      <4>1. CASE ack = <<Ack(cmd, TRUE)>>
        <5>1. <<Ack(cmd, TRUE)>> \in Seq(Answers) /\ <<Ack(cmd, TRUE)>>[1].kind = "ack"
          BY <1>2, AckTypes
        <5> QED BY <4>1, <5>1
      <4>2. CASE ack = <<>>
        BY <4>2
      <4> QED BY <2>2, <4>1, <4>2
    <3>3. /\ reply \in Seq(Answers) /\ Len(reply) \in {0, 1}
          /\ Len(reply) = 1 => reply[1].cmd = cmd
          /\ Len(reply) = 1 /\ reply[1].cmd = "read" /\ reply[1].ok => reply[1].key = psk'
      BY <1>2, <3>1, ReplyTypes
    <3> DEFINE more == ack \o reply
    <3>4. /\ more \in Seq(Answers) /\ Len(more) = Len(ack) + Len(reply)
          /\ \A i \in 1 .. Len(ack) + Len(reply) : more[i] =
               IF i <= Len(ack) THEN ack[i] ELSE reply[i - Len(ack)]
      BY <3>2, <3>3, ConcatProperties
    <3>5. answers' = answers \o more
      BY <1>0, <2>2, <3>2, <3>3, ConcatAssociative
    <3> HIDE DEF more
    <3>6. \A i \in 1 .. Len(more) :
            \/ i <= Len(ack) /\ more[i].kind = "ack"
            \/ i = Len(ack) + 1 /\ Len(reply) = 1 /\ more[i] = reply[1]
      BY <3>2, <3>3, <3>4
    <3>7. Replied(more)
      BY <3>2, <3>3, <3>6 DEF IsReply
    <3> QED BY <3>1, <3>4, <3>5, <3>7
  <2> QED BY <2>1, <2>2 DEF Execute, cmd
<1>4. /\ answers' \in Seq(Answers) /\ Len(answers') = Len(answers) + Len(more)
      /\ Len(more) \in Nat
      /\ \A i \in 1 .. Len(answers) + Len(more) : answers'[i] =
           IF i <= Len(answers) THEN answers[i] ELSE more[i - Len(answers)]
  BY <1>0, <1>3, ConcatProperties, LenProperties
<1>5. Executes(cmd, more)
  <2>1. \A i \in 1 .. Len(answers) : answers'[i] = answers[i]
    BY <1>0, <1>4
  <2>2. \A i \in 1 .. Len(answers') :
          i <= Len(answers) \/ (i - Len(answers) \in 1 .. Len(more)
                                 /\ answers'[i] = more[i - Len(answers)])
    BY <1>0, <1>4
  <2> QED BY <1>0, <1>1, <1>2, <1>3, <1>4, <2>1, <2>2 DEF Executes
<1> QED
  BY <1>2, <1>5

LEMMA PskTypeNext ==
  PskTypeOK /\ Untouched /\ WritesOther /\ [PskNext]_pskVars
    => PskTypeOK' /\ Untouched' /\ WritesOther'
<1> SUFFICES ASSUME PskTypeOK, Untouched, WritesOther, [PskNext]_pskVars
             PROVE  PskTypeOK' /\ Untouched' /\ WritesOther'
  OBVIOUS
<1>0. /\ requests \in Seq(Commands) /\ answers \in Seq(Answers)
      /\ Len(requests) \in Nat /\ Len(answers) \in Nat
      /\ psk \in Keys /\ original \in Keys
  BY LenProperties DEF PskTypeOK
<1>1. CASE Start
  <2>1. UNCHANGED <<aborted, answers, psk, original>> /\ task = "start"
    BY <1>1 DEF Start
  <2>2. CASE requests' = <<"nop">> /\ Exchange("check") /\ UNCHANGED attempt
    <3>1. requests' \in Seq(Commands) /\ \A i \in 1 .. Len(requests') : requests'[i] # "write"
      BY <2>2 DEF Commands
    <3>2. HelperTypes /\ task' = "check"
      BY <2>1, <2>2, ExchangeTypes DEF PskTypeOK
    <3>3. PskTypeOK'
      BY <2>1, <3>1, <3>2 DEF HelperTypes, PskTypeOK
    <3> QED BY <2>1, <3>1, <3>2, <3>3 DEF Untouched, Honest, WritesOther
  <2>3. CASE Exit("failure") /\ UNCHANGED requests
    <3>1. HelperTypes /\ task' = "done"
      BY <2>1, <2>3, ExitTypes DEF PskTypeOK
    <3>2. PskTypeOK'
      BY <2>1, <2>3, <3>1 DEF HelperTypes, PskTypeOK
    <3> QED BY <3>1, <3>2 DEF Untouched, WritesOther
  <2> QED BY <1>1, <2>2, <2>3 DEF Start
<1>2. CASE Send
  <2>1. UNCHANGED <<aborted, answers, psk, original>>
    BY <1>2 DEF Send
  <2>2. CASE Raise /\ UNCHANGED requests
    <3>1. HelperTypes /\ task' \in {"write", "done"} /\ (task = "check" => task' = "done")
      BY <2>1, <2>2, RaiseHelper DEF PskTypeOK
    <3>2. task \in {"check", "write", "verify"}
      BY <2>2 DEF Raise
    <3>3. PskTypeOK'
      BY <2>1, <2>2, <3>1 DEF HelperTypes, PskTypeOK
    <3> QED BY <2>1, <3>1, <3>2, <3>3 DEF Untouched, WritesOther
  <2>3. CASE /\ requests' = Append(requests, Command) /\ sending' = FALSE
             /\ UNCHANGED <<task, attempt, acknowledged, seen, code>>
    <3>1. Command \in Commands /\ (task \in {"start", "check"} => Command # "write")
      BY DEF Command, Commands
    <3>2. /\ requests' \in Seq(Commands) /\ Len(requests') = Len(requests) + 1
          /\ \A i \in 1 .. Len(requests) : requests'[i] = requests[i]
          /\ requests'[Len(requests) + 1] = Command
      BY <1>0, <2>3, <3>1
    <3>3. PskTypeOK'
      BY <2>1, <2>3, <3>2 DEF PskTypeOK
    <3>4. task \in {"start", "check"} =>
            \A i \in 1 .. Len(requests') : requests'[i] # "write"
      BY <1>0, <3>1, <3>2 DEF Untouched
    <3> QED BY <2>1, <2>3, <3>3, <3>4 DEF Untouched, Honest, WritesOther
  <2> QED BY <1>2, <2>2, <2>3 DEF Send
<1>3. CASE Abort
  <2>1. Raise /\ aborted' = aborted + 1 /\ UNCHANGED <<requests, answers, psk, original>>
    BY <1>3 DEF Abort
  <2>2. HelperTypes /\ task' \in {"write", "done"} /\ (task = "check" => task' = "done")
    BY <2>1, RaiseHelper DEF PskTypeOK
  <2>3. task \in {"check", "write", "verify"}
    BY <1>3 DEF Abort, Waiting
  <2>4. PskTypeOK'
    BY <2>1, <2>2 DEF HelperTypes, PskTypeOK
  <2> QED BY <2>1, <2>2, <2>3, <2>4 DEF Untouched, WritesOther
<1>4. CASE Response
  <2> DEFINE a == Head(answers)
  <2>1. /\ answers # <<>> /\ answers' = Tail(answers) /\ Waiting
        /\ UNCHANGED <<requests, psk, original>>
        /\ GoOn(a) \/ Reject(a) \/ Take(a)
    BY <1>4 DEF Response
  <2>2. /\ answers' \in Seq(Answers) /\ a = answers[1] /\ 1 \in 1 .. Len(answers)
        /\ Len(answers') = Len(answers) - 1
        /\ \A i \in 1 .. Len(answers') : answers'[i] = answers[i + 1]
    BY <1>0, <2>1, HeadTailProperties
  <2>3. task \in {"check", "write", "verify"}
    BY <2>1 DEF Waiting
  <2>4. task = "check" => Honest(a)
    BY <2>2 DEF Untouched
  <2> HIDE DEF a
  <2>5. /\ HelperTypes /\ task' # "start" /\ (task' = "check" => task = "check")
        /\ task' \in {"write", "verify"} => original = "other"
    <3>1. CASE GoOn(a)
      BY <2>1, <2>3, <3>1, GoOnHelper DEF WritesOther
    <3>2. CASE Reject(a)
      BY <2>3, <3>2, RaiseHelper DEF Reject, PskTypeOK, WritesOther
    <3>3. CASE Take(a)
      BY <2>1, <2>3, <2>4, <3>3, TakeHelper DEF Honest, WritesOther
    <3> QED BY <2>1, <3>1, <3>2, <3>3
  <2>6. PskTypeOK'
    BY <2>1, <2>2, <2>5 DEF HelperTypes, PskTypeOK
  <2>7. task' = "check" => \A i \in 1 .. Len(answers') : Honest(answers[i + 1])
    BY <1>0, <2>2, <2>5 DEF Untouched
  <2>8. Untouched'
    BY <2>1, <2>2, <2>5, <2>7 DEF Untouched, Honest
  <2> QED BY <2>1, <2>5, <2>6, <2>8 DEF WritesOther
<1>5. CASE Execute
  <2>1. PICK cmd \in Commands, more \in Seq(Answers) : Executes(cmd, more)
    BY <1>5, ExecuteEffect
  <2>2. /\ \A i \in 1 .. Len(requests') : requests'[i] = requests[i + 1] /\ i + 1 \in 1 .. Len(requests)
        /\ requests[1] = cmd /\ 1 \in 1 .. Len(requests)
    BY <1>0, <2>1 DEF Executes
  <2>3. UNCHANGED <<helper, original>>
    BY <1>5 DEF Execute
  <2>4. PskTypeOK'
    BY <2>1, <2>3 DEF PskTypeOK, helper, Executes
  <2>5. ASSUME task \in {"start", "check"}
        PROVE  /\ psk' = original
               /\ \A i \in 1 .. Len(requests') : requests'[i] # "write"
               /\ \A i \in 1 .. Len(answers') : Honest(answers'[i])
    <3>1. cmd # "write" /\ psk' = original
      BY <2>1, <2>2, <2>5 DEF Untouched, Executes
    <3>2. \A i \in 1 .. Len(requests') : requests'[i] # "write"
      BY <2>2, <2>5 DEF Untouched
    <3>3. \A i \in 1 .. Len(more) : Honest(more[i])
      BY <2>1, <3>1 DEF Honest, Executes, IsReply
    <3>4. \A i \in 1 .. Len(answers) : Honest(answers[i])
      BY <2>5 DEF Untouched
    <3>5. ASSUME NEW i \in 1 .. Len(answers')
          PROVE  Honest(answers'[i])
      <4>1. CASE i \in 1 .. Len(answers)
        BY <2>1, <3>4, <4>1 DEF Executes
      <4>2. CASE i - Len(answers) \in 1 .. Len(more) /\ answers'[i] = more[i - Len(answers)]
        BY <3>3, <4>2
      <4> QED BY <2>1, <4>1, <4>2 DEF Executes
    <3> QED BY <3>1, <3>2, <3>5
  <2> QED BY <2>3, <2>4, <2>5 DEF Untouched, WritesOther, Honest, helper
<1>6. CASE Finished \/ UNCHANGED pskVars
  BY <1>6 DEF Finished, pskVars, PskTypeOK, Untouched, WritesOther, Honest
<1> QED
  BY <1>1, <1>2, <1>3, <1>4, <1>5, <1>6 DEF PskNext

(* The state of the helper keeps its types, and its attempts their bound.   *)
THEOREM PskTypeCorrect == PskSpec => []PskTypeOK
BY PskTypeInit, PskTypeNext, PTL DEF PskSpec

(* The community key is never written over itself, whatever answers are     *)
(* lost, late or in error.                                                  *)
THEOREM CommunityKeyIsKept == PskSpec => []WritesOther
BY PskTypeInit, PskTypeNext, PTL DEF PskSpec

-----------------------------------------------------------------------------
(* What sending, looking at an answer and executing do to what is on its    *)
(* way.                                                                     *)

LEMMA SendKeeps ==
  ASSUME PskTypeOK, NEW c \in Commands, requests' = Append(requests, c),
         UNCHANGED <<answers, psk>>
  PROVE  /\ \A d \in Commands : Nothing(d) /\ d # c => Nothing(d)'
         /\ Nothing(c) => Last(c)'
         /\ Nothing("read") => Truthful'
         /\ c = "write" /\ ReadsFirst => ReadsFirst'
<1>1. /\ requests \in Seq(Commands) /\ Len(requests) \in Nat
      /\ Len(requests') = Len(requests) + 1 /\ requests'[Len(requests')] = c
      /\ \A i \in 1 .. Len(requests) : requests'[i] = requests[i]
  BY LenProperties DEF PskTypeOK
<1>2. \A i \in 1 .. Len(requests') : i \in 1 .. Len(requests) \/ i = Len(requests')
  BY <1>1
<1>3. \A d : NoReply(d)' <=> NoReply(d)
  BY DEF NoReply
<1>4. ASSUME NEW d \in Commands, Nothing(d), d # c PROVE Nothing(d)'
  BY <1>1, <1>2, <1>3, <1>4 DEF Nothing, NoRequest
<1>5. ASSUME Nothing(c) PROVE Last(c)'
  <2>1. \A i \in 1 .. Len(requests') : requests'[i] = c => i = Len(requests')
    BY <1>1, <1>2, <1>5 DEF Nothing, NoRequest
  <2> QED BY <1>3, <1>5, <2>1 DEF Nothing, NoReply, Last
<1>6. Nothing("read") => Truthful'
  BY DEF Nothing, NoReply, Truthful
<1>7. ASSUME c = "write", ReadsFirst PROVE ReadsFirst'
  <2>1. \A i, j \in 1 .. Len(requests') :
          requests'[i] = "write" /\ requests'[j] = "read" => j < i
    BY <1>1, <1>2, <1>7 DEF ReadsFirst
  <2>2. NoRequest("read") => NoRequest("read")'
    BY <1>1, <1>2, <1>7 DEF NoRequest
  <2> QED BY <1>3, <1>7, <2>1, <2>2 DEF ReadsFirst
<1> QED
  BY <1>4, <1>5, <1>6, <1>7

LEMMA ResponseKeeps ==
  ASSUME PskTypeOK, answers # <<>>, answers' = Tail(answers), UNCHANGED <<requests, psk>>
  PROVE  /\ \A d \in Commands : Nothing(d) => Nothing(d)'
         /\ \A d \in Commands : Last(d) => Last(d)'
         /\ \A d \in Commands : Last(d) /\ IsReply(Head(answers), d) =>
              Nothing(d)' /\ requests = <<>>
         /\ Truthful => Truthful'
         /\ Truthful /\ IsReply(Head(answers), "read") /\ Head(answers).ok =>
              Head(answers).key = psk
         /\ ReadsFirst => ReadsFirst'
         /\ ReadsFirst /\ IsReply(Head(answers), "write") => Nothing("read")'
<1> DEFINE a == Head(answers)
<1>1. /\ answers \in Seq(Answers) /\ Len(answers) \in Nat /\ a = answers[1]
      /\ 1 \in 1 .. Len(answers) /\ Len(answers') = Len(answers) - 1
      /\ \A i \in 1 .. Len(answers') : answers'[i] = answers[i + 1]
  BY LenProperties, HeadTailProperties DEF PskTypeOK
<1> HIDE DEF a
<1>2. \A i \in 1 .. Len(answers') : i + 1 \in 1 .. Len(answers) /\ i + 1 # 1 /\ i \in Nat
  BY <1>1
<1>3. \A d : NoReply(d) => NoReply(d)'
  BY <1>1, <1>2 DEF NoReply
<1>4. \A d : NoRequest(d)' <=> NoRequest(d)
  BY DEF NoRequest
<1>5. ASSUME NEW d \in Commands, Last(d) PROVE Last(d)'
  <2>1. \A i \in 1 .. Len(requests') : requests'[i] = d => i = Len(requests') /\ NoReply(d)'
    BY <1>3, <1>5 DEF Last
  <2>2. ASSUME NEW i \in 1 .. Len(answers'), NEW j \in 1 .. Len(answers'),
               IsReply(answers'[i], d)
        PROVE  requests' = <<>> /\ (IsReply(answers'[j], d) => j = i)
    <3>1. IsReply(answers[i + 1], d) /\ answers'[j] = answers[j + 1]
      BY <1>1, <2>2
    <3>2. requests = <<>> /\ (IsReply(answers[j + 1], d) => j + 1 = i + 1)
      BY <1>2, <1>5, <3>1 DEF Last
    <3> QED BY <1>2, <3>1, <3>2
  <2> QED BY <2>1, <2>2 DEF Last
<1>6. ASSUME NEW d \in Commands, Last(d), IsReply(a, d)
      PROVE  Nothing(d)' /\ requests = <<>>
  <2>1. requests = <<>> /\ \A j \in 1 .. Len(answers) : IsReply(answers[j], d) => j = 1
    BY <1>1, <1>6 DEF Last
  <2>2. NoReply(d)'
    BY <1>1, <1>2, <2>1 DEF NoReply
  <2>3. NoRequest(d)'
    BY <2>1 DEF NoRequest
  <2> QED BY <2>1, <2>2, <2>3 DEF Nothing
<1>7. Truthful => Truthful'
  BY <1>1, <1>2 DEF Truthful
<1>8. Truthful /\ IsReply(a, "read") /\ a.ok => a.key = psk
  BY <1>1 DEF Truthful
<1>9. ASSUME ReadsFirst PROVE ReadsFirst'
  <2>1. ASSUME NEW i \in 1 .. Len(answers'), NEW j \in 1 .. Len(answers'),
               IsReply(answers'[i], "write"), IsReply(answers'[j], "read")
        PROVE  j < i
    <3>1. IsReply(answers[i + 1], "write") /\ IsReply(answers[j + 1], "read")
      BY <1>1, <2>1
    <3>2. j + 1 < i + 1
      BY <1>2, <1>9, <3>1 DEF ReadsFirst
    <3> QED BY <1>2, <3>2
  <2> QED BY <1>3, <1>4, <1>9, <2>1 DEF ReadsFirst
<1>10. ASSUME ReadsFirst, IsReply(a, "write") PROVE Nothing("read")'
  <2>1. NoRequest("read")
    BY <1>1, <1>10 DEF ReadsFirst, NoReply
  <2>2. \A j \in 1 .. Len(answers) : IsReply(answers[j], "read") => j < 1
    BY <1>1, <1>10 DEF ReadsFirst
  <2>3. NoReply("read")'
    BY <1>1, <1>2, <2>2 DEF NoReply
  <2> QED BY <1>4, <2>1, <2>3 DEF Nothing
<1>11. \A d \in Commands : Nothing(d) => Nothing(d)'
  BY <1>3, <1>4 DEF Nothing
<1> QED
  BY <1>5, <1>6, <1>7, <1>8, <1>9, <1>10, <1>11 DEF a

LEMMA ExecuteKeeps ==
  ASSUME PskTypeOK, Execute
  PROVE  /\ \A d \in Commands : Nothing(d) => Nothing(d)'
         /\ \A d \in Commands : Last(d) => Last(d)'
         /\ Last("read") /\ Truthful => Truthful'
         /\ ReadsFirst => ReadsFirst'
         /\ NoRequest("write") => psk' = psk /\ NoRequest("write")'
<1>1. PICK cmd \in Commands, more \in Seq(Answers) : Executes(cmd, more)
  BY ExecuteEffect
<1>2. \A i \in 1 .. Len(requests') : i + 1 \in 1 .. Len(requests) /\ i + 1 # 1
  BY <1>1 DEF Executes
<1>3. 1 \in 1 .. Len(requests) /\ requests[1] = cmd
  <2>1. Len(requests) # 0
    BY <1>1, EmptySeq DEF Executes, PskTypeOK
  <2> QED BY <1>1, <2>1 DEF Executes
<1>4. \A d : NoRequest(d) => NoRequest(d)' /\ cmd # d
  BY <1>1, <1>2, <1>3 DEF NoRequest, Executes
(* An answer is an old one, or the one reply there is to cmd.               *)
<1>5. \A i \in 1 .. Len(answers') :
        \/ i \in 1 .. Len(answers) /\ answers'[i] = answers[i]
        \/ i > Len(answers) /\ (answers'[i].kind = "reply" => answers'[i].cmd = cmd)
  <2> SUFFICES ASSUME NEW i \in 1 .. Len(answers')
               PROVE  \/ i \in 1 .. Len(answers) /\ answers'[i] = answers[i]
                      \/ /\ i > Len(answers)
                         /\ answers'[i].kind = "reply" => answers'[i].cmd = cmd
    OBVIOUS
  <2>1. CASE i <= Len(answers)
    BY <1>1, <2>1 DEF Executes
  <2>2. CASE i > Len(answers)
    <3>1. i - Len(answers) \in 1 .. Len(more) /\ answers'[i] = more[i - Len(answers)]
      BY <1>1, <2>2 DEF Executes
    <3>2. more[i - Len(answers)].kind = "reply" => more[i - Len(answers)].cmd = cmd
      BY <1>1, <3>1 DEF Executes
    <3> QED BY <2>2, <3>1, <3>2
  <2> QED BY <1>1, <2>1, <2>2 DEF Executes
<1>6. \A d : NoReply(d) /\ d # cmd => NoReply(d)'
  BY <1>5 DEF NoReply, IsReply
<1>7. ASSUME NEW d, NoReply(d), NEW i \in 1 .. Len(answers'), NEW j \in 1 .. Len(answers'),
             IsReply(answers'[i], d), IsReply(answers'[j], d)
      PROVE  i = j
  <2>1. i > Len(answers) /\ j > Len(answers)
    BY <1>5, <1>7 DEF NoReply
  <2>2. /\ i - Len(answers) \in 1 .. Len(more) /\ answers'[i] = more[i - Len(answers)]
        /\ j - Len(answers) \in 1 .. Len(more) /\ answers'[j] = more[j - Len(answers)]
    BY <1>1, <2>1 DEF Executes
  <2>3. i - Len(answers) = j - Len(answers)
    BY <1>1, <1>7, <2>2 DEF Executes, IsReply
  <2> QED BY <1>1, <2>3 DEF Executes
<1>8. ASSUME NEW d \in Commands, Last(d) PROVE Last(d)'
  <2>1. CASE d = cmd
    <3>1. Len(requests) = 1 /\ NoReply(d)
      BY <1>3, <1>8, <2>1 DEF Last
    <3>2. requests' = <<>>
      BY <1>1, <3>1, EmptySeq DEF Executes
    <3>3. Len(requests') = 0
      BY <1>1, <3>1 DEF Executes
    <3> QED BY <1>7, <3>1, <3>2, <3>3 DEF Last
  <2>2. CASE d # cmd
    <3>1. NoReply(d)
      BY <1>1, <1>8 DEF Last, NoReply, Executes
    <3>2. NoReply(d)'
      BY <1>6, <2>2, <3>1
    <3>3. \A i \in 1 .. Len(requests') : requests'[i] = d => i = Len(requests')
      BY <1>1, <1>2, <1>8 DEF Last, Executes
    <3> QED BY <3>2, <3>3 DEF Last, NoReply
  <2> QED BY <2>1, <2>2
<1>9. ASSUME Last("read"), Truthful PROVE Truthful'
  <2>1. NoReply("read")
    BY <1>1, <1>9 DEF Last, NoReply, Executes
  <2>2. ASSUME NEW i \in 1 .. Len(answers'), IsReply(answers'[i], "read"), answers'[i].ok
        PROVE  answers'[i].key = psk'
    <3>1. i > Len(answers)
      BY <1>5, <2>1, <2>2 DEF NoReply
    <3>2. i - Len(answers) \in 1 .. Len(more) /\ answers'[i] = more[i - Len(answers)]
      BY <1>1, <3>1 DEF Executes
    <3> QED BY <1>1, <2>2, <3>2 DEF Executes
  <2> QED BY <2>2 DEF Truthful
<1>10. ASSUME ReadsFirst PROVE ReadsFirst'
  <2>1. \A i, j \in 1 .. Len(requests') :
          requests'[i] = "write" /\ requests'[j] = "read" => j < i
    <3>1. ASSUME NEW i \in 1 .. Len(requests'), NEW j \in 1 .. Len(requests'),
                 requests'[i] = "write", requests'[j] = "read"
          PROVE  j < i
      <4>1. requests[i + 1] = "write" /\ requests[j + 1] = "read"
        BY <1>1, <3>1 DEF Executes
      <4>2. j + 1 < i + 1
        BY <1>2, <1>10, <4>1 DEF ReadsFirst
      <4> QED BY <1>1, <4>2 DEF Executes
    <3> QED BY <3>1
  <2>2. cmd = "read" => NoReply("write")
    BY <1>3, <1>10 DEF ReadsFirst, NoRequest
  <2>3. cmd = "write" => NoRequest("read")'
    <3>1. ASSUME cmd = "write", NEW j \in 1 .. Len(requests), requests[j] = "read"
          PROVE  FALSE
      BY <1>3, <1>10, <3>1 DEF ReadsFirst
    <3> QED BY <1>1, <1>2, <3>1 DEF NoRequest, Executes
  <2>4. ASSUME NEW i \in 1 .. Len(answers'), NEW j \in 1 .. Len(answers'),
               IsReply(answers'[i], "write"), IsReply(answers'[j], "read")
        PROVE  j < i
    <3>1. CASE i \in 1 .. Len(answers) /\ j \in 1 .. Len(answers)
      BY <1>1, <1>10, <2>4, <3>1 DEF ReadsFirst, Executes
    <3>2. CASE i > Len(answers)
      <4>1. cmd = "write"
        BY <1>5, <2>4, <3>2 DEF IsReply
      <4>2. j \in 1 .. Len(answers)
        BY <1>5, <2>4, <4>1 DEF IsReply
      <4> QED BY <1>1, <3>2, <4>2 DEF Executes
    <3>3. CASE i \in 1 .. Len(answers) /\ j > Len(answers)
      <4>1. cmd = "read"
        BY <1>5, <2>4, <3>3 DEF IsReply
      <4> QED BY <1>1, <2>2, <2>4, <3>3, <4>1 DEF NoReply, Executes
    <3> QED BY <1>5, <3>1, <3>2, <3>3
  <2>5. NoReply("write")' \/ NoRequest("read")'
    BY <1>4, <1>6, <1>10, <2>2, <2>3 DEF ReadsFirst
  <2> QED BY <2>1, <2>4, <2>5 DEF ReadsFirst
<1>11. NoRequest("write") => psk' = psk /\ NoRequest("write")'
  BY <1>1, <1>4 DEF Executes
<1>12. \A d \in Commands : Nothing(d) => Nothing(d)'
  BY <1>4, <1>6 DEF Nothing
<1> QED
  BY <1>8, <1>9, <1>10, <1>11, <1>12

(* An exception leads to another write or to the end.                       *)
LEMMA RaiseLeads ==
  Raise => \/ task' = "write" /\ sending' = TRUE /\ task \in {"write", "verify"}
           \/ task' = "done" /\ code' = "failure" /\ sending' = FALSE
BY DEF Raise, Exit, Exchange

(* A write is begun again: what was on its way is older, or nothing counts  *)
(* any more.                                                                *)
LEMMA WriteAgain ==
  ASSUME task' = "write", sending',
         aborted' <= 1 => ReadsFirst',
         aborted' = 0 => Nothing("read")' /\ Nothing("write")'
  PROVE  Tracked'
BY DEF Tracked

LEMMA NothingFirst ==
  (Nothing("read") => ReadsFirst) /\ (Nothing("write") => ReadsFirst)
BY DEF Nothing, NoRequest, NoReply, ReadsFirst

LEMMA TrackedSend ==
  ASSUME PskTypeOK, Tracked, SuccessStands, Send
  PROVE  Tracked' /\ SuccessStands'
<1>1. sending /\ UNCHANGED <<aborted, answers, psk, original>>
  BY DEF Send
<1>2. CASE Raise /\ UNCHANGED requests
  <2>1. \A c : Nothing(c)' <=> Nothing(c)
    BY <1>1, <1>2 DEF Nothing, NoRequest, NoReply
  <2>2. ReadsFirst' <=> ReadsFirst
    BY <1>1, <1>2 DEF NoRequest, NoReply, ReadsFirst
  <2>3. CASE task' = "done" /\ code' = "failure" /\ sending' = FALSE
    BY <2>3 DEF Tracked, SuccessStands
  <2>4. CASE task' = "write" /\ sending' = TRUE /\ task \in {"write", "verify"}
    <3>1. aborted' <= 1 => ReadsFirst'
      BY <1>1, <2>2, <2>4, NothingFirst DEF Tracked, ReadOK
    <3>2. aborted' = 0 => Nothing("read")' /\ Nothing("write")'
      BY <1>1, <2>1, <2>4 DEF Tracked, ReadOK
    <3>3. code = "none" /\ code' # "success"
      BY <1>2, <2>4 DEF Raise, Exit, Exchange, PskTypeOK
    <3> QED BY <2>4, <3>1, <3>2, <3>3, WriteAgain DEF SuccessStands
  <2> QED BY <1>2, <2>3, <2>4, RaiseLeads
<1>3. CASE /\ requests' = Append(requests, Command) /\ sending' = FALSE
           /\ UNCHANGED <<task, attempt, acknowledged, seen, code>>
  <2>1. Command \in Commands /\ {"read", "write"} \subseteq Commands
    BY DEF Command, Commands
  <2>2. ASSUME NEW c \in Commands, c = Command
        PROVE  /\ \A d \in Commands : Nothing(d) /\ d # c => Nothing(d)'
               /\ Nothing(c) => Last(c)'
               /\ Nothing("read") => Truthful'
               /\ c = "write" /\ ReadsFirst => ReadsFirst'
    <3>1. requests' = Append(requests, c) /\ UNCHANGED <<answers, psk>>
      BY <1>1, <1>3, <2>2
    <3> QED BY <3>1, SendKeeps
  <2>3. CASE task = "write"
    <3>1. /\ Nothing("read") => Nothing("read")'
          /\ Nothing("write") => Last("write")'
          /\ ReadsFirst => ReadsFirst'
      <4>1. "write" = Command
        BY <2>3 DEF Command
      <4> QED BY <2>1, <2>2, <4>1
    <3>2. Tracked'
      BY <1>1, <1>3, <2>3, <3>1 DEF Tracked
    <3> QED BY <1>3, <2>3, <3>2 DEF SuccessStands, PskTypeOK
  <2>4. CASE task \in {"check", "verify"}
    <3>1. /\ Nothing("write") => Nothing("write")'
          /\ Nothing("read") => Last("read")' /\ Truthful'
      <4>1. "read" = Command
        BY <2>4 DEF Command
      <4> QED BY <2>1, <2>2, <4>1
    <3>2. Tracked'
      BY <1>1, <1>3, <2>4, <3>1 DEF Tracked, ReadOK
    <3> QED BY <1>3, <2>4, <3>2 DEF SuccessStands, PskTypeOK
  <2>5. task \in {"check", "write", "verify"}
    BY <1>1 DEF Tracked
  <2> QED BY <2>3, <2>4, <2>5
<1> QED
  BY <1>2, <1>3 DEF Send

(* An exchange is given up.                                                 *)
LEMMA TrackedGivesUp ==
  ASSUME PskTypeOK, Tracked, Waiting, Raise, aborted' = aborted + 1,
         ReadsFirst => ReadsFirst', Nothing("write") => Nothing("write")'
  PROVE  Tracked' /\ SuccessStands'
<1>1. CASE task' = "done" /\ code' = "failure" /\ sending' = FALSE
  BY <1>1 DEF Tracked, SuccessStands
<1>2. CASE task' = "write" /\ sending' = TRUE /\ task \in {"write", "verify"}
  <2>1. aborted \in Nat /\ code = "none"
    BY <1>2 DEF PskTypeOK
  <2>2. (Nothing("write") => ReadsFirst)'
    BY NothingFirst DEF Nothing, NoRequest, NoReply, ReadsFirst
  <2>3. aborted' <= 1 => ReadsFirst'
    BY <1>2, <2>1, <2>2 DEF Tracked
  <2>4. code' # "success"
    BY <1>2, <2>1 DEF Raise, Exit, Exchange
  <2> QED BY <1>2, <2>1, <2>3, <2>4, WriteAgain DEF SuccessStands
<1> QED
  BY <1>1, <1>2, RaiseLeads

(* The reply of an exchange is taken.                                       *)
LEMMA TrackedTake ==
  ASSUME PskTypeOK, Tracked, Waiting, answers # <<>>, answers' = Tail(answers),
         UNCHANGED <<requests, psk>>, Take(Head(answers))
  PROVE  Tracked' /\ SuccessStands'
<1> DEFINE a == Head(answers)
<1>1. /\ \A d \in Commands : Nothing(d) => Nothing(d)'
      /\ \A d \in Commands : Last(d) /\ IsReply(a, d) => Nothing(d)' /\ requests = <<>>
      /\ Truthful /\ IsReply(a, "read") /\ a.ok => a.key = psk
      /\ ReadsFirst => ReadsFirst'
      /\ ReadsFirst /\ IsReply(a, "write") => Nothing("read")'
  BY ResponseKeeps
<1>2. Accepted(a) /\ aborted' = aborted /\ IF a.ok THEN Use(a) ELSE Raise
  BY DEF Take
<1> HIDE DEF a
<1>3. /\ task \in {"check", "write", "verify"} /\ ~sending
      /\ code = "none" /\ {"read", "write"} \subseteq Commands
  BY DEF Waiting, PskTypeOK, Commands
<1>4. IsReply(a, IF task = "write" THEN "write" ELSE "read")
  BY <1>2, <1>3 DEF Accepted, IsReply, Command
<1>6. (Nothing("read") => ReadsFirst)'
  BY NothingFirst DEF Nothing, NoRequest, NoReply, ReadsFirst
(* Whatever is done next, what the exchange left behind is this.            *)
<1>7. ASSUME aborted <= 1, task \in {"check", "verify"}
      PROVE  /\ Nothing("read")' /\ requests = <<>> /\ (a.ok => a.key = psk)
             /\ aborted = 0 => Nothing("write")'
  BY <1>1, <1>3, <1>4, <1>7 DEF Tracked, ReadOK
<1>8. ASSUME aborted <= 1, task = "write"
      PROVE  /\ Nothing("read")' /\ ReadsFirst'
             /\ aborted = 0 => Nothing("write")'
  BY <1>1, <1>3, <1>4, <1>8 DEF Tracked
<1>9. ASSUME task' = "write", sending', code' = "none" PROVE Tracked' /\ SuccessStands'
  BY <1>2, <1>3, <1>6, <1>7, <1>8, <1>9, WriteAgain DEF SuccessStands, PskTypeOK
<1>10. CASE Raise
  <2>1. CASE task' = "done" /\ code' = "failure" /\ sending' = FALSE
    BY <2>1 DEF Tracked, SuccessStands
  <2>2. CASE task' = "write" /\ sending' = TRUE
    <3>1. code' = "none"
      BY <1>3, <1>10, <2>2 DEF Raise, Exit, Exchange
    <3> QED BY <1>9, <2>2, <3>1
  <2> QED BY <1>10, <2>1, <2>2, RaiseLeads
<1>11. CASE a.ok /\ task \in {"check", "verify"} /\ a.key = "community" /\ Exit("success")
  <2>1. task' = "done" /\ sending' = FALSE
    BY <1>11 DEF Exit
  <2>2. aborted <= 1 => requests' = <<>> /\ psk' = "community"
    BY <1>7, <1>11
  <2>3. requests' = <<>> => Len(requests') = 0
    OBVIOUS
  <2> QED BY <1>2, <2>1, <2>2, <2>3 DEF Tracked, SuccessStands
<1>12. CASE Exchange("write")
  BY <1>3, <1>9, <1>12 DEF Exchange
<1>13. CASE task = "write" /\ Exchange("verify")
  <2>1. task' = "verify" /\ sending' = TRUE /\ code' # "success"
    BY <1>3, <1>13 DEF Exchange
  <2> QED BY <1>2, <1>8, <1>13, <2>1 DEF Tracked, ReadOK, SuccessStands
<1> QED
  BY <1>2, <1>10, <1>11, <1>12, <1>13 DEF Use

LEMMA TrackedNext ==
  PskTypeOK /\ Tracked /\ SuccessStands /\ [PskNext]_pskVars
    => Tracked' /\ SuccessStands'
<1> SUFFICES ASSUME PskTypeOK, Tracked, SuccessStands, [PskNext]_pskVars
             PROVE  Tracked' /\ SuccessStands'
  OBVIOUS
<1>1. CASE Start
  <2>1. task = "start" /\ UNCHANGED <<aborted, answers, psk, original>>
    BY <1>1 DEF Start
  <2>2. CASE requests' = <<"nop">> /\ Exchange("check")
    <3>1. NoRequest("read")' /\ NoRequest("write")'
      BY <2>2 DEF NoRequest
    <3>2. \A d : NoReply(d)' <=> NoReply(d)
      BY <2>1 DEF NoReply
    <3>3. task' = "check" /\ sending' = TRUE /\ code' = "none"
      BY <2>1, <2>2 DEF Exchange, PskTypeOK
    <3> QED BY <2>1, <3>1, <3>2, <3>3 DEF Tracked, ReadOK, Nothing, SuccessStands
  <2>3. CASE Exit("failure")
    BY <2>3 DEF Exit, Tracked, SuccessStands
  <2> QED BY <1>1, <2>2, <2>3 DEF Start
<1>2. CASE Send
  BY <1>2, TrackedSend
<1>3. CASE Abort
  <2>1. Waiting /\ Raise /\ aborted' = aborted + 1 /\ UNCHANGED <<requests, answers>>
    BY <1>3 DEF Abort
  <2>2. (ReadsFirst => ReadsFirst') /\ (Nothing("write") => Nothing("write")')
    BY <2>1 DEF ReadsFirst, Nothing, NoRequest, NoReply
  <2> QED BY <2>1, <2>2, TrackedGivesUp
<1>4. CASE Response
  <2> DEFINE a == Head(answers)
  <2>1. /\ answers # <<>> /\ answers' = Tail(answers) /\ Waiting
        /\ UNCHANGED <<requests, psk>>
        /\ GoOn(a) \/ Reject(a) \/ Take(a)
    BY <1>4 DEF Response
  <2>2. {"read", "write"} \subseteq Commands
    BY DEF Commands
  <2>3. /\ \A d \in Commands : Nothing(d) => Nothing(d)'
        /\ \A d \in Commands : Last(d) => Last(d)'
        /\ Truthful => Truthful'
        /\ ReadsFirst => ReadsFirst'
    BY <2>1, ResponseKeeps
  <2>4. CASE Raise /\ aborted' = aborted + 1
    BY <2>1, <2>2, <2>3, <2>4, TrackedGivesUp
  <2>5. CASE UNCHANGED <<task, sending, code, aborted>>
    <3>1. task \in {"check", "write", "verify"} /\ ~sending /\ code # "success"
      BY <2>1 DEF Waiting, PskTypeOK
    <3>2. /\ Nothing("read") => Nothing("read")'
          /\ Nothing("write") => Nothing("write")'
          /\ Last("read") => Last("read")'
          /\ Last("write") => Last("write")'
      BY <2>2, <2>3
    <3> QED BY <2>3, <2>5, <3>1, <3>2 DEF Tracked, ReadOK, SuccessStands
  <2>6. CASE Take(a)
    BY <2>1, <2>6, TrackedTake
  <2> HIDE DEF a
  <2> QED BY <2>1, <2>4, <2>5, <2>6 DEF GoOn, Reject
<1>5. CASE Execute
  <2>1. UNCHANGED <<task, sending, code, aborted>>
    BY <1>5 DEF Execute, helper
  <2>2. {"read", "write"} \subseteq Commands
    BY DEF Commands
  <2>3. /\ Nothing("read") => Nothing("read")'
        /\ Nothing("write") => Nothing("write")'
        /\ Last("read") => Last("read")'
        /\ Last("write") => Last("write")'
        /\ Last("read") /\ Truthful => Truthful'
        /\ ReadsFirst => ReadsFirst'
        /\ NoRequest("write") => psk' = psk /\ NoRequest("write")'
    BY <1>5, <2>2, ExecuteKeeps
  <2>4. Tracked'
    BY <2>1, <2>3 DEF Tracked, ReadOK
  <2>5. SuccessStands'
    BY <2>1, <2>3 DEF SuccessStands, NoRequest
  <2> QED BY <2>4, <2>5
<1>6. CASE Finished \/ UNCHANGED pskVars
  BY <1>6 DEF Finished, pskVars, Tracked, SuccessStands, ReadOK, ReadsFirst, Last,
    Truthful, Nothing, NoRequest, NoReply
<1> QED
  BY <1>1, <1>2, <1>3, <1>4, <1>5, <1>6 DEF PskNext

(* What the helper reports as repaired is repaired and stays so: the key is *)
(* the community key and no write is on its way, unless two exchanges were  *)
(* given up (the read-back of goodix-psk-autofix is that of its own write). *)
THEOREM SuccessIsTrue == PskSpec => []SuccessStands
<1>1. PskInit => Tracked /\ SuccessStands
  BY DEF PskInit, Tracked, SuccessStands, Nothing, NoRequest, NoReply
<1> QED
  BY <1>1, TrackedNext, PskTypeCorrect, PTL DEF PskSpec
=============================================================================
