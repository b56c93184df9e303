-------------------------- MODULE GoodixTls_proofs --------------------------
(***************************************************************************)
(* Proofs about the TLS server, for every set of images.                   *)
(*                                                                         *)
(* The heart is a count (InTurn): while the thread is in SSL_accept, the   *)
(* messages it has taken and those in its socket are the ones that the     *)
(* main loop has forwarded.  So it answers when the main loop reads, and   *)
(* it has decided before the main loop joins it.                           *)
(***************************************************************************)
EXTENDS GoodixTls, SequenceTheorems, TLAPS

(* How many messages of the sensor the main loop has forwarded.             *)
Forwarded ==
  CASE stage = "requested" -> 0
    [] stage \in {"hello_s", "kh_exchange"} -> 1
    [] stage = "change_cipher_c" -> 2
    [] stage = "handshake_c" -> 3
    [] OTHER -> 4

(* What there is of a server, and for whom.                                 *)
ServerOwned ==
  /\ thread_started <=> thread # "none"
  /\ ~tls_hop => thread = "none" /\ sock_fd = <<>> /\ client_fd = <<>>
  /\ stage \in Handshake => tls_hop /\ thread # "none" /\ ~shut /\ session = "none"
  /\ stage = "shutting" => shut /\ session = "none"
  /\ stage \in {"image", "decrypt", "idling"} => session = "ok"
  /\ stage \in {"image", "decrypt"} => sent \in Images

Decided ==
  /\ thread = "accepting" => accepted < 4
  /\ thread = "ended" => (connected <=> accepted = 4)

InTurn ==
  /\ stage \in Handshake /\ (thread = "accepting" \/ accepted = 4) =>
       Len(sock_fd) + accepted = Forwarded
  /\ stage \in Handshake /\ thread = "accepting" =>
       /\ client_fd # <<>> => stage = "hello_s" /\ accepted # 0
       /\ stage \notin {"requested", "hello_s"} => accepted # 0
       /\ stage \notin {"established", "joining"}

SessionGood ==
  session = "ok" =>
    /\ tls_hop /\ thread = "none" /\ connected /\ accepted = 4
    /\ stage # "decrypt" => sock_fd = <<>>
    /\ stage = "decrypt" => sock_fd \in {<<sent>>, <<Bad>>}

TlsInv ==
  /\ TlsTypeOK
  /\ ServerOwned
  /\ Decided
  /\ InTurn
  /\ SessionGood
  /\ ImageIsTheSensors

-----------------------------------------------------------------------------
LEMMA ClientFlightIs ==
  /\ \A n \in 1 .. 4 : ClientFlight[n] \in ClientMessages
  /\ Bad \in ClientMessages
  /\ ClientFlight[1] = "client_hello"
BY DEF ClientFlight, ClientMessages

LEMMA InitInv == ASSUME TlsInit PROVE TlsInv
<1> USE DEF TlsInit
<1>1. TlsTypeOK
  <2>1. <<>> \in Seq(ClientMessages \cup Images) /\ <<>> \in Seq(ServerMessages)
    BY EmptySeq
  <2>2. /\ tls_hop \in BOOLEAN /\ thread_started \in BOOLEAN /\ connected \in BOOLEAN
        /\ shut \in BOOLEAN /\ skipped \in BOOLEAN
    BY Zenon
  <2> HIDE DEF TlsInit
  <2>3. accepted = 0 /\ 0 \in 0 .. 4
    BY DEF TlsInit
  <2>4. /\ thread \in {"none", "accepting", "returning", "ended"}
        /\ stage \in Stages /\ session \in {"none", "ok", "failed"}
        /\ sent \in Images \cup {NoImage} /\ got \in Images \cup {NoImage}
        /\ sock_fd = <<>> /\ client_fd = <<>>
    BY DEF TlsInit, Stages
  <2> QED
    BY <2>1, <2>2, <2>3, <2>4 DEF TlsTypeOK
<1>2. ServerOwned /\ Decided /\ InTurn /\ SessionGood /\ ImageIsTheSensors
  BY DEF ServerOwned, Decided, InTurn, SessionGood, ImageIsTheSensors, Handshake
<1> QED
  BY <1>1, <1>2 DEF TlsInv

(* What comes out of a socket, and what goes into one.                      *)
LEMMA Taken ==
  ASSUME NEW S, NEW s \in Seq(S), s # <<>>
  PROVE  Head(s) \in S /\ Tail(s) \in Seq(S) /\ Len(Tail(s)) = Len(s) - 1 /\ Len(s) \in Nat
OBVIOUS

LEMMA AcceptReadsKeeps == ASSUME TlsInv, AcceptReads PROVE TlsInv'
<1> USE DEF TlsInv
<1>1. /\ thread = "accepting" /\ sock_fd # <<>> /\ sock_fd' = Tail(sock_fd)
      /\ UNCHANGED <<tls_hop, thread_started, connected, shut, stage, session, skipped, sent, got>>
  BY DEF AcceptReads, images
<1>2. /\ sock_fd' \in Seq(ClientMessages \cup Images) /\ Len(sock_fd') = Len(sock_fd) - 1
      /\ Len(sock_fd) \in Nat /\ Len(sock_fd) # 0
  BY <1>1, Taken, EmptySeq DEF TlsTypeOK
<1>3. /\ session # "ok" /\ accepted \in 0 .. 3 /\ tls_hop
  BY <1>1 DEF ServerOwned, Decided, SessionGood, TlsTypeOK
<1>4. stage \in Handshake => accepted + Len(sock_fd) = Forwarded /\ Forwarded # 0
  BY <1>1, <1>2, <1>3 DEF InTurn, Forwarded
<1>5. stage \in Handshake => stage # "requested"
  BY <1>4 DEF Forwarded
<1>6. CASE Head(sock_fd) = ClientFlight[accepted + 1] /\ accepted # 3
  <2>1. /\ accepted' = accepted + 1 /\ thread' = "accepting"
        /\ client_fd' = IF accepted = 0 THEN Append(client_fd, "server_hello") ELSE client_fd
    BY <1>3, <1>6 DEF AcceptReads
  <2>2. client_fd' \in Seq(ServerMessages)
    BY <2>1 DEF TlsTypeOK, ServerMessages
  <2>3. stage \in Handshake /\ accepted = 0 => stage = "hello_s"
    BY <1>1, <1>5 DEF InTurn
  <2>4. TlsTypeOK'
    BY <1>1, <1>2, <1>3, <1>6, <2>1, <2>2 DEF TlsTypeOK
  <2>5. ServerOwned' /\ Decided' /\ SessionGood' /\ ImageIsTheSensors'
    BY <1>1, <1>3, <1>6, <2>1 DEF ServerOwned, Decided, SessionGood, ImageIsTheSensors, Handshake
  <2>6. InTurn'
    <3>1. stage \in Handshake => Len(sock_fd') + accepted' = Forwarded
      BY <1>2, <1>3, <1>4, <2>1
    <3>2. accepted' # 0 /\ (accepted # 0 => client_fd' = client_fd)
      BY <1>3, <2>1
    <3> QED
      BY <1>1, <2>1, <2>3, <3>1, <3>2 DEF InTurn, Forwarded
  <2> QED
    BY <2>4, <2>5, <2>6
<1>7. CASE Head(sock_fd) = ClientFlight[accepted + 1] /\ accepted = 3
  <2>1. /\ accepted' = 4 /\ thread' = "returning"
        /\ client_fd' = Append(client_fd, "server_finished")
    BY <1>7 DEF AcceptReads
  <2>2. client_fd' \in Seq(ServerMessages)
    BY <2>1 DEF TlsTypeOK, ServerMessages
  <2>3. TlsTypeOK'
    BY <1>1, <1>2, <2>1, <2>2 DEF TlsTypeOK
  <2>4. ServerOwned' /\ Decided' /\ SessionGood' /\ ImageIsTheSensors'
    BY <1>1, <1>3, <2>1 DEF ServerOwned, Decided, SessionGood, ImageIsTheSensors, Handshake
  <2>5. InTurn'
    BY <1>1, <1>2, <1>4, <1>7, <2>1 DEF InTurn, Forwarded
  <2> QED
    BY <2>3, <2>4, <2>5
<1>8. CASE Head(sock_fd) # ClientFlight[accepted + 1]
  <2>1. /\ accepted' = accepted /\ thread' = "returning"
        /\ client_fd' = Append(client_fd, "alert")
    BY <1>8 DEF AcceptReads
  <2>2. client_fd' \in Seq(ServerMessages)
    BY <2>1 DEF TlsTypeOK, ServerMessages
  <2>3. TlsTypeOK'
    BY <1>1, <1>2, <2>1, <2>2 DEF TlsTypeOK
  <2>4. ServerOwned' /\ Decided' /\ SessionGood' /\ ImageIsTheSensors'
    BY <1>1, <1>3, <2>1 DEF ServerOwned, Decided, SessionGood, ImageIsTheSensors, Handshake
  <2>5. InTurn'
    BY <1>1, <1>3, <2>1 DEF InTurn
  <2> QED
    BY <2>3, <2>4, <2>5
<1> QED
  BY <1>6, <1>7, <1>8

LEMMA AcceptTimesOutKeeps == ASSUME TlsInv, AcceptTimesOut PROVE TlsInv'
<1> USE DEF TlsInv, AcceptTimesOut, images
<1>1. TlsTypeOK'
  BY DEF TlsTypeOK
<1>2. ServerOwned' /\ Decided' /\ SessionGood' /\ ImageIsTheSensors'
  BY DEF ServerOwned, Decided, SessionGood, ImageIsTheSensors, Handshake
<1>3. InTurn'
  BY DEF InTurn, Forwarded
<1> QED
  BY <1>1, <1>2, <1>3

LEMMA ThreadReturnsKeeps == ASSUME TlsInv, ThreadReturns PROVE TlsInv'
<1> USE DEF TlsInv
<1>1. /\ thread = "returning" /\ thread' = "ended" /\ session # "ok"
      /\ UNCHANGED <<tls_hop, thread_started, accepted, shut, sock_fd, client_fd,
                     stage, session, skipped, sent, got>>
  BY DEF ThreadReturns, images, SessionGood
<1>2. (connected' <=> accepted = 4) /\ connected' \in BOOLEAN
  <2>1. connected' = (accepted = 4)
    BY DEF ThreadReturns
  <2> QED
    BY <2>1, Zenon
<1>3. TlsTypeOK'
  BY <1>1, <1>2 DEF TlsTypeOK
<1>4. ServerOwned' /\ SessionGood' /\ ImageIsTheSensors'
  BY <1>1 DEF ServerOwned, SessionGood, ImageIsTheSensors, Handshake
<1>5. Decided'
  BY <1>1, <1>2 DEF Decided
<1>6. InTurn'
  BY <1>1 DEF InTurn, Forwarded
<1> QED
  BY <1>3, <1>4, <1>5, <1>6

-----------------------------------------------------------------------------
(* The handshake, in the main loop.                                         *)

LEMMA HandshakeFailsKeeps ==
  ASSUME TlsInv, stage = "rest" \/ stage \in Handshake \cup {"image"}, HandshakeFails,
         UNCHANGED sock_fd, client_fd' = client_fd \/ (client_fd' = <<>>)
  PROVE  TlsInv'
<1> USE DEF TlsInv, HandshakeFails, server, images
<1>1. TlsTypeOK'
  <2>1. client_fd' \in Seq(ServerMessages)
    BY EmptySeq DEF TlsTypeOK
  <2> QED
    BY <2>1 DEF TlsTypeOK, Stages
<1>2. ServerOwned' /\ Decided' /\ SessionGood' /\ ImageIsTheSensors' /\ InTurn'
  BY DEF ServerOwned, Decided, SessionGood, ImageIsTheSensors, Handshake, InTurn
<1> QED
  BY <1>1, <1>2

LEMMA StartKeeps == ASSUME TlsInv, Start PROVE TlsInv'
<1> USE DEF TlsInv, Start
<1>1. sock_fd' = <<>> /\ client_fd' = <<>>
  BY DEF ServerOwned
<1>2. TlsTypeOK'
  <2>1. /\ tls_hop' \in BOOLEAN /\ thread_started' \in BOOLEAN /\ connected' \in BOOLEAN
        /\ shut' \in BOOLEAN /\ skipped' \in BOOLEAN
    BY Zenon
  <2>2. accepted' \in 0 .. 4 /\ stage' \in Stages
    BY DEF Stages, Handshake
  <2>3. /\ thread' \in {"none", "accepting", "returning", "ended"}
        /\ session' \in {"none", "ok", "failed"}
        /\ sent' \in Images \cup {NoImage} /\ got' \in Images \cup {NoImage}
        /\ UNCHANGED <<sock_fd, client_fd>>
    OBVIOUS
  <2> HIDE DEF Start
  <2> QED
    BY <2>1, <2>2, <2>3 DEF TlsTypeOK
<1>3. ServerOwned' /\ Decided' /\ SessionGood' /\ ImageIsTheSensors'
  BY DEF ServerOwned, Decided, SessionGood, ImageIsTheSensors
<1>4. InTurn'
  BY <1>1 DEF InTurn, Forwarded
<1> QED
  BY <1>2, <1>3, <1>4

LEMMA ForwardKeeps == ASSUME TlsInv, Forward PROVE TlsInv'
<1> USE DEF TlsInv
<1>1. stage \in {"requested", "kh_exchange", "change_cipher_c", "handshake_c"}
  BY DEF Forward, Forwards
<1>2. UNCHANGED client_fd
  BY DEF Forward
<1>3. CASE HandshakeFails /\ UNCHANGED sock_fd
  BY <1>1, <1>2, <1>3, HandshakeFailsKeeps DEF Handshake
<1>4. ASSUME NEW msg \in ClientMessages,
             sock_fd' = Append(sock_fd, msg), stage' = Forwards[stage],
             UNCHANGED <<server, session, images>>
      PROVE  TlsInv'
  <2>1. UNCHANGED <<tls_hop, thread_started, connected, thread, accepted, shut,
                    session, skipped, sent, got>>
    BY <1>4 DEF server, images
  <2>2. /\ stage = "requested" => stage' = "hello_s"
        /\ stage = "kh_exchange" => stage' = "change_cipher_c"
        /\ stage = "change_cipher_c" => stage' = "handshake_c"
        /\ stage = "handshake_c" => stage' = "change_cipher_s"
    BY <1>4 DEF Forwards
  <2>3. Len(sock_fd') = Len(sock_fd) + 1 /\ sock_fd' \in Seq(ClientMessages \cup Images)
    BY <1>4 DEF TlsTypeOK
  <2>4. stage \in Handshake /\ stage' \in Handshake
    BY <1>1, <2>2 DEF Handshake
  <2>5. TlsTypeOK'
    BY <1>2, <2>1, <2>3, <2>4 DEF TlsTypeOK, Stages
  <2>6. ServerOwned' /\ Decided' /\ SessionGood' /\ ImageIsTheSensors'
    BY <1>2, <2>1, <2>4 DEF ServerOwned, Decided, SessionGood, ImageIsTheSensors, Handshake
  <2>7. Forwarded' = Forwarded + 1
    BY <1>1, <2>2 DEF Forwarded
  <2>8. (thread = "accepting" \/ accepted = 4) => Len(sock_fd') + accepted = Forwarded'
    BY <2>3, <2>4, <2>7 DEF InTurn, TlsTypeOK, Forwarded
  <2>9. InTurn'
    BY <1>1, <1>2, <2>1, <2>2, <2>4, <2>8 DEF InTurn
  <2> QED
    BY <2>5, <2>6, <2>9
<1> QED
  BY <1>3, <1>4 DEF Forward

LEMMA ProxyKeeps == ASSUME TlsInv, Proxy PROVE TlsInv'
<1> USE DEF TlsInv
<1>1. stage \in {"hello_s", "change_cipher_s"} /\ client_fd' = <<>> /\ sock_fd' = sock_fd
  BY DEF Proxy
<1>2. CASE HandshakeFails
  BY <1>1, <1>2, HandshakeFailsKeeps DEF Handshake
<1>3. ASSUME client_fd # <<>>,
             stage' = IF stage = "hello_s" THEN "kh_exchange" ELSE "established",
             UNCHANGED <<server, session, images>>
      PROVE  TlsInv'
  <2>1. UNCHANGED <<tls_hop, thread_started, connected, thread, accepted, shut,
                    session, skipped, sent, got>>
    BY <1>3 DEF server, images
  <2>2. stage \in Handshake /\ stage' \in Handshake
    BY <1>1, <1>3 DEF Handshake
  <2>3. TlsTypeOK'
    BY <1>1, <2>1, <2>2, EmptySeq DEF TlsTypeOK, Stages
  <2>4. ServerOwned' /\ Decided' /\ SessionGood' /\ ImageIsTheSensors'
    BY <1>1, <2>1, <2>2 DEF ServerOwned, Decided, SessionGood, ImageIsTheSensors, Handshake
  <2>5. Forwarded' = Forwarded
    BY <1>1, <1>3 DEF Forwarded
  <2>6. thread = "accepting" => stage = "hello_s" /\ accepted # 0
    BY <1>3, <2>2 DEF InTurn
  <2>7. InTurn'
    BY <1>1, <1>3, <2>1, <2>2, <2>5, <2>6 DEF InTurn
  <2> QED
    BY <2>3, <2>4, <2>7
<1> QED
  BY <1>2, <1>3 DEF Proxy

LEMMA EstablishedKeeps == ASSUME TlsInv, Established PROVE TlsInv'
<1> USE DEF TlsInv
<1>1. stage = "established" /\ UNCHANGED <<sock_fd, client_fd>>
  BY DEF Established
<1>2. CASE HandshakeFails
  BY <1>1, <1>2, HandshakeFailsKeeps DEF Handshake
<1>3. ASSUME stage' = "joining", UNCHANGED <<server, session, images>>
      PROVE  TlsInv'
  <2>1. UNCHANGED <<tls_hop, thread_started, connected, thread, accepted, shut,
                    session, skipped, sent, got>>
    BY <1>3 DEF server, images
  <2>2. TlsTypeOK'
    BY <1>1, <1>3, <2>1 DEF TlsTypeOK, Stages, Handshake
  <2>3. ServerOwned' /\ Decided' /\ SessionGood' /\ ImageIsTheSensors'
    BY <1>1, <1>3, <2>1 DEF ServerOwned, Decided, SessionGood, ImageIsTheSensors, Handshake
  <2>4. InTurn'
    BY <1>1, <1>3, <2>1 DEF InTurn, Forwarded, Handshake
  <2> QED
    BY <2>2, <2>3, <2>4
<1> QED
  BY <1>2, <1>3 DEF Established

(* The thread that is joined has taken every message, if it says so.        *)
LEMMA JoinedKeeps == ASSUME TlsInv, Joined PROVE TlsInv'
<1> USE DEF TlsInv
<1>1. /\ stage = "joining" /\ thread = "ended" /\ thread' = "none" /\ ~thread_started'
      /\ thread_started' \in BOOLEAN /\ stage' = "rest"
      /\ UNCHANGED <<tls_hop, connected, accepted, shut, sock_fd, client_fd, skipped, sent, got>>
  BY DEF Joined, images
<1>2. session' = IF connected THEN "ok" ELSE "failed"
  BY DEF Joined
<1>3. tls_hop
  BY <1>1 DEF ServerOwned, Handshake
<1>4. connected => accepted = 4 /\ sock_fd = <<>>
  <2>1. ASSUME connected PROVE accepted = 4
    BY <1>1, <2>1 DEF Decided
  <2>2. ASSUME accepted = 4 PROVE Len(sock_fd) + 4 = 4 /\ Len(sock_fd) \in Nat
    BY <1>1, <2>2 DEF InTurn, Forwarded, Handshake, TlsTypeOK
  <2>3. ASSUME accepted = 4 PROVE sock_fd = <<>>
    BY <2>2, <2>3, EmptySeq DEF TlsTypeOK
  <2> QED
    BY <2>1, <2>3
<1>5. TlsTypeOK'
  BY <1>1, <1>2 DEF TlsTypeOK, Stages
<1>6. ServerOwned' /\ Decided' /\ ImageIsTheSensors' /\ InTurn'
  BY <1>1, <1>3 DEF ServerOwned, Decided, ImageIsTheSensors, InTurn, Handshake
<1>7. SessionGood'
  BY <1>1, <1>2, <1>3, <1>4 DEF SessionGood
<1> QED
  BY <1>5, <1>6, <1>7

-----------------------------------------------------------------------------
(* The end of the server, and the images.                                   *)

LEMMA ShutdownKeeps == ASSUME TlsInv, Shutdown PROVE TlsInv'
<1> USE DEF TlsInv, Shutdown, images
<1>1. TlsTypeOK'
  BY DEF TlsTypeOK, Stages
<1>2. ServerOwned' /\ Decided' /\ ImageIsTheSensors' /\ SessionGood' /\ InTurn'
  BY DEF ServerOwned, Decided, ImageIsTheSensors, SessionGood, InTurn, Handshake
<1> QED
  BY <1>1, <1>2

LEMMA ShutdownEndsKeeps == ASSUME TlsInv, ShutdownEnds PROVE TlsInv'
<1> USE DEF TlsInv, ShutdownEnds, images
<1>1. TlsTypeOK'
  <2>1. <<>> \in Seq(ClientMessages \cup Images) /\ <<>> \in Seq(ServerMessages)
    BY EmptySeq
  <2> QED
    BY <2>1 DEF TlsTypeOK, Stages
<1>2. ServerOwned' /\ Decided' /\ ImageIsTheSensors' /\ SessionGood' /\ InTurn'
  BY DEF ServerOwned, Decided, ImageIsTheSensors, SessionGood, InTurn, Handshake
<1> QED
  BY <1>1, <1>2

LEMMA ReadImageKeeps == ASSUME TlsInv, ReadImage PROVE TlsInv'
<1> USE DEF TlsInv, ReadImage, server
<1>1. TlsTypeOK'
  BY DEF TlsTypeOK, Stages
<1>2. ServerOwned' /\ Decided' /\ ImageIsTheSensors' /\ SessionGood' /\ InTurn'
  BY DEF ServerOwned, Decided, ImageIsTheSensors, SessionGood, InTurn, Handshake
<1> QED
  BY <1>1, <1>2

LEMMA ImageComesKeeps == ASSUME TlsInv, ImageComes PROVE TlsInv'
<1> USE DEF TlsInv, ImageComes, server, images
<1>1. PICK msg \in {sent, Bad} : sock_fd' = Append(sock_fd, msg)
  OBVIOUS
<1>2. msg \in ClientMessages \cup Images
  BY <1>1, ClientFlightIs DEF ServerOwned
<1>3. TlsTypeOK'
  BY <1>1, <1>2 DEF TlsTypeOK, Stages
<1>4. session = "ok" /\ sock_fd = <<>>
  BY DEF ServerOwned, SessionGood
<1>5. sock_fd' \in {<<sent>>, <<Bad>>}
  BY <1>1, <1>4
<1>6. ServerOwned' /\ Decided' /\ ImageIsTheSensors' /\ InTurn'
  BY <1>4 DEF ServerOwned, Decided, ImageIsTheSensors, SessionGood, InTurn, Handshake
<1>7. SessionGood'
  BY <1>4, <1>5 DEF SessionGood
<1> QED
  BY <1>3, <1>6, <1>7

LEMMA DecryptKeeps == ASSUME TlsInv, Decrypt PROVE TlsInv'
<1> USE DEF TlsInv
<1>1. /\ stage = "decrypt" /\ stage' = "rest" /\ session = "ok" /\ sent \in Images
      /\ UNCHANGED <<tls_hop, thread_started, connected, thread, accepted, shut, client_fd,
                     skipped, sent>>
  BY DEF Decrypt, server, ServerOwned
<1>2. sock_fd \in {<<sent>>, <<Bad>>} /\ tls_hop
  BY <1>1 DEF SessionGood
<1>3. sock_fd # <<>> /\ Tail(sock_fd) = <<>> /\ Head(sock_fd) \in {sent, Bad}
  <2>1. ASSUME NEW x PROVE <<x>> # <<>> /\ Tail(<<x>>) = <<>> /\ Head(<<x>>) = x
    OBVIOUS
  <2>2. PICK x \in {sent, Bad} : sock_fd = <<x>>
    BY <1>2
  <2> QED
    BY <2>1, <2>2
<1>4. sock_fd' = <<>>
  BY <1>3 DEF Decrypt
<1>5. \/ session' = session /\ got' = sent
      \/ session' = "failed" /\ got' = got
  BY <1>3 DEF Decrypt
<1>6. TlsTypeOK'
  <2>1. sock_fd' \in Seq(ClientMessages \cup Images)
    BY <1>4, EmptySeq
  <2> QED
    BY <1>1, <1>5, <2>1 DEF TlsTypeOK, Stages
<1>7. ServerOwned' /\ Decided' /\ ImageIsTheSensors' /\ InTurn'
  BY <1>1, <1>2, <1>5 DEF ServerOwned, Decided, ImageIsTheSensors, InTurn, Handshake
<1>8. SessionGood'
  BY <1>1, <1>4, <1>5 DEF SessionGood
<1> QED
  BY <1>6, <1>7, <1>8

LEMMA IdleKeeps ==
  ASSUME TlsInv, CancelImage \/ LateImage \/ IdleEnds PROVE TlsInv'
<1> USE DEF TlsInv, CancelImage, LateImage, IdleEnds
<1>1. /\ stage \in {"image", "idling"} /\ stage' \in {"idling", "rest"}
      /\ session = "ok" /\ session' \in {"ok", "failed"}
      /\ stage' = "idling" => session' = "ok"
      /\ UNCHANGED <<tls_hop, thread_started, connected, thread, accepted, shut,
                     sock_fd, client_fd, sent, got>>
  BY DEF server, images, ServerOwned
<1>2. skipped' \in BOOLEAN
  BY DEF images, TlsTypeOK
<1>3. TlsTypeOK'
  BY <1>1, <1>2 DEF TlsTypeOK, Stages
<1>4. ServerOwned' /\ Decided' /\ ImageIsTheSensors' /\ SessionGood' /\ InTurn'
  BY <1>1 DEF ServerOwned, Decided, ImageIsTheSensors, SessionGood, InTurn, Handshake
<1> QED
  BY <1>3, <1>4

LEMMA StutterKeeps == ASSUME TlsInv, UNCHANGED tlsVars PROVE TlsInv'
BY DEF TlsInv, tlsVars, server, images, TlsTypeOK, ServerOwned, Decided, InTurn, Forwarded,
       SessionGood, ImageIsTheSensors

-----------------------------------------------------------------------------
(* The invariant of the TLS server: every step of the thread, of the main   *)
(* loop and of the sensor keeps it.                                         *)
LEMMA TlsInvariant == TlsSpec => []TlsInv
<1>1. TlsInit => TlsInv
  BY InitInv
<1>2. TlsInv /\ [TlsNext]_tlsVars => TlsInv'
  <2> SUFFICES ASSUME TlsInv, [TlsNext]_tlsVars PROVE TlsInv'
    OBVIOUS
  <2>1. CASE Thread
    BY <2>1, AcceptReadsKeeps, AcceptTimesOutKeeps, ThreadReturnsKeeps DEF Thread
  <2>2. CASE Forward \/ Proxy \/ Established \/ Joined
    BY <2>2, ForwardKeeps, ProxyKeeps, EstablishedKeeps, JoinedKeeps
  <2>3. CASE StartFails \/ ImageFails
    BY <2>3, HandshakeFailsKeeps DEF StartFails, ImageFails
  <2>4. CASE ShutdownEnds \/ Start \/ Shutdown
    BY <2>4, ShutdownEndsKeeps, StartKeeps, ShutdownKeeps
  <2>5. CASE ReadImage \/ ImageComes \/ Decrypt
    BY <2>5, ReadImageKeeps, ImageComesKeeps, DecryptKeeps
  <2>6. CASE CancelImage \/ LateImage \/ IdleEnds
    BY <2>6, IdleKeeps
  <2>7. CASE UNCHANGED tlsVars
    BY <2>7, StutterKeeps
  <2> QED
    BY <2>1, <2>2, <2>3, <2>4, <2>5, <2>6, <2>7 DEF TlsNext, MainLoop
<1> QED
  BY <1>1, <1>2, PTL DEF TlsSpec

(* What the server, its sockets and the session hold is of their types:     *)
(* SSL_read is never asked for an image when there is none to take.         *)
THEOREM TlsTypeCorrect == TlsSpec => []TlsTypeOK
<1>1. TlsInv => TlsTypeOK
  BY DEF TlsInv
<1> QED
  BY <1>1, TlsInvariant, PTL

(* No path of a failed handshake leaves a thread that a later shutdown does *)
(* not join, and no image is decrypted while the thread uses the SSL.       *)
THEOREM ThreadAlwaysJoined == TlsSpec => []ThreadIsJoined
<1>1. TlsInv => ThreadIsJoined
  BY DEF TlsInv, TlsTypeOK, ServerOwned, SessionGood, ThreadIsJoined
<1> QED
  BY <1>1, TlsInvariant, PTL

(* The main loop never blocks in pthread_join on a thread that waits for a  *)
(* message only the main loop could forward.                                *)
THEOREM JoinsNeverWait == TlsSpec => []JoinsAreShort
<1>1. TlsInv => JoinsAreShort
  BY DEF TlsInv, ServerOwned, InTurn, Handshake, JoinsAreShort
<1> QED
  BY <1>1, TlsInvariant, PTL

(* What goodix_tls tells the driver is what SSL_accept found, on a socket   *)
(* in which nothing of the handshake is left.                               *)
THEOREM VerdictIsTrue == TlsSpec => []VerdictIsTheServers
<1>1. TlsInv => VerdictIsTheServers
  BY DEF TlsInv, SessionGood, VerdictIsTheServers
<1> QED
  BY <1>1, TlsInvariant, PTL

(* Whatever was cancelled, lost or damaged before, the image that a scan is *)
(* given is the one the sensor sent for that scan.                          *)
THEOREM ImageIsFresh == TlsSpec => []ImageIsTheSensors
<1>1. TlsInv => ImageIsTheSensors
  BY DEF TlsInv
<1> QED
  BY <1>1, TlsInvariant, PTL
=============================================================================
