----------------------------- MODULE GoodixTls -----------------------------
(***************************************************************************)
(* The TLS server of the Goodix driver (goodixtls.c) and its use by the    *)
(* main loop (goodix.c, TLS section): a thread runs SSL_accept on one end  *)
(* of a socket pair, while the main loop carries the messages of the       *)
(* handshake between the sensor and the other end, some of it in calls     *)
(* that block.  Then the main loop decrypts images with the same SSL.      *)
(*                                                                         *)
(* The commands are those of CommandSlot: each ends once, and the sensor   *)
(* answers them in order.  OpenSSL, the sockets and the sensor are         *)
(* external.  A flight of the server is one write and fits one read.       *)
(***************************************************************************)
EXTENDS Naturals, Sequences

CONSTANTS
  Images,   \* what the sensor may send for an image
  NoImage

ASSUME ImageAssumption == NoImage \notin Images

VARIABLES
  tls_hop,         \* whether the server is allocated
  thread_started, connected,
  thread,          \* the server thread
  accepted,        \* messages of the client that SSL_accept has taken
  shut,            \* both sockets were shut down
  sock_fd,         \* what the server may read
  client_fd,       \* what the main loop may read
  stage,           \* where the main loop is
  session,         \* what the driver knows of the session
  skipped,         \* a record of this session did not reach the server
  sent, got        \* history: the image asked for last, and the one returned

server == <<tls_hop, thread_started, connected, thread, accepted, shut>>
images == <<skipped, sent, got>>
tlsVars == <<server, sock_fd, client_fd, stage, session, images>>

(* What the sensor sends as the client, if all is well.                     *)
ClientFlight == <<"client_hello", "key_exchange", "change_cipher", "finished">>
Bad == "bad"  \* a record that the server does not accept
ClientMessages == {ClientFlight[n] : n \in 1 .. 4} \cup {Bad}
ServerMessages == {"server_hello", "server_finished", "alert"}

(* The stages that wait for the sensor or for the server, in their order.   *)
Handshake ==
  {"requested", "hello_s", "kh_exchange", "change_cipher_c", "handshake_c",
   "change_cipher_s", "established", "joining"}
Stages == {"rest", "shutting", "image", "decrypt", "idling"} \cup Handshake

TlsInit ==
  /\ tls_hop = FALSE /\ thread_started = FALSE /\ connected = FALSE
  /\ thread = "none" /\ accepted = 0 /\ shut = FALSE
  /\ sock_fd = <<>> /\ client_fd = <<>>
  /\ stage = "rest" /\ session = "none"
  /\ skipped = FALSE /\ sent = NoImage /\ got = NoImage

-----------------------------------------------------------------------------
(* The server thread, goodix_tls_init_serve.                                *)

(* SSL_accept takes the next message; it answers a flight, or with an alert *)
(* a message that it did not expect.                                        *)
AcceptReads ==
  /\ thread = "accepting" /\ sock_fd # <<>>
  /\ sock_fd' = Tail(sock_fd)
  /\ IF Head(sock_fd) = ClientFlight[accepted + 1]
       THEN /\ accepted' = accepted + 1
            /\ client_fd' = CASE accepted = 0 -> Append(client_fd, "server_hello")
                              [] accepted = 3 -> Append(client_fd, "server_finished")
                              [] OTHER -> client_fd
            /\ thread' = IF accepted = 3 THEN "returning" ELSE "accepting"
       ELSE /\ client_fd' = Append(client_fd, "alert")
            /\ thread' = "returning"
            /\ UNCHANGED accepted
  /\ UNCHANGED <<tls_hop, thread_started, connected, shut, stage, session, images>>

(* There is nothing to read within SO_RCVTIMEO, or never again.             *)
AcceptTimesOut ==
  /\ thread = "accepting" /\ sock_fd = <<>>
  /\ thread' = "returning"
  /\ UNCHANGED <<tls_hop, thread_started, connected, accepted, shut,
                 sock_fd, client_fd, stage, session, images>>

ThreadReturns ==
  /\ thread = "returning"
  /\ thread' = "ended" /\ connected' = (accepted = 4)
  /\ UNCHANGED <<tls_hop, thread_started, accepted, shut,
                 sock_fd, client_fd, stage, session, images>>

-----------------------------------------------------------------------------
(* The main loop.                                                           *)

(* on_tls_successfully_established with an error: the thread is not joined. *)
HandshakeFails ==
  /\ stage' = "rest" /\ session' = "failed"
  /\ UNCHANGED <<server, images>>

(* goodix_tls, goodix_tls_server_init.                                      *)
Start ==
  /\ stage = "rest" /\ ~tls_hop
  /\ tls_hop' = TRUE /\ thread_started' = TRUE /\ connected' = FALSE
  /\ thread' = "accepting" /\ accepted' = 0 /\ shut' = FALSE
  /\ stage' = "requested" /\ session' = "none"
  /\ skipped' = FALSE /\ sent' = NoImage /\ got' = NoImage
  /\ UNCHANGED <<sock_fd, client_fd>>

(* goodix_tls_server_init fails: what there is of the server is freed.      *)
StartFails ==
  /\ stage = "rest" /\ ~tls_hop
  /\ HandshakeFails
  /\ UNCHANGED <<sock_fd, client_fd>>

(* The stages that forward a message of the sensor.                         *)
Forwards == [requested |-> "hello_s", kh_exchange |-> "change_cipher_c",
             change_cipher_c |-> "handshake_c", handshake_c |-> "change_cipher_s"]

(* on_goodix_request_tls_connection, on_goodix_tls_read_handshake: any      *)
(* message may come, late, out of order or damaged.                         *)
Forward ==
  /\ stage \in DOMAIN Forwards
  /\ \/ /\ \E msg \in ClientMessages : sock_fd' = Append(sock_fd, msg)
        /\ stage' = Forwards[stage]
        /\ UNCHANGED <<server, session, images>>
     \/ HandshakeFails /\ UNCHANGED sock_fd
  /\ UNCHANGED client_fd

(* Mutation: the result of read is not looked at.                           *)
ProxyUnchecked ==
  /\ stage \in {"hello_s", "change_cipher_s"}
  /\ client_fd' = <<>>
  /\ \/ /\ stage' = IF stage = "hello_s" THEN "kh_exchange" ELSE "established"
        /\ UNCHANGED <<server, session, images>>
     \/ HandshakeFails
  /\ UNCHANGED sock_fd

(* Mutation: a read that timed out is tried again.                          *)
ProxyRetries ==
  /\ stage \in {"hello_s", "change_cipher_s"}
  /\ client_fd' = <<>>
  /\ IF client_fd # <<>>
       THEN /\ stage' = IF stage = "hello_s" THEN "kh_exchange" ELSE "established"
            /\ UNCHANGED session
       ELSE UNCHANGED <<stage, session>>
  /\ UNCHANGED <<sock_fd, server, images>>

(* tls_handshake_run, HELLO_S and CHANGE_CIPHER_S: the main loop blocks     *)
(* until the server has written or for SO_RCVTIMEO, and sends what it read  *)
(* to the sensor, which may fail.                                           *)
Proxy ==
  /\ stage \in {"hello_s", "change_cipher_s"}
  /\ client_fd' = <<>>
  /\ \/ /\ client_fd # <<>>
        /\ stage' = IF stage = "hello_s" THEN "kh_exchange" ELSE "established"
        /\ UNCHANGED <<server, session, images>>
     \/ HandshakeFails
  /\ UNCHANGED sock_fd

(* on_tls_successfully_established, up to the join.                         *)
Established ==
  /\ stage = "established"
  /\ \/ stage' = "joining" /\ UNCHANGED <<server, session, images>>
     \/ HandshakeFails
  /\ UNCHANGED <<sock_fd, client_fd>>

(* Mutation: the result of the thread is not looked at.                     *)
JoinedUnchecked ==
  /\ stage = "joining" /\ thread = "ended"
  /\ thread' = "none" /\ thread_started' = FALSE
  /\ stage' = "rest" /\ session' = "ok"
  /\ UNCHANGED <<tls_hop, connected, accepted, shut, sock_fd, client_fd, images>>

Joined ==
  /\ stage = "joining" /\ thread = "ended"
  /\ thread' = "none" /\ thread_started' = FALSE
  /\ stage' = "rest" /\ session' = IF connected THEN "ok" ELSE "failed"
  /\ UNCHANGED <<tls_hop, connected, accepted, shut, sock_fd, client_fd, images>>

(* goodix_shutdown_tls, goodix_tls_server_deinit: before a cold activation, *)
(* and when the device is closed.                                           *)
Shutdown ==
  /\ stage = "rest" /\ tls_hop
  /\ shut' = TRUE /\ session' = "none"
  /\ stage' = "shutting"
  /\ UNCHANGED <<tls_hop, thread_started, connected, thread, accepted,
                 sock_fd, client_fd, images>>

(* Mutation: the thread is left alone.                                      *)
ShutdownEndsUnjoined ==
  /\ stage = "shutting"
  /\ tls_hop' = FALSE /\ sock_fd' = <<>> /\ client_fd' = <<>>
  /\ stage' = "rest"
  /\ UNCHANGED <<thread_started, thread, connected, accepted, shut, session, images>>

(* The thread is joined, the SSL freed and the sockets closed.              *)
ShutdownEnds ==
  /\ stage = "shutting"
  /\ thread_started => thread = "ended"
  /\ thread' = "none" /\ thread_started' = FALSE
  /\ tls_hop' = FALSE /\ sock_fd' = <<>> /\ client_fd' = <<>>
  /\ stage' = "rest"
  /\ UNCHANGED <<connected, accepted, shut, session, images>>

-----------------------------------------------------------------------------
(* Images.                                                                  *)

(* goodix_tls_read_image, in a session that the driver believes in.         *)
ReadImage ==
  /\ stage = "rest" /\ session = "ok"
  /\ stage' = "image" /\ got' = NoImage /\ sent' \in Images
  /\ UNCHANGED <<server, sock_fd, client_fd, session, skipped>>

(* Mutation: the image is written twice.                                    *)
ImageComesTwice ==
  /\ stage = "image"
  /\ \E msg \in {sent, Bad} : sock_fd' = Append(Append(sock_fd, msg), msg)
  /\ stage' = "decrypt"
  /\ UNCHANGED <<server, client_fd, session, images>>

(* goodix_tls_ready_image_handler, to SSL_read.                             *)
ImageComes ==
  /\ stage = "image"
  /\ \E msg \in {sent, Bad} : sock_fd' = Append(sock_fd, msg)
  /\ stage' = "decrypt"
  /\ UNCHANGED <<server, client_fd, session, images>>

(* The command failed: so does the scan, which drops the session.           *)
ImageFails ==
  /\ stage = "image"
  /\ HandshakeFails
  /\ UNCHANGED <<sock_fd, client_fd>>

(* goodix_tls_server_receive.  A record counts those before it: one that    *)
(* was skipped makes the next one a bad one.                                *)
Decrypt ==
  /\ stage = "decrypt"
  /\ stage' = "rest"
  /\ \/ /\ sock_fd # <<>> /\ Head(sock_fd) # Bad /\ ~skipped
        /\ got' = Head(sock_fd) /\ sock_fd' = Tail(sock_fd)
        /\ UNCHANGED session
     \/ /\ sock_fd # <<>> => Head(sock_fd) = Bad \/ skipped
        /\ session' = "failed"
        /\ sock_fd' = IF sock_fd = <<>> THEN sock_fd ELSE Tail(sock_fd)
        /\ UNCHANGED got
  /\ UNCHANGED <<server, client_fd, skipped, sent>>

(* dev_deactivate, of a cancelled scan: the image is no longer waited for,  *)
(* the sensor is sent to idle and the session is kept.                      *)
CancelImage ==
  /\ stage = "image"
  /\ stage' = "idling"
  /\ UNCHANGED <<server, sock_fd, client_fd, session, images>>

(* goodix_receive_pack: nobody waits for the image.                         *)
LateImage ==
  /\ stage = "idling" /\ ~skipped
  /\ skipped' = TRUE
  /\ UNCHANGED <<server, sock_fd, client_fd, stage, session, sent, got>>

(* deactivate_idle_complete                                                 *)
IdleEnds ==
  /\ stage = "idling"
  /\ stage' = "rest"
  /\ session' \in {session, "failed"}
  /\ UNCHANGED <<server, sock_fd, client_fd, images>>

-----------------------------------------------------------------------------
Thread == AcceptReads \/ AcceptTimesOut \/ ThreadReturns

(* What the main loop does, blocked or in the callback of a command.        *)
MainLoop ==
  \/ Forward \/ Proxy \/ Established \/ Joined \/ ShutdownEnds
  \/ ImageComes \/ ImageFails \/ Decrypt \/ IdleEnds

TlsNext ==
  \/ Thread \/ MainLoop
  \/ Start \/ StartFails \/ Shutdown \/ ReadImage \/ CancelImage \/ LateImage

TlsSpec == TlsInit /\ [][TlsNext]_tlsVars

(* The thread runs, its reads are bounded by SO_RCVTIMEO and so are those   *)
(* of the main loop; the commands have timers, all but the first.           *)
TlsFairness == WF_tlsVars(Thread) /\ WF_tlsVars(MainLoop /\ stage # "requested")

TlsFairSpec == TlsSpec /\ TlsFairness

-----------------------------------------------------------------------------
(* Properties.                                                              *)

TlsTypeOK ==
  /\ tls_hop \in BOOLEAN /\ thread_started \in BOOLEAN /\ connected \in BOOLEAN
  /\ thread \in {"none", "accepting", "returning", "ended"}
  /\ accepted \in 0 .. 4 /\ shut \in BOOLEAN
  /\ sock_fd \in Seq(ClientMessages \cup Images)
  /\ client_fd \in Seq(ServerMessages)
  /\ stage \in Stages /\ session \in {"none", "ok", "failed"}
  /\ skipped \in BOOLEAN
  /\ sent \in Images \cup {NoImage} /\ got \in Images \cup {NoImage}

(* The server thread never outlives what goodix_shutdown_tls frees, on none *)
(* of the paths that leave it running after a failure, and the main loop    *)
(* uses the SSL and believes in the session only when it is gone.           *)
ThreadIsJoined ==
  /\ thread # "none" => tls_hop /\ thread_started
  /\ session = "ok" => thread = "none" /\ ~thread_started

(* pthread_join in the main loop waits for no message of the sensor: the    *)
(* thread has made up its mind, or reads from a socket that is shut down.   *)
JoinsAreShort ==
  stage \in {"joining", "shutting"} /\ thread = "accepting" => shut

(* A session that the driver is told of is one that SSL_accept has          *)
(* completed, with no message of the handshake left for SSL_read.           *)
VerdictIsTheServers ==
  session = "ok" /\ stage \in {"rest", "image"} =>
    tls_hop /\ connected /\ accepted = 4 /\ sock_fd = <<>>

(* An image that is read is the one the sensor sent for this request.       *)
ImageIsTheSensors == got # NoImage => got = sent

(* Once the sensor has answered the request for a handshake, the handshake  *)
(* ends, whatever the sensor does, and so does every shutdown.              *)
HandshakeEnds ==
  stage \in (Handshake \ {"requested"}) \cup {"shutting"} ~> stage = "rest"

(* "Stop finger detection, while retaining TLS for the next verify attempt" *)
(* (goodix55x4.c:989): an image that the sensor sent well can be read.      *)
RetainedSessionWorks ==
  [][stage = "decrypt" /\ Head(sock_fd) # Bad => session' # "failed"]_tlsVars
=============================================================================
