---------------------------- MODULE MCGoodixCmd ----------------------------
(* A small instance of GoodixCmd: commands with and without reply and timer, *)
(* two that share a byte, the NOP, and the TLS handshake, whose read_tls     *)
(* shares the byte of the NOP.                                               *)
EXTENDS GoodixCmd

MCRequests == {nop, idle_mode, mcu_get_image, fdt_up_no_reply, fdt_up,
               request_tls_connection}
=============================================================================
