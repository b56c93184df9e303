--------------------------- MODULE GoodixCommands ---------------------------
(***************************************************************************)
(* The sensor commands the 55x4 driver uses: for each, its command byte,   *)
(* whether the sensor is expected to send a reply after its ACK, and       *)
(* whether the host arms a timer for it.  Two requests may share one byte: *)
(* the two FDT_UP requests do, and so do NOP and the pseudo-request        *)
(* read_tls, which only waits for the next TLS message.                    *)
(***************************************************************************)

Command(byte, reply, timed) == [byte |-> byte, reply |-> reply, timed |-> timed]

nop               == Command("00", FALSE, FALSE)
enable_chip       == Command("96", FALSE, TRUE)
firmware_version  == Command("a8", TRUE,  TRUE)
preset_psk_read   == Command("e4", TRUE,  TRUE)
preset_psk_write  == Command("e0", TRUE,  TRUE)
reset             == Command("a2", TRUE,  TRUE)
idle_mode         == Command("70", FALSE, TRUE)
upload_config_mcu == Command("90", TRUE,  TRUE)

request_tls_connection       == Command("d0", TRUE,  FALSE)
read_tls                     == Command("00", TRUE,  TRUE)
tls_successfully_established == Command("d4", FALSE, TRUE)

mcu_get_image   == Command("20", TRUE,  TRUE)
fdt_mode        == Command("36", TRUE,  FALSE)
fdt_down        == Command("32", TRUE,  FALSE)
fdt_up_no_reply == Command("34", FALSE, FALSE)
fdt_up          == Command("34", TRUE,  FALSE)

Commands ==
  {nop, enable_chip, firmware_version, preset_psk_read, preset_psk_write,
   reset, idle_mode, upload_config_mcu, request_tls_connection, read_tls,
   tls_successfully_established, mcu_get_image, fdt_mode, fdt_down,
   fdt_up_no_reply, fdt_up}
=============================================================================
