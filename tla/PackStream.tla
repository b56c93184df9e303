------------------------------ MODULE PackStream ------------------------------
(***************************************************************************)
(* What the reading of packs promises to the command channel: as long as   *)
(* the stream of bytes is intact, the packs arrive as they were sent, in   *)
(* the order they were sent, each once.  Once bytes are lost nothing is    *)
(* promised any more, not even that what arrives was sent.                 *)
(***************************************************************************)
EXTENDS Naturals, Sequences

CONSTANTS
  Packs,      \* what the sensor sends
  Readable    \* what a host may take for a pack

VARIABLES
  sent,    \* the packs sent, in order
  got,     \* the packs received, in order
  intact   \* no byte has been lost

streamVars == <<sent, got, intact>>

StreamInit == sent = <<>> /\ got = <<>> /\ intact = TRUE

Send ==
  /\ \E p \in Packs : sent' = Append(sent, p)
  /\ UNCHANGED <<got, intact>>

Deliver ==
  /\ intact /\ Len(got) < Len(sent)
  /\ got' = Append(got, sent[Len(got) + 1])
  /\ UNCHANGED <<sent, intact>>

Lose == ~intact' /\ UNCHANGED <<sent, got>>

Garble ==
  /\ ~intact
  /\ got' = Append(got, got'[Len(got) + 1])
  /\ got'[Len(got) + 1] \in Readable
  /\ UNCHANGED <<sent, intact>>

StreamSpec == StreamInit /\ [][Send \/ Deliver \/ Lose \/ Garble]_streamVars
=============================================================================
