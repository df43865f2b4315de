------------------------- MODULE MCRecognizerDelay -------------------------
(***************************************************************************)
(* Scorers, buffer sizes, look-aheads and drivers for TLC.                 *)
(***************************************************************************)
EXTENDS RecognizerDelay

Configs(kinds, drivers) == [kind : kinds, n : 1 .. 4, look : {0, 1, 2, 4}, driver : drivers]

(* every scorer under the driver that resets it, nn and plain under both   *)
SoundConfig == Configs({"plain", "mm", "nn"}, {"speech"}) \cup Configs({"plain", "nn"}, {"flf"})
NnConfig    == Configs({"nn"}, {"speech"})
=============================================================================
