--------------------------- MODULE MC_LiveSession ---------------------------
(***************************************************************************)
(* LiveSession for TLC where a switch-off meets a renewal: the tasks of the *)
(* run, and what the watchdog may find.                                     *)
(***************************************************************************)
EXTENDS LiveSession

MCRenewing == {"turn_on", "turn_off", "renewal"}

MCAllHealths == {"healthy", "unhealthy", "webrtc_only", "no_consumer"}
=============================================================================
