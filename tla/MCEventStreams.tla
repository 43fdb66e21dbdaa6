--------------------------- MODULE MCEventStreams ---------------------------
(* Five logs and a channel that buffers two of them, so that a sender can   *)
(* find it full.                                                            *)
EXTENDS EventStreams

ASSUME MCAssumption == Watch!WatcherAssumption
=============================================================================
