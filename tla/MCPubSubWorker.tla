--------------------------- MODULE MCPubSubWorker ---------------------------
(* Instances of PubSubWorker for TLC.  Messages share nothing but the       *)
(* channel and the stop event, and several deliveries of one message        *)
(* already run concurrently, so one message is enough.                      *)
EXTENDS PubSubWorker

CONSTANT m1
=============================================================================
