--------------------------- MODULE MCBridgeClient ---------------------------
EXTENDS BridgeClient
(* The first method is noisy, so it sends while the second is registered.  *)
MCMethods == <<"imu", "pong">>
=============================================================================
