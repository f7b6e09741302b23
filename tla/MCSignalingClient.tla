---- MODULE MCSignalingClient ----
(* SignalingClient; every constant is a number of the configuration.        *)
EXTENDS SignalingClient
====
