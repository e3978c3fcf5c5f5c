---------------------------- MODULE MCHelloWorld ----------------------------
(***************************************************************************)
(* HelloWorld over every combination of options, or without faults.        *)
(***************************************************************************)
EXTENDS HelloWorld

AllTestModes == {"probe", "wait", "eventfd"}
AllFailureModes == {"none", "send", "recv", "keepalive"}
=============================================================================
