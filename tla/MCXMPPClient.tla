---------------------------- MODULE MCXMPPClient ----------------------------
(* Small instances of XMPPClient. *)
EXTENDS XMPPClient, TLC

CONSTANTS t1, t2
OneThread == {t1}
TwoThreads == {t1, t2}
=============================================================================
