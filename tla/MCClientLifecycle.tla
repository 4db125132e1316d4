------------------------- MODULE MCClientLifecycle -------------------------
(* Small instances of ClientLifecycle. *)
EXTENDS ClientLifecycle, TLC

CONSTANT t1
OneThread == {t1}
=============================================================================
