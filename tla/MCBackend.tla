----------------------------- MODULE MCBackend -----------------------------
(* Instances of the backend for TLC. *)
EXTENDS Backend

CONSTANTS t1, t2

TwoThreads == {t1, t2}
NoThread == {}
FirstThread == {t1}
=============================================================================
