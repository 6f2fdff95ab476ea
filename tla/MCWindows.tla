------------------------------ MODULE MCWindows ------------------------------
(* Instance of Windows: an idle, a middling and a busy utilization.         *)
EXTENDS Windows
MCLevel == {0, 2, 3}
=============================================================================
