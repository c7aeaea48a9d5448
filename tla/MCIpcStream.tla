---------------------------- MODULE MCIpcStream -----------------------------
(* Instances of IpcStream for TLC.                                         *)
EXTENDS IpcStream, TLC

CONSTANTS t1, t2

MCThreads == {t1, t2}
=============================================================================
