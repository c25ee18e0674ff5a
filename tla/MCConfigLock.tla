---------------------------- MODULE MCConfigLock ----------------------------
(***************************************************************************)
(* Two threads of one process and a third in another: enough for two       *)
(* threads to share a process and die together while a third waits.        *)
(***************************************************************************)
EXTENDS ConfigLock

CONSTANTS t1, t2, t3, gui, cli

MCThreads == {t1, t2, t3}
MCProcesses == {gui, cli}
MCProcessOf == [t \in MCThreads |-> IF t = t3 THEN cli ELSE gui]
=============================================================================
