------------------------------ MODULE MCStartup ------------------------------
(* Small instances of Startup: the waits and the window of DNS failures     *)
(* are a third and less of the real ones.                                   *)
EXTENDS Startup

MCConfigs == [retries : {0, 4}, dns : {0, 13, 40}]
MCDescriptors == 0 .. 4

=============================================================================
