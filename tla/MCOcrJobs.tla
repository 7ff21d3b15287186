----------------------------- MODULE MCOcrJobs ------------------------------
(* Small instances of OcrJobs. *)
EXTENDS OcrJobs

CONSTANTS loop, cron

\* the in-process automation loop alone, or next to a cron webhook
OneProcess == {loop}
TwoProcesses == {loop, cron}

OneWezwanie == {1}
=============================================================================
