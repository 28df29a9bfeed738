--------------------------- MODULE MCCoreSessions ---------------------------
(* Constants of the runs of CoreSessions: c1 handles one message type, c2  *)
(* is a monitor for all messages, or handles another type.                 *)
EXTENDS CoreSessions, TLC

CONSTANTS c1, c2, t1, t2

MCMonitor == c1 :> {t1} @@ c2 :> {}
MCTwoTypes == c1 :> {t1} @@ c2 :> {t2}
=============================================================================
