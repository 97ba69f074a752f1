---------------------------- MODULE MCReadSessions ----------------------------
(* ReadSessions on small sets, for TLC.                                    *)
EXTENDS ReadSessions

\* The four handlers, each with its rule for keeping its session.
AllTools == ReadTool

=============================================================================
