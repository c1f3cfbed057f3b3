----------------------------- MODULE MCSockets -----------------------------
EXTENDS Sockets

\* close_listener matters where create_connection keeps listening_sock: for an
\* SRT listener and, with misc.cpp:79, for a TCP caller.
Keeps(c) == (c.kind = "srt" /\ ~c.caller) \/ (c.kind = "tcp" /\ c.caller)
AllConfigs == {c \in Config : c.close_listener => Keeps(c)}
=============================================================================
