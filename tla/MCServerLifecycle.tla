------------------------- MODULE MCServerLifecycle --------------------------
(* Two connections that meet on one topic, or one connection and no topic. *)
EXTENDS ServerLifecycle

CONSTANTS c1, c2, t1

TwoConns == {c1, c2}
OneConn == {c1}
OneTopic == {t1}
NoTopics == {}
=============================================================================
