------------------------------- MODULE MCOutbox -------------------------------
(* Instances of Outbox: a refused topic ahead of an accepted one; messages  *)
(* of which two fit into one request, or only one.                          *)
EXTENDS Outbox

MCTopicOf == <<"refused", "a", "a">>
MCSizeOf == <<1, 1, 1>>
MCLargeSizes == <<1, 2, 2>>
=============================================================================
