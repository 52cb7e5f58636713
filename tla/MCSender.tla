------------------------------ MODULE MCSender ------------------------------
(* Instances of MqttSender for TLC: a file of two chunks, a file of one,   *)
(* and one that the sender's container does not have.                      *)
EXTENDS MqttSender, TLC

CONSTANTS f, g, absent, c1, c2

Files1 == <<f>>
Files3 == <<f, absent, g>>
SenderContent == (f :> <<c1, c2>>) @@ (g :> <<c2>>) @@ (absent :> <<c1>>)
=============================================================================
