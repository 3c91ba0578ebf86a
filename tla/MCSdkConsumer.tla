----------------------------- MODULE MCSdkConsumer -----------------------------
(* Instance of SdkConsumer: three deliveries of one message.                 *)
EXTENDS SdkConsumer

MCMessageOf == <<"m", "m", "m">>
=============================================================================
