--------------------------- MODULE MCKafkaDelivery ---------------------------
(* The instance TLC checks: everything it needs is in Delivery.cfg.         *)
EXTENDS KafkaDelivery
=============================================================================
