-------------------------- MODULE MCExchangeWriter --------------------------
(* Instances of ExchangeWriter small enough for TLC.                       *)
EXTENDS ExchangeWriter

CONSTANT p1

OneProducer == {p1}
=============================================================================
