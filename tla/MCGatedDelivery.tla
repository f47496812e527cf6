--------------------------- MODULE MCGatedDelivery --------------------------
(* One request, one channel and one target under an operator.              *)
EXTENDS GatedDelivery

NoSurface == {}
OneRoute  == [r \in Requests |-> [channel |-> "chat", target |-> "user"]]
=============================================================================
