----------------------------- MODULE MCDelivery -----------------------------
(* Two processes that serve one connector, and a slip of two steps. *)
EXTENDS Delivery

CONSTANTS w1, w2

MCWorkers == {w1, w2}
=============================================================================
