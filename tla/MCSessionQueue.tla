--------------------------- MODULE MCSessionQueue ---------------------------
(* An instance of SessionQueue for TLC: one process. *)
EXTENDS SessionQueue, TLC

CONSTANTS s1, t1, w1, Nobody

Native == [code |-> XLM, issuer |-> Nobody]

MCPrice == [s \in Sessions |-> [amount |-> 1, asset |-> Native]]

MCOps == {[tx |-> t1, memo |-> s1, amount |-> 1, asset |-> Native]}

MCHome == [c \in Detectors \cup Recoverers |-> w1]

=============================================================================
