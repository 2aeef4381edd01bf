------------------------------ MODULE MCServices ------------------------------
(* The services on small instances, for TLC.                               *)
EXTENDS Services

\* Full speed either way, beyond the limit, and none.
MCThrusts == {-3, 0, 3}
===============================================================================
