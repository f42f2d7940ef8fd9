------------------------------ MODULE MCRunInBand ------------------------------
(* Two KV queries, of which a test waits for one or for both.               *)
EXTENDS RunInBand

MCQuery == {2, 3}
===============================================================================
