-------------------------------- MODULE MCPages --------------------------------
(* Four rows, three times of which two are of the same millisecond, and pages *)
(* of one or two rows: see MCPages.cfg.                                       *)
EXTENDS Pages

MCIds == 1..4
MCMillis == [k \in 0..MaxKey |-> k \div 2]
=============================================================================
