-------------------------- MODULE MCNudgeConcurrent --------------------------
(***************************************************************************)
(* Two consumers, two batches with a complete trace of one application.    *)
(***************************************************************************)
EXTENDS NudgeConcurrent

CONSTANTS t1, t2, a1, c1, c2

Root(trace) ==
    [ trace |-> trace, app |-> a1, root |-> TRUE, kind |-> "server", http |-> TRUE,
      serveur |-> FALSE, db |-> FALSE, instrument |-> Nil, holes |-> {},
      status |-> "Unset", code |-> Nil, exceptions |-> 0,
      errName |-> FALSE, agent |-> Nil, start |-> 0, end |-> 1 ]

MCBatches == { <<Root(t1)>>, <<Root(t2)>> }
=============================================================================
