-------------------------- MODULE MCNudgeTransaction --------------------------
(***************************************************************************)
(* Spans for the runs of NudgeTransaction: one of each branch, succeeding  *)
(* and failing, with overlapping times and one that ends before it starts. *)
(***************************************************************************)
EXTENDS NudgeTransaction, TLC

CONSTANTS t1, a1, g1

Plain ==
    [ trace |-> t1, app |-> a1, root |-> TRUE, kind |-> "server", http |-> TRUE,
      serveur |-> FALSE, db |-> FALSE, instrument |-> Nil, holes |-> {},
      status |-> "Unset", code |-> Nil, exceptions |-> 0,
      errName |-> FALSE, agent |-> Nil, start |-> 2, end |-> 6 ]

Child == [Plain EXCEPT !.root = FALSE, !.kind = "other"]

Entries ==
    { Plain,
      [Plain EXCEPT !.exceptions = 2, !.start = 1],
      [Plain EXCEPT !.root = FALSE, !.kind = "internal", !.errName = TRUE, !.end = 7],
      [Child EXCEPT !.kind = "internal", !.serveur = TRUE, !.instrument = "Express",
                    !.start = 3] }
HttpCalls ==
    { [Child EXCEPT !.code = 200, !.start = 3, !.end = 4],
      [Child EXCEPT !.code = 404, !.start = 2, !.end = 5],
      [Child EXCEPT !.kind = "server", !.start = 4, !.end = 3] }
SqlCalls ==
    { [Child EXCEPT !.http = FALSE, !.db = TRUE, !.start = 3, !.end = 5],
      [Child EXCEPT !.http = FALSE, !.db = TRUE, !.status = "Error"],
      [Child EXCEPT !.http = FALSE, !.db = TRUE, !.root = TRUE,
                    !.instrument = "Graphql"] }

TraceSpans == Entries \cup HttpCalls \cup SqlCalls

AcceptedSpans == {[Child EXCEPT !.code = 202, !.status = "Ok"]}
=============================================================================
