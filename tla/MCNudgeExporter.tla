--------------------------- MODULE MCNudgeExporter ---------------------------
(***************************************************************************)
(* Spans, batches and bounds for the runs of NudgeExporter.  A span is     *)
(* written as what it has besides the plainest root span of its trace.     *)
(***************************************************************************)
EXTENDS NudgeExporter, NudgeAnswer, TLC

CONSTANTS t1, t2, t3, a1, a2, g1, g2

Plain(trace, a) ==
    [ trace |-> trace, app |-> a, root |-> TRUE, kind |-> "server", http |-> TRUE,
      serveur |-> FALSE, db |-> FALSE, instrument |-> Nil, holes |-> {},
      status |-> "Unset", code |-> Nil, exceptions |-> 0,
      errName |-> FALSE, agent |-> Nil, start |-> Epoch, end |-> Epoch + 1 ]

(* The root span of the request, from a browser; one that ends in an       *)
(* exception; a middleware span below it; an outgoing call that fails; a   *)
(* statement; a job without http attributes.                               *)
Root(trace, a, g)  == [Plain(trace, a) EXCEPT !.agent = g, !.serveur = TRUE,
                                              !.instrument = "Express"]
Crash(trace, a)    == [Plain(trace, a) EXCEPT !.exceptions = 1]
Inner(trace, a, g) == [Plain(trace, a) EXCEPT !.root = FALSE, !.kind = "internal",
                                              !.agent = g]
Thrown(trace, a, g) == [Inner(trace, a, g) EXCEPT !.exceptions = 1]
Failing(trace, a)  == [Plain(trace, a) EXCEPT !.root = FALSE, !.kind = "other",
                                              !.code = 500]
Query(trace, a)    == [Plain(trace, a) EXCEPT !.root = FALSE, !.kind = "other",
                                              !.http = FALSE, !.db = TRUE]
Job(trace, a)      == [Plain(trace, a) EXCEPT !.http = FALSE]

SpansOf(batches) == UNION {{b[i] : i \in DOMAIN b} : b \in batches}

(* One application, no waiting for the root span: every push sends what it *)
(* brings; the trace of t3 has no application and stays in the buffer.     *)
OneAppBatches ==
    { <<Failing(t1, a1), Root(t1, a1, g1), Root(t2, a1, g2)>>,
      <<Query(t1, a1), Thrown(t1, a1, g2)>>,
      <<Crash(t2, a1), Root(t3, Nil, g1)>> }
OneAppSpans == SpansOf(OneAppBatches)

(* The batches of the run OneApp are traffic as the theorems of            *)
(* NudgeTrafficProofs ask for.                                             *)
ASSUME OneAppTraffic ==
    Batches = OneAppBatches =>
      CompleteBatches /\ SpansDistinct /\ OneApplication /\ WholeSpans /\ DefiniteOutcomes

(* Two applications and waiting, as in distributions/otelcol/config.yaml.  *)
TwoAppBatches ==
    { <<Inner(t1, a1, g1), Query(t2, a1)>>,
      <<Root(t1, a1, g2)>>,
      <<Root(t2, a2, g1), Job(t1, a1)>>,
      <<Crash(t2, a1), [Root(t3, a1, Nil) EXCEPT !.instrument = Nil]>> }
TwoAppSpans == SpansOf(TwoAppBatches)

(* One batch with the traces of two applications, complete ones.           *)
MixedBatches == { <<Root(t1, a1, Nil), Root(t2, a2, Nil)>> }
MixedSpans == SpansOf(MixedBatches)

(* Waiting with one application.                                           *)
WaitBatches ==
    { <<Inner(t1, a1, g1)>>, <<Inner(t2, a1, g2)>>,
      <<Failing(t1, a1), Root(t1, a1, Nil)>>, <<Failing(t3, a1)>> }
WaitSpans == SpansOf(WaitBatches)

(* Every answer, or none; answers whose body, if any, is what it claims.   *)
AnyOutcome   == {Outcome(a) : a \in Answer} \cup {"lost"}
CleanOutcome == {Outcome(a) : a \in {x \in Answer : x.parses /\ x.body # "reset"}}
=============================================================================
