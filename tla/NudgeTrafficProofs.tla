-------------------------- MODULE NudgeTrafficProofs --------------------------
(***************************************************************************)
(* What NudgeExporter promises when its batches are complete               *)
(* (CompleteBatches): no span is lost and none is delivered twice,         *)
(* errors are reported once, the ids of user agents resolve and, with one  *)
(* application, no push panics.                                            *)
(* All rest on CompleteInv: between two pushes the buffer holds only       *)
(* transactions without an application, and in a push every transaction    *)
(* of an application is marked before the loop turns to it.                *)
(***************************************************************************)
EXTENDS NudgeExporterProofs

-----------------------------------------------------------------------------
(* What complete batches give.  Outside a push the buffer holds only       *)
(* transactions without an application; while a batch is converted, the    *)
(* others come from it, and are marked as soon as the span that ends their *)
(* trace is folded; so in the turns of the loop they are all marked, and   *)
(* all leave with their application.                                       *)
Turn == {"loop", "marshal", "export", "http"}

FromBatch(u) == \E i \in DOMAIN batch : i < pos /\ batch[i].trace = u

Marked(u) == u \in DOMAIN transactions /\ transactions[u].urlid = NOWAITANDSEND

CompleteInv ==
    /\ pc # "return"
    /\ \A u \in DOMAIN transactions : Anonymous(u) \/ Named(u)
    /\ pc \in {"idle", "backoff"} =>
         \A u \in DOMAIN transactions : transactions[u].app = NoApp
    /\ pc = "convert" =>
         /\ \A u \in DOMAIN transactions : transactions[u].app # NoApp => FromBatch(u)
         /\ \A i \in DOMAIN batch :
               i < pos /\ EndsTrace(batch[i]) => Marked(batch[i].trace)
    /\ pc \in Turn =>
         \A u \in DOMAIN transactions :
            transactions[u].app # NoApp => Marked(u) /\ transactions[u].app \in pending

(* A transaction is scanned once, when it leaves.                          *)
ErrorsInv ==
    /\ \A u \in DOMAIN transactions : transactions[u].errors = 0
    /\ \A t \in sent : t.errors = t.found

(* Identifiers resolve in the packet that is open, and the packet that is  *)
(* open when a transaction leaves is the one that was when it began.       *)
Resolves(t, agents) ==
    t.agentID # Nil => t.agentID + 1 \in DOMAIN agents /\ agents[t.agentID + 1] = t.agent

AgentsInv ==
    /\ pc \in {"convert", "loop"} /\ rawdata # Nil =>
         \A u \in DOMAIN transactions :
            transactions[u].app # NoApp => Resolves(transactions[u], rawdata.agents)
    /\ pc = "marshal" => \A t \in sent : Resolves(t, rawdata.agents)
    /\ pc \in {"export", "http"} => \A t \in sent : Resolves(t, request.agents)

(* Where the spans of a batch are: once it is done, with the server or in  *)
(* a transaction that stays; while it is pushed without an error, also in  *)
(* a transaction that waits for its turn, or in the packet of the turn.    *)
InBatch(s)  == \E i \in DOMAIN batch : batch[i] = s
Begun(s)    == \E i \in DOMAIN batch : i < pos /\ batch[i] = s

Accepted(s) ==
    \E r \in Requests : r.accepted /\ \E t \in r.packet.transactions : Holds(t, s)

InBuffer(s) == \E u \in DOMAIN transactions : Holds(transactions[u], s)

InTurn(s)   == \E t \in sent : Holds(t, s)

Stays(s) ==
    \E u \in DOMAIN transactions : transactions[u].app = NoApp /\ Holds(transactions[u], s)

LossInv ==
    /\ \A b \in done : \A i \in DOMAIN b : Accepted(b[i]) \/ Stays(b[i])
    /\ pc = "convert" => \A s \in Spans : Begun(s) => InBuffer(s)
    /\ pc \in Turn /\ err = "none" =>
         \A s \in Spans :
            InBatch(s) => Accepted(s) \/ InBuffer(s) \/ (pc # "loop" /\ InTurn(s))

(* A batch that may still be posted was not accepted before: a push goes   *)
(* on after an accepted request only to return.  The spans of its          *)
(* transactions are different spans of the batch.                          *)
Pure(t) == \A i, j \in DOMAIN t.spans : t.spans[i] = t.spans[j] => i = j

MayPost ==
    \/ pc \in {"convert", "marshal", "export", "http", "backoff"}
    \/ pc = "loop" /\ (rawdata # Nil \/ err = "retryable")

FromThisBatch ==
    /\ pc \in {"convert"} \cup Turn =>
         \A u \in DOMAIN transactions : transactions[u].app # NoApp =>
            /\ Pure(transactions[u])
            /\ \A s \in Spans : Holds(transactions[u], s) => Begun(s)
    /\ pc \in Turn \ {"loop"} =>
         \A t \in sent : Pure(t) /\ \A s \in Spans : Holds(t, s) => Begun(s)
    /\ \A t, u \in sent : t.uuid = u.uuid => t = u

NotYet ==
    /\ \A b \in queue : \A i \in DOMAIN b : ~Accepted(b[i])
    /\ MayPost => \A s \in Spans : InBatch(s) => ~Accepted(s)
    /\ pc \in Turn \ {"loop"} \/ (pc = "loop" /\ rawdata # Nil) => err = "none"

(* With one application the loop has one turn, on a packet that is there,  *)
(* and this turn has something to send.                                    *)
TurnInv ==
    /\ panicked = "no"
    /\ \A a, b \in pending : a = b
    /\ pc \in {"marshal", "export", "http"} => pending = {}
    /\ pc = "loop" /\ pending # {} => rawdata # Nil
    /\ pc = "loop" =>
         \A a \in pending : \E u \in DOMAIN transactions : transactions[u].app = a
    /\ pc = "marshal" => sent # {}
(* What a step of the conversion changes: nothing, when it panics, or the  *)
(* transaction t of the next span s, and the dictionary of agents.         *)
Folded(s, t) ==
    /\ pos \in DOMAIN batch /\ s = batch[pos] /\ pos' = pos + 1
    /\ s \in Spans /\ t \in Transaction /\ t.uuid = s.trace
    /\ IF s.trace \in DOMAIN transactions THEN t = transactions[s.trace]
       ELSE t = NewTransaction(s.trace)
    /\ DOMAIN transactions' = DOMAIN transactions \cup {s.trace}
    /\ transactions'[s.trace] = Absorb(t, s)
    /\ \A u \in DOMAIN transactions \ {s.trace} : transactions'[u] = transactions[u]
    /\ rawdata'.agents = AgentsAfter(rawdata.agents, s)

LEMMA ConvertStep ==
    ASSUME TypeOK, ConvertSpan
    PROVE  /\ pc = "convert"
           /\ UNCHANGED <<pc, batch, queue, sent, request, pending, err, posted, done>>
           /\ rawdata \in RawData /\ rawdata' \in RawData
           /\ \/ UNCHANGED <<pos, transactions, rawdata>>
              \/ \E s, t : Folded(s, t)
<1> USE DEF push, loop, ghost
<1>1. /\ pc = "convert"
      /\ UNCHANGED <<pc, batch, queue, sent, request, pending, err, posted, done>>
  BY DEF ConvertSpan
<1>2. rawdata \in RawData /\ rawdata' \in RawData
  BY <1>1, ConvertSpanType DEF TypeOK, PacketType
<1> DEFINE s == batch[pos]
           t == Buffered(s.trace)
<1>3. CASE UNCHANGED <<pos, transactions, rawdata>>
  BY <1>1, <1>2, <1>3
<1>4. CASE /\ transactions' = [u \in DOMAIN transactions \cup {s.trace} |->
                                 IF u = s.trace THEN Absorb(t, s) ELSE transactions[u]]
           /\ rawdata' = [rawdata EXCEPT !.agents = AgentsAfter(rawdata.agents, s)]
           /\ pos' = pos + 1
  <2>1. pos \in DOMAIN batch /\ s \in Spans /\ s.trace \in Traces
    BY ExporterAssumption DEF ConvertSpan, TypeOK, ControlType, Span
  <2>2. /\ t \in Transaction /\ t.uuid = s.trace
        /\ IF s.trace \in DOMAIN transactions THEN t = transactions[s.trace]
           ELSE t = NewTransaction(s.trace)
    BY <2>1, NewTransactionType DEF Buffered, TypeOK, BufferType
  <2>3. rawdata'.agents = AgentsAfter(rawdata.agents, s)
    BY <1>2, <1>4 DEF RawData
  <2> HIDE DEF t
  <2>4. Folded(s, t)
    BY <1>4, <2>1, <2>2, <2>3 DEF Folded
  <2> QED  BY <1>1, <1>2, <2>4
<1> QED  BY <1>3, <1>4 DEF ConvertSpan

(* The transaction a span is folded into, field by field.                  *)
LEMMA Absorbed ==
    ASSUME NEW t, NEW s
    PROVE  /\ Absorb(t, s).app = SpanApp(s)
           /\ Absorb(t, s).urlid = IF EndsTrace(s) THEN NOWAITANDSEND ELSE t.urlid
           /\ Absorb(t, s).errors = t.errors
           /\ Absorb(t, s).spans = Append(t.spans, s)
           /\ Absorb(t, s).agent = IF IsEntry(s) /\ s.agent # Nil THEN s.agent ELSE t.agent
           /\ Absorb(t, s).agentID =
                IF IsEntry(s) /\ s.agent # Nil
                THEN AgentID(AgentsAfter(rawdata.agents, s), s.agent) ELSE t.agentID
BY DEF Absorb

(* A transaction has no application when its trace is anonymous, and has   *)
(* one when its trace is named.                                            *)
LEMMA TraceApp ==
    ASSUME TypeOK, DeliveryInv, NEW u \in DOMAIN transactions
    PROVE  /\ Anonymous(u) => transactions[u].app = NoApp
           /\ Named(u) => transactions[u].app # NoApp
BY DEF DeliveryInv, Sound, TypeOK, BufferType, Anonymous, Named

(* In its turn an application loses all its transactions, and they go into *)
(* the packet as they are, except for the errors they report.              *)
LEMMA SendStep ==
    ASSUME TypeOK, CompleteInv, NEW a \in Apps, SendTransactions(a), rawdata # Nil
    PROVE  /\ pc = "loop" /\ pc' = "marshal" /\ a \in pending /\ pending' = pending \ {a}
           /\ UNCHANGED <<batch, pos, queue, request, err, posted, done, panicked>>
           /\ rawdata' \in RawData /\ rawdata'.agents = rawdata.agents
           /\ DOMAIN transactions' =
                {u \in DOMAIN transactions : transactions[u].app # a}
           /\ \A u \in DOMAIN transactions' : transactions'[u] = transactions[u]
           /\ sent' = {Reported(transactions[u]) :
                         u \in {v \in DOMAIN transactions : transactions[v].app = a}}
<1> USE DEF push, loop, ghost
<1> DEFINE mine == {u \in DOMAIN transactions : BelongsTo(transactions[u], a)}
           due  == {u \in mine : IsDue(transactions[u])}
           gone == {u \in mine : Leaves(transactions[u])}
<1>1. /\ pc = "loop" /\ pc' = "marshal" /\ a \in pending /\ pending' = pending \ {a}
      /\ UNCHANGED <<batch, pos, queue, request, err, posted, done, panicked>>
      /\ sent' = {Reported(transactions[u]) : u \in due}
      /\ transactions' = [u \in DOMAIN transactions \ gone |->
                            IF u \in mine THEN Reported(transactions[u])
                            ELSE transactions[u]]
      /\ rawdata' = [rawdata EXCEPT !.transactions = rawdata.transactions \cup sent']
  BY DEF SendTransactions
<1>2. mine = {u \in DOMAIN transactions : transactions[u].app = a}
  BY DEF BelongsTo
<1>3. due = mine /\ gone = mine
  BY <1>1, <1>2, SpanAssumption DEF CompleteInv, Marked, Turn, IsDue, Leaves
<1>4. rawdata' \in RawData /\ rawdata \in RawData
  BY <1>1, SendTransactionsType, NilAssumption DEF TypeOK, PacketType, SendTransactions
<1>5. rawdata'.agents = rawdata.agents
  BY <1>1, <1>4 DEF RawData
<1> HIDE DEF mine, due, gone
<1>6. /\ DOMAIN transactions' = DOMAIN transactions \ mine
      /\ \A u \in DOMAIN transactions' : transactions'[u] = transactions[u]
  BY <1>1, <1>3
<1> QED  BY <1>1, <1>2, <1>3, <1>4, <1>5, <1>6

(* The other steps of a push, as far as the invariants look at them.       *)
LEMMA OtherSteps ==
    ASSUME [Next]_vars, ~ConvertSpan,
           ~ \E a \in Apps : SendTransactions(a) /\ rawdata # Nil
    PROVE  /\ UNCHANGED <<transactions, sent>>
           /\ \/ /\ UNCHANGED <<pc, batch, pos, queue, rawdata, request, pending, err,
                                posted, done>>
              \/ /\ pc = "idle" /\ pc' = "convert" /\ pos' = 1 /\ batch' \in queue
                 /\ batch' \in Batches /\ queue' = queue \ {batch'} /\ CreateRawdata
                 /\ UNCHANGED <<request, pending, err, posted, done, panicked>>
              \/ /\ CollectApplications
              \/ /\ MarshalAndCount
              \/ /\ Export
              \/ /\ \E o \in Outcomes : HttpResponse(o)
              \/ /\ Return
              \/ /\ pc = "backoff" /\ pc' = "convert" /\ pos' = 1 /\ CreateRawdata
                 /\ UNCHANGED <<batch, queue, request, pending, err, posted, done, panicked>>
              \/ /\ GiveUp
<1> USE DEF push, loop, ghost
<1> QED
  BY DEF Next, PushStep, PushTraces, CollectApplications, MarshalAndCount, Export,
         HttpResponse, Return, Retry, GiveUp, Tick, SendTransactions, vars
-----------------------------------------------------------------------------
(* A complete batch marks the transactions it brings by the time it is     *)
(* converted.                                                              *)
LEMMA BatchMarks ==
    ASSUME CompleteBatches, TypeOK, DeliveryInv, CompleteInv,
           pc = "convert", pos > Len(batch),
           NEW u \in DOMAIN transactions, transactions[u].app # NoApp
    PROVE  Marked(u)
<1>1. PICK i \in DOMAIN batch : i < pos /\ batch[i].trace = u
  BY DEF CompleteInv, FromBatch
<1>2. batch \in Batches /\ batch \in Seq(Spans) /\ pos \in Nat
  BY DEF TypeOK, ControlType
<1>3. ~Anonymous(u)
  BY TraceApp
<1>4. PICK j \in DOMAIN batch : batch[j].trace = u /\ EndsTrace(batch[j])
  BY <1>1, <1>2, <1>3 DEF CompleteBatches
<1>5. j < pos
  BY <1>2
<1> QED  BY <1>4, <1>5 DEF CompleteInv

(* The traces of a batch are anonymous or named.                           *)
LEMMA BatchTraces ==
    ASSUME CompleteBatches, TypeOK, pc = "convert", NEW i \in DOMAIN batch
    PROVE  Anonymous(batch[i].trace) \/ Named(batch[i].trace)
BY DEF CompleteBatches, TypeOK, ControlType

(* Folding a span marks its transaction when it ends the trace, and never  *)
(* unmarks one.                                                            *)
LEMMA ConvertComplete ==
    ASSUME CompleteBatches, TypeOK, DeliveryInv, CompleteInv, ConvertSpan
    PROVE  CompleteInv'
<1>1. /\ pc = "convert"
      /\ UNCHANGED <<pc, batch, pending>>
      /\ UNCHANGED <<pos, transactions, rawdata>> \/ \E s, t : Folded(s, t)
  BY ConvertStep
<1>2. CASE UNCHANGED <<pos, transactions, rawdata>>
  BY <1>1, <1>2 DEF CompleteInv, Marked, FromBatch
<1>3. CASE \E s, t : Folded(s, t)
  <2>1. PICK s, t : Folded(s, t)
    BY <1>3
  <2>2. /\ pos \in DOMAIN batch /\ s = batch[pos] /\ pos' = pos + 1 /\ pos \in Nat
        /\ DOMAIN transactions' = DOMAIN transactions \cup {s.trace}
        /\ \A u \in DOMAIN transactions \ {s.trace} : transactions'[u] = transactions[u]
        /\ s.trace \in DOMAIN transactions => t = transactions[s.trace]
        /\ transactions'[s.trace].urlid = IF EndsTrace(s) THEN NOWAITANDSEND ELSE t.urlid
    BY <2>1, Absorbed DEF Folded, TypeOK, ControlType
  <2>3. \A u \in DOMAIN transactions' : Anonymous(u) \/ Named(u)
    BY <1>1, <2>2, BatchTraces DEF CompleteInv
  <2>4. \A u : Marked(u) => Marked(u)'
    BY <2>2 DEF Marked
  <2>5. \A u : FromBatch(u) => FromBatch(u)'
    <3>1. \A i \in DOMAIN batch : i \in Nat
      BY DEF TypeOK, ControlType
    <3>2. \A i \in DOMAIN batch : i < pos => i < pos'
      BY <2>2, <3>1
    <3> QED  BY <1>1, <3>2 DEF FromBatch
  <2>6. FromBatch(s.trace)'
    BY <1>1, <2>2 DEF FromBatch
  <2>7. EndsTrace(s) => Marked(s.trace)'
    BY <2>2 DEF Marked
  <2>8. \A u \in DOMAIN transactions' : transactions'[u].app # NoApp => FromBatch(u)'
    BY <1>1, <2>2, <2>5, <2>6 DEF CompleteInv
  <2>9. \A i \in DOMAIN batch : i < pos' /\ EndsTrace(batch[i]) => Marked(batch[i].trace)'
    <3>1. \A i \in DOMAIN batch : i < pos' => i < pos \/ i = pos
      BY <2>2, <1>1 DEF TypeOK, ControlType
    <3>2. ASSUME NEW i \in DOMAIN batch, i < pos', EndsTrace(batch[i])
          PROVE  Marked(batch[i].trace)'
      <4>1. CASE i < pos
        <5>1. Marked(batch[i].trace)
          BY <1>1, <3>2, <4>1 DEF CompleteInv
        <5> QED  BY <1>1, <2>4, <5>1 DEF Marked
      <4>2. CASE i = pos
        BY <1>1, <2>2, <2>7, <3>2, <4>2 DEF Marked
      <4> QED  BY <3>1, <3>2, <4>1, <4>2
    <3> QED  BY <1>1, <3>2 DEF Marked
  <2> QED  BY <1>1, <2>3, <2>8, <2>9 DEF CompleteInv, Turn
<1> QED  BY <1>1, <1>2, <1>3

(* What the loop sends leaves the buffer, so that a push ends with the     *)
(* buffer it should leave.                                                 *)
LEMMA NextComplete ==
    ASSUME CompleteBatches, Encodable, TypeOK, DeliveryInv, CompleteInv, [Next]_vars
    PROVE  CompleteInv'
<1> USE DEF push, loop, ghost
<1>1. CASE ConvertSpan
  BY <1>1, ConvertComplete
<1>2. ASSUME NEW a \in Apps, SendTransactions(a), rawdata # Nil PROVE CompleteInv'
  <2>1. /\ pc = "loop" /\ pc' = "marshal" /\ pending' = pending \ {a}
        /\ DOMAIN transactions' = {u \in DOMAIN transactions : transactions[u].app # a}
        /\ \A u \in DOMAIN transactions' : transactions'[u] = transactions[u]
    BY <1>2, SendStep
  <2> QED  BY <2>1 DEF CompleteInv, Marked, Turn
<1>3. CASE ~ConvertSpan /\ ~ \E a \in Apps : SendTransactions(a) /\ rawdata # Nil
  <2>1. ASSUME UNCHANGED <<transactions, pc, batch, pos, pending>> PROVE CompleteInv'
    BY <2>1 DEF CompleteInv, Marked, FromBatch
  <2>2. ASSUME pc' = "convert", pos' = 1, pc \in {"idle", "backoff"}, batch' \in Batches,
               UNCHANGED transactions
        PROVE  CompleteInv'
    BY <2>2, ExporterAssumption DEF CompleteInv, Turn
  <2>3. CASE CollectApplications
    <3>1. /\ pc = "convert" /\ pos > Len(batch) /\ pc' = "loop"
          /\ UNCHANGED <<transactions, batch, pos>>
          /\ pending' = {transactions[u].app : u \in DOMAIN transactions} \ {NoApp}
      BY <2>3 DEF CollectApplications
    <3>2. \A u \in DOMAIN transactions : transactions[u].app # NoApp => Marked(u)
      BY <3>1, BatchMarks
    <3> QED  BY <3>1, <3>2 DEF CompleteInv, Marked, Turn
  <2>4. ASSUME pc \in Turn, pc' \in Turn, UNCHANGED <<transactions, pending>>
        PROVE  CompleteInv'
    BY <2>4 DEF CompleteInv, Marked, Turn
  <2>5. CASE MarshalAndCount \/ Export \/ \E o \in Outcomes : HttpResponse(o)
    <3>1. /\ pc \in Turn /\ pc' \in Turn
          /\ UNCHANGED <<transactions, pending>>
      BY <2>5 DEF MarshalAndCount, Export, HttpResponse, Turn, Encodable
    <3> QED  BY <2>4, <3>1
  <2>6. CASE Return
    <3>1. /\ pc = "loop" /\ pending = {} /\ pc' \in {"idle", "backoff"}
          /\ UNCHANGED <<transactions, pending>>
      BY <2>6 DEF Return, CompleteInv
    <3> QED  BY <3>1 DEF CompleteInv, Turn
  <2>7. CASE GiveUp
    <3>1. /\ pc = "backoff" /\ pc' = "idle" /\ UNCHANGED <<transactions, pending>>
      BY <2>7 DEF GiveUp
    <3> QED  BY <3>1 DEF CompleteInv, Turn
  <2>8. batch \in Batches \/ pc = "idle"
    BY DEF TypeOK, ControlType
  <2> QED
    BY <1>3, <2>1, <2>2, <2>3, <2>5, <2>6, <2>7, <2>8, OtherSteps
<1> QED  BY <1>1, <1>2, <1>3

(* The invariants that the theorems below share.                           *)
PushInv == TypeOK /\ PacketInv /\ DeliveryInv /\ CompleteInv

LEMMA PushInvariant ==
    ASSUME CompleteBatches, Encodable
    PROVE  (Init => PushInv) /\ (PushInv /\ [Next]_vars => PushInv')
<1>1. Init => CompleteInv
  BY DEF Init, CompleteInv, Turn
<1> QED
  BY <1>1, InitType, InitPacketInv, InitDelivers, NextType, NextPacketInv,
     NextDeliveryInv, NextComplete
  DEF PushInv
-----------------------------------------------------------------------------
(* A request carries what the loop sent in this turn.                      *)
LEMMA Posts ==
    ASSUME Encodable, TypeOK, PacketInv, DeliveryInv,
           NEW o \in Outcomes, HttpResponse(o)
    PROVE  /\ pc = "http" /\ pc' = "loop" /\ rawdata = Nil /\ rawdata' = Nil
           /\ UNCHANGED <<transactions, sent, batch, pos, queue, done, pending, panicked>>
           /\ Note(CASE o = "ok" -> "none" [] o = "permanent" -> "permanent"
                     [] OTHER -> "retryable")
           /\ \E r \in Request :
                /\ posted' = Append(posted, r) /\ Requests' = Requests \cup {r}
                /\ r.packet = request /\ r.packet.transactions = sent
                /\ o # "lost" => r.accepted = (o \in {"ok", "unreadable"})
<1> USE DEF push, loop, ghost
<1>1. /\ pc = "http" /\ pc' = "loop" /\ rawdata' = rawdata /\ rawdata = Nil
      /\ UNCHANGED <<transactions, sent, batch, pos, queue, done, pending, panicked>>
      /\ Note(CASE o = "ok" -> "none" [] o = "permanent" -> "permanent"
                [] OTHER -> "retryable")
  BY DEF HttpResponse, DeliveryInv
<1>2. PICK got \in BOOLEAN :
        /\ o # "lost" => got = (o \in {"ok", "unreadable"})
        /\ posted' = Append(posted, [ app |-> app, url |-> Target, packet |-> request,
                                      time |-> now, accepted |-> got ])
  BY DEF HttpResponse
<1> DEFINE r == [ app |-> app, url |-> Target, packet |-> request,
                  time |-> now, accepted |-> got ]
<1>3. app \in Apps /\ Target \in Apps \cup {NoApp} /\ request \in Packet /\ now \in Nat
  BY <1>1, SpanAssumption DEF TypeOK, ControlType, PacketType, Target
<1>4. r \in Request /\ r.packet = request /\ r.accepted = got
  BY <1>3 DEF Request
<1>5. request.transactions = sent
  BY <1>1 DEF PacketInv
<1>6. posted \in Seq(Request)
  BY DEF TypeOK, HistoryType
<1>7. posted' = Append(posted, r)
  BY <1>2
<1> HIDE DEF r
<1>8. Requests' = Requests \cup {r}
  BY <1>4, <1>6, <1>7 DEF Requests
<1> QED  BY <1>1, <1>2, <1>4, <1>5, <1>7, <1>8
-----------------------------------------------------------------------------
(* A transaction that has errors to report has not been scanned before.    *)
LEMMA NextErrors ==
    ASSUME Encodable, PushInv, ErrorsInv, ErrorsReportedOnce, [Next]_vars
    PROVE  ErrorsInv' /\ ErrorsReportedOnce'
<1> USE DEF push, loop, ghost
<1>0. TypeOK /\ PacketInv /\ DeliveryInv /\ CompleteInv
  BY DEF PushInv
<1>1. CASE ConvertSpan
  <2>1. /\ UNCHANGED <<sent, posted>>
        /\ UNCHANGED <<pos, transactions, rawdata>> \/ \E s, t : Folded(s, t)
    BY <1>1, ConvertStep, <1>0
  <2>2. ErrorsReportedOnce'
    BY <2>1 DEF ErrorsReportedOnce, Requests
  <2>3. CASE UNCHANGED <<pos, transactions, rawdata>>
    BY <2>1, <2>2, <2>3 DEF ErrorsInv
  <2>4. CASE \E s, t : Folded(s, t)
    <3>1. PICK s, t : Folded(s, t)
      BY <2>4
    <3>2. t.errors = 0
      BY <3>1 DEF Folded, ErrorsInv, NewTransaction
    <3>3. transactions'[s.trace].errors = 0
      BY <3>1, <3>2, Absorbed DEF Folded
    <3> QED  BY <2>1, <2>2, <3>1, <3>3 DEF Folded, ErrorsInv
  <2> QED  BY <2>1, <2>3, <2>4
<1>2. ASSUME NEW a \in Apps, SendTransactions(a), rawdata # Nil
      PROVE  ErrorsInv' /\ ErrorsReportedOnce'
  <2>1. \A u \in DOMAIN transactions :
           Reported(transactions[u]).errors = Reported(transactions[u]).found
    <3> SUFFICES ASSUME NEW t \in Transaction, t.errors = 0
                 PROVE  Reported(t).errors = Reported(t).found
      BY DEF ErrorsInv, PushInv, TypeOK, BufferType
    <3>1. t.found \in Nat
      BY DEF Transaction
    <3> QED  BY <3>1 DEF Reported, Transaction
  <2>2. /\ posted' = posted
        /\ DOMAIN transactions' = {u \in DOMAIN transactions : transactions[u].app # a}
        /\ \A u \in DOMAIN transactions' : transactions'[u] = transactions[u]
        /\ sent' = {Reported(transactions[u]) :
                      u \in {v \in DOMAIN transactions : transactions[v].app = a}}
    BY <1>2, SendStep, <1>0
  <2>3. ErrorsInv'
    BY <2>1, <2>2 DEF ErrorsInv
  <2>4. ErrorsReportedOnce'
    BY <2>2 DEF ErrorsReportedOnce, Requests
  <2> QED  BY <2>3, <2>4
<1>3. ASSUME NEW o \in Outcomes, HttpResponse(o) PROVE ErrorsInv' /\ ErrorsReportedOnce'
  BY <1>3, Posts, <1>0 DEF ErrorsInv, ErrorsReportedOnce
<1>4. CASE /\ ~ConvertSpan /\ ~ \E a \in Apps : SendTransactions(a) /\ rawdata # Nil
           /\ ~ \E o \in Outcomes : HttpResponse(o)
  <2>1. UNCHANGED <<transactions, sent>>
    BY <1>4, OtherSteps
  <2>2. posted' = posted
    BY <1>4, OtherSteps DEF CollectApplications, MarshalAndCount, Export, Return, GiveUp
  <2> QED  BY <2>1, <2>2 DEF ErrorsInv, ErrorsReportedOnce, Requests
<1> QED  BY <1>1, <1>2, <1>3, <1>4

(* Complete batches: SendTransactions scans a transaction once, so that a  *)
(* packet reports each error of a transaction once.                        *)
THEOREM ErrorsCorrect ==
    ASSUME CompleteBatches, Encodable PROVE Spec => []ErrorsReportedOnce
<1>1. Init => PushInv /\ ErrorsInv /\ ErrorsReportedOnce
  BY PushInvariant DEF Init, ErrorsInv, ErrorsReportedOnce, Requests
<1>2. /\ PushInv /\ ErrorsInv /\ ErrorsReportedOnce /\ [Next]_vars
        => (PushInv /\ ErrorsInv /\ ErrorsReportedOnce)'
  BY PushInvariant, NextErrors
<1> QED  BY <1>1, <1>2, PTL DEF Spec
-----------------------------------------------------------------------------
(* The dictionary of agents grows at its end.                              *)
LEMMA AgentsGrow ==
    ASSUME NEW agents \in Seq(Agents), NEW s \in Span, NEW i \in DOMAIN agents
    PROVE  i \in DOMAIN AgentsAfter(agents, s) /\ AgentsAfter(agents, s)[i] = agents[i]
<1>1. CASE AgentsAfter(agents, s) = agents
  BY <1>1
<1>2. CASE AgentsAfter(agents, s) = Append(agents, s.agent)
  BY <1>2
<1> QED  BY <1>1, <1>2 DEF AgentsAfter

(* An id that resolves goes on resolving, and the id an entry span gives   *)
(* its transaction resolves.                                               *)
LEMMA AbsorbResolves ==
    ASSUME rawdata \in RawData, NEW t \in Transaction, NEW s \in Spans
    PROVE  LET after == AgentsAfter(rawdata.agents, s)
           IN  /\ Resolves(t, rawdata.agents) => Resolves(t, after)
               /\ Resolves(t, rawdata.agents) => Resolves(Absorb(t, s), after)
<1> DEFINE after == AgentsAfter(rawdata.agents, s)
<1>1. rawdata.agents \in Seq(Agents) /\ s \in Span
  BY ExporterAssumption DEF RawData
<1>2. Resolves(t, rawdata.agents) => Resolves(t, after)
  BY <1>1, AgentsGrow DEF Resolves
<1>3. ASSUME IsEntry(s), s.agent # Nil
      PROVE  /\ AgentID(after, s.agent) + 1 \in DOMAIN after
             /\ after[AgentID(after, s.agent) + 1] = s.agent
  <2>1. after \in Seq(Agents) /\ Registered(after, s.agent)
    BY <1>1, <1>3, AgentsAfterType
  <2> HIDE DEF after
  <2>2. /\ Position(after, s.agent) \in DOMAIN after
        /\ after[Position(after, s.agent)] = s.agent
    BY <2>1 DEF Registered, Position
  <2>3. AgentID(after, s.agent) + 1 = Position(after, s.agent)
    BY <2>1, <2>2 DEF AgentID
  <2> QED  BY <2>2, <2>3
<1> HIDE DEF after
<1>4. /\ Absorb(t, s).agent = IF IsEntry(s) /\ s.agent # Nil THEN s.agent ELSE t.agent
      /\ Absorb(t, s).agentID = IF IsEntry(s) /\ s.agent # Nil
                                THEN AgentID(after, s.agent) ELSE t.agentID
  BY Absorbed DEF after
<1>5. ASSUME Resolves(t, rawdata.agents) PROVE Resolves(Absorb(t, s), after)
  <2>1. CASE IsEntry(s) /\ s.agent # Nil
    BY <1>3, <1>4, <2>1 DEF Resolves
  <2>2. CASE ~(IsEntry(s) /\ s.agent # Nil)
    BY <1>2, <1>4, <1>5, <2>2 DEF Resolves
  <2> QED  BY <2>1, <2>2
<1> QED  BY <1>2, <1>5 DEF after

(* What the fold of a span leaves of the agents.                           *)
LEMMA ConvertAgents ==
    ASSUME PushInv, AgentsInv, ConvertSpan PROVE AgentsInv'
<1>0. TypeOK /\ DeliveryInv /\ CompleteInv
  BY DEF PushInv
<1>1. /\ pc = "convert" /\ pc' = pc /\ rawdata \in RawData /\ rawdata # Nil
      /\ UNCHANGED <<pos, transactions, rawdata>> \/ \E s, t : Folded(s, t)
  BY <1>0, NilAssumption, ConvertStep
<1>2. CASE UNCHANGED <<pos, transactions, rawdata>>
  BY <1>1, <1>2 DEF AgentsInv
<1>3. CASE \E s, t : Folded(s, t)
  <2>1. PICK s, t : Folded(s, t)
    BY <1>3
  <2>2. /\ s \in Spans /\ t \in Transaction
        /\ rawdata'.agents = AgentsAfter(rawdata.agents, s)
        /\ DOMAIN transactions' = DOMAIN transactions \cup {s.trace}
        /\ transactions'[s.trace] = Absorb(t, s)
        /\ \A u \in DOMAIN transactions \ {s.trace} : transactions'[u] = transactions[u]
    BY <2>1 DEF Folded
  <2>3. ASSUME NEW u \in DOMAIN transactions \ {s.trace}, transactions[u].app # NoApp
        PROVE  Resolves(transactions'[u], rawdata'.agents)
    <3>1. transactions[u] \in Transaction /\ Resolves(transactions[u], rawdata.agents)
      BY <1>0, <1>1, <2>3 DEF AgentsInv, TypeOK, BufferType
    <3> QED  BY <1>1, <2>2, <2>3, <3>1, AbsorbResolves
  <2>4. SpanApp(s) # NoApp => Resolves(t, rawdata.agents)
    <3>1. CASE s.trace \notin DOMAIN transactions
      BY <2>1, <3>1 DEF Folded, NewTransaction, Resolves
    <3>2. CASE s.trace \in DOMAIN transactions
      <4>1. t = transactions[s.trace] /\ (Anonymous(s.trace) \/ Named(s.trace))
        BY <1>0, <2>1, <3>2 DEF Folded, CompleteInv
      <4>2. SpanApp(s) # NoApp => transactions[s.trace].app # NoApp
        BY <1>0, <2>2, <3>2, <4>1, TraceApp DEF Anonymous
      <4> QED  BY <1>1, <3>2, <4>1, <4>2 DEF AgentsInv
    <3> QED  BY <3>1, <3>2
  <2>5. SpanApp(s) # NoApp => Resolves(transactions'[s.trace], rawdata'.agents)
    BY <1>1, <2>2, <2>4, AbsorbResolves
  <2>6. transactions'[s.trace].app = SpanApp(s)
    BY <2>2, Absorbed
  <2>7. \A u \in DOMAIN transactions' :
           transactions'[u].app # NoApp => Resolves(transactions'[u], rawdata'.agents)
    BY <2>2, <2>3, <2>5, <2>6
  <2> QED  BY <1>1, <2>7 DEF AgentsInv
<1> QED  BY <1>1, <1>2, <1>3

(* The packet that is open when a transaction leaves the buffer is the one *)
(* that was open when its first span was folded.                           *)
LEMMA NextAgents ==
    ASSUME Encodable, PushInv, AgentsInv, AgentsResolve, [Next]_vars
    PROVE  AgentsInv' /\ AgentsResolve'
<1> USE DEF push, loop, ghost
<1>0. TypeOK /\ PacketInv /\ DeliveryInv /\ CompleteInv
  BY DEF PushInv
<1>1. CASE ConvertSpan
  BY <1>0, <1>1, ConvertStep, ConvertAgents DEF AgentsResolve, Requests
<1>2. ASSUME NEW a \in Apps, SendTransactions(a), rawdata # Nil
      PROVE  AgentsInv' /\ AgentsResolve'
  <2>1. /\ pc = "loop" /\ pc' = "marshal" /\ posted' = posted
        /\ rawdata'.agents = rawdata.agents
        /\ sent' = {Reported(transactions[u]) :
                      u \in {v \in DOMAIN transactions : transactions[v].app = a}}
    BY <1>0, <1>2, SendStep
  <2>2. ASSUME NEW u \in DOMAIN transactions, transactions[u].app = a
        PROVE  Resolves(Reported(transactions[u]), rawdata'.agents)
    <3>1. Resolves(transactions[u], rawdata.agents)
      BY <1>2, <2>1, <2>2, SpanAssumption DEF AgentsInv
    <3>2. transactions[u] \in Transaction
      BY <1>0 DEF TypeOK, BufferType
    <3>3. /\ Reported(transactions[u]).agent = transactions[u].agent
          /\ Reported(transactions[u]).agentID = transactions[u].agentID
      BY <3>2 DEF Reported, Transaction
    <3> QED  BY <2>1, <3>1, <3>3 DEF Resolves
  <2>3. \A t \in sent' : Resolves(t, rawdata'.agents)
    BY <2>1, <2>2
  <2> QED  BY <2>1, <2>3 DEF AgentsInv, AgentsResolve, Requests
<1>3. ASSUME NEW o \in Outcomes, HttpResponse(o) PROVE AgentsInv' /\ AgentsResolve'
  <2>1. /\ pc = "http" /\ pc' = "loop" /\ rawdata' = Nil
        /\ \E r \in Request : /\ Requests' = Requests \cup {r}
                              /\ r.packet = request /\ r.packet.transactions = sent
    BY <1>0, <1>3, Posts
  <2>2. AgentsInv'
    BY <2>1 DEF AgentsInv
  <2>3. \A t \in sent : Resolves(t, request.agents)
    BY <2>1 DEF AgentsInv
  <2> QED  BY <2>1, <2>2, <2>3 DEF AgentsResolve, Resolves
<1>4. CASE /\ ~ConvertSpan /\ ~ \E a \in Apps : SendTransactions(a) /\ rawdata # Nil
           /\ ~ \E o \in Outcomes : HttpResponse(o)
  <2>1. UNCHANGED <<transactions, sent>>
    BY <1>4, OtherSteps
  <2>2. posted' = posted
    BY <1>4, OtherSteps DEF CollectApplications, MarshalAndCount, Export, Return, GiveUp
  <2>3. AgentsResolve'
    BY <2>2 DEF AgentsResolve, Requests
  <2>4. ASSUME UNCHANGED <<pc, rawdata, request>> PROVE AgentsInv'
    BY <2>1, <2>4 DEF AgentsInv
  <2>5. ASSUME pc \in {"idle", "backoff"}, pc' = "convert" PROVE AgentsInv'
    BY <1>0, <2>1, <2>5 DEF AgentsInv, CompleteInv
  <2>6. ASSUME CollectApplications PROVE AgentsInv'
    BY <2>1, <2>6 DEF CollectApplications, AgentsInv
  <2>7. ASSUME MarshalAndCount PROVE AgentsInv'
    BY <2>1, <2>7 DEF MarshalAndCount, AgentsInv
  <2>8. ASSUME Export PROVE AgentsInv'
    BY <2>1, <2>8 DEF Export, AgentsInv
  <2>9. ASSUME Return \/ GiveUp PROVE AgentsInv'
    BY <2>1, <2>9 DEF Return, GiveUp, AgentsInv
  <2> QED
    BY <1>4, <2>3, <2>4, <2>5, <2>6, <2>7, <2>8, <2>9, OtherSteps
<1> QED  BY <1>1, <1>2, <1>3, <1>4

(* Complete batches: the dictionary of a packet maps the useragentId of    *)
(* its transactions to their userAgent.                                    *)
THEOREM AgentsCorrect ==
    ASSUME CompleteBatches, Encodable PROVE Spec => []AgentsResolve
<1>1. Init => PushInv /\ AgentsInv /\ AgentsResolve
  BY PushInvariant DEF Init, AgentsInv, AgentsResolve, Requests
<1>2. /\ PushInv /\ AgentsInv /\ AgentsResolve /\ [Next]_vars
        => (PushInv /\ AgentsInv /\ AgentsResolve)'
  BY PushInvariant, NextAgents
<1> QED  BY <1>1, <1>2, PTL DEF Spec
-----------------------------------------------------------------------------
(* A folded span is held besides the spans that were, and does not change  *)
(* whether its transaction has an application.                             *)
LEMMA FoldedHolds ==
    ASSUME PushInv, NEW s, NEW t, Folded(s, t)
    PROVE  /\ \A r : Holds(transactions'[s.trace], r) <=> Holds(t, r) \/ r = s
           /\ \A r : s.trace \notin DOMAIN transactions => ~Holds(t, r)
           /\ transactions'[s.trace].app = SpanApp(s)
           /\ s.trace \in DOMAIN transactions =>
                (transactions[s.trace].app = NoApp <=> SpanApp(s) = NoApp)
<1>1. /\ s \in Spans /\ t \in Transaction
      /\ transactions'[s.trace] = Absorb(t, s)
      /\ s.trace \notin DOMAIN transactions => t.spans = <<>>
  BY DEF Folded, NewTransaction
<1>2. Absorb(t, s).spans = Append(t.spans, s) /\ Absorb(t, s).app = SpanApp(s)
  BY Absorbed
<1>3. t.spans \in Seq(Spans)
  BY <1>1 DEF Transaction
<1>4. \A r : Holds(Absorb(t, s), r) <=> Holds(t, r) \/ r = s
  <2>1. /\ DOMAIN Append(t.spans, s) = DOMAIN t.spans \cup {Len(t.spans) + 1}
        /\ \A i \in DOMAIN t.spans : Append(t.spans, s)[i] = t.spans[i]
        /\ Append(t.spans, s)[Len(t.spans) + 1] = s
    BY <1>3
  <2> QED  BY <1>2, <2>1 DEF Holds
<1>5. ASSUME s.trace \in DOMAIN transactions
      PROVE  transactions[s.trace].app = NoApp <=> SpanApp(s) = NoApp
  <2>1. TypeOK /\ DeliveryInv /\ (Anonymous(s.trace) \/ Named(s.trace))
    BY <1>5 DEF PushInv, CompleteInv
  <2> QED  BY <1>1, <1>5, <2>1, TraceApp DEF Anonymous, Named
<1> QED  BY <1>1, <1>2, <1>4, <1>5 DEF Holds

(* A conversion moves one span into the buffer and none out of it.         *)
LEMMA ConvertMoves ==
    ASSUME PushInv, ConvertSpan, NEW r
    PROVE  /\ Accepted(r)' <=> Accepted(r)
           /\ InBuffer(r) => InBuffer(r)'
           /\ Stays(r) => Stays(r)'
           /\ Begun(r)' => Begun(r) \/ InBuffer(r)'
<1>0. TypeOK /\ DeliveryInv /\ CompleteInv
  BY DEF PushInv
<1>1. /\ pc = "convert" /\ UNCHANGED <<pc, batch, posted, done>>
      /\ UNCHANGED <<pos, transactions, rawdata>> \/ \E s, t : Folded(s, t)
  BY <1>0, ConvertStep
<1>2. Accepted(r)' <=> Accepted(r)
  BY <1>1 DEF Accepted, Requests, Holds
<1>3. CASE UNCHANGED <<pos, transactions, rawdata>>
  BY <1>1, <1>2, <1>3 DEF Stays, InBuffer, Begun, Holds
<1>4. CASE \E s, t : Folded(s, t)
  <2>1. PICK s, t : Folded(s, t)
    BY <1>4
  <2>2. /\ pos \in DOMAIN batch /\ s = batch[pos] /\ pos' = pos + 1
        /\ s.trace \in DOMAIN transactions => t = transactions[s.trace]
        /\ DOMAIN transactions' = DOMAIN transactions \cup {s.trace}
        /\ \A u \in DOMAIN transactions \ {s.trace} : transactions'[u] = transactions[u]
    BY <2>1 DEF Folded
  <2>3. /\ \A q : Holds(transactions'[s.trace], q) <=> Holds(t, q) \/ q = s
        /\ transactions'[s.trace].app = SpanApp(s)
        /\ s.trace \in DOMAIN transactions =>
             (transactions[s.trace].app = NoApp <=> SpanApp(s) = NoApp)
    BY <2>1, FoldedHolds
  <2>4. \A u \in DOMAIN transactions :
           /\ u \in DOMAIN transactions'
           /\ Holds(transactions[u], r) => Holds(transactions'[u], r)
           /\ transactions[u].app = NoApp => transactions'[u].app = NoApp
    BY <2>2, <2>3
  <2>5. (InBuffer(r) => InBuffer(r)') /\ (Stays(r) => Stays(r)')
    <3>1. \A u : Holds(transactions[u], r)' <=> Holds(transactions'[u], r)
      BY DEF Holds
    <3> QED  BY <2>4, <3>1 DEF InBuffer, Stays
  <2>6. r = s => InBuffer(r)'
    BY <2>2, <2>3 DEF InBuffer, Holds
  <2>7. Begun(r)' => Begun(r) \/ r = s
    <3>1. \A i \in DOMAIN batch : i < pos' => i < pos \/ i = pos
      BY <1>0, <2>2 DEF TypeOK, ControlType
    <3> QED  BY <1>1, <2>2, <3>1 DEF Begun
  <2> QED  BY <1>2, <2>5, <2>6, <2>7
<1> QED  BY <1>1, <1>3, <1>4

(* A turn moves the spans of its application into the packet.              *)
LEMMA SendMoves ==
    ASSUME PushInv, NEW a \in Apps, SendTransactions(a), rawdata # Nil, NEW r
    PROVE  /\ Accepted(r)' <=> Accepted(r)
           /\ InBatch(r)' <=> InBatch(r)
           /\ Stays(r) => Stays(r)'
           /\ InBuffer(r) => InBuffer(r)' \/ InTurn(r)'
<1>0. TypeOK /\ CompleteInv
  BY DEF PushInv
<1>1. /\ UNCHANGED <<batch, posted>>
      /\ DOMAIN transactions' = {u \in DOMAIN transactions : transactions[u].app # a}
      /\ \A u \in DOMAIN transactions' : transactions'[u] = transactions[u]
      /\ sent' = {Reported(transactions[u]) :
                    u \in {v \in DOMAIN transactions : transactions[v].app = a}}
  BY <1>0, SendStep
<1>2. (Accepted(r)' <=> Accepted(r)) /\ (InBatch(r)' <=> InBatch(r))
  BY <1>1 DEF Accepted, InBatch, Requests, Holds
<1>3. \A u : Holds(transactions[u], r)' <=> Holds(transactions'[u], r)
  BY DEF Holds
<1>4. InTurn(r)' <=> \E t \in sent' : Holds(t, r)
  BY DEF InTurn, Holds
<1>5. Stays(r) => Stays(r)'
  BY <1>1, <1>3, SpanAssumption DEF Stays
<1>6. \A u \in DOMAIN transactions :
         Holds(Reported(transactions[u]), r) <=> Holds(transactions[u], r)
  BY <1>0, ReportedSound DEF TypeOK, BufferType
<1>7. InBuffer(r) => InBuffer(r)' \/ InTurn(r)'
  BY <1>1, <1>3, <1>4, <1>6 DEF InBuffer
<1> QED  BY <1>2, <1>5, <1>7

(* A request that is accepted delivers the packet of its turn.             *)
LEMMA PostMoves ==
    ASSUME Encodable, PushInv, NEW o \in Outcomes, HttpResponse(o), NEW s
    PROVE  /\ InBatch(s)' <=> InBatch(s)
           /\ Stays(s)' <=> Stays(s)
           /\ InBuffer(s)' <=> InBuffer(s)
           /\ Accepted(s) => Accepted(s)'
           /\ Accepted(s)' => Accepted(s) \/ InTurn(s)
           /\ o = "ok" /\ InTurn(s) => Accepted(s)'
           /\ o \in {"retryable", "permanent"} => (Accepted(s)' <=> Accepted(s))
<1>0. TypeOK /\ PacketInv /\ DeliveryInv
  BY DEF PushInv
<1>1. UNCHANGED <<transactions, sent, batch>>
  BY <1>0, Posts
<1>2. PICK r \in Request :
        /\ Requests' = Requests \cup {r} /\ r.packet.transactions = sent
        /\ o # "lost" => r.accepted = (o \in {"ok", "unreadable"})
  BY <1>0, Posts
<1>3. (Stays(s)' <=> Stays(s)) /\ (InBuffer(s)' <=> InBuffer(s)) /\ (InBatch(s)' <=> InBatch(s))
  BY <1>1 DEF Stays, InBuffer, InBatch, Holds
<1>4. Accepted(s)' <=> Accepted(s) \/ (r.accepted /\ InTurn(s))
  BY <1>2 DEF Accepted, InTurn, Holds
<1> QED  BY <1>2, <1>3, <1>4

(* The other steps move no span.                                           *)
LEMMA OtherMoves ==
    ASSUME [Next]_vars, ~ConvertSpan,
           ~ \E a \in Apps : SendTransactions(a) /\ rawdata # Nil,
           ~ \E o \in Outcomes : HttpResponse(o)
    PROVE  /\ posted' = posted
           /\ \A s : /\ Accepted(s)' <=> Accepted(s)
                     /\ Stays(s)' <=> Stays(s)
                     /\ InBuffer(s)' <=> InBuffer(s)
                     /\ InTurn(s)' <=> InTurn(s)
<1> USE DEF push, loop, ghost
<1>1. UNCHANGED <<transactions, sent>>
  BY OtherSteps
<1>2. posted' = posted
  BY OtherSteps DEF CollectApplications, MarshalAndCount, Export, Return, GiveUp
<1> QED  BY <1>1, <1>2 DEF Accepted, Stays, InBuffer, InTurn, Requests, Holds
-----------------------------------------------------------------------------
(* The spans of the batches that are done stay where they are.             *)
LEMMA DoneStays ==
    ASSUME LossInv, done' = done,
           \A s : (Accepted(s) => Accepted(s)') /\ (Stays(s) => Stays(s)')
    PROVE  \A b \in done' : \A i \in DOMAIN b : Accepted(b[i])' \/ Stays(b[i])'
BY DEF LossInv

(* A batch that is converted is in the buffer, each span a turn sends is   *)
(* accepted or the push returns an error, and a push that returns none has *)
(* sent everything that does not stay.                                     *)
LEMMA NextLoss ==
    ASSUME Encodable, PushInv, LossInv, [Next]_vars PROVE LossInv'
<1> USE DEF push, loop, ghost
<1>0. TypeOK /\ PacketInv /\ DeliveryInv /\ CompleteInv
  BY DEF PushInv
<1>1. CASE ConvertSpan
  <2>1. pc = "convert" /\ UNCHANGED <<pc, done>>
    BY <1>0, <1>1, ConvertStep
  <2>2. \A s \in Spans : Begun(s)' => InBuffer(s)'
    BY <1>1, <2>1, ConvertMoves DEF LossInv
  <2>3. \A b \in done' : \A i \in DOMAIN b : Accepted(b[i])' \/ Stays(b[i])'
    BY <1>1, <2>1, ConvertMoves, DoneStays
  <2> QED  BY <2>1, <2>2, <2>3 DEF LossInv, Turn
<1>2. ASSUME NEW a \in Apps, SendTransactions(a), rawdata # Nil PROVE LossInv'
  <2>1. /\ pc = "loop" /\ pc' = "marshal" /\ UNCHANGED <<err, done>>
    BY <1>0, <1>2, SendStep
  <2>2. err = "none" => \A s \in Spans : InBatch(s)' => Accepted(s)' \/ InBuffer(s)' \/ InTurn(s)'
    BY <1>2, <2>1, SendMoves DEF LossInv, Turn
  <2>3. \A b \in done' : \A i \in DOMAIN b : Accepted(b[i])' \/ Stays(b[i])'
    BY <1>2, <2>1, SendMoves, DoneStays
  <2> QED  BY <2>1, <2>2, <2>3 DEF LossInv
<1>3. ASSUME NEW o \in Outcomes, HttpResponse(o) PROVE LossInv'
  <2>1. /\ pc = "http" /\ pc' = "loop" /\ done' = done
        /\ Note(CASE o = "ok" -> "none" [] o = "permanent" -> "permanent"
                  [] OTHER -> "retryable")
    BY <1>0, <1>3, Posts
  <2>2. err' = "none" => err = "none" /\ o = "ok"
    BY <2>1 DEF Note
  <2>3. err' = "none" => \A s \in Spans : InBatch(s)' => Accepted(s)' \/ InBuffer(s)'
    BY <1>3, <2>1, <2>2, PostMoves DEF LossInv, Turn
  <2>4. \A b \in done' : \A i \in DOMAIN b : Accepted(b[i])' \/ Stays(b[i])'
    BY <1>3, <2>1, PostMoves, DoneStays
  <2> QED  BY <2>1, <2>3, <2>4 DEF LossInv
<1>4. CASE /\ ~ConvertSpan /\ ~ \E a \in Apps : SendTransactions(a) /\ rawdata # Nil
           /\ ~ \E o \in Outcomes : HttpResponse(o)
  <2>1. \A s : /\ (Accepted(s)' <=> Accepted(s))
               /\ (Stays(s)' <=> Stays(s))
               /\ (InBuffer(s)' <=> InBuffer(s))
               /\ (InTurn(s)' <=> InTurn(s))
    BY <1>4, OtherMoves
  <2>2. done' = done =>
          \A b \in done' : \A i \in DOMAIN b : Accepted(b[i])' \/ Stays(b[i])'
    BY <2>1, DoneStays
  <2>3. batch' = batch => \A s : InBatch(s)' <=> InBatch(s)
    BY DEF InBatch
  <2>4. CASE UNCHANGED <<pc, batch, pos, err, done>>
    <3>1. \A s : Begun(s)' <=> Begun(s)
      BY <2>4 DEF Begun
    <3> QED  BY <2>1, <2>2, <2>3, <2>4, <3>1 DEF LossInv
  <2>5. CASE pc' = "convert" /\ pos' = 1 /\ done' = done /\ batch' \in Seq(Spans)
    <3>1. \A s : ~Begun(s)'
      BY <2>5 DEF Begun
    <3> QED  BY <2>2, <2>5, <3>1 DEF LossInv, Turn
  <2>6. CASE CollectApplications
    <3>1. /\ pc = "convert" /\ pos > Len(batch) /\ pc' = "loop"
          /\ UNCHANGED <<batch, done>>
      BY <2>6 DEF CollectApplications
    <3>2. \A s : InBatch(s) => Begun(s)
      BY <1>0, <3>1 DEF TypeOK, ControlType, InBatch, Begun
    <3> QED  BY <2>1, <2>2, <2>3, <3>1, <3>2 DEF LossInv
  <2>7. CASE MarshalAndCount \/ Export
    <3>1. /\ pc \in Turn \ {"loop"} /\ pc' \in Turn
          /\ UNCHANGED <<batch, done>>
          /\ err' = "none" => err = "none" /\ pc' # "loop"
      BY <2>7 DEF MarshalAndCount, Export, Turn, Encodable, Note
    <3> QED  BY <2>1, <2>2, <2>3, <3>1 DEF LossInv, Turn
  <2>8. CASE Return
    <3>1. /\ pc = "loop" /\ pending = {} /\ pc' \in {"idle", "backoff"}
          /\ done' = done \/ (err = "none" /\ done' = done \cup {batch})
      BY <1>0, <2>8 DEF Return, CompleteInv
    <3>2. \A u \in DOMAIN transactions : transactions[u].app = NoApp
      BY <1>0, <3>1 DEF CompleteInv, Turn
    <3>3. \A s : InBuffer(s) => Stays(s)
      BY <3>2 DEF InBuffer, Stays
    <3>4. batch \in Seq(Spans)
      BY <1>0 DEF TypeOK, ControlType
    <3>5. err = "none" => \A i \in DOMAIN batch : Accepted(batch[i]) \/ Stays(batch[i])
      <4>1. \A i \in DOMAIN batch : batch[i] \in Spans /\ InBatch(batch[i])
        BY <3>4 DEF InBatch
      <4> QED  BY <3>1, <3>3, <4>1 DEF LossInv, Turn
    <3>6. \A b \in done' : \A i \in DOMAIN b : Accepted(b[i]) \/ Stays(b[i])
      BY <3>1, <3>5 DEF LossInv
    <3>7. \A b \in done' : \A i \in DOMAIN b : Accepted(b[i])' \/ Stays(b[i])'
      BY <2>1, <3>6
    <3> QED  BY <3>1, <3>7 DEF LossInv, Turn
  <2>9. CASE GiveUp
    <3>1. pc' = "idle" /\ done' = done
      BY <2>9 DEF GiveUp
    <3> QED  BY <2>2, <3>1 DEF LossInv, Turn
  <2>10. batch \in Seq(Spans) /\ Batches \subseteq Seq(Spans)
    BY <1>0, ExporterAssumption DEF TypeOK, ControlType
  <2> QED
    BY <1>4, <2>4, <2>5, <2>6, <2>7, <2>8, <2>9, <2>10, OtherSteps
<1> QED  BY <1>1, <1>2, <1>3, <1>4

(* Complete batches: when pushTraces returns nil, every span of the batch  *)
(* is in a packet the server took or waits in the buffer for an            *)
(* application, whatever failed before and however often it was retried.   *)
THEOREM LossCorrect ==
    ASSUME CompleteBatches, Encodable PROVE Spec => []NothingLost
<1>1. Init => PushInv /\ LossInv
  BY PushInvariant DEF Init, LossInv, Turn
<1>2. PushInv /\ LossInv /\ [Next]_vars => (PushInv /\ LossInv)'
  BY PushInvariant, NextLoss
<1>3. LossInv => NothingLost
  BY DEF LossInv, NothingLost, Accepted, Stays
<1> QED  BY <1>1, <1>2, <1>3, PTL DEF Spec
-----------------------------------------------------------------------------
(* A span of the batch that has not been folded yet is in no transaction.  *)
LEMMA ConvertFromThisBatch ==
    ASSUME SpansDistinct, PushInv, FromThisBatch, ConvertSpan
    PROVE  FromThisBatch'
<1>0. TypeOK /\ DeliveryInv /\ CompleteInv
  BY DEF PushInv
<1>1. /\ pc = "convert" /\ UNCHANGED <<pc, batch, sent>>
      /\ UNCHANGED <<pos, transactions, rawdata>> \/ \E s, t : Folded(s, t)
  BY <1>0, ConvertStep
<1>2. \A t, u \in sent : t.uuid = u.uuid => t = u
  BY DEF FromThisBatch
<1>3. CASE UNCHANGED <<pos, transactions, rawdata>>
  BY <1>1, <1>2, <1>3 DEF FromThisBatch, Turn, Begun, Holds, Pure
<1>4. CASE \E s, t : Folded(s, t)
  <2>1. PICK s, t : Folded(s, t)
    BY <1>4
  <2>2. /\ pos \in DOMAIN batch /\ s = batch[pos] /\ pos' = pos + 1 /\ t \in Transaction
        /\ s.trace \in DOMAIN transactions => t = transactions[s.trace]
        /\ DOMAIN transactions' = DOMAIN transactions \cup {s.trace}
        /\ \A u \in DOMAIN transactions \ {s.trace} : transactions'[u] = transactions[u]
        /\ s.trace \notin DOMAIN transactions => t.spans = <<>>
        /\ transactions'[s.trace].spans = Append(t.spans, s)
    BY <2>1, Absorbed DEF Folded, NewTransaction
  <2>3. /\ \A r : Holds(transactions'[s.trace], r) <=> Holds(t, r) \/ r = s
        /\ transactions'[s.trace].app = SpanApp(s)
        /\ s.trace \in DOMAIN transactions =>
             (transactions[s.trace].app = NoApp <=> SpanApp(s) = NoApp)
    BY <2>1, FoldedHolds
  <2>4. /\ \A r : Begun(r) => Begun(r)'
        /\ Begun(s)'
    <3>1. \A i \in DOMAIN batch : i \in Nat
      BY <1>0 DEF TypeOK, ControlType
    <3>2. pos < pos' /\ \A i \in DOMAIN batch : i < pos => i < pos'
      BY <2>2, <3>1
    <3> QED  BY <1>1, <2>2, <3>2 DEF Begun
  <2>5. ~Begun(s)
    <3>1. batch \in Batches
      BY <1>0, <1>1 DEF TypeOK, ControlType
    <3>2. \A i \in DOMAIN batch : batch[i] = batch[pos] => i = pos
      BY <2>2, <3>1 DEF SpansDistinct
    <3> QED  BY <1>0, <2>2, <3>2 DEF Begun, TypeOK, ControlType
  <2>6. ASSUME SpanApp(s) # NoApp
        PROVE  /\ Pure(t)
               /\ \A r \in Spans : Holds(t, r) => Begun(r)
    <3>1. CASE s.trace \in DOMAIN transactions
      BY <1>1, <2>2, <2>3, <2>6, <3>1 DEF FromThisBatch
    <3>2. CASE s.trace \notin DOMAIN transactions
      BY <2>2, <3>2 DEF Pure, Holds
    <3> QED  BY <3>1, <3>2
  <2>7. ASSUME SpanApp(s) # NoApp PROVE Pure(transactions'[s.trace])
    <3>1. t.spans \in Seq(Spans) /\ s \in Spans
      BY <2>1, <2>2 DEF Folded, Transaction
    <3>2. \A i \in DOMAIN t.spans : t.spans[i] # s
      BY <2>1, <2>5, <2>6, <2>7 DEF Folded, Holds
    <3>3. /\ DOMAIN Append(t.spans, s) = DOMAIN t.spans \cup {Len(t.spans) + 1}
          /\ \A i \in DOMAIN t.spans : Append(t.spans, s)[i] = t.spans[i]
          /\ Append(t.spans, s)[Len(t.spans) + 1] = s
      BY <3>1
    <3> QED  BY <2>2, <2>6, <2>7, <3>2, <3>3 DEF Pure
  <2>8. ASSUME SpanApp(s) # NoApp, NEW r \in Spans, Holds(transactions'[s.trace], r)
        PROVE  Begun(r)'
    BY <2>3, <2>4, <2>6, <2>8
  <2>9. ASSUME NEW u \in DOMAIN transactions \ {s.trace}, transactions[u].app # NoApp
        PROVE  Pure(transactions[u]) /\ \A r \in Spans : Holds(transactions[u], r) => Begun(r)'
    BY <1>1, <2>4, <2>9 DEF FromThisBatch
  <2>10. ASSUME NEW u \in DOMAIN transactions', transactions'[u].app # NoApp
         PROVE  /\ Pure(transactions'[u])
                /\ \A r \in Spans : Holds(transactions'[u], r) => Begun(r)'
    BY <2>2, <2>3, <2>7, <2>8, <2>9, <2>10
  <2>11. \A u, r : /\ Holds(transactions[u], r)' <=> Holds(transactions'[u], r)
                   /\ Pure(transactions[u])' <=> Pure(transactions'[u])
    BY DEF Holds, Pure
  <2> QED  BY <1>1, <1>2, <2>10, <2>11 DEF FromThisBatch, Turn
<1> QED  BY <1>1, <1>3, <1>4

(* The transactions of a turn come from different traces of the batch.     *)
LEMMA SendFromThisBatch ==
    ASSUME PushInv, FromThisBatch, NEW a \in Apps, SendTransactions(a), rawdata # Nil
    PROVE  FromThisBatch'
<1>0. TypeOK /\ CompleteInv
  BY DEF PushInv
<1>1. /\ pc = "loop" /\ pc' = "marshal" /\ UNCHANGED <<batch, pos>>
      /\ DOMAIN transactions' = {u \in DOMAIN transactions : transactions[u].app # a}
      /\ \A u \in DOMAIN transactions' : transactions'[u] = transactions[u]
      /\ sent' = {Reported(transactions[u]) :
                    u \in {v \in DOMAIN transactions : transactions[v].app = a}}
  BY <1>0, SendStep
<1>2. \A s : Begun(s)' <=> Begun(s)
  BY <1>1 DEF Begun
<1>3. \A u \in DOMAIN transactions : transactions[u].app # NoApp =>
         Pure(transactions[u]) /\ \A s \in Spans : Holds(transactions[u], s) => Begun(s)
  BY <1>1 DEF FromThisBatch, Turn
<1>4. \A u \in DOMAIN transactions :
         /\ Reported(transactions[u]).uuid = u
         /\ Reported(transactions[u]).spans = transactions[u].spans
  <2>1. \A t \in Transaction : Reported(t).uuid = t.uuid /\ Reported(t).spans = t.spans
    BY DEF Reported, Transaction
  <2> QED  BY <1>0, <2>1 DEF TypeOK, BufferType
<1>5. \A t \in sent' : Pure(t) /\ \A s \in Spans : Holds(t, s) => Begun(s)'
  BY <1>1, <1>2, <1>3, <1>4, SpanAssumption DEF Pure, Holds
<1>6. \A t, u \in sent' : t.uuid = u.uuid => t = u
  BY <1>1, <1>4
<1>7. \A u \in DOMAIN transactions' : transactions'[u].app # NoApp =>
         Pure(transactions'[u]) /\ \A s \in Spans : Holds(transactions'[u], s) => Begun(s)'
  BY <1>1, <1>2, <1>3
<1>8. \A u, r : /\ Holds(transactions[u], r)' <=> Holds(transactions'[u], r)
                /\ Pure(transactions[u])' <=> Pure(transactions'[u])
  BY DEF Holds, Pure
<1> QED  BY <1>1, <1>5, <1>6, <1>7, <1>8 DEF FromThisBatch, Turn, Pure, Holds

LEMMA NextFromThisBatch ==
    ASSUME SpansDistinct, Encodable, PushInv, FromThisBatch, [Next]_vars
    PROVE  FromThisBatch'
<1> USE DEF push, loop, ghost
<1>0. TypeOK /\ PacketInv /\ DeliveryInv /\ CompleteInv
  BY DEF PushInv
<1>1. CASE ConvertSpan
  BY <1>1, ConvertFromThisBatch
<1>2. CASE \E a \in Apps : SendTransactions(a) /\ rawdata # Nil
  BY <1>2, SendFromThisBatch
<1>3. CASE \E o \in Outcomes : HttpResponse(o)
  <2>1. /\ pc = "http" /\ pc' = "loop"
        /\ UNCHANGED <<transactions, sent, batch, pos>>
    BY <1>0, <1>3, Posts
  <2> QED  BY <2>1 DEF FromThisBatch, Turn, Pure, Holds, Begun
<1>4. CASE /\ ~ConvertSpan /\ ~ \E a \in Apps : SendTransactions(a) /\ rawdata # Nil
           /\ ~ \E o \in Outcomes : HttpResponse(o)
  <2>1. UNCHANGED <<transactions, sent>>
    BY <1>4, OtherSteps
  <2>2. \/ UNCHANGED <<pc, batch, pos>>
        \/ pc \in {"idle", "backoff"} /\ pc' = "convert"
        \/ pc \in {"convert"} \cup Turn /\ pc' = "loop" /\ UNCHANGED <<batch, pos>>
        \/ pc \in Turn \ {"loop"} /\ pc' \in Turn /\ UNCHANGED <<batch, pos>>
        \/ pc' \in {"idle", "backoff"}
    BY <1>0, <1>4, OtherSteps
    DEF CollectApplications, MarshalAndCount, Export, Return, GiveUp, Turn, Encodable
  <2>3. CASE pc \in {"idle", "backoff"} /\ pc' = "convert"
    <3>1. \A u \in DOMAIN transactions : transactions[u].app = NoApp
      BY <1>0, <2>3 DEF CompleteInv
    <3> QED  BY <2>1, <2>3, <3>1 DEF FromThisBatch, Turn
  <2>4. CASE UNCHANGED <<pc, batch, pos>>
    BY <2>1, <2>4 DEF FromThisBatch, Turn, Pure, Holds, Begun
  <2>5. CASE pc \in {"convert"} \cup Turn /\ pc' = "loop" /\ UNCHANGED <<batch, pos>>
    BY <2>1, <2>5 DEF FromThisBatch, Turn, Pure, Holds, Begun
  <2>6. CASE pc \in Turn \ {"loop"} /\ pc' \in Turn /\ UNCHANGED <<batch, pos>>
    BY <2>1, <2>6 DEF FromThisBatch, Turn, Pure, Holds, Begun
  <2>7. CASE pc' \in {"idle", "backoff"}
    BY <2>1, <2>7 DEF FromThisBatch, Turn
  <2> QED  BY <2>2, <2>3, <2>4, <2>5, <2>6, <2>7
<1> QED  BY <1>1, <1>2, <1>3, <1>4

(* After an accepted request a push only returns, and what it accepted are *)
(* spans of its batch, which no other batch has.                           *)
LEMMA NextNotYet ==
    ASSUME SpansDistinct, DefiniteOutcomes, Encodable,
           PushInv, FromThisBatch, NotYet, [Next]_vars
    PROVE  NotYet'
<1> USE DEF push, loop, ghost
<1>0. TypeOK /\ PacketInv /\ DeliveryInv /\ CompleteInv
  BY DEF PushInv
<1>1. CASE ConvertSpan
  <2>1. /\ pc = "convert" /\ UNCHANGED <<pc, batch, queue, err>>
    BY <1>0, <1>1, ConvertStep
  <2>2. \A s : Accepted(s)' <=> Accepted(s)
    BY <1>1, ConvertMoves
  <2>3. \A s : InBatch(s)' <=> InBatch(s)
    BY <2>1 DEF InBatch
  <2> QED  BY <2>1, <2>2, <2>3 DEF NotYet, MayPost, Turn
<1>2. ASSUME NEW a \in Apps, SendTransactions(a), rawdata # Nil PROVE NotYet'
  <2>1. /\ pc = "loop" /\ pc' = "marshal" /\ UNCHANGED <<batch, queue, err>>
    BY <1>0, <1>2, SendStep
  <2>2. \A s : (Accepted(s)' <=> Accepted(s)) /\ (InBatch(s)' <=> InBatch(s))
    BY <1>2, SendMoves
  <2> QED  BY <1>2, <2>1, <2>2 DEF NotYet, MayPost, Turn
<1>3. ASSUME NEW o \in Outcomes, HttpResponse(o) PROVE NotYet'
  <2>1. /\ pc = "http" /\ pc' = "loop" /\ rawdata' = Nil /\ UNCHANGED <<batch, queue>>
        /\ Note(CASE o = "ok" -> "none" [] o = "permanent" -> "permanent"
                  [] OTHER -> "retryable")
    BY <1>0, <1>3, Posts
  <2>2. o \in {"ok", "retryable", "permanent"} /\ err = "none"
    BY <1>3, <2>1 DEF DefiniteOutcomes, NotYet, Turn
  <2>3. MayPost' => o = "retryable"
    BY <2>1, <2>2 DEF MayPost, Note
  <2>4. \A s : InBatch(s)' <=> InBatch(s)
    BY <2>1 DEF InBatch
  <2>5. MayPost' => \A s \in Spans : InBatch(s)' => ~Accepted(s)'
    BY <1>3, <2>1, <2>3, <2>4, PostMoves DEF NotYet, MayPost
  <2>6. \A s \in Spans : InTurn(s) => InBatch(s)
    BY <2>1 DEF FromThisBatch, Turn, InTurn, Begun, InBatch
  <2>7. ASSUME NEW b \in queue, NEW i \in DOMAIN b PROVE ~Accepted(b[i])'
    <3>1. /\ b \in Batches /\ batch \in Batches /\ b # batch /\ b[i] \in Spans
      BY <1>0, <2>1, ExporterAssumption DEF TypeOK, ControlType, DeliveryInv
    <3>2. ~InBatch(b[i])
      BY <3>1 DEF InBatch, SpansDistinct
    <3>3. ~Accepted(b[i])
      BY DEF NotYet
    <3> QED  BY <1>3, <2>6, <3>1, <3>2, <3>3, PostMoves
  <2> QED  BY <2>1, <2>5, <2>7 DEF NotYet, Turn
<1>4. CASE /\ ~ConvertSpan /\ ~ \E a \in Apps : SendTransactions(a) /\ rawdata # Nil
           /\ ~ \E o \in Outcomes : HttpResponse(o)
  <2>1. \A s : Accepted(s)' <=> Accepted(s)
    BY <1>4, OtherMoves
  <2>2. queue' \subseteq queue
    BY <1>4, OtherSteps DEF CollectApplications, MarshalAndCount, Export, Return, GiveUp
  <2>3. \A b \in queue' : \A i \in DOMAIN b : ~Accepted(b[i])'
    BY <2>1, <2>2 DEF NotYet
  <2>4. batch' = batch => \A s : InBatch(s)' <=> InBatch(s)
    BY DEF InBatch
  <2>5. CASE UNCHANGED <<pc, batch, rawdata, err>>
    BY <2>1, <2>3, <2>4, <2>5 DEF NotYet, MayPost
  <2>6. CASE pc' = "convert" /\ batch' \in queue
    <3>1. \A s : InBatch(s)' => ~Accepted(s)'
      BY <2>1, <2>6 DEF NotYet, InBatch
    <3> QED  BY <2>3, <2>6, <3>1 DEF NotYet, Turn
  <2>7. CASE pc = "backoff" /\ pc' \in {"convert", "idle"} /\ batch' = batch
    BY <2>1, <2>3, <2>4, <2>7 DEF NotYet, MayPost, Turn
  <2>8. CASE CollectApplications
    BY <2>1, <2>3, <2>4, <2>8 DEF CollectApplications, NotYet, MayPost, Turn
  <2>9. CASE MarshalAndCount
    <3>1. /\ pc = "marshal" /\ pc' \in {"marshal", "export"}
          /\ UNCHANGED <<batch, rawdata, err>>
      BY <2>9 DEF MarshalAndCount, Encodable
    <3> QED  BY <2>1, <2>3, <2>4, <3>1 DEF NotYet, MayPost, Turn
  <2>10. CASE Export
    <3>1. /\ pc = "export" /\ rawdata' = Nil /\ batch' = batch
          /\ \/ pc' = "http" /\ err' = err
             \/ pc' = "loop" /\ Note("permanent")
      BY <2>10 DEF Export
    <3>2. err = "none"
      BY <3>1 DEF NotYet, Turn
    <3> QED  BY <2>1, <2>3, <2>4, <3>1, <3>2 DEF NotYet, MayPost, Turn, Note
  <2>11. CASE Return
    <3>1. /\ pc = "loop" /\ batch' = batch
          /\ pc' = "idle" \/ (pc' = "backoff" /\ err = "retryable")
      BY <1>0, <2>11 DEF Return, CompleteInv
    <3> QED  BY <2>1, <2>3, <2>4, <3>1 DEF NotYet, MayPost, Turn
  <2>12. CASE GiveUp
    BY <2>3, <2>12 DEF GiveUp, NotYet, MayPost, Turn
  <2> QED
    BY <1>4, <2>5, <2>6, <2>7, <2>8, <2>9, <2>10, <2>11, <2>12, OtherSteps
<1> QED  BY <1>1, <1>2, <1>3, <1>4

(* A packet that is posted shares no span with one that was accepted, and  *)
(* its transactions share none, as they have different traces.             *)
LEMMA NextOnce ==
    ASSUME Encodable, PushInv, FromThisBatch, NotYet, DeliveredOnce, [Next]_vars
    PROVE  DeliveredOnce'
<1>0. TypeOK /\ PacketInv /\ DeliveryInv /\ CompleteInv
  BY DEF PushInv
<1>1. ASSUME posted' = posted PROVE DeliveredOnce'
  BY <1>1 DEF DeliveredOnce, Requests, Holds
<1>2. ASSUME NEW o \in Outcomes, HttpResponse(o) PROVE DeliveredOnce'
  <2>1. PICK r \in Request :
          /\ posted' = Append(posted, r) /\ Requests' = Requests \cup {r}
          /\ r.packet.transactions = sent
    BY <1>0, <1>2, Posts
  <2>2. pc = "http" /\ posted \in Seq(Request) /\ sent \subseteq Transaction
    BY <1>0, <1>2, Posts DEF TypeOK, HistoryType, BufferType
  <2>3. \A t \in sent : Pure(t)
    BY <2>2 DEF FromThisBatch, Turn
  <2>4. \A t, u \in sent : \A s \in Spans : Holds(t, s) /\ Holds(u, s) => t = u
    BY <1>0 DEF DeliveryInv, Sound, Holds, FromThisBatch
  <2>5. \A t \in sent : \A s \in Spans : Holds(t, s) => ~Accepted(s)
    BY <2>2 DEF FromThisBatch, Turn, Begun, InBatch, NotYet, MayPost
  <2>6. \A q \in Requests' : q.accepted => \A t \in q.packet.transactions :
          /\ \A i, j \in DOMAIN t.spans : t.spans[i] = t.spans[j] => i = j
          /\ \A u \in q.packet.transactions \ {t} : \A s \in Spans :
                ~(Holds(t, s) /\ Holds(u, s))
    BY <2>1, <2>3, <2>4 DEF DeliveredOnce, Pure
  <2>7. ASSUME NEW i \in DOMAIN posted', NEW j \in DOMAIN posted', i < j,
               posted'[i].accepted, posted'[j].accepted,
               NEW t \in posted'[i].packet.transactions,
               NEW u \in posted'[j].packet.transactions,
               NEW s \in Spans, Holds(t, s), Holds(u, s)
        PROVE  FALSE
    <3>1. i \in DOMAIN posted /\ posted'[i] = posted[i] /\ posted[i] \in Requests
      BY <2>1, <2>2, <2>7 DEF Requests
    <3>2. CASE j \in DOMAIN posted
      BY <2>1, <2>2, <2>7, <3>1, <3>2 DEF DeliveredOnce
    <3>3. CASE j \notin DOMAIN posted
      <4>1. posted'[j] = r
        BY <2>1, <2>2, <3>3
      <4> QED  BY <2>1, <2>5, <2>7, <3>1, <4>1 DEF Accepted
    <3> QED  BY <3>2, <3>3
  <2>8. DeliveredOnce' <=>
          /\ \A q \in Requests' : q.accepted => \A t \in q.packet.transactions :
               /\ \A i, j \in DOMAIN t.spans : t.spans[i] = t.spans[j] => i = j
               /\ \A u \in q.packet.transactions \ {t} : \A s \in Spans :
                     ~(Holds(t, s) /\ Holds(u, s))
          /\ \A i, j \in DOMAIN posted' :
               i < j /\ posted'[i].accepted /\ posted'[j].accepted =>
                 \A t \in posted'[i].packet.transactions :
                 \A u \in posted'[j].packet.transactions :
                 \A s \in Spans : ~(Holds(t, s) /\ Holds(u, s))
    BY DEF DeliveredOnce, Holds
  <2> QED  BY <2>6, <2>7, <2>8
<1>3. CASE ConvertSpan
  BY <1>0, <1>1, <1>3, ConvertStep
<1>4. CASE \E a \in Apps : SendTransactions(a) /\ rawdata # Nil
  BY <1>0, <1>1, <1>4, SendStep
<1>5. CASE /\ ~ConvertSpan /\ ~ \E a \in Apps : SendTransactions(a) /\ rawdata # Nil
           /\ ~ \E o \in Outcomes : HttpResponse(o)
  BY <1>1, <1>5, OtherMoves
<1> QED  BY <1>2, <1>3, <1>4, <1>5

(* Complete batches of distinct spans, a server that answers: however      *)
(* often a batch is retried, no span reaches the server twice.             *)
THEOREM OnceCorrect ==
    ASSUME CompleteBatches, SpansDistinct, DefiniteOutcomes, Encodable
    PROVE  Spec => []DeliveredOnce
<1>1. Init => PushInv /\ FromThisBatch /\ NotYet /\ DeliveredOnce
  BY PushInvariant
  DEF Init, FromThisBatch, NotYet, MayPost, Accepted, Turn, DeliveredOnce, Requests
<1>2. /\ PushInv /\ FromThisBatch /\ NotYet /\ DeliveredOnce /\ [Next]_vars
        => (PushInv /\ FromThisBatch /\ NotYet /\ DeliveredOnce)'
  BY PushInvariant, NextFromThisBatch, NextNotYet, NextOnce
<1> QED  BY <1>1, <1>2, PTL DEF Spec
-----------------------------------------------------------------------------
(* The transactions of the buffer that have an application have the same.  *)
LEMMA OneOfBuffer ==
    ASSUME OneApplication, DeliveryInv,
           NEW u \in DOMAIN transactions, NEW v \in DOMAIN transactions,
           transactions[u].app # NoApp, transactions[v].app # NoApp
    PROVE  transactions[u].app = transactions[v].app
<1>1. PICK r \in Spans : SpanApp(r) = transactions[u].app
  BY DEF DeliveryInv, Sound
<1>2. PICK s \in Spans : SpanApp(s) = transactions[v].app
  BY DEF DeliveryInv, Sound
<1> QED  BY <1>1, <1>2 DEF OneApplication

(* A push of one application has one turn, which has a packet and sends    *)
(* something.                                                              *)
LEMMA NextTurn ==
    ASSUME OneApplication, WholeSpans, Encodable, PushInv, TurnInv, [Next]_vars
    PROVE  TurnInv'
<1> USE DEF push, loop, ghost
<1>0. TypeOK /\ PacketInv /\ DeliveryInv /\ CompleteInv
  BY DEF PushInv
<1>1. CASE ConvertSpan
  <2>1. pc = "convert" /\ UNCHANGED <<pc, pending>>
    BY <1>0, <1>1, ConvertStep
  <2>2. /\ batch[pos] \in Spans
        /\ Buffered(batch[pos].trace).instrument \in {"Express", "Graphql", Nil}
    <3>1. batch[pos] \in Spans
      BY <1>0, <1>1, ExporterAssumption DEF ConvertSpan, TypeOK, ControlType
    <3>2. Buffered(batch[pos].trace) \in Transaction
      BY <1>0, <3>1, BufferedSound
    <3> QED  BY <3>1, <3>2 DEF Transaction
  <2>3. ~ConversionPanics(Buffered(batch[pos].trace).instrument, batch[pos])
    BY <2>2 DEF WholeSpans
  <2>4. panicked' = panicked
    BY <1>1, <2>3 DEF ConvertSpan
  <2> QED  BY <2>1, <2>4 DEF TurnInv
<1>2. ASSUME NEW a \in Apps, SendTransactions(a) PROVE TurnInv'
  <2>1. a \in pending /\ pc = "loop" /\ rawdata # Nil
    BY <1>2 DEF SendTransactions, TurnInv
  <2>2. /\ pc' = "marshal" /\ pending' = pending \ {a} /\ panicked' = panicked
        /\ sent' = {Reported(transactions[u]) :
                      u \in {v \in DOMAIN transactions : transactions[v].app = a}}
    BY <1>0, <1>2, <2>1, SendStep
  <2>3. sent' # {}
    BY <2>1, <2>2 DEF TurnInv
  <2> QED  BY <2>1, <2>2, <2>3 DEF TurnInv
<1>3. CASE \E o \in Outcomes : HttpResponse(o)
  BY <1>0, <1>3, Posts DEF TurnInv
<1>4. CASE /\ ~ConvertSpan /\ ~ \E a \in Apps : SendTransactions(a)
           /\ ~ \E o \in Outcomes : HttpResponse(o)
  <2>1. CASE CollectApplications
    <3>1. /\ pc = "convert" /\ pc' = "loop" /\ UNCHANGED <<transactions, rawdata, panicked>>
          /\ pending' = {transactions[u].app : u \in DOMAIN transactions} \ {NoApp}
      BY <2>1 DEF CollectApplications
    <3>2. rawdata # Nil
      BY <1>0, <3>1, NilAssumption DEF TypeOK, PacketType
    <3>3. \A a, b \in pending' : a = b
      BY <1>0, <3>1, OneOfBuffer
    <3> QED  BY <3>1, <3>2, <3>3 DEF TurnInv
  <2>2. CASE MarshalAndCount
    <3>1. pc = "marshal" /\ sent # {} /\ pending = {} /\ panicked = "no"
      BY <2>2 DEF MarshalAndCount, TurnInv
    <3>2. pc' = "export" /\ UNCHANGED <<pending, panicked>>
      BY <2>2, <3>1 DEF MarshalAndCount, Encodable
    <3> QED  BY <3>1, <3>2 DEF TurnInv
  <2>3. CASE Export
    <3>1. /\ pc = "export" /\ pc' \in {"loop", "http"}
          /\ UNCHANGED <<pending, panicked>>
      BY <2>3 DEF Export
    <3> QED  BY <3>1 DEF TurnInv
  <2>4. CASE Return \/ GiveUp
    BY <2>4 DEF Return, GiveUp, TurnInv
  <2>5. CASE pc' = "convert" /\ UNCHANGED <<pending, panicked>>
    BY <2>5 DEF TurnInv
  <2>6. CASE Tick \/ UNCHANGED vars
    BY <2>6 DEF Tick, vars, TurnInv
  <2>7. Retry \/ (\E b \in Batches : PushTraces(b)) =>
          pc' = "convert" /\ UNCHANGED <<pending, panicked>>
    BY DEF Retry, PushTraces
  <2> QED
    BY <1>4, <2>1, <2>2, <2>3, <2>4, <2>5, <2>6, <2>7 DEF Next, PushStep
<1> QED  BY <1>1, <1>2, <1>3, <1>4

(* Complete batches of whole spans of one application: no push panics.     *)
THEOREM NoPanicCorrect ==
    ASSUME CompleteBatches, OneApplication, WholeSpans, Encodable
    PROVE  Spec => []NoPanic
<1>1. Init => PushInv /\ TurnInv
  BY PushInvariant DEF Init, TurnInv
<1>2. PushInv /\ TurnInv /\ [Next]_vars => (PushInv /\ TurnInv)'
  BY PushInvariant, NextTurn
<1>3. TurnInv => NoPanic
  BY DEF TurnInv, NoPanic
<1> QED  BY <1>1, <1>2, <1>3, PTL DEF Spec
=============================================================================
