---------------------------- MODULE NudgeExporter ----------------------------
(***************************************************************************)
(* The traces pipeline of the Nudge HTTP exporter with one queue consumer: *)
(* the consumer takes a batch of spans, pushTraces folds the spans into    *)
(* the buffer of transactions, and for each application of the buffer      *)
(* moves the transactions that are due into the Rawdata packet, marshals   *)
(* the packet, counts it and posts it.  The retry sender of the collector  *)
(* calls pushTraces again with the same batch after a retryable error.     *)
(*                                                                         *)
(* Between two steps of one push nothing else touches this state, so the   *)
(* steps are those a reader of pushTraces distinguishes, not those of the  *)
(* Go memory model.                                                        *)
(***************************************************************************)
EXTENDS NudgeSpan, FiniteSets

CONSTANTS
    Spans,           \* the spans the receivers hand over
    Batches,         \* the batches of the queue, sequences of spans
    Encoding,        \* encoding of the configuration
    TimeoutBufferTransaction,
    BadURLApps,      \* identifiers that make a URL http.NewRequest refuses
    Outcomes,        \* what may become of an HTTP request
    MaxRetries,      \* retries before the retry sender gives a batch up
    Epoch, MaxTime   \* the clock runs from Epoch to MaxTime

ASSUME ExporterAssumption ==
    /\ Spans \subseteq Span
    /\ Batches \subseteq Seq(Spans)
    /\ TimeoutBufferTransaction \in Nat
    /\ BadURLApps \subseteq Apps \cup {NoApp}
    /\ Outcomes \subseteq {"ok", "unreadable", "lost", "retryable", "permanent"}
    /\ MaxRetries \in Nat
    /\ Epoch \in Nat /\ MaxTime \in Nat
    /\ TimeoutBufferTransaction < Epoch

(* A transaction: the fields that steer it (found counts ErrorsX, errors   *)
(* counts Errors) and the spans folded into it, which stand for the rest.  *)
Transaction ==
    [ uuid : Traces, app : Apps \cup {NoApp},
      urlid : {NOWAITANDSEND, WAITANDSEND, NOWAITANDNOSEND},
      start : Nat \cup {Nil}, instrument : {"Express", "Graphql", Nil},
      agent : Agents \cup {Nil}, agentID : Nat \cup {Nil},
      found : Nat, errors : Nat, spans : Seq(Spans) ]

(* The packet while it is filled, and once it is marshalled.               *)
RawData == [transactions : SUBSET Transaction, agents : Seq(Agents)]
Packet  == [id : Nat, transactions : SUBSET Transaction, agents : Seq(Agents)]

(* A request made: for which application of the loop, to whose URL.        *)
Request == [ app : Apps, url : Apps \cup {NoApp}, packet : Packet,
             time : Nat, accepted : BOOLEAN ]

ASSUME NilAssumption == Nil \notin RawData \cup Packet \cup Apps

VARIABLES
    now,             \* time.Now()
    queue,           \* batches no consumer has taken
    pc, batch, pos,  \* where pushTraces is, its batch, the next span of it
    transactions,    \* NudgeExporter.Transactions, by uuid
    rawdata,         \* NudgeExporter.Rawdata
    cmpt,            \* NudgeExporter.Cmpt
    pending,         \* application ids the loop of pushTraces has still to send
    app,             \* application_id of the loop
    sent,            \* tsNudge: what SendTransactions moved
    request,         \* the marshalled packet
    counter,         \* metricInterne: Nil, or the application it counts
    err,             \* error_ of pushTraces
    retries,         \* how often the batch has been retried
    metrics,         \* metricsInterne.NCmpt_Traces
    posted,          \* every request made, in order (history)
    done,            \* batches pushTraces returned nil for (history)
    panicked         \* the run-time panic that ended the process, or "no"

push  == <<pc, batch, pos>>
loop  == <<pending, app, sent, request, counter>>
ghost == <<posted, done>>
vars  == <<now, queue, push, transactions, rawdata, cmpt, loop, err, retries,
           metrics, ghost, panicked>>
-----------------------------------------------------------------------------
(* A transaction the first span of its trace adds to the buffer.           *)
NewTransaction_NoUuid(uuid) ==
    [ uuid |-> Nil, app |-> NoApp, urlid |-> WAITANDSEND, start |-> Nil,
      instrument |-> Nil, agent |-> Nil, agentID |-> Nil,
      found |-> 0, errors |-> 0, spans |-> <<>> ]

NewTransaction(uuid) ==
    [ uuid |-> uuid, app |-> NoApp, urlid |-> WAITANDSEND, start |-> Nil,
      instrument |-> Nil, agent |-> Nil, agentID |-> Nil,
      found |-> 0, errors |-> 0, spans |-> <<>> ]

Buffered(uuid) ==
    IF uuid \in DOMAIN transactions THEN transactions[uuid]
    ELSE NewTransaction(uuid)

(* The Id of a packet is a pointer to Cmpt: it is read when the packet is  *)
(* marshalled.                                                             *)
CreateRawdata_SameId ==
    /\ rawdata' = IF rawdata = Nil THEN [transactions |-> {}, agents |-> <<>>]
                  ELSE rawdata
    /\ UNCHANGED cmpt

CreateRawdata ==
    IF rawdata = Nil
    THEN /\ rawdata' = [transactions |-> {}, agents |-> <<>>]
         /\ cmpt' = cmpt + 1
    ELSE UNCHANGED <<rawdata, cmpt>>

(* The dictionary of user agents of the packet: ids count from 0.          *)
Position(agents, a) == CHOOSE i \in DOMAIN agents : agents[i] = a

AgentID_FromOne(agents, a) == Position(agents, a)

AgentID(agents, a) == Position(agents, a) - 1

Registered(agents, a) == \E i \in DOMAIN agents : agents[i] = a

AgentsAfter(agents, s) ==
    IF IsEntry(s) /\ s.agent # Nil /\ ~Registered(agents, s.agent)
    THEN Append(agents, s.agent) ELSE agents

Absorb(t, s) ==
    LET agents == AgentsAfter(rawdata.agents, s)
        named  == IsEntry(s) /\ s.agent # Nil
    IN  [ uuid       |-> t.uuid,
          app        |-> SpanApp(s),
          urlid      |-> IF EndsTrace(s) THEN NOWAITANDSEND ELSE t.urlid,
          start      |-> StartAfter(t.start, s),
          instrument |-> InstrumentAfter(t.instrument, s),
          agent      |-> IF named THEN s.agent ELSE t.agent,
          agentID    |-> IF named THEN AgentID(agents, s.agent) ELSE t.agentID,
          found      |-> t.found + ErrorsOf(s),
          errors     |-> t.errors,
          spans      |-> Append(t.spans, s) ]

(* A transaction without a start time has start 0 here, as GetStartTime    *)
(* returns 0 for it: it is always too old.                                 *)
TimedOut_AnyAge(t) == now - (IF t.start = Nil THEN 0 ELSE t.start) > 0

TimedOut(t) ==
    LET age == now - (IF t.start = Nil THEN 0 ELSE t.start)
    IN  age > 0 /\ age > TimeoutBufferTransaction

IsDue_TimeoutOnly(t) == t.urlid = WAITANDSEND /\ TimedOut(t)

IsDue(t) ==
    \/ t.urlid = NOWAITANDSEND
    \/ t.urlid = WAITANDSEND /\ TimedOut(t)

(* The transactions SendTransactions takes out of the buffer.              *)
Leaves_Waiting(t)   == t.urlid \in {NOWAITANDSEND, WAITANDSEND, NOWAITANDNOSEND}
Leaves_NoSplice(t)  == t.urlid # NOWAITANDSEND /\ IsDue(t)

Leaves(t) == IsDue(t) \/ t.urlid = NOWAITANDNOSEND

BelongsTo_Any(t, a) == TRUE

BelongsTo(t, a) == t.app = a

(* The errors found so far are copied to those the packet reports.         *)
Reported(t) == [t EXCEPT !.errors = @ + t.found]

NewMesure_Zero(n) == [value |-> 0, ntraces |-> 0, success |-> 0, error |-> 0]

NewMesure(n) == [value |-> n, ntraces |-> 0, success |-> 0, error |-> 0]
-----------------------------------------------------------------------------
Init ==
    /\ now = Epoch
    /\ queue = Batches
    /\ pc = "idle" /\ batch = <<>> /\ pos = 1
    /\ transactions = [uuid \in {} |-> Nil]
    /\ rawdata = Nil /\ cmpt = 0
    /\ pending = {} /\ app = NoApp /\ sent = {} /\ request = Nil /\ counter = Nil
    /\ err = "none" /\ retries = 0
    /\ metrics = [a \in {} |-> Nil]
    /\ posted = <<>> /\ done = {}
    /\ panicked = "no"

(* The consumer hands a batch of the queue to pushTraces.                  *)
PushTraces(b) ==
    /\ pc = "idle"
    /\ b \in queue
    /\ queue' = queue \ {b}
    /\ CreateRawdata
    /\ pc' = "convert" /\ batch' = b /\ pos' = 1
    /\ retries' = 0
    /\ UNCHANGED <<now, transactions, loop, err, metrics, ghost, panicked>>

(* One turn of the inner loop of TracesExportRequest2Rawdata: find or add  *)
(* the transaction of the trace, fold the span into it.                    *)
ConvertSpan ==
    /\ pc = "convert"
    /\ pos <= Len(batch)
    /\ LET s == batch[pos]
           t == Buffered(s.trace)
       IN  IF ConversionPanics(t.instrument, s)
           THEN /\ panicked' = "convert"
                /\ UNCHANGED <<pos, transactions, rawdata>>
           ELSE /\ transactions' = [u \in DOMAIN transactions \cup {s.trace} |->
                       IF u = s.trace THEN Absorb(t, s) ELSE transactions[u]]
                /\ rawdata' = [rawdata EXCEPT !.agents = AgentsAfter(@, s)]
                /\ pos' = pos + 1
                /\ UNCHANGED panicked
    /\ UNCHANGED <<now, queue, pc, batch, cmpt, loop, err, retries, metrics, ghost>>

(* The application ids of the whole buffer, not only of the batch.  The    *)
(* code walks them in the order of the buffer; here in any order.          *)
CollectApplications ==
    /\ pc = "convert"
    /\ pos > Len(batch)
    /\ pending' = {transactions[u].app : u \in DOMAIN transactions} \ {NoApp}
    /\ err' = "none"
    /\ pc' = "loop"
    /\ UNCHANGED <<now, queue, batch, pos, transactions, rawdata, cmpt, app, sent,
                   request, counter, retries, metrics, ghost, panicked>>

(* SendTransactions copies the errors found so far of every transaction of *)
(* the application, then moves those that are due into the packet.         *)
SendTransactions(a) ==
    /\ pc = "loop"
    /\ a \in pending
    /\ IF rawdata = Nil
       THEN /\ panicked' = "nilRawdata"
            /\ UNCHANGED <<pc, pending, app, transactions, rawdata, sent>>
       ELSE LET mine == {u \in DOMAIN transactions : BelongsTo(transactions[u], a)}
                due  == {u \in mine : IsDue(transactions[u])}
                gone == {u \in mine : Leaves(transactions[u])}
            IN  /\ sent' = {Reported(transactions[u]) : u \in due}
                /\ transactions' =
                     [u \in DOMAIN transactions \ gone |->
                        IF u \in mine THEN Reported(transactions[u])
                        ELSE transactions[u]]
                /\ rawdata' = [rawdata EXCEPT !.transactions = @ \cup sent']
                /\ pending' = pending \ {a}
                /\ app' = a
                /\ pc' = "marshal"
                /\ UNCHANGED panicked
    /\ UNCHANGED <<now, queue, batch, pos, cmpt, request, counter, err, retries,
                   metrics, ghost>>

(* Marshal the packet and count it.  A first count for the application     *)
(* reads the first transaction sent (line 446) and leaves metricInterne    *)
(* nil; an encoding that is neither proto nor json is an error here, and   *)
(* pushTraces returns it at once, whatever it still had to send.           *)
MarshalAndCount ==
    /\ pc = "marshal"
    /\ IF app \notin DOMAIN metrics /\ sent = {}
       THEN /\ panicked' = "nothingSent"
            /\ UNCHANGED <<pc, request, counter, err, metrics>>
       ELSE /\ metrics' =
                 IF app \notin DOMAIN metrics
                 THEN [a \in DOMAIN metrics \cup {app} |->
                         IF a = app THEN NewMesure(Cardinality(sent)) ELSE metrics[a]]
                 ELSE [metrics EXCEPT ![app].value =
                         @ + Cardinality(rawdata.transactions)]
            /\ counter' = IF app \in DOMAIN metrics THEN app ELSE Nil
            /\ IF Encoding \in {"proto", "json"}
               THEN /\ request' = [ id           |-> cmpt,
                                    transactions |-> rawdata.transactions,
                                    agents       |-> rawdata.agents ]
                    /\ pc' = "export"
                    /\ UNCHANGED err
               ELSE /\ request' = Nil
                    /\ pc' = "return"
                    /\ err' = "permanent"
            /\ UNCHANGED panicked
    /\ UNCHANGED <<now, queue, batch, pos, transactions, rawdata, cmpt, pending,
                   app, sent, retries, ghost>>

(* The first error of the loop is the one pushTraces returns.              *)
Note_DropsRetryable(e) ==
    err' = IF err = "none" /\ e # "retryable" THEN e ELSE err

Note(e) == err' = IF err = "none" THEN e ELSE err

(* The application whose URL the packet goes to: that of the first         *)
(* transaction sent, or that of the configuration when none was.           *)
Target == IF sent = {} THEN ConfigApp ELSE app

(* export forgets the packet before it does anything that may fail.        *)
Export ==
    /\ pc = "export"
    /\ rawdata' = Nil
    /\ IF Target \in BadURLApps
       THEN /\ Note("permanent")
            /\ request' = Nil
            /\ pc' = "loop"
            /\ UNCHANGED metrics
       ELSE /\ pc' = "http"
            /\ metrics' = IF counter = Nil THEN metrics
                          ELSE [metrics EXCEPT ![counter].ntraces = @ + 1]
            /\ UNCHANGED <<err, request>>
    /\ UNCHANGED <<now, queue, batch, pos, transactions, cmpt, pending, app, sent,
                   counter, retries, ghost, panicked>>

(* What comes back from client.Do and from the reading of the answer: a    *)
(* 2xx answer whose body is read ("ok") or cannot be ("unreadable"), no    *)
(* answer at all, whether or not the server got the request ("lost"), a    *)
(* 429, 502, 503 or 504 ("retryable"), any other code ("permanent").       *)
HttpResponse(o) ==
    /\ pc = "http"
    /\ LET ok == o \in {"ok", "unreadable"}
       IN  /\ metrics' =
                IF counter = Nil THEN metrics
                ELSE IF ok THEN [metrics EXCEPT ![counter].success = @ + 1]
                ELSE [metrics EXCEPT ![counter].error = @ + 1]
           /\ \E got \in BOOLEAN :
                /\ o # "lost" => got = ok
                /\ posted' = Append(posted,
                     [app |-> app, url |-> Target, packet |-> request,
                      time |-> now, accepted |-> got])
    /\ Note(CASE o = "ok" -> "none" [] o = "permanent" -> "permanent"
              [] OTHER -> "retryable")
    /\ request' = Nil
    /\ pc' = "loop"
    /\ UNCHANGED <<now, queue, batch, pos, transactions, rawdata, cmpt, pending, app,
                   sent, counter, retries, done, panicked>>

(* pushTraces returns to the retry sender, which drops the batch after a   *)
(* permanent error and waits before it retries another one.                *)
Return_OnlySuccess ==
    /\ pc = "loop" /\ pending = {}
    /\ err = "none"
    /\ pc' = "idle"
    /\ done' = done \cup {batch}
    /\ UNCHANGED <<now, queue, batch, pos, transactions, rawdata, cmpt, loop, err,
                   retries, metrics, posted, panicked>>

Return ==
    /\ \/ pc = "loop" /\ pending = {}
       \/ pc = "return"
    /\ IF err = "retryable"
       THEN pc' = "backoff" /\ UNCHANGED done
       ELSE /\ pc' = "idle"
            /\ done' = IF err = "none" THEN done \cup {batch} ELSE done
    /\ UNCHANGED <<now, queue, batch, pos, transactions, rawdata, cmpt, loop, err,
                   retries, metrics, posted, panicked>>

Retry ==
    /\ pc = "backoff"
    /\ retries < MaxRetries
    /\ retries' = retries + 1
    /\ CreateRawdata
    /\ pc' = "convert" /\ pos' = 1
    /\ UNCHANGED <<now, queue, batch, transactions, loop, err, metrics, ghost, panicked>>

GiveUp ==
    /\ pc = "backoff"
    /\ retries = MaxRetries
    /\ pc' = "idle"
    /\ UNCHANGED <<now, queue, batch, pos, transactions, rawdata, cmpt, loop, err,
                   retries, metrics, ghost, panicked>>

Tick ==
    /\ now < MaxTime
    /\ now' = now + 1
    /\ UNCHANGED <<queue, push, transactions, rawdata, cmpt, loop, err, retries,
                   metrics, ghost, panicked>>

(* Everything the consumer does once it has a batch.                       *)
PushStep ==
    \/ ConvertSpan
    \/ CollectApplications
    \/ \E a \in Apps : SendTransactions(a)
    \/ MarshalAndCount
    \/ Export
    \/ Return
    \/ Retry
    \/ GiveUp

(* A panic in a consumer ends the collector process.                       *)
Next ==
    /\ panicked = "no"
    /\ \/ \E b \in Batches : PushTraces(b)
       \/ PushStep
       \/ \E o \in Outcomes : HttpResponse(o)
       \/ Tick

Spec == Init /\ [][Next]_vars

(* The consumer runs and time passes; nobody has to send spans.            *)
Fairness ==
    /\ WF_vars(panicked = "no" /\ PushStep)
    /\ WF_vars(panicked = "no" /\ Tick)

(* The server answers every request, or the transport reports an error:    *)
(* an assumption, since the client is created without a timeout.           *)
ServerAnswers == WF_vars(panicked = "no" /\ \E o \in Outcomes : HttpResponse(o))

FairSpec    == Spec /\ Fairness
AnswersSpec == FairSpec /\ ServerAnswers
-----------------------------------------------------------------------------
(* Every variable has its type; a buffered transaction is stored under its *)
(* own uuid; while a push converts or marshals there is a packet.          *)
ControlType ==
    /\ now \in Nat
    /\ queue \subseteq Batches
    /\ pc \in {"idle", "convert", "loop", "marshal", "export", "http", "return", "backoff"}
    /\ batch \in Seq(Spans) /\ pos \in Nat \ {0}
    /\ pc # "idle" => batch \in Batches
    /\ pending \subseteq Apps
    /\ app \in Apps \cup {NoApp}
    /\ pc \in {"marshal", "export", "http"} => app \in Apps
    /\ err \in {"none", "permanent", "retryable"}
    /\ retries \in Nat
    /\ panicked \in {"no", "convert", "nilRawdata", "nothingSent"}

BufferType ==
    /\ DOMAIN transactions \subseteq Traces
    /\ \A u \in DOMAIN transactions :
          transactions[u] \in Transaction /\ transactions[u].uuid = u
    /\ sent \subseteq Transaction

PacketType ==
    /\ rawdata \in RawData \cup {Nil}
    /\ pc \in {"convert", "marshal", "export"} => rawdata \in RawData
    /\ cmpt \in Nat
    /\ request \in Packet \cup {Nil}
    /\ pc \in {"export", "http"} => request \in Packet

HistoryType ==
    /\ DOMAIN metrics \subseteq Apps
    /\ counter \in DOMAIN metrics \cup {Nil}
    /\ posted \in Seq(Request)
    /\ done \subseteq Batches

TypeOK == ControlType /\ BufferType /\ PacketType /\ HistoryType
-----------------------------------------------------------------------------
(* Traffic.  The properties below that do not hold for all batches hold    *)
(* when every batch completes the traces it brings: it has a span that     *)
(* ends the trace, or the trace never names an application and stays in    *)
(* the buffer.  A collector has such batches without waitEndService when   *)
(* each has an entry span for its traces, and with it behind the           *)
(* groupbytrace processor.                                                 *)
Anonymous(uuid) == \A s \in Spans : s.trace = uuid => SpanApp(s) = NoApp
Named(uuid)     == \A s \in Spans : s.trace = uuid => SpanApp(s) # NoApp

CompleteBatches ==
    \A b \in Batches : \A i \in DOMAIN b :
        \/ Anonymous(b[i].trace)
        \/ /\ Named(b[i].trace)
           /\ \E j \in DOMAIN b : b[j].trace = b[i].trace /\ EndsTrace(b[j])

(* Each span is handed over once; the spans name one application at most;  *)
(* every request is answered with a code, and a 2xx answer with a body     *)
(* that can be read; the spans have what the conversion reads unchecked.   *)
SpansDistinct ==
    \A b, c \in Batches : \A i \in DOMAIN b : \A j \in DOMAIN c :
        b[i] = c[j] => b = c /\ i = j

OneApplication ==
    \A r, s \in Spans : NoApp \notin {SpanApp(r), SpanApp(s)} => SpanApp(r) = SpanApp(s)

DefiniteOutcomes == Outcomes \subseteq {"ok", "retryable", "permanent"}

WholeSpans ==
    \A s \in Spans : \A instrument \in {"Express", "Graphql", Nil} :
        ~ConversionPanics(instrument, s)
-----------------------------------------------------------------------------
Requests == {posted[i] : i \in DOMAIN posted}
Holds(t, s) == \E i \in DOMAIN t.spans : t.spans[i] = s

(* A packet posted to the URL of an application carries transactions of    *)
(* that application only: what is left in Rawdata when a push ends, what   *)
(* the loop moves into it for one application, and what it posts when it   *)
(* moved nothing, never goes to another.                                   *)
Routing ==
    \A r \in Requests : \A t \in r.packet.transactions : t.app = r.url

(* RawData.Id is the "compteur de paquets envoyes par une meme sonde"      *)
(* (rawdata.pb.go:572): later packets have greater ids.                    *)
PacketIdsIncrease ==
    \A i, j \in DOMAIN posted : i < j => posted[i].packet.id < posted[j].packet.id

(* When pushTraces returns nil, every span of the batch that belongs to an *)
(* application is in a packet the server took or still in the buffer:      *)
(* neither a retry nor a failed request of this or of a later push may     *)
(* lose it.                                                                *)
NothingLost ==
    \A b \in done : \A i \in DOMAIN b :
        \/ \E r \in Requests :
              r.accepted /\ \E t \in r.packet.transactions : Holds(t, b[i])
        \/ \E u \in DOMAIN transactions : Holds(transactions[u], b[i])
        \/ /\ rawdata # Nil
           /\ \E t \in rawdata.transactions : Holds(t, b[i])
        \/ /\ request # Nil
           /\ \E t \in request.transactions : Holds(t, b[i])

(* Where converted spans are: in transactions of the buffer, of the packet *)
(* and of the request.  Those of a batch count as converted one by one     *)
(* while it is converted for the first time.                               *)
SpansIn(ts) == {s \in Spans : \E t \in ts : Holds(t, s)}

Held ==
    SpansIn({transactions[u] : u \in DOMAIN transactions})
      \cup (IF rawdata = Nil THEN {} ELSE SpansIn(rawdata.transactions))
      \cup (IF request = Nil THEN {} ELSE SpansIn(request.transactions))

Tried == UNION {SpansIn(r.packet.transactions) : r \in Requests}

Unconverted(b, i) == pc = "convert" /\ retries = 0 /\ b = batch /\ i >= pos

Converted ==
    {s \in Spans : \E b \in Batches \ queue : \E i \in DOMAIN b :
                     b[i] = s /\ ~Unconverted(b, i)}

(* Spans of a trace that may belong to an application without a valid URL: *)
(* export forgets the packet before http.NewRequest refuses the URL.       *)
Refusable ==
    {s \in Spans : \E r \in Spans : r.trace = s.trace /\ SpanApp(r) \in BadURLApps}

Promise == INSTANCE Delivery
    WITH taken <- Converted, held <- Held, tried <- Tried, Droppable <- Refusable

(* A span that was converted stays in the buffer, the packet or the        *)
(* request until some request carries it, through retries, refused and     *)
(* failed requests, timeouts and later pushes; nothing else is ever held.  *)
DeliversSpans == Promise!Spec

(* However often a batch is retried, no span reaches the server twice: not *)
(* in two packets, not in two transactions of one, not twice in one.       *)
DeliveredOnce ==
    /\ \A r \in Requests : r.accepted => \A t \in r.packet.transactions :
          /\ \A i, j \in DOMAIN t.spans : t.spans[i] = t.spans[j] => i = j
          /\ \A u \in r.packet.transactions \ {t} : \A s \in Spans :
                ~(Holds(t, s) /\ Holds(u, s))
    /\ \A i, j \in DOMAIN posted :
          i < j /\ posted[i].accepted /\ posted[j].accepted =>
            \A t \in posted[i].packet.transactions :
            \A u \in posted[j].packet.transactions :
            \A s \in Spans : ~(Holds(t, s) /\ Holds(u, s))

(* SendTransactions copies ErrorsX to Errors at every scan: a packet must  *)
(* still report each error of a transaction once.                          *)
ErrorsReportedOnce ==
    \A r \in Requests : \A t \in r.packet.transactions : t.errors = t.found

(* The dictionary of user agents of a packet maps the useragentId of its   *)
(* transactions to their userAgent (rawdata.pb.go:626-628).                *)
AgentsResolve ==
    \A r \in Requests : \A t \in r.packet.transactions :
        t.agentID # Nil =>
            /\ t.agentID + 1 \in DOMAIN r.packet.agents
            /\ r.packet.agents[t.agentID + 1] = t.agent

(* "Urilid = 1 garde dans le tableau des transactions jusqu'au timeout     *)
(* puis envoie dans le rawdata" (nudge.go:2492): a transaction whose root  *)
(* span has not come is sent only once it is older than the timeout.  This *)
(* needs a start time: without an entry span it goes with the next push.   *)
KeptUntilTimeout ==
    \A r \in Requests : \A t \in r.packet.transactions :
        t.urlid = WAITANDSEND =>
            t.start = Nil \/ r.time - t.start > TimeoutBufferTransaction

(* The counters of the debug page.  For each application "value" counts    *)
(* the transactions of the packets made for it; a request is counted once  *)
(* as a success or an error, except the first one, made while the counter  *)
(* did not exist.                                                          *)
MetricsMatchRequests ==
    \A a \in DOMAIN metrics \ BadURLApps :
        LET mine    == {i \in DOMAIN posted : posted[i].app = a}
            current == IF app = a /\ pc \in {"export", "http"} THEN {request} ELSE {}
            m       == metrics[a]
            made[i \in 0..Len(posted)] ==
                IF i = 0 THEN 0
                ELSE made[i - 1] +
                     (IF i \in mine THEN Cardinality(posted[i].packet.transactions) ELSE 0)
        IN  /\ m.value = made[Len(posted)]
                         + (IF current = {} THEN 0 ELSE Cardinality(request.transactions))
            /\ pc # "export" \/ app # a =>
                 m.ntraces + 1 = Cardinality(mine) + Cardinality(current)
            /\ m.success + m.error =
                 m.ntraces - (IF app = a /\ pc = "http" /\ counter = a THEN 1 ELSE 0)

(* No push makes the process panic.                                        *)
NoPanic == panicked = "no"

(* Every push ends: the loop over the applications, the retries and the    *)
(* back-off leave the consumer idle again, or it panics.                   *)
PushReturns == (pc # "idle") ~> (pc = "idle" \/ panicked # "no")

(* A transaction of an application that has waited longer than the timeout *)
(* is sent: "jusqu'au timeout puis envoie dans le rawdata" (nudge.go:2492).*)
TimeoutSends ==
    \A u \in Traces :
        (u \in DOMAIN transactions /\ transactions[u].app # NoApp
           /\ transactions[u].start # Nil /\ TimedOut(transactions[u]))
        ~> (u \notin DOMAIN transactions \/ panicked # "no")
=============================================================================
