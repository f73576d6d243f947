-------------------------- MODULE SequentialProofs --------------------------
(***************************************************************************)
(* What the handlers of the control plane carry from one call to the next, *)
(* for any handlers, and what follows when requests do not overlap: for    *)
(* the stored rows and the session through any stops and starts, and for   *)
(* the log, the holds and the plans of a process that is not stopped.      *)
(***************************************************************************)
EXTENDS ControlPlaneProofs

-----------------------------------------------------------------------------
(* The event streams of the runtime. *)

\* A stream ends with its only response, which for a successful pass names the
\* tasks of the workflow.
IsStream(s) ==
    /\ s \in Seq(Event)
    /\ Len(s) > 0
    /\ \A i \in 1..Len(s) : HasResponse(s[i]) <=> i = Len(s)

\* A stream may be preceded by events that carry no response.
LEMMA StreamConcat ==
    ASSUME NEW s \in Seq(Event), \A i \in 1..Len(s) : ~HasResponse(s[i]),
           NEW t, IsStream(t)
    PROVE  IsStream(s \o t)
BY DEF IsStream

\* What is left of a stream is a stream, until its response has been taken.
LEMMA StreamTail ==
    ASSUME NEW s, IsStream(s), Tail(s) # <<>>
    PROVE  IsStream(Tail(s)) /\ ~HasResponse(Head(s))
<1>1. IsStream(Tail(s))
  BY DEF IsStream
<1>2. Len(s) # 1
  BY DEF IsStream
<1>3. s[1] = Head(s) /\ 1 \in 1..Len(s)
  BY DEF IsStream
<1> QED BY <1>1, <1>2, <1>3 DEF IsStream

\* The events of a stream; one that carries no response is followed by another.
LEMMA StreamHead ==
    ASSUME NEW s, IsStream(s)
    PROVE  /\ Head(s) \in Event
           /\ Tail(s) = <<>> => HasResponse(Head(s))
<1>1. s \in Seq(Event) /\ Len(s) > 0
  BY DEF IsStream
<1>2. s[1] = Head(s) /\ 1 \in 1..Len(s)
  BY <1>1
<1>3. Tail(s) = <<>> => Len(s) = 1
  <2>1. Len(Tail(s)) = Len(s) - 1 /\ Len(s) \in Nat
    BY <1>1
  <2>2. Len(<<>>) = 0
    OBVIOUS
  <2>3. PICK t : t = Tail(s)
    OBVIOUS
  <2>4. Len(t) = Len(s) - 1
    BY <2>1, <2>3
  <2>5. t = <<>> => Len(t) = 0
    BY <2>2
  <2> QED BY <2>1, <2>3, <2>4, <2>5
<1> QED BY <1>1, <1>2, <1>3 DEF IsStream

\* A single response is a stream.
LEMMA StreamOne ==
    ASSUME NEW e \in Event, HasResponse(e)
    PROVE  IsStream(<<e>>)
<1>1. <<e>> \in Seq(Event) /\ Len(<<e>>) = 1 /\ <<e>>[1] = e
  OBVIOUS
<1> QED BY <1>1 DEF IsStream

\* A planning pass yields a stream.
LEMMA PlanningIsStream ==
    ASSUME NEW tasks \in SUBSET Tasks, NEW s \in PlanningStreams(tasks)
    PROVE  IsStream(s)
<1> DEFINE a == EventOf("replanning", {})
           b == EventOf("planned", {})
<1>1. /\ a \in Event /\ b \in Event /\ ~HasResponse(a) /\ ~HasResponse(b)
  BY DEF EventOf, Event, EventTypes, HasResponse
<1>2. PICK assigned \in {<<>>, <<b>>},
           last \in {EventOf("finished", tasks), EventOf("failed", {})} :
             s = <<a>> \o assigned \o <<last>>
  BY DEF PlanningStreams
<1>3. last \in Event /\ HasResponse(last)
  BY DEF EventOf, Event, EventTypes, HasResponse
<1> HIDE DEF a, b
<1>4. IsStream(<<last>>)
  BY <1>3, StreamOne
<1>5. assigned \in Seq(Event) /\ \A i \in 1..Len(assigned) : ~HasResponse(assigned[i])
  <2>1. CASE assigned = <<>>
    BY <2>1
  <2>2. CASE assigned = <<b>>
    <3>1. <<b>> \in Seq(Event) /\ Len(<<b>>) = 1 /\ <<b>>[1] = b
      BY <1>1
    <3> QED BY <1>1, <2>2, <3>1
  <2> QED BY <1>2, <2>1, <2>2
<1>6. <<a>> \in Seq(Event) /\ Len(<<a>>) = 1 /\ <<a>>[1] = a
  BY <1>1
<1> DEFINE first == <<a>> \o assigned
<1>7. first \in Seq(Event) /\ \A i \in 1..Len(first) : ~HasResponse(first[i])
  <2>1. PICK x : x = <<a>>
    OBVIOUS
  <2>2. x \in Seq(Event) /\ \A i \in 1..Len(x) : ~HasResponse(x[i])
    BY <1>1, <1>6, <2>1
  <2>3. x \o assigned \in Seq(Event) /\ \A i \in 1..Len(x \o assigned) : ~HasResponse((x \o assigned)[i])
    BY <1>5, <2>2
  <2> QED BY <2>1, <2>3
<1> HIDE DEF first
<1>8. IsStream(first \o <<last>>)
  BY <1>4, <1>7, StreamConcat
<1> QED BY <1>2, <1>8 DEF first

\* The answer of the runtime to a request: a stream, and tasks in memory, which
\* a submission creates and a re-orchestration keeps.
LEMMA AnswerIsStream ==
    ASSUME NEW r \in Requests, r.op \in {"submit", "reorchestrate", "manual"},
           session = NoSession \/ session \subseteq Tasks,
           NEW answer \in IF r.op = "submit" THEN RuntimeSubmit(r)
                                             ELSE RuntimeReorchestrate(r)
    PROVE  /\ IsStream(answer.stream)
           /\ answer.session = NoSession \/ answer.session \subseteq Tasks
           /\ r.op = "submit" \/ session # NoSession => answer.session # NoSession
<1>1. IsStream(Refusal)
  <2>1. EventOf("rejected", {}) \in Event /\ HasResponse(EventOf("rejected", {}))
    BY DEF EventOf, Event, EventTypes, HasResponse
  <2> QED BY <2>1, StreamOne DEF Refusal
<1>2. CASE r.op = "submit" /\ ~(r.replace = "no" /\ session # NoSession)
  <2>1. PICK s \in PlanningStreams(Tasks) :
           answer = [session |-> Tasks, stream |-> <<EventOf("accepted", {})>> \o s]
    BY <1>2 DEF RuntimeSubmit
  <2>2. answer.session = Tasks /\ answer.stream = <<EventOf("accepted", {})>> \o s
    BY <2>1
  <2>3. EventOf("accepted", {}) \in Event /\ ~HasResponse(EventOf("accepted", {}))
    BY DEF EventOf, Event, EventTypes, HasResponse
  <2>4. PICK e : e = EventOf("accepted", {})
    OBVIOUS
  <2>5. /\ <<e>> \in Seq(Event) /\ \A i \in 1..Len(<<e>>) : ~HasResponse(<<e>>[i])
    <3>1. e \in Event /\ ~HasResponse(e)
      BY <2>3, <2>4
    <3>2. <<e>> \in Seq(Event) /\ Len(<<e>>) = 1 /\ <<e>>[1] = e
      BY <3>1
    <3> QED BY <3>1, <3>2
  <2>6. IsStream(s)
    BY PlanningIsStream
  <2>7. IsStream(<<e>> \o s)
    BY <2>5, <2>6, StreamConcat
  <2> QED BY <2>2, <2>4, <2>7, SessionAssumption
<1>3. CASE r.op = "submit" /\ r.replace = "no" /\ session # NoSession
  <2>1. answer = [session |-> session, stream |-> Refusal]
    BY <1>3 DEF RuntimeSubmit
  <2> QED BY <2>1, <1>1, <1>3
<1>4. CASE r.op # "submit" /\ session = NoSession
  <2>1. answer = [session |-> session, stream |-> Refusal]
    BY <1>4 DEF RuntimeReorchestrate
  <2> QED BY <2>1, <1>1, <1>4
<1>5. CASE r.op # "submit" /\ session # NoSession
  <2> DEFINE rest == AfterOverrides(session, r.overrides)
             planning == IF r.trigger THEN PlanningStreams(rest)
                                      ELSE {<<EventOf("finished", {})>>}
  <2>1. PICK s \in planning : answer = [session |-> rest, stream |-> r.overrides \o s]
    BY <1>5 DEF RuntimeReorchestrate
  <2>2. answer.session = rest /\ answer.stream = r.overrides \o s
    BY <2>1
  <2>3. rest \in SUBSET Tasks
    BY <1>5 DEF AfterOverrides
  <2> HIDE DEF rest
  <2>4. IsStream(s)
    <3>1. CASE s \in PlanningStreams(rest)
      BY <2>3, <3>1, PlanningIsStream
    <3>2. CASE s = <<EventOf("finished", {})>>
      <4>1. EventOf("finished", {}) \in Event /\ HasResponse(EventOf("finished", {}))
        BY DEF EventOf, Event, EventTypes, HasResponse
      <4> QED BY <3>2, <4>1, StreamOne
    <3> QED BY <3>1, <3>2
  <2>5. r.overrides \in Seq([type : {"override", "completed"}, tasks : SUBSET Tasks])
    BY <1>5, RequestsAssumption
  <2>6. PICK o : o = r.overrides
    OBVIOUS
  <2>7. o \in Seq(Event) /\ \A i \in 1..Len(o) : ~HasResponse(o[i])
    <3> DEFINE O == [type : {"override", "completed"}, tasks : SUBSET Tasks]
    <3>1. O \subseteq Event /\ \A e \in O : ~HasResponse(e)
      BY DEF Event, EventTypes, HasResponse
    <3>2. o \in Seq(O)
      BY <2>5, <2>6
    <3> HIDE DEF O
    <3> QED BY <3>1, <3>2
  <2>8. IsStream(o \o s)
    BY <2>4, <2>7, StreamConcat
  <2> QED BY <2>2, <2>3, <2>6, <2>8, SessionAssumption
<1> QED BY <1>2, <1>3, <1>4, <1>5

-----------------------------------------------------------------------------
(* What each step does to the job of its handler. *)

\* The jobs of the others are left alone.
Only(h) == \A g \in Workers : g # h => job'[g] = job[g]

\* The job goes on with the same request.
GoesOn(h, stage) ==
    /\ job'[h].stage = stage
    /\ job'[h].call = job[h].call
    /\ job'[h].req = job[h].req

\* It keeps its copy of the record and what is left of its stream.
Keeps(h) == job'[h].rec = job[h].rec /\ job'[h].stream = job[h].stream

\* A handler's copy with another state or audit count.
SamePlan(h) == job'[h].rec \in WorkflowRecord /\ job'[h].rec.plan = job[h].rec.plan

\* Only the job of the handler that steps changes.
LEMMA JobChanges ==
    ASSUME JobsShaped, NEW h \in Workers, NEW j, job' = [job EXCEPT ![h] = j]
    PROVE  job'[h] = j /\ Only(h)
BY DEF JobsShaped, Only

\* Going to another stage.
LEMMA GotoMoves ==
    ASSUME JobsShaped, NEW h \in Workers, NEW stage, Goto(h, stage)
    PROVE  Only(h) /\ GoesOn(h, stage) /\ Keeps(h)
<1> DEFINE k == [job[h] EXCEPT !.stage = stage]
<1>1. JobShape(job[h])
  BY DEF JobsShaped
<1>2. /\ k.stage = stage /\ k.call = job[h].call /\ k.req = job[h].req
      /\ k.rec = job[h].rec /\ k.stream = job[h].stream
  BY <1>1 DEF JobShape
<1>3. job' = [job EXCEPT ![h] = k]
  BY DEF Goto, Become
<1> HIDE DEF k
<1>4. job'[h] = k /\ Only(h)
  BY <1>3, JobChanges
<1> QED BY <1>2, <1>4 DEF GoesOn, Keeps

\* Going to another stage with another copy.
LEMMA GotoWithMoves ==
    ASSUME JobsShaped, NEW h \in Workers, NEW stage, NEW rec, GotoWith(h, stage, rec)
    PROVE  /\ Only(h) /\ GoesOn(h, stage)
           /\ job'[h].rec = rec /\ job'[h].stream = job[h].stream
<1> DEFINE k == [job[h] EXCEPT !.stage = stage, !.rec = rec]
<1>1. JobShape(job[h])
  BY DEF JobsShaped
<1>2. /\ k.stage = stage /\ k.call = job[h].call /\ k.req = job[h].req
      /\ k.rec = rec /\ k.stream = job[h].stream
  BY <1>1 DEF JobShape
<1>3. job' = [job EXCEPT ![h] = k]
  BY DEF GotoWith, Become
<1> HIDE DEF k
<1>4. job'[h] = k /\ Only(h)
  BY <1>3, JobChanges
<1> QED BY <1>2, <1>4 DEF GoesOn

\* Ending the call.
LEMMA LeaveMoves ==
    ASSUME JobsShaped, NEW h \in Workers, Leave(h)
    PROVE  Only(h) /\ job'[h] = Idle
BY JobChanges DEF Leave, Become

\* Taking in an event.
LEMMA ReceiveMoves ==
    ASSUME RowsInv, NEW h \in Workers, job[h].rec \in WorkflowRecord, NEW s,
           Become(h, Receive(job[h], s))
    PROVE  /\ Only(h)
           /\ SamePlan(h)
           /\ job'[h].stream = s
           /\ job'[h].rec.state = StateForEvent(Head(s), job[h].rec.state)
           /\ \E stage \in {"plan", "idem", "event"} :
                /\ GoesOn(h, stage)
                /\ stage = "plan" <=> Head(s).type = "finished"
                /\ stage = "idem" => HasResponse(Head(s)) /\ job[h].req.key # NoKey
                /\ stage = "event" => (HasResponse(Head(s)) => job[h].req.key = NoKey)
<1> DEFINE k == Receive(job[h], s)
           e == Head(s)
<1>1. JobShape(job[h]) /\ JobsShaped
  BY DEF RowsInv, JobsShaped
<1>2. /\ k.call = job[h].call /\ k.req = job[h].req
      /\ k.rec = Noted(job[h].rec, e) /\ k.stream = s
      /\ k.stage = IF e.type = "finished" THEN "plan"
                   ELSE IF HasResponse(e) /\ job[h].req.key # NoKey THEN "idem"
                   ELSE "event"
  BY <1>1 DEF Receive, JobShape
<1>3. job' = [job EXCEPT ![h] = k]
  BY DEF Become
<1>4. /\ Noted(job[h].rec, e) \in WorkflowRecord
      /\ Noted(job[h].rec, e).plan = job[h].rec.plan
  BY NotedKeeps
<1>5. Noted(job[h].rec, e).state = StateForEvent(e, job[h].rec.state)
  BY DEF Noted, WorkflowRecord
<1> HIDE DEF k
<1>6. job'[h] = k /\ Only(h)
  BY <1>1, <1>3, JobChanges
<1>7. GoesOn(h, k.stage)
  BY <1>2, <1>6 DEF GoesOn
<1>8. /\ k.stage \in {"plan", "idem", "event"}
      /\ k.stage = "plan" <=> e.type = "finished"
      /\ k.stage = "idem" => HasResponse(e) /\ job[h].req.key # NoKey
      /\ k.stage = "event" => (HasResponse(e) => job[h].req.key = NoKey)
  <2>1. CASE e.type = "finished"
    BY <1>2, <2>1 DEF HasResponse
  <2>2. CASE e.type # "finished" /\ HasResponse(e) /\ job[h].req.key # NoKey
    BY <1>2, <2>2
  <2>3. CASE e.type # "finished" /\ ~(HasResponse(e) /\ job[h].req.key # NoKey)
    BY <1>2, <2>3
  <2> QED BY <2>1, <2>2, <2>3
<1> QED BY <1>2, <1>4, <1>5, <1>6, <1>7, <1>8 DEF SamePlan

\* A copy that a handler carries is a record.
LEMMA CopyIsRecord ==
    ASSUME RowsInv, NEW h \in Workers, Carries(job[h])
    PROVE  job[h].rec \in WorkflowRecord
BY DEF RowsInv, CopiesStorable, Storable

\* A known key ends the call.
LEMMA LookupMoves ==
    ASSUME RowsInv, NEW h \in Workers, Lookup(h)
    PROVE  /\ job[h].stage = "lookup" /\ Only(h)
           /\ \/ job'[h] = Idle
              \/ /\ job[h].req.key = NoKey \/ job[h].req.key \notin DOMAIN idem
                 /\ GoesOn(h, IF job[h].req.op = "submit" THEN "load" ELSE "run")
                 /\ Keeps(h)
<1>0. JobsShaped /\ job[h].stage = "lookup"
  BY DEF RowsInv, Lookup, At
<1>1. CASE Leave(h)
  BY <1>0, <1>1, LeaveMoves
<1>2. CASE ~(job[h].req.key # NoKey /\ job[h].req.key \in DOMAIN idem)
  <2>1. Goto(h, IF job[h].req.op = "submit" THEN "load" ELSE "run")
    BY <1>2 DEF Lookup, Req
  <2> QED BY <1>0, <1>2, <2>1, GotoMoves
<1> QED BY <1>1, <1>2 DEF Lookup, Req

\* A submission continues the stored record or starts from zero.
LEMMA LoadMoves ==
    ASSUME RowsInv, NEW h \in Workers, Load(h)
    PROVE  /\ job[h].stage = "load" /\ Only(h) /\ GoesOn(h, "save")
           /\ job'[h].stream = job[h].stream
           /\ job'[h].rec \in WorkflowRecord
           /\ job'[h].rec.state = "submitted"
           /\ job'[h].rec.plan = IF job[h].req.replace = "yes" /\ record # NoRecord
                                 THEN record.plan ELSE 0
<1> DEFINE base == IF job[h].req.replace = "yes" /\ record # NoRecord
                   THEN record ELSE FreshRecord
           rec == [base EXCEPT !.state = "submitted"]
<1>0. JobsShaped /\ job[h].stage = "load" /\ (record = NoRecord \/ record \in WorkflowRecord)
  BY DEF RowsInv, RecordTyped, Load, At
<1>1. base \in WorkflowRecord
      /\ base.plan = IF job[h].req.replace = "yes" /\ record # NoRecord THEN record.plan ELSE 0
  BY <1>0 DEF FreshRecord, WorkflowRecord, States
<1>2. GotoWith(h, "save", rec)
  BY DEF Load, Req
<1> HIDE DEF base
<1>3. rec \in WorkflowRecord /\ rec.state = "submitted" /\ rec.plan = base.plan
  BY <1>1 DEF WorkflowRecord, States
<1> HIDE DEF rec
<1> QED BY <1>0, <1>1, <1>2, <1>3, GotoWithMoves

\* The stage after each of the four upserts.
LEMMA AfterUpsertIs ==
    /\ AfterUpsert("save") = "announce" /\ AfterUpsert("mark") = "audit"
    /\ AfterUpsert("close") = "notify" /\ AfterUpsert("upsert") = "publish"
BY DEF AfterUpsert

\* The copy becomes the stored record.
LEMMA UpsertMoves ==
    ASSUME RowsInv, NEW h \in Workers, Upsert(h)
    PROVE  /\ job[h].stage \in {"save", "mark", "close", "upsert"} /\ Only(h) /\ Keeps(h)
           /\ job[h].stage = "save" => GoesOn(h, "announce")
           /\ job[h].stage = "mark" => GoesOn(h, "audit")
           /\ job[h].stage = "close" => GoesOn(h, "notify")
           /\ job[h].stage = "upsert" => GoesOn(h, "publish")
           /\ record' = job[h].rec /\ job[h].rec \in WorkflowRecord
<1>0. JobsShaped /\ job[h].stage \in {"save", "mark", "close", "upsert"} /\ record' = job[h].rec
  BY DEF RowsInv, Upsert, Rec
<1>1. job[h].rec \in WorkflowRecord
  BY <1>0, CopyIsRecord DEF Carries, Carrying
<1>2. Goto(h, AfterUpsert(job[h].stage))
  BY DEF Upsert
<1>3. Only(h) /\ Keeps(h) /\ GoesOn(h, AfterUpsert(job[h].stage))
  BY <1>0, <1>2, GotoMoves
<1> QED BY <1>0, <1>1, <1>3, AfterUpsertIs

\* After a publication the call goes on or ends.
LEMMA PublishMoves ==
    ASSUME RowsInv, NEW h \in Workers, Publish(h)
    PROVE  /\ job[h].stage \in {"announce", "notify", "publish"} /\ Only(h)
           /\ \/ job[h].stage = "announce" /\ GoesOn(h, "hydrate") /\ Keeps(h)
              \/ job[h].stage = "publish" /\ GoesOn(h, "yield") /\ Keeps(h)
              \/ /\ job[h].stage = "notify" /\ job[h].req.op = "manual"
                 /\ GoesOn(h, "check") /\ Keeps(h)
              \/ /\ job[h].stage = "notify" /\ job[h].req.op = "recover"
                 /\ GoesOn(h, "replay") /\ Keeps(h)
              \/ job[h].stage = "notify" /\ job'[h] = Idle
<1>0. JobsShaped /\ job[h].stage \in {"announce", "notify", "publish"} /\ Become(h, AfterPublish(h))
  BY DEF RowsInv, Publish
<1>1. CASE job[h].stage = "announce"
  <2>1. Goto(h, "hydrate")
    BY <1>0, <1>1 DEF AfterPublish, Goto
  <2> QED BY <1>0, <1>1, <2>1, GotoMoves
<1>2. CASE job[h].stage = "publish"
  <2>1. Goto(h, "yield")
    BY <1>0, <1>2 DEF AfterPublish, Goto
  <2> QED BY <1>0, <1>2, <2>1, GotoMoves
<1>3. CASE job[h].stage = "notify" /\ job[h].req.op = "manual"
  <2>1. Goto(h, "check")
    BY <1>0, <1>3 DEF AfterPublish, Goto, Req
  <2> QED BY <1>0, <1>3, <2>1, GotoMoves
<1>4. CASE job[h].stage = "notify" /\ job[h].req.op = "recover"
  <2>1. Goto(h, "replay")
    BY <1>0, <1>4 DEF AfterPublish, Goto, Req
  <2> QED BY <1>0, <1>4, <2>1, GotoMoves
<1>5. CASE job[h].stage = "notify" /\ job[h].req.op \notin {"manual", "recover"}
  <2>1. Leave(h)
    BY <1>0, <1>5 DEF AfterPublish, Leave, Req
  <2> QED BY <1>0, <1>5, <2>1, LeaveMoves
<1> QED BY <1>0, <1>1, <1>2, <1>3, <1>4, <1>5

\* The runtime answers and the first event is taken in.
LEMMA RunMoves ==
    ASSUME RowsInv, NEW h \in Workers, Run(h), job[h].req \in Requests,
           job[h].req.op \in {"submit", "reorchestrate", "manual"},
           session = NoSession \/ session \subseteq Tasks
    PROVE  /\ job[h].stage = "run" /\ Only(h) /\ SamePlan(h)
           /\ IsStream(job'[h].stream)
           /\ job'[h].rec.state = StateForEvent(Head(job'[h].stream), job[h].rec.state)
           /\ \E stage \in {"plan", "idem", "event"} :
                /\ GoesOn(h, stage)
                /\ stage = "plan" <=> Head(job'[h].stream).type = "finished"
                /\ stage = "idem" => HasResponse(Head(job'[h].stream)) /\ job[h].req.key # NoKey
                /\ stage = "event" =>
                     (HasResponse(Head(job'[h].stream)) => job[h].req.key = NoKey)
           /\ session' = NoSession \/ session' \subseteq Tasks
           /\ job[h].req.op = "submit" \/ session # NoSession => session' # NoSession
<1>0. job[h].stage = "run" /\ job[h].rec \in WorkflowRecord
  BY CopyIsRecord DEF Run, At, Carries, Carrying
<1>1. PICK r : r = job[h].req
  OBVIOUS
<1>2. PICK answer \in IF r.op = "submit" THEN RuntimeSubmit(r) ELSE RuntimeReorchestrate(r) :
         session' = answer.session /\ Become(h, Receive(job[h], answer.stream))
  BY <1>1 DEF Run, Req
<1>3. /\ IsStream(answer.stream)
      /\ answer.session = NoSession \/ answer.session \subseteq Tasks
      /\ r.op = "submit" \/ session # NoSession => answer.session # NoSession
  BY <1>1, AnswerIsStream
<1>4. PICK s : s = answer.stream
  OBVIOUS
<1>5. Become(h, Receive(job[h], s))
  BY <1>2, <1>4
<1>6. /\ Only(h) /\ SamePlan(h) /\ job'[h].stream = s
      /\ job'[h].rec.state = StateForEvent(Head(s), job[h].rec.state)
      /\ \E stage \in {"plan", "idem", "event"} :
                /\ GoesOn(h, stage)
                /\ stage = "plan" <=> Head(s).type = "finished"
                /\ stage = "idem" => HasResponse(Head(s)) /\ job[h].req.key # NoKey
                /\ stage = "event" => (HasResponse(Head(s)) => job[h].req.key = NoKey)
  BY <1>0, <1>5, ReceiveMoves
<1>7. IsStream(s)
  BY <1>3, <1>4
<1>8. /\ session' = NoSession \/ session' \subseteq Tasks
      /\ job[h].req.op = "submit" \/ session # NoSession => session' # NoSession
  BY <1>1, <1>2, <1>3
<1> QED BY <1>0, <1>6, <1>7, <1>8

\* A plan version is stored under the number after the copy's.
LEMMA WritePlanMoves ==
    ASSUME RowsInv, NEW h \in Workers, WritePlan(h)
    PROVE  /\ job[h].stage = "plan" /\ Only(h)
           /\ GoesOn(h, IF job[h].req.key # NoKey THEN "idem" ELSE "event")
           /\ job'[h].stream = job[h].stream
           /\ job[h].rec \in WorkflowRecord /\ job'[h].rec \in WorkflowRecord
           /\ job'[h].rec.plan = job[h].rec.plan + 1
           /\ job'[h].rec.state = job[h].rec.state
           /\ plans' = Put(plans, job[h].rec.plan + 1,
                           [call |-> job[h].call, key |-> job[h].req.key, boot |-> boot,
                            tasks |-> Head(job[h].stream).tasks])
<1> DEFINE rec == [job[h].rec EXCEPT !.plan = job[h].rec.plan + 1]
<1>0. JobsShaped /\ job[h].stage = "plan" /\ job[h].rec \in WorkflowRecord
  BY CopyIsRecord DEF RowsInv, WritePlan, At, Carries, Carrying
<1>1. GotoWith(h, IF job[h].req.key # NoKey THEN "idem" ELSE "event", rec)
  BY DEF WritePlan, Rec, Req
<1>2. rec \in WorkflowRecord /\ rec.plan = job[h].rec.plan + 1 /\ rec.state = job[h].rec.state
  BY <1>0 DEF WorkflowRecord
<1>3. plans' = Put(plans, job[h].rec.plan + 1,
                   [call |-> job[h].call, key |-> job[h].req.key, boot |-> boot,
                    tasks |-> Head(job[h].stream).tasks])
  BY DEF WritePlan, Rec, Req, Current
<1> HIDE DEF rec
<1>4. /\ Only(h) /\ GoesOn(h, IF job[h].req.key # NoKey THEN "idem" ELSE "event")
      /\ job'[h].rec = rec /\ job'[h].stream = job[h].stream
  BY <1>0, <1>1, GotoWithMoves
<1> QED BY <1>0, <1>2, <1>3, <1>4

\* The three steps that only write a row or a flag.
LEMMA RowMoves ==
    ASSUME RowsInv, NEW h \in Workers
    PROVE  /\ Hydrate(h) => job[h].stage = "hydrate" /\ Only(h) /\ GoesOn(h, "run") /\ Keeps(h)
           /\ PutIdempotency(h) =>
                job[h].stage = "idem" /\ Only(h) /\ GoesOn(h, "event") /\ Keeps(h)
           /\ WriteEvent(h) =>
                job[h].stage = "event" /\ Only(h) /\ GoesOn(h, "upsert") /\ Keeps(h)
<1>0. JobsShaped
  BY DEF RowsInv
<1>1. ASSUME Hydrate(h) PROVE job[h].stage = "hydrate" /\ Goto(h, "run")
  BY <1>1 DEF Hydrate, At
<1>2. ASSUME PutIdempotency(h) PROVE job[h].stage = "idem" /\ Goto(h, "event")
  BY <1>2 DEF PutIdempotency, At
<1>3. ASSUME WriteEvent(h) PROVE job[h].stage = "event" /\ Goto(h, "upsert")
  BY <1>3 DEF WriteEvent, At
<1> QED BY <1>0, <1>1, <1>2, <1>3, GotoMoves

\* The consumer asks for the next event, if there is one.
LEMMA ResumeMoves ==
    ASSUME RowsInv, NEW h \in Workers, Resume(h), IsStream(job[h].stream)
    PROVE  /\ job[h].stage = "yield" /\ Only(h)
           /\ \/ job'[h] = Idle /\ HasResponse(Head(job[h].stream))
              \/ /\ SamePlan(h)
                 /\ ~HasResponse(Head(job[h].stream))
                 /\ IsStream(job'[h].stream)
                 /\ job'[h].rec.state = StateForEvent(Head(job'[h].stream), job[h].rec.state)
                 /\ \E stage \in {"plan", "idem", "event"} :
                      /\ GoesOn(h, stage)
                      /\ stage = "plan" <=> Head(job'[h].stream).type = "finished"
                      /\ stage = "idem" =>
                           HasResponse(Head(job'[h].stream)) /\ job[h].req.key # NoKey
                      /\ stage = "event" =>
                           (HasResponse(Head(job'[h].stream)) => job[h].req.key = NoKey)
<1>0. JobsShaped /\ job[h].stage = "yield" /\ job[h].rec \in WorkflowRecord
  BY CopyIsRecord DEF RowsInv, Resume, At, Carries, Carrying
<1>1. CASE Tail(job[h].stream) = <<>>
  <2>1. Leave(h)
    BY <1>1 DEF Resume
  <2>2. HasResponse(Head(job[h].stream))
    BY <1>1, StreamHead
  <2> QED BY <1>0, <2>1, <2>2, LeaveMoves
<1>2. CASE Tail(job[h].stream) # <<>>
  <2>1. PICK s : s = Tail(job[h].stream)
    OBVIOUS
  <2>2. Become(h, Receive(job[h], s))
    BY <1>2, <2>1 DEF Resume
  <2>3. IsStream(s) /\ ~HasResponse(Head(job[h].stream))
    BY <1>2, <2>1, StreamTail
  <2>4. /\ Only(h) /\ SamePlan(h) /\ job'[h].stream = s
        /\ job'[h].rec.state = StateForEvent(Head(s), job[h].rec.state)
        /\ \E stage \in {"plan", "idem", "event"} :
                  /\ GoesOn(h, stage)
                  /\ stage = "plan" <=> Head(s).type = "finished"
                  /\ stage = "idem" => HasResponse(Head(s)) /\ job[h].req.key # NoKey
                  /\ stage = "event" => (HasResponse(Head(s)) => job[h].req.key = NoKey)
    BY <1>0, <2>2, ReceiveMoves
  <2> QED BY <1>0, <2>3, <2>4
<1> QED BY <1>1, <1>2

\* An abandoned stream.
LEMMA AbandonMoves ==
    ASSUME RowsInv, NEW h \in Workers, Abandon(h)
    PROVE  job[h].stage = "yield" /\ Only(h) /\ job'[h] = Idle /\ Streaming
BY LeaveMoves DEF RowsInv, Abandon, At

\* A re-orchestration is refused or takes a copy of the record.
LEMMA CheckMoves ==
    ASSUME RowsInv, NEW h \in Workers, Check(h)
    PROVE  /\ job[h].stage = "check" /\ Only(h)
           /\ \/ job'[h] = Idle
              \/ /\ ~Refused(record, job[h].req)
                 /\ GoesOn(h, "rehydrate") /\ job'[h].rec = record
                 /\ job'[h].stream = job[h].stream
<1>0. JobsShaped /\ job[h].stage = "check"
  BY DEF RowsInv, Check, At
<1>1. CASE Refused(record, job[h].req)
  <2>1. Leave(h)
    BY <1>1 DEF Check, Req
  <2> QED BY <1>0, <2>1, LeaveMoves
<1>2. CASE ~Refused(record, job[h].req)
  <2>1. GotoWith(h, "rehydrate", record)
    BY <1>2 DEF Check, Req
  <2> QED BY <1>0, <1>2, <2>1, GotoWithMoves
<1> QED BY <1>1, <1>2

\* The workflow is put back into memory where it is not known.
LEMMA RehydrateMoves ==
    ASSUME RowsInv, NEW h \in Workers, Rehydrate(h)
    PROVE  /\ job[h].stage = "rehydrate" /\ Only(h)
           /\ \/ /\ hydrated /\ session' = session /\ hydrated' = hydrated
                 /\ GoesOn(h, "lookup") /\ Keeps(h)
              \/ /\ ~hydrated /\ session' = Tasks /\ hydrated' = TRUE
                 /\ GoesOn(h, "lookup") /\ Keeps(h)
              \/ ~hydrated /\ session' = Tasks /\ hydrated' = FALSE /\ job'[h] = Idle
<1>0. JobsShaped /\ job[h].stage = "rehydrate"
  BY DEF RowsInv, Rehydrate, At
<1>1. \/ hydrated /\ Goto(h, "lookup") /\ session' = session /\ hydrated' = hydrated
      \/ ~hydrated /\ session' = Tasks /\ hydrated' = TRUE /\ Goto(h, "lookup")
      \/ ~hydrated /\ session' = Tasks /\ hydrated' = FALSE /\ Leave(h)
  BY DEF Rehydrate, memory
<1>2. CASE Goto(h, "lookup")
  <2>1. Only(h) /\ GoesOn(h, "lookup") /\ Keeps(h)
    BY <1>0, <1>2, GotoMoves
  <2>2. \/ hydrated /\ session' = session /\ hydrated' = hydrated
        \/ ~hydrated /\ session' = Tasks /\ hydrated' = TRUE
        \/ ~hydrated /\ session' = Tasks /\ hydrated' = FALSE /\ Leave(h)
    BY <1>1
  <2> QED BY <1>0, <2>1, <2>2, LeaveMoves
<1>3. CASE ~hydrated /\ session' = Tasks /\ hydrated' = FALSE /\ Leave(h)
  BY <1>0, <1>3, LeaveMoves
<1> QED BY <1>1, <1>2, <1>3

\* An operator's action takes a copy with its new state.
LEMMA FetchMoves ==
    ASSUME RowsInv, NEW h \in Workers, Fetch(h)
    PROVE  /\ job[h].stage = "fetch" /\ Only(h)
           /\ \/ job'[h] = Idle
              \/ /\ record \in WorkflowRecord /\ record # NoRecord
                 /\ GoesOn(h, IF job[h].req.op = "manual" THEN "audit" ELSE "mark")
                 /\ job'[h].stream = job[h].stream
                 /\ job'[h].rec \in WorkflowRecord
                 /\ job'[h].rec.plan = record.plan
                 /\ \/ job'[h].rec.state = record.state
                    \/ job'[h].rec.state # "planning"
                 /\ job[h].req.op \in {"pause", "resume", "cancel"} =>
                      job'[h].rec.state # "planning"
<1>0. JobsShaped /\ job[h].stage = "fetch" /\ (record = NoRecord \/ record \in WorkflowRecord)
  BY DEF RowsInv, RecordTyped, Fetch, At
<1>1. CASE record = NoRecord
  <2>1. Leave(h)
    BY <1>1 DEF Fetch
  <2> QED BY <1>0, <2>1, LeaveMoves
<1>2. CASE record # NoRecord
  <2>1. PICK rec : rec = Marked(record, job[h].req.op)
    OBVIOUS
  <2>2. GotoWith(h, IF job[h].req.op = "manual" THEN "audit" ELSE "mark", rec)
    BY <1>2, <2>1 DEF Fetch, Req
  <2>3. rec \in WorkflowRecord /\ rec.plan = record.plan
    BY <1>0, <1>2, <2>1 DEF Marked, WorkflowRecord, States
  <2>4. /\ rec.state = record.state \/ rec.state # "planning"
        /\ job[h].req.op \in {"pause", "resume", "cancel"} => rec.state # "planning"
    BY <1>0, <1>2, <2>1 DEF Marked, WorkflowRecord, States
  <2>5. /\ Only(h) /\ GoesOn(h, IF job[h].req.op = "manual" THEN "audit" ELSE "mark")
        /\ job'[h].rec = rec /\ job'[h].stream = job[h].stream
    BY <1>0, <2>2, GotoWithMoves
  <2> QED BY <1>0, <1>2, <2>3, <2>4, <2>5
<1> QED BY <1>1, <1>2

\* An audit entry is counted in the copy.
LEMMA WriteAuditMoves ==
    ASSUME RowsInv, NEW h \in Workers, WriteAudit(h)
    PROVE  /\ job[h].stage = "audit" /\ Only(h) /\ GoesOn(h, "close") /\ SamePlan(h)
           /\ job'[h].stream = job[h].stream
           /\ job'[h].rec.state = job[h].rec.state
           /\ \E row : audits' = Put(audits, job[h].rec.audits + 1, row)
           /\ job[h].rec \in WorkflowRecord
<1> DEFINE rec == [job[h].rec EXCEPT !.audits = job[h].rec.audits + 1]
<1>0. JobsShaped /\ job[h].stage = "audit" /\ job[h].rec \in WorkflowRecord
  BY CopyIsRecord DEF RowsInv, WriteAudit, At, Carries, Carrying
<1>1. GotoWith(h, "close", rec)
  BY DEF WriteAudit, Rec
<1>2. rec \in WorkflowRecord /\ rec.plan = job[h].rec.plan /\ rec.state = job[h].rec.state
  BY <1>0 DEF WorkflowRecord
<1>3. \E row : audits' = Put(audits, job[h].rec.audits + 1, row)
  BY DEF WriteAudit, Rec
<1> HIDE DEF rec
<1>4. /\ Only(h) /\ GoesOn(h, "close") /\ job'[h].rec = rec
      /\ job'[h].stream = job[h].stream
  BY <1>0, <1>1, GotoWithMoves
<1> QED BY <1>0, <1>2, <1>3, <1>4 DEF SamePlan

\* A request is taken up.
LEMMA BeginMoves ==
    ASSUME RowsInv, NEW h \in Handlers, NEW r \in Requests, Begin(h, r)
    PROVE  /\ h \in Workers /\ job[h].stage = "idle" /\ job[Main].stage = "idle" /\ Only(h)
           /\ job'[h].req = r /\ job'[h].call = calls + 1
           /\ job'[h].rec = NoRecord /\ job'[h].stream = <<>>
           /\ job'[h].stage = IF r.op = "submit" THEN "lookup"
                              ELSE IF r.op = "reorchestrate" THEN "check" ELSE "fetch"
<1> DEFINE first == CASE r.op = "submit" -> "lookup"
                      [] r.op = "reorchestrate" -> "check"
                      [] OTHER -> "fetch"
           k == [Idle EXCEPT !.call = calls', !.req = r, !.stage = first]
<1>1. first = IF r.op = "submit" THEN "lookup"
              ELSE IF r.op = "reorchestrate" THEN "check" ELSE "fetch"
  OBVIOUS
<1>2. job' = [job EXCEPT ![h] = k] /\ calls' = calls + 1
  BY DEF Begin, Become
<1> HIDE DEF first
<1>3. /\ k.req = r /\ k.call = calls' /\ k.rec = NoRecord /\ k.stream = <<>>
      /\ k.stage = first
  BY DEF Idle
<1> HIDE DEF k
<1>4. h \in Workers /\ JobsShaped
  BY DEF Workers, RowsInv
<1>5. job'[h] = k /\ Only(h)
  BY <1>2, <1>4, JobChanges
<1>6. job[h].stage = "idle" /\ job[Main].stage = "idle"
  BY DEF Begin
<1> QED BY <1>1, <1>2, <1>3, <1>4, <1>5, <1>6

\* Recovery takes a copy, or ends.
LEMMA RecoverMoves ==
    ASSUME RowsInv, Recover
    PROVE  /\ Main \in Workers /\ job[Main].stage = "recover" /\ Only(Main)
           /\ \/ job'[Main] = Idle
              \/ /\ record # NoRecord /\ record \in WorkflowRecord
                 /\ GoesOn(Main, "audit") /\ job'[Main].rec = record
                 /\ job'[Main].stream = job[Main].stream
<1>0. /\ JobsShaped /\ Main \in Workers /\ job[Main].stage = "recover"
      /\ record = NoRecord \/ record \in WorkflowRecord
  BY DEF RowsInv, RecordTyped, Recover, At, Workers
<1>1. Leave(Main) \/ (record # NoRecord /\ GotoWith(Main, "audit", record))
  BY DEF Recover
<1> QED BY <1>0, <1>1, LeaveMoves, GotoWithMoves

\* Recovery submits the stored configuration to the runtime, and ends.
LEMMA ReplayMoves ==
    ASSUME RowsInv, Replay
    PROVE  /\ Main \in Workers /\ job[Main].stage = "replay" /\ Only(Main)
           /\ job'[Main] = Idle /\ session' = Tasks /\ hydrated' = TRUE
BY LeaveMoves DEF RowsInv, Replay, At, Workers

\* A start leaves every handler idle; recovery is the main thread's.
LEMMA StartMoves ==
    ASSUME RowsInv, NEW s \in Starts, Start(s)
    PROVE  /\ Main \in Workers /\ Only(Main)
           /\ \A h \in Workers : job[h] = Idle
           /\ \/ job'[Main] = Idle
              \/ /\ job'[Main].stage = "recover" /\ job'[Main].req.op = "recover"
                 /\ job'[Main].call = 0
                 /\ job'[Main].rec = NoRecord /\ job'[Main].stream = <<>>
<1> DEFINE k == [Idle EXCEPT !.stage = "recover", !.req = [NoRequest EXCEPT !.op = "recover"]]
<1>0. \A h \in Workers : job[h] = Idle
  BY DEF RowsInv, DownIsIdle, Start
<1>1. JobsShaped /\ Main \in Workers
  BY DEF RowsInv, Workers
<1>2. job' = job \/ job' = [job EXCEPT ![Main] = k]
  BY DEF Start, Become
<1>3. /\ k.stage = "recover" /\ k.call = 0 /\ k.rec = NoRecord /\ k.stream = <<>>
      /\ k.req = [NoRequest EXCEPT !.op = "recover"]
  BY DEF Idle
<1>4. [NoRequest EXCEPT !.op = "recover"].op = "recover"
  BY DEF NoRequest
<1> HIDE DEF k
<1>5. CASE job' = job
  BY <1>0, <1>1, <1>5 DEF Only
<1>6. CASE job' = [job EXCEPT ![Main] = k]
  <2>1. job'[Main] = k /\ Only(Main)
    BY <1>1, <1>6, JobChanges
  <2> QED BY <1>0, <1>1, <1>3, <1>4, <2>1
<1> QED BY <1>2, <1>5, <1>6

-----------------------------------------------------------------------------
(* What a handler carries, and the types of the state. *)

\* The stages of the event loop.
Loop == {"plan", "idem", "event", "upsert", "publish", "yield"}

Reorchestrating == {"check", "rehydrate", "lookup", "run"} \cup Loop

\* The stages through which an operation goes.
StagesOf(op) ==
    IF op = "submit" THEN {"lookup", "load", "save", "announce", "hydrate", "run"} \cup Loop
    ELSE IF op = "reorchestrate" THEN Reorchestrating
    ELSE IF op = "manual" THEN {"fetch", "audit", "close", "notify"} \cup Reorchestrating
    ELSE IF op = "recover" THEN {"recover", "audit", "close", "notify", "replay"}
    ELSE {"fetch", "mark", "audit", "close", "notify"}

\* A handler serves a request, the main thread recovers; in the event loop
\* there is an event at hand, and a plan is only stored for a finished pass.
SoundJob(h, j) ==
    /\ j.stage \in Stages /\ j.call \in Nat
    /\ j.rec = NoRecord \/ j.rec \in WorkflowRecord
    /\ j.stage # "idle" => j.stage \in StagesOf(j.req.op)
    /\ j.stage # "idle" => IF h = Main THEN j.req.op = "recover" ELSE j.req \in Requests
    /\ j.stage \in Loop => IsStream(j.stream)
    /\ j.stage = "plan" => Head(j.stream).type = "finished"

JobsSound == \A h \in Workers : SoundJob(h, job[h])

SessionTyped == session = NoSession \/ session \subseteq Tasks

\* An idle handler is sound.
LEMMA IdleSound ==
    ASSUME NEW h
    PROVE  SoundJob(h, Idle) /\ Idle.stage = "idle"
<1>1. Idle.stage = "idle" /\ Idle.call = 0 /\ Idle.rec = NoRecord
  BY DEF Idle
<1> QED BY <1>1 DEF SoundJob, Stages, Loop

\* Only the job that changed has to be looked at.
LEMMA OnlySound ==
    ASSUME JobsSound, NEW h \in Workers, Only(h), SoundJob(h, job'[h])
    PROVE  JobsSound'
<1> SUFFICES ASSUME NEW g \in Workers PROVE SoundJob(g, job'[g])
  BY DEF JobsSound, SoundJob
<1>1. g # h => job'[g] = job[g]
  BY DEF Only
<1>2. SoundJob(g, job[g])
  BY DEF JobsSound
<1> QED BY <1>1, <1>2

\* A job that goes on is sound if its stage is one of its operation's.
LEMMA GoesOnSound ==
    ASSUME JobsSound, NEW h \in Workers, job[h].stage # "idle",
           NEW stage \in Stages, stage \in StagesOf(job[h].req.op), GoesOn(h, stage),
           job'[h].rec = NoRecord \/ job'[h].rec \in WorkflowRecord,
           stage \in Loop => IsStream(job'[h].stream),
           stage = "plan" => Head(job'[h].stream).type = "finished",
           Only(h)
    PROVE  JobsSound'
<1>1. SoundJob(h, job[h])
  BY DEF JobsSound
<1>2. SoundJob(h, job'[h])
  BY <1>1 DEF SoundJob, GoesOn
<1> QED BY <1>2, OnlySound

\* The handlers of the event loop and of the stages before it.
LEMMA LoopServes ==
    ASSUME JobsSound, NEW h \in Workers,
           job[h].stage \in {"run", "lookup"} \cup Loop
    PROVE  /\ job[h].req.op \in {"submit", "reorchestrate", "manual"}
           /\ h \in Handlers /\ job[h].req \in Requests
           /\ Loop \cup {"run"} \subseteq StagesOf(job[h].req.op)
<1>1. SoundJob(h, job[h]) /\ job[h].stage # "idle"
  BY DEF JobsSound, Loop
<1>2. job[h].stage \in StagesOf(job[h].req.op)
  BY <1>1 DEF SoundJob
<1>3. job[h].req.op \in {"submit", "reorchestrate", "manual"}
  <2>1. job[h].stage \notin {"recover", "audit", "close", "notify", "replay", "fetch", "mark"}
    BY DEF Loop
  <2> QED BY <1>2, <2>1 DEF StagesOf
<1>4. h # Main
  BY <1>1, <1>3 DEF SoundJob
<1>5. h \in Handlers /\ job[h].req \in Requests
  BY <1>1, <1>4 DEF SoundJob, Workers
<1> QED BY <1>3, <1>5 DEF StagesOf, Reorchestrating

\* The steps of a handler keep the jobs sound.
LEMMA StepSound ==
    ASSUME RowsInv, JobsSound, SessionTyped, NEW h \in Workers, Step(h) \/ Abandon(h)
    PROVE  JobsSound' /\ SessionTyped'
<1>0. SoundJob(h, job[h])
  BY DEF JobsSound
<1>i. ASSUME Only(h), job'[h] = Idle PROVE JobsSound'
  BY <1>i, IdleSound, OnlySound
<1>r. job[h].rec = NoRecord \/ job[h].rec \in WorkflowRecord
  BY <1>0 DEF SoundJob
<1>1. CASE Lookup(h)
  <2>1. session' = session
    BY <1>1 DEF Lookup, memory
  <2>2. CASE job'[h] = Idle
    BY <1>1, <1>i, <2>1, <2>2, LookupMoves DEF SessionTyped
  <2>3. CASE GoesOn(h, IF job[h].req.op = "submit" THEN "load" ELSE "run") /\ Keeps(h)
    <3>1. job[h].stage = "lookup" /\ Only(h)
      BY <1>1, LookupMoves
    <3>2. PICK stage : stage = IF job[h].req.op = "submit" THEN "load" ELSE "run"
      OBVIOUS
    <3>3. stage \in Stages /\ stage \in StagesOf(job[h].req.op) /\ stage \notin Loop /\ stage # "plan"
      BY <3>1, <3>2, LoopServes DEF Stages, StagesOf, Loop
    <3>4. JobsSound'
      BY <1>r, <2>3, <3>1, <3>2, <3>3, GoesOnSound DEF Keeps
    <3> QED BY <2>1, <3>4 DEF SessionTyped
  <2> QED BY <1>1, <2>2, <2>3, LookupMoves
<1>2. CASE Load(h)
  <2>1. job[h].stage = "load" /\ Only(h) /\ GoesOn(h, "save") /\ job'[h].rec \in WorkflowRecord
    BY <1>2, LoadMoves
  <2>2. "save" \in StagesOf(job[h].req.op)
    BY <1>0, <2>1 DEF SoundJob, StagesOf, Reorchestrating, Loop
  <2>3. JobsSound'
    BY <2>1, <2>2, GoesOnSound DEF Stages, Loop
  <2> QED BY <1>2, <2>3 DEF Load, SessionTyped, memory
<1>3. CASE Upsert(h)
  <2>1. /\ job[h].stage \in {"save", "mark", "close", "upsert"} /\ Only(h) /\ Keeps(h)
        /\ job[h].stage = "save" => GoesOn(h, "announce")
        /\ job[h].stage = "mark" => GoesOn(h, "audit")
        /\ job[h].stage = "close" => GoesOn(h, "notify")
        /\ job[h].stage = "upsert" => GoesOn(h, "publish")
    BY <1>3, UpsertMoves
  <2>2. job[h].stage \in StagesOf(job[h].req.op)
    BY <1>0, <2>1 DEF SoundJob
  <2>3. ASSUME job[h].stage = "save" PROVE JobsSound'
    <3>1. "announce" \in StagesOf(job[h].req.op)
      BY <2>2, <2>3 DEF StagesOf, Reorchestrating, Loop
    <3> QED BY <1>r, <2>1, <2>3, <3>1, GoesOnSound DEF Stages, Loop, Keeps
  <2>4. ASSUME job[h].stage = "mark" PROVE JobsSound'
    <3>1. "audit" \in StagesOf(job[h].req.op)
      BY <2>2, <2>4 DEF StagesOf, Reorchestrating, Loop
    <3> QED BY <1>r, <2>1, <2>4, <3>1, GoesOnSound DEF Stages, Loop, Keeps
  <2>5. ASSUME job[h].stage = "close" PROVE JobsSound'
    <3>1. "notify" \in StagesOf(job[h].req.op)
      BY <2>2, <2>5 DEF StagesOf, Reorchestrating, Loop
    <3> QED BY <1>r, <2>1, <2>5, <3>1, GoesOnSound DEF Stages, Loop, Keeps
  <2>6. ASSUME job[h].stage = "upsert" PROVE JobsSound'
    <3>1. "publish" \in StagesOf(job[h].req.op) /\ IsStream(job[h].stream)
      BY <1>0, <2>2, <2>6 DEF StagesOf, Reorchestrating, Loop, SoundJob
    <3> QED BY <1>r, <2>1, <2>6, <3>1, GoesOnSound DEF Stages, Loop, Keeps
  <2> QED BY <1>3, <2>1, <2>3, <2>4, <2>5, <2>6 DEF Upsert, SessionTyped, memory
<1>4. CASE Publish(h)
  <2>1. session' = session /\ Only(h) /\ job[h].stage \in {"announce", "notify", "publish"}
    BY <1>4, PublishMoves DEF Publish, memory
  <2>2. job[h].stage \in StagesOf(job[h].req.op) /\ (job[h].stage = "publish" => IsStream(job[h].stream))
    BY <1>0, <2>1 DEF SoundJob, Loop
  <2>3. ASSUME job[h].stage = "announce" /\ GoesOn(h, "hydrate") /\ Keeps(h) PROVE JobsSound'
    <3>1. "hydrate" \in StagesOf(job[h].req.op)
      BY <2>2, <2>3 DEF StagesOf, Reorchestrating, Loop
    <3> QED BY <1>r, <2>1, <2>3, <3>1, GoesOnSound DEF Stages, Loop, Keeps
  <2>4. ASSUME job[h].stage = "publish" /\ GoesOn(h, "yield") /\ Keeps(h) PROVE JobsSound'
    <3>1. "yield" \in StagesOf(job[h].req.op)
      BY <2>2, <2>4 DEF StagesOf, Reorchestrating, Loop
    <3> QED BY <1>r, <2>1, <2>2, <2>4, <3>1, GoesOnSound DEF Stages, Loop, Keeps
  <2>5. ASSUME job[h].stage = "notify" /\ job[h].req.op = "manual" /\ GoesOn(h, "check") /\ Keeps(h) PROVE JobsSound'
    <3>1. "check" \in StagesOf(job[h].req.op)
      BY <2>5 DEF StagesOf, Reorchestrating
    <3> QED BY <1>r, <2>1, <2>5, <3>1, GoesOnSound DEF Stages, Loop, Keeps
  <2>6. ASSUME job[h].stage = "notify" /\ job[h].req.op = "recover" /\ GoesOn(h, "replay") /\ Keeps(h) PROVE JobsSound'
    <3>1. "replay" \in StagesOf(job[h].req.op)
      BY <2>6 DEF StagesOf
    <3> QED BY <1>r, <2>1, <2>6, <3>1, GoesOnSound DEF Stages, Loop, Keeps
  <2>7. JobsSound'
    BY <1>4, <1>i, <2>1, <2>3, <2>4, <2>5, <2>6, PublishMoves
  <2> QED BY <2>1, <2>7 DEF SessionTyped
<1>5. CASE Hydrate(h)
  <2>1. job[h].stage = "hydrate" /\ Only(h) /\ GoesOn(h, "run") /\ Keeps(h)
    BY <1>5, RowMoves
  <2>2. "run" \in StagesOf(job[h].req.op)
    BY <1>0, <2>1 DEF SoundJob, StagesOf, Reorchestrating, Loop
  <2>3. JobsSound'
    BY <1>r, <2>1, <2>2, GoesOnSound DEF Stages, Loop, Keeps
  <2> QED BY <1>5, <2>3 DEF Hydrate, SessionTyped
<1>6. CASE Run(h)
  <2>1. job[h].stage = "run"
    BY <1>6 DEF Run, At
  <2>2. /\ job[h].req.op \in {"submit", "reorchestrate", "manual"} /\ job[h].req \in Requests
        /\ Loop \subseteq StagesOf(job[h].req.op)
    BY <2>1, LoopServes
  <2>3. /\ Only(h) /\ SamePlan(h) /\ IsStream(job'[h].stream)
        /\ session' = NoSession \/ session' \subseteq Tasks
        /\ \E stage \in {"plan", "idem", "event"} :
             GoesOn(h, stage) /\ (stage = "plan" => Head(job'[h].stream).type = "finished")
    BY <1>6, <2>2, RunMoves DEF SessionTyped
  <2>4. PICK stage \in {"plan", "idem", "event"} :
             GoesOn(h, stage) /\ (stage = "plan" => Head(job'[h].stream).type = "finished")
    BY <2>3
  <2>5. stage \in Stages /\ stage \in Loop
    BY DEF Stages, Loop
  <2>6. JobsSound'
    BY <2>1, <2>2, <2>3, <2>4, <2>5, GoesOnSound DEF SamePlan
  <2> QED BY <2>3, <2>6 DEF SessionTyped
<1>7. CASE WritePlan(h)
  <2>1. /\ job[h].stage = "plan" /\ Only(h) /\ job'[h].stream = job[h].stream
        /\ GoesOn(h, IF job[h].req.key # NoKey THEN "idem" ELSE "event")
        /\ job'[h].rec \in WorkflowRecord
    BY <1>7, WritePlanMoves
  <2>2. PICK stage : stage = IF job[h].req.key # NoKey THEN "idem" ELSE "event"
    OBVIOUS
  <2>3. stage \in Stages /\ stage \in Loop /\ stage # "plan"
    BY <2>2 DEF Stages, Loop
  <2>4. stage \in StagesOf(job[h].req.op) /\ IsStream(job[h].stream)
    BY <1>0, <2>1, <2>3, LoopServes DEF SoundJob, Loop
  <2>5. JobsSound'
    BY <2>1, <2>2, <2>3, <2>4, GoesOnSound
  <2> QED BY <1>7, <2>5 DEF WritePlan, SessionTyped, memory
<1>8. CASE PutIdempotency(h)
  <2>1. job[h].stage = "idem" /\ Only(h) /\ GoesOn(h, "event") /\ Keeps(h)
    BY <1>8, RowMoves
  <2>2. "event" \in StagesOf(job[h].req.op) /\ IsStream(job[h].stream)
    BY <1>0, <2>1, LoopServes DEF SoundJob, Loop
  <2>3. JobsSound'
    BY <1>r, <2>1, <2>2, GoesOnSound DEF Stages, Keeps
  <2> QED BY <1>8, <2>3 DEF PutIdempotency, SessionTyped, memory
<1>9. CASE WriteEvent(h)
  <2>1. job[h].stage = "event" /\ Only(h) /\ GoesOn(h, "upsert") /\ Keeps(h)
    BY <1>9, RowMoves
  <2>2. "upsert" \in StagesOf(job[h].req.op) /\ IsStream(job[h].stream)
    BY <1>0, <2>1, LoopServes DEF SoundJob, Loop
  <2>3. JobsSound'
    BY <1>r, <2>1, <2>2, GoesOnSound DEF Stages, Keeps
  <2> QED BY <1>9, <2>3 DEF WriteEvent, SessionTyped, memory
<1>10. CASE Resume(h)
  <2>0. job[h].stage = "yield" /\ session' = session
    BY <1>10 DEF Resume, At, memory
  <2>1. Loop \subseteq StagesOf(job[h].req.op) /\ IsStream(job[h].stream)
    BY <1>0, <2>0, LoopServes DEF SoundJob, Loop
  <2>2. Only(h)
    BY <1>10, <2>1, ResumeMoves
  <2>3. CASE job'[h] = Idle
    BY <1>i, <2>0, <2>2, <2>3 DEF SessionTyped
  <2>4. CASE job'[h] # Idle
    <3>1. /\ SamePlan(h) /\ IsStream(job'[h].stream)
          /\ \E stage \in {"plan", "idem", "event"} :
               GoesOn(h, stage) /\ (stage = "plan" => Head(job'[h].stream).type = "finished")
      BY <1>10, <2>1, <2>4, ResumeMoves
    <3>2. PICK stage \in {"plan", "idem", "event"} :
               GoesOn(h, stage) /\ (stage = "plan" => Head(job'[h].stream).type = "finished")
      BY <3>1
    <3>3. stage \in Stages /\ stage \in Loop
      BY DEF Stages, Loop
    <3>4. JobsSound'
      BY <2>0, <2>1, <2>2, <3>1, <3>2, <3>3, GoesOnSound DEF SamePlan
    <3> QED BY <2>0, <3>4 DEF SessionTyped
  <2> QED BY <2>3, <2>4
<1>11. CASE Abandon(h)
  <2>1. JobsSound'
    BY <1>11, <1>i, AbandonMoves
  <2> QED BY <1>11, <2>1 DEF Abandon, SessionTyped, memory
<1>12. CASE Check(h)
  <2>0. job[h].stage = "check" /\ Only(h) /\ session' = session
    BY <1>12, CheckMoves DEF Check, memory
  <2>1. CASE job'[h] = Idle
    BY <1>i, <2>0, <2>1 DEF SessionTyped
  <2>2. CASE GoesOn(h, "rehydrate") /\ job'[h].rec = record
    <3>1. "rehydrate" \in StagesOf(job[h].req.op)
      BY <1>0, <2>0 DEF SoundJob, StagesOf, Reorchestrating, Loop
    <3>2. JobsSound'
      BY <2>0, <2>2, <3>1, GoesOnSound DEF Stages, Loop, RowsInv, RecordTyped
    <3> QED BY <2>0, <3>2 DEF SessionTyped
  <2> QED BY <1>12, <2>1, <2>2, CheckMoves
<1>13. CASE Rehydrate(h)
  <2>0. job[h].stage = "rehydrate" /\ Only(h) /\ (session' = session \/ session' = Tasks)
    BY <1>13, RehydrateMoves
  <2>1. CASE job'[h] = Idle
    BY <1>i, <2>0, <2>1 DEF SessionTyped
  <2>2. CASE GoesOn(h, "lookup") /\ Keeps(h)
    <3>1. "lookup" \in StagesOf(job[h].req.op)
      BY <1>0, <2>0 DEF SoundJob, StagesOf, Reorchestrating, Loop
    <3>2. JobsSound'
      BY <1>r, <2>0, <2>2, <3>1, GoesOnSound DEF Stages, Loop, Keeps
    <3> QED BY <2>0, <3>2 DEF SessionTyped
  <2> QED BY <1>13, <2>1, <2>2, RehydrateMoves
<1>14. CASE Fetch(h)
  <2>0. job[h].stage = "fetch" /\ Only(h) /\ session' = session
    BY <1>14, FetchMoves DEF Fetch, memory
  <2>1. CASE job'[h] = Idle
    BY <1>i, <2>0, <2>1 DEF SessionTyped
  <2>2. CASE /\ GoesOn(h, IF job[h].req.op = "manual" THEN "audit" ELSE "mark")
             /\ job'[h].rec \in WorkflowRecord
    <3>1. PICK stage : stage = IF job[h].req.op = "manual" THEN "audit" ELSE "mark"
      OBVIOUS
    <3>2. stage \in StagesOf(job[h].req.op)
      BY <1>0, <2>0, <3>1 DEF SoundJob, StagesOf, Reorchestrating, Loop
    <3>3. stage \in Stages /\ stage \notin Loop /\ stage # "plan"
      BY <3>1 DEF Stages, Loop
    <3>4. JobsSound'
      BY <2>0, <2>2, <3>1, <3>2, <3>3, GoesOnSound
    <3> QED BY <2>0, <3>4 DEF SessionTyped
  <2> QED BY <1>14, <2>1, <2>2, FetchMoves
<1>15. CASE WriteAudit(h)
  <2>0. job[h].stage = "audit" /\ Only(h) /\ GoesOn(h, "close") /\ SamePlan(h)
    BY <1>15, WriteAuditMoves
  <2>1. "close" \in StagesOf(job[h].req.op)
    BY <1>0, <2>0 DEF SoundJob, StagesOf, Reorchestrating, Loop
  <2>2. JobsSound'
    BY <2>0, <2>1, GoesOnSound DEF Stages, Loop, SamePlan
  <2> QED BY <1>15, <2>2 DEF WriteAudit, SessionTyped, memory
<1> QED
  BY <1>1, <1>2, <1>3, <1>4, <1>5, <1>6, <1>7, <1>8, <1>9, <1>10, <1>11, <1>12,
     <1>13, <1>14, <1>15 DEF Step

\* The types of the flags and counters.
ScalarsTyped ==
    /\ up \in BOOLEAN /\ hydrated \in BOOLEAN /\ unseen \in BOOLEAN
    /\ boot \in Nat /\ calls \in Nat /\ crashes \in Nat

\* Every step keeps the types of the flags and counters.
LEMMA ScalarsStep ==
    ASSUME ScalarsTyped, [Next]_vars
    PROVE  ScalarsTyped'
<1>1. CASE UNCHANGED vars
  BY <1>1 DEF ScalarsTyped, vars, memory, bounds
<1>2. ASSUME NEW h \in Handlers, NEW r \in Requests, Begin(h, r) PROVE ScalarsTyped'
  <2>1. calls' = calls + 1 /\ UNCHANGED <<hydrated, unseen, boot, up, crashes>>
    BY <1>2 DEF Begin, memory
  <2> QED BY <2>1 DEF ScalarsTyped
<1>3. ASSUME NEW h \in Workers, Step(h) \/ Abandon(h) PROVE ScalarsTyped'
  <2>1. CASE Lookup(h) \/ Load(h) \/ Check(h) \/ Fetch(h) \/ Resume(h) \/ Abandon(h)
    BY <2>1 DEF ScalarsTyped, Lookup, Load, Check, Fetch, Resume, Abandon, memory, bounds
  <2>2. CASE Upsert(h) \/ Publish(h)
    BY <2>2 DEF ScalarsTyped, Upsert, Publish, memory, bounds
  <2>3. CASE Hydrate(h) \/ Run(h) \/ Rehydrate(h)
    BY <2>3 DEF ScalarsTyped, Hydrate, Run, Rehydrate, memory, bounds
  <2>4. CASE WritePlan(h) \/ PutIdempotency(h) \/ WriteEvent(h) \/ WriteAudit(h)
    BY <2>4 DEF ScalarsTyped, WritePlan, PutIdempotency, WriteEvent, WriteAudit, memory, bounds
  <2> QED BY <1>3, <2>1, <2>2, <2>3, <2>4 DEF Step
<1>4. CASE Recover \/ Replay
  BY <1>4 DEF ScalarsTyped, Recover, Replay, memory, bounds
<1>5. CASE Crash
  <2>1. up' = FALSE /\ hydrated' = FALSE /\ unseen' = FALSE
        /\ crashes' = crashes + 1 /\ boot' = boot /\ calls' = calls
    BY <1>5 DEF Crash
  <2>2. crashes' \in Nat
    BY <2>1 DEF ScalarsTyped
  <2> QED BY <2>1, <2>2, Zenon DEF ScalarsTyped
<1>6. ASSUME NEW s \in Starts, Start(s) PROVE ScalarsTyped'
  <2>1. up' = TRUE /\ boot' \in Nat
    BY <1>6 DEF ScalarsTyped, Start
  <2>2. hydrated' = hydrated /\ unseen' = unseen /\ calls' = calls /\ crashes' = crashes
    BY <1>6 DEF Start, memory
  <2> QED BY <2>1, <2>2 DEF ScalarsTyped
<1>7. CASE Finished
  BY <1>1, <1>7 DEF Finished
<1> QED BY <1>1, <1>2, <1>3, <1>4, <1>5, <1>6, <1>7 DEF Next, Workers

\* Every step keeps the jobs sound and the session a set of tasks.
LEMMA JobsStep ==
    ASSUME RowsInv, JobsSound, SessionTyped, ScalarsTyped, [Next]_vars
    PROVE  JobsSound' /\ SessionTyped'
<1>1. CASE UNCHANGED vars
  BY <1>1 DEF vars, memory, JobsSound, SoundJob, SessionTyped
<1>2. ASSUME NEW h \in Handlers, NEW r \in Requests, Begin(h, r)
      PROVE  JobsSound' /\ SessionTyped'
  <2>1. /\ h \in Workers /\ Only(h)
        /\ job'[h].req = r /\ job'[h].call = calls + 1
        /\ job'[h].rec = NoRecord
        /\ job'[h].stage = IF r.op = "submit" THEN "lookup"
                           ELSE IF r.op = "reorchestrate" THEN "check" ELSE "fetch"
    BY <1>2, BeginMoves
  <2>2. h # Main /\ r.op \in {"submit", "reorchestrate", "manual", "pause", "resume", "cancel"}
    BY MainAssumption, RequestsAssumption
  <2>3. job'[h].stage \in Stages /\ job'[h].stage \in StagesOf(r.op)
        /\ job'[h].stage \notin Loop /\ job'[h].stage # "plan"
    BY <2>1, <2>2 DEF Stages, StagesOf, Reorchestrating, Loop
  <2>4. SoundJob(h, job'[h])
    BY <2>1, <2>2, <2>3 DEF SoundJob, ScalarsTyped
  <2>5. JobsSound'
    BY <2>1, <2>4, OnlySound
  <2> QED BY <1>2, <2>5 DEF Begin, memory, SessionTyped
<1>3. ASSUME NEW h \in Workers, Step(h) \/ Abandon(h) PROVE JobsSound' /\ SessionTyped'
  BY <1>3, StepSound
<1>4. CASE Recover
  <2>1. /\ Main \in Workers /\ job[Main].stage = "recover" /\ Only(Main)
        /\ \/ job'[Main] = Idle
           \/ record \in WorkflowRecord /\ GoesOn(Main, "audit") /\ job'[Main].rec = record
    BY <1>4, RecoverMoves
  <2>2. "audit" \in StagesOf(job[Main].req.op)
    BY <2>1 DEF JobsSound, SoundJob, StagesOf
  <2>3. CASE job'[Main] = Idle
    BY <1>4, <2>1, <2>3, IdleSound, OnlySound DEF Recover, memory, SessionTyped
  <2>4. CASE record \in WorkflowRecord /\ GoesOn(Main, "audit") /\ job'[Main].rec = record
    <3>1. JobsSound'
      BY <2>1, <2>2, <2>4, GoesOnSound DEF Stages, Loop
    <3> QED BY <1>4, <3>1 DEF Recover, memory, SessionTyped
  <2> QED BY <2>1, <2>3, <2>4
<1>5. CASE Replay
  BY <1>5, ReplayMoves, IdleSound, OnlySound DEF SessionTyped
<1>6. CASE Crash
  <2>1. job' = [h \in Workers |-> Idle] /\ session' = NoSession
    BY <1>6 DEF Crash
  <2> QED BY <2>1, IdleSound DEF JobsSound, SessionTyped, SoundJob
<1>7. ASSUME NEW s \in Starts, Start(s) PROVE JobsSound' /\ SessionTyped'
  <2>1. /\ Main \in Workers /\ Only(Main)
        /\ \/ job'[Main] = Idle
           \/ /\ job'[Main].stage = "recover" /\ job'[Main].req.op = "recover"
              /\ job'[Main].call = 0 /\ job'[Main].rec = NoRecord
    BY <1>7, StartMoves
  <2>2. CASE job'[Main] = Idle
    BY <1>7, <2>1, <2>2, IdleSound, OnlySound DEF Start, memory, SessionTyped
  <2>3. CASE /\ job'[Main].stage = "recover" /\ job'[Main].req.op = "recover"
             /\ job'[Main].call = 0 /\ job'[Main].rec = NoRecord
    <3>1. SoundJob(Main, job'[Main])
      BY <2>3 DEF SoundJob, Stages, StagesOf, Loop
    <3>2. JobsSound'
      BY <2>1, <3>1, OnlySound
    <3> QED BY <1>7, <3>2 DEF Start, memory, SessionTyped
  <2> QED BY <2>1, <2>2, <2>3
<1>8. CASE Finished
  BY <1>1, <1>8 DEF Finished
<1> QED BY <1>1, <1>2, <1>3, <1>4, <1>5, <1>6, <1>7, <1>8 DEF Next, Workers

\* The numbers and contents of the stored rows.
TablesTyped ==
    /\ DOMAIN events \subseteq Nat /\ DOMAIN plans \subseteq Nat /\ DOMAIN audits \subseteq Nat
    /\ \A n \in DOMAIN events : events[n].event \in Event
    /\ \A v \in DOMAIN plans : plans[v].tasks \subseteq Tasks

\* Pruning removes rows and changes none.
LEMMA PruneRemoves ==
    ASSUME NEW now, Prune(now)
    PROVE  /\ DOMAIN events' \subseteq DOMAIN events /\ DOMAIN plans' \subseteq DOMAIN plans
           /\ DOMAIN audits' \subseteq DOMAIN audits /\ DOMAIN idem' \subseteq DOMAIN idem
           /\ \A n \in DOMAIN events' : events'[n] = events[n]
           /\ \A v \in DOMAIN plans' : plans'[v] = plans[v]
<1>1. PICK a : events' = Restrict(events, DOMAIN events \ a)
  BY DEF Prune
<1>2. PICK b : plans' = Restrict(plans, DOMAIN plans \ b)
  BY DEF Prune
<1>3. PICK c : audits' = Restrict(audits, DOMAIN audits \ c)
  BY DEF Prune
<1>4. PICK d : idem' = Restrict(idem, DOMAIN idem \ d)
  BY DEF Prune
<1> QED BY <1>1, <1>2, <1>3, <1>4 DEF Restrict

\* Every step keeps the rows well-formed.
LEMMA TablesStep ==
    ASSUME RowsInv, JobsSound, TablesTyped, [Next]_vars
    PROVE  TablesTyped'
<1>0. ASSUME UNCHANGED <<events, plans, audits>> PROVE TablesTyped'
  BY <1>0 DEF TablesTyped
<1>1. CASE UNCHANGED vars
  BY <1>0, <1>1 DEF vars, durable
<1>2. ASSUME NEW h \in Handlers, NEW r \in Requests, Begin(h, r) PROVE TablesTyped'
  BY <1>0, <1>2 DEF Begin, durable
<1>3. ASSUME NEW h \in Workers, Step(h) \/ Abandon(h) PROVE TablesTyped'
  <2>1. CASE Lookup(h) \/ Load(h) \/ Check(h) \/ Fetch(h) \/ Resume(h) \/ Abandon(h)
    BY <1>0, <2>1 DEF Lookup, Load, Check, Fetch, Resume, Abandon, durable
  <2>2. CASE Upsert(h) \/ Publish(h) \/ PutIdempotency(h)
    BY <1>0, <2>2 DEF Upsert, Publish, PutIdempotency, durable
  <2>3. CASE Hydrate(h) \/ Run(h) \/ Rehydrate(h)
    BY <1>0, <2>3 DEF Hydrate, Run, Rehydrate, durable
  <2>4. CASE WritePlan(h)
    <3>1. PICK row : /\ plans' = Put(plans, job[h].rec.plan + 1, row)
                     /\ row.tasks = Head(job[h].stream).tasks
      <4>1. PICK row : row = [call |-> job[h].call, key |-> job[h].req.key, boot |-> boot,
                              tasks |-> Head(job[h].stream).tasks]
        OBVIOUS
      <4>2. row.tasks = Head(job[h].stream).tasks
        BY <4>1
      <4> QED BY <2>4, <4>1, <4>2, WritePlanMoves
    <3>2. job[h].rec \in WorkflowRecord /\ job[h].stage = "plan"
      BY <2>4, WritePlanMoves
    <3>3. IsStream(job[h].stream)
      BY <3>2 DEF JobsSound, SoundJob, Loop
    <3>4. row.tasks \subseteq Tasks
      <4>1. Head(job[h].stream) \in Event
        BY <3>3, StreamHead
      <4> QED BY <3>1, <4>1 DEF Event
    <3>5. job[h].rec.plan + 1 \in Nat
      BY <3>2 DEF WorkflowRecord
    <3>6. events' = events /\ audits' = audits
      BY <2>4 DEF WritePlan
    <3>7. PICK n : n = job[h].rec.plan + 1
      OBVIOUS
    <3>8. plans' = Put(plans, n, row)
      BY <3>1, <3>7
    <3>9. /\ DOMAIN plans' = DOMAIN plans \cup {n}
          /\ plans'[n] = row
          /\ \A v \in DOMAIN plans : v # n => plans'[v] = plans[v]
      BY <3>8 DEF Put
    <3> QED BY <3>4, <3>5, <3>6, <3>7, <3>9 DEF TablesTyped
  <2>5. CASE WriteEvent(h)
    <3>1. PICK row : /\ events' = Put(events, job[h].rec.events, row)
                     /\ row.event = Head(job[h].stream)
      <4>1. PICK row : row = [call |-> job[h].call, boot |-> boot, event |-> Head(job[h].stream)]
        OBVIOUS
      <4>2. row.event = Head(job[h].stream)
        BY <4>1
      <4> QED BY <2>5, <4>1, <4>2 DEF WriteEvent, Rec, Current
    <3>2. job[h].stage = "event"
      BY <2>5, RowMoves
    <3>3. job[h].rec \in WorkflowRecord
      BY <3>2, CopyIsRecord DEF Carries, Carrying
    <3>4. IsStream(job[h].stream)
      BY <3>2 DEF JobsSound, SoundJob, Loop
    <3>5. row.event \in Event
      BY <3>1, <3>4, StreamHead
    <3>6. job[h].rec.events \in Nat
      BY <3>3 DEF WorkflowRecord
    <3>7. plans' = plans /\ audits' = audits
      BY <2>5 DEF WriteEvent
    <3>8. PICK m : m = job[h].rec.events
      OBVIOUS
    <3>9. events' = Put(events, m, row)
      BY <3>1, <3>8
    <3>10. /\ DOMAIN events' = DOMAIN events \cup {m}
           /\ events'[m] = row
           /\ \A n \in DOMAIN events : n # m => events'[n] = events[n]
      BY <3>9 DEF Put
    <3> QED BY <3>5, <3>6, <3>7, <3>8, <3>10 DEF TablesTyped
  <2>6. CASE WriteAudit(h)
    <3>1. PICK row : audits' = Put(audits, job[h].rec.audits + 1, row)
      BY <2>6, WriteAuditMoves
    <3>2. job[h].rec.audits + 1 \in Nat
      BY <2>6, WriteAuditMoves DEF WorkflowRecord
    <3>3. events' = events /\ plans' = plans
      BY <2>6 DEF WriteAudit
    <3>4. DOMAIN audits' = DOMAIN audits \cup {job[h].rec.audits + 1}
      BY <3>1, PutDomain
    <3> QED BY <3>2, <3>3, <3>4 DEF TablesTyped
  <2> QED BY <1>3, <2>1, <2>2, <2>3, <2>4, <2>5, <2>6 DEF Step
<1>4. CASE Recover \/ Replay
  BY <1>0, <1>4 DEF Recover, Replay, durable
<1>5. CASE Crash
  BY <1>0, <1>5 DEF Crash, durable
<1>6. ASSUME NEW s \in Starts, Start(s) PROVE TablesTyped'
  <2>1. Prune(boot') \/ UNCHANGED <<events, plans, audits>>
    BY <1>6 DEF Start
  <2>2. CASE Prune(boot')
    <3>1. /\ DOMAIN events' \subseteq DOMAIN events /\ DOMAIN plans' \subseteq DOMAIN plans
          /\ DOMAIN audits' \subseteq DOMAIN audits
          /\ \A n \in DOMAIN events' : events'[n] = events[n]
          /\ \A v \in DOMAIN plans' : plans'[v] = plans[v]
      BY <2>2, PruneRemoves
    <3> QED BY <3>1 DEF TablesTyped
  <2> QED BY <1>0, <2>1, <2>2
<1>7. CASE Finished
  BY <1>1, <1>7 DEF Finished
<1> QED BY <1>1, <1>2, <1>3, <1>4, <1>5, <1>6, <1>7 DEF Next, Workers

\* The inductive invariant of the types.
TypesInv == RowsInv /\ JobsSound /\ SessionTyped /\ ScalarsTyped /\ TablesTyped

\* The types hold at the start.
LEMMA TypesInit == Init => TypesInv
<1> SUFFICES ASSUME Init PROVE TypesInv
  OBVIOUS
<1>1. RowsInv
  BY RowsInit
<1>2. SessionTyped /\ ScalarsTyped
  BY DEF Init, SessionTyped, ScalarsTyped
<1>3. TablesTyped
  <2>1. events = <<>> /\ plans = <<>> /\ audits = <<>>
    BY DEF Init
  <2>2. DOMAIN <<>> = {}
    OBVIOUS
  <2> QED BY <2>1, <2>2 DEF TablesTyped
<1>4. JobsSound
  BY IdleSound DEF Init, JobsSound
<1> QED BY <1>1, <1>2, <1>3, <1>4 DEF TypesInv

\* Every step keeps the types.
LEMMA TypesStep == TypesInv /\ [Next]_vars => TypesInv'
BY RowsStep, JobsStep, ScalarsStep, TablesStep DEF TypesInv

\* Every variable keeps its type, and every handler goes through the stages of
\* the operation it serves (TypeOK).
THEOREM ControlPlaneIsTyped == Spec => []TypeOK
<1>1. TypesInv => TypeOK
  <2> SUFFICES ASSUME TypesInv PROVE TypeOK
    OBVIOUS
  <2>1. DOMAIN job = Workers
    BY DEF TypesInv, RowsInv, JobsShaped
  <2>2. \A h \in Workers : /\ job[h].stage \in Stages
                           /\ job[h].rec = NoRecord \/ job[h].rec \in WorkflowRecord
                           /\ job[h].call \in Nat
    BY DEF TypesInv, JobsSound, SoundJob
  <2>3. record = NoRecord \/ record \in WorkflowRecord
    BY DEF TypesInv, RowsInv, RecordTyped
  <2> QED BY <2>1, <2>2, <2>3 DEF TypesInv, TypeOK, SessionTyped, ScalarsTyped, TablesTyped
<1> QED BY <1>1, TypesInit, TypesStep, PTL DEF Spec

-----------------------------------------------------------------------------
(* Requests that do not overlap. *)

\* One request is served at a time.
OneHandler == \A g, h \in Handlers : g = h

\* At most one thread is at work: the handler, or recovery before it.
Alone == \A g, h \in Workers : job[g].stage # "idle" /\ job[h].stage # "idle" => g = h

\* A thread that takes a step was at work, and leaves the others alone.
LEMMA StepOnly ==
    ASSUME TypesInv, NEW h \in Workers, Step(h) \/ Abandon(h)
    PROVE  job[h].stage # "idle" /\ Only(h)
<1>0. RowsInv /\ JobsSound /\ SessionTyped
  BY DEF TypesInv
<1>1. CASE Lookup(h) \/ Load(h) \/ Upsert(h) \/ Publish(h)
  BY <1>0, <1>1, LookupMoves, LoadMoves, UpsertMoves, PublishMoves
<1>2. CASE Hydrate(h) \/ PutIdempotency(h) \/ WriteEvent(h) \/ WritePlan(h) \/ WriteAudit(h)
  BY <1>0, <1>2, RowMoves, WritePlanMoves, WriteAuditMoves
<1>3. CASE Run(h)
  <2>1. job[h].stage = "run"
    BY <1>3 DEF Run, At
  <2> QED BY <1>0, <1>3, <2>1, LoopServes, RunMoves DEF SessionTyped
<1>4. CASE Resume(h)
  <2>1. job[h].stage = "yield"
    BY <1>4 DEF Resume, At
  <2>2. IsStream(job[h].stream)
    BY <1>0, <2>1 DEF JobsSound, SoundJob, Loop
  <2> QED BY <1>0, <1>4, <2>1, <2>2, ResumeMoves
<1>5. CASE Abandon(h) \/ Check(h) \/ Rehydrate(h) \/ Fetch(h)
  BY <1>0, <1>5, AbandonMoves, CheckMoves, RehydrateMoves, FetchMoves
<1> QED BY <1>1, <1>2, <1>3, <1>4, <1>5 DEF Step

\* The others are idle while one takes a step.
LEMMA OthersIdle ==
    ASSUME TypesInv, Alone, NEW h \in Workers, Step(h) \/ Abandon(h)
    PROVE  \A g \in Workers : g # h => job[g].stage = "idle" /\ job'[g] = job[g]
BY StepOnly DEF Alone, Only

\* A request is only taken up when nobody is at work.
LEMMA BeginQuiet ==
    ASSUME TypesInv, OneHandler, NEW h \in Handlers, NEW r \in Requests, Begin(h, r)
    PROVE  Quiet /\ \A g \in Workers : g # h => job'[g] = job[g]
<1>0. RowsInv
  BY DEF TypesInv
<1>1. job[h].stage = "idle" /\ job[Main].stage = "idle" /\ Only(h)
  BY <1>0, BeginMoves
<1> QED BY <1>1 DEF OneHandler, Workers, Quiet, Only

\* Every step keeps a single thread at work.
LEMMA AloneStep ==
    ASSUME OneHandler, TypesInv, Alone, [Next]_vars
    PROVE  Alone'
<1>0. RowsInv
  BY DEF TypesInv
<1>1. CASE UNCHANGED vars
  BY <1>1 DEF vars, Alone
<1>2. ASSUME NEW h \in Handlers, NEW r \in Requests, Begin(h, r) PROVE Alone'
  <2>1. Quiet /\ \A g \in Workers : g # h => job'[g] = job[g]
    BY <1>2, BeginQuiet
  <2> QED BY <2>1 DEF Alone, Quiet
<1>3. ASSUME NEW h \in Workers, Step(h) \/ Abandon(h) PROVE Alone'
  <2>1. \A g \in Workers : g # h => job[g].stage = "idle" /\ job'[g] = job[g]
    BY <1>3, OthersIdle
  <2> QED BY <2>1 DEF Alone
<1>4. CASE Recover \/ Replay
  <2>1. Main \in Workers /\ job[Main].stage # "idle" /\ Only(Main)
    BY <1>0, <1>4, RecoverMoves, ReplayMoves
  <2> QED BY <2>1 DEF Alone, Only
<1>5. CASE Crash
  BY <1>5, IdleSound DEF Crash, Alone
<1>6. ASSUME NEW s \in Starts, Start(s) PROVE Alone'
  <2>1. Only(Main) /\ \A h \in Workers : job[h] = Idle
    BY <1>0, <1>6, StartMoves
  <2> QED BY <2>1, IdleSound DEF Alone, Only
<1>7. CASE Finished
  BY <1>1, <1>7 DEF Finished
<1> QED BY <1>1, <1>2, <1>3, <1>4, <1>5, <1>6, <1>7 DEF Next, Workers

\* Nobody is at work at the start.
LEMMA AloneInit == Init => Alone
BY IdleSound DEF Init, Alone

-----------------------------------------------------------------------------
(* The session of a re-orchestration. *)

\* A re-orchestration past its check has a session; a workflow taken for known
\* has one too, but for a submission that is about to create it.
SessionInv ==
    /\ \A h \in Workers : job[h].stage \in {"lookup", "run"} /\ job[h].req.op # "submit"
                             => session # NoSession
    /\ hydrated /\ session = NoSession =>
         \E h \in Workers : job[h].stage = "run" /\ job[h].req.op = "submit"

\* The session is there once nobody is about to create it.
LEMMA SessionThere ==
    ASSUME SessionInv, NEW h \in Workers, \A g \in Workers : g # h => job[g].stage = "idle",
           job[h].stage # "run", hydrated
    PROVE  session # NoSession
BY DEF SessionInv

\* A step that leaves memory as it is, of a thread that does not run, keeps the
\* invariant if the thread does not go on to a session that is not there.
LEMMA SessionKept ==
    ASSUME SessionInv, NEW h \in Workers,
           \A g \in Workers : g # h => job[g].stage = "idle" /\ job'[g] = job[g],
           session' = session, hydrated' = hydrated, job[h].stage # "run",
           job'[h].stage \in {"lookup", "run"} /\ job'[h].req.op # "submit" =>
              session # NoSession
    PROVE  SessionInv'
<1>1. hydrated => session # NoSession
  BY SessionThere
<1>2. \A g \in Workers : job'[g].stage \in {"lookup", "run"} /\ job'[g].req.op # "submit"
                            => session # NoSession
  <2> SUFFICES ASSUME NEW g \in Workers, job'[g].stage \in {"lookup", "run"}, job'[g].req.op # "submit"
               PROVE  session # NoSession
    OBVIOUS
  <2>1. CASE g = h
    BY <2>1
  <2>2. CASE g # h
    BY <2>2
  <2> QED BY <2>1, <2>2
<1> QED BY <1>1, <1>2 DEF SessionInv

\* Every step keeps the session where it is needed.
LEMMA SessionStep ==
    ASSUME OneHandler, TypesInv, Alone, SessionInv, [Next]_vars
    PROVE  SessionInv'
<1>0. RowsInv /\ JobsSound /\ SessionTyped /\ ScalarsTyped
  BY DEF TypesInv
<1>t. Tasks # NoSession
  BY SessionAssumption
<1>1. CASE UNCHANGED vars
  BY <1>1 DEF vars, memory, SessionInv
<1>2. ASSUME NEW h \in Handlers, NEW r \in Requests, Begin(h, r) PROVE SessionInv'
  <2>1. Quiet /\ \A g \in Workers : g # h => job'[g] = job[g]
    BY <1>2, BeginQuiet
  <2>2. /\ h \in Workers /\ job'[h].req = r
        /\ job'[h].stage = IF r.op = "submit" THEN "lookup"
                           ELSE IF r.op = "reorchestrate" THEN "check" ELSE "fetch"
    BY <1>0, <1>2, BeginMoves
  <2>3. session' = session /\ hydrated' = hydrated
    BY <1>2 DEF Begin, memory
  <2>4. \A g \in Workers : job[g].stage = "idle"
    BY <2>1 DEF Quiet
  <2>5. job'[h].stage \in {"lookup", "run"} => job'[h].req.op = "submit"
    BY <2>2
  <2>6. job[h].stage # "run"
    BY <2>2, <2>4
  <2> QED BY <2>1, <2>2, <2>3, <2>4, <2>5, <2>6, SessionKept
<1>3. ASSUME NEW h \in Workers, Step(h) \/ Abandon(h) PROVE SessionInv'
  <2>0. \A g \in Workers : g # h => job[g].stage = "idle" /\ job'[g] = job[g]
    BY <1>3, OthersIdle
  <2>i. job'[h] = Idle => job'[h].stage = "idle"
    BY IdleSound
  <2>1. CASE Lookup(h)
    <3>1. session' = session /\ hydrated' = hydrated
      BY <2>1 DEF Lookup, memory
    <3>2. job[h].stage = "lookup" /\ (job'[h] = Idle \/ GoesOn(h, IF job[h].req.op = "submit" THEN "load" ELSE "run"))
      BY <1>0, <2>1, LookupMoves
    <3>3. job'[h].stage \in {"lookup", "run"} /\ job'[h].req.op # "submit" => session # NoSession
      BY <2>i, <3>2 DEF GoesOn, SessionInv
    <3> QED BY <2>0, <3>1, <3>2, <3>3, SessionKept
  <2>2. CASE Load(h) \/ Upsert(h) \/ Publish(h)
    <3>1. session' = session /\ hydrated' = hydrated
      BY <2>2 DEF Load, Upsert, Publish, memory
    <3>2. job[h].stage # "run" /\ job'[h].stage \notin {"lookup", "run"}
      BY <1>0, <2>2, <2>i, LoadMoves, UpsertMoves, PublishMoves DEF GoesOn
    <3> QED BY <2>0, <3>1, <3>2, SessionKept
  <2>3. CASE Hydrate(h)
    <3>1. job[h].stage = "hydrate" /\ GoesOn(h, "run")
      BY <1>0, <2>3, RowMoves
    <3>2. job[h].req.op = "submit"
      BY <1>0, <3>1 DEF JobsSound, SoundJob, StagesOf, Reorchestrating, Loop
    <3>3. session' = session
      BY <2>3 DEF Hydrate
    <3> QED BY <2>0, <3>1, <3>2, <3>3 DEF SessionInv, GoesOn
  <2>4. CASE Run(h)
    <3>1. job[h].stage = "run"
      BY <2>4 DEF Run, At
    <3>2. /\ job[h].req.op \in {"submit", "reorchestrate", "manual"} /\ job[h].req \in Requests
      BY <1>0, <3>1, LoopServes
    <3>3. job[h].req.op = "submit" \/ session # NoSession
      BY <3>1 DEF SessionInv
    <3>4. session' # NoSession
      BY <1>0, <2>4, <3>2, <3>3, RunMoves DEF SessionTyped
    <3> QED BY <3>4 DEF SessionInv
  <2>5. CASE WritePlan(h) \/ PutIdempotency(h) \/ WriteEvent(h) \/ WriteAudit(h)
    <3>1. session' = session /\ hydrated' = hydrated
      BY <2>5 DEF WritePlan, PutIdempotency, WriteEvent, WriteAudit, memory
    <3>2. job[h].stage # "run" /\ job'[h].stage \notin {"lookup", "run"}
      BY <1>0, <2>5, RowMoves, WritePlanMoves, WriteAuditMoves DEF GoesOn
    <3> QED BY <2>0, <3>1, <3>2, SessionKept
  <2>6. CASE Resume(h) \/ Abandon(h)
    <3>1. session' = session /\ hydrated' = hydrated
      BY <2>6 DEF Resume, Abandon, memory
    <3>2. job[h].stage = "yield"
      BY <2>6 DEF Resume, Abandon, At
    <3>3. IsStream(job[h].stream)
      BY <1>0, <3>2 DEF JobsSound, SoundJob, Loop
    <3>4. job'[h].stage \notin {"lookup", "run"}
      <4>1. CASE job'[h] = Idle
        BY <2>i, <4>1
      <4>2. CASE \E stage \in {"plan", "idem", "event"} : GoesOn(h, stage)
        BY <4>2 DEF GoesOn
      <4>3. Resume(h) => (job'[h] = Idle \/ \E stage \in {"plan", "idem", "event"} : GoesOn(h, stage))
        BY <1>0, <3>3, ResumeMoves
      <4>4. Abandon(h) => job'[h] = Idle
        BY <1>0, AbandonMoves
      <4> QED BY <2>6, <4>1, <4>2, <4>3, <4>4
    <3> QED BY <2>0, <3>1, <3>2, <3>4, SessionKept
  <2>7. CASE Check(h) \/ Fetch(h)
    <3>1. session' = session /\ hydrated' = hydrated
      BY <2>7 DEF Check, Fetch, memory
    <3>2. job[h].stage # "run" /\ job'[h].stage \notin {"lookup", "run"}
      BY <1>0, <2>7, <2>i, CheckMoves, FetchMoves DEF GoesOn
    <3> QED BY <2>0, <3>1, <3>2, SessionKept
  <2>8. CASE Rehydrate(h)
    <3>1. session' # NoSession
      <4>1. job[h].stage = "rehydrate"
        BY <1>0, <2>8, RehydrateMoves
      <4>2. hydrated => session # NoSession
        BY <2>0, <4>1, SessionThere
      <4> QED BY <1>0, <1>t, <2>8, <4>2, RehydrateMoves
    <3> QED BY <3>1 DEF SessionInv
  <2> QED BY <1>3, <2>1, <2>2, <2>3, <2>4, <2>5, <2>6, <2>7, <2>8 DEF Step
<1>4. CASE Recover
  <2>1. /\ Main \in Workers /\ job[Main].stage = "recover" /\ Only(Main)
        /\ job'[Main] = Idle \/ GoesOn(Main, "audit")
    BY <1>0, <1>4, RecoverMoves
  <2>2. \A g \in Workers : g # Main => job[g].stage = "idle" /\ job'[g] = job[g]
    BY <2>1 DEF Alone, Only
  <2>3. job'[Main].stage \notin {"lookup", "run"}
    BY <2>1, IdleSound DEF GoesOn
  <2>4. session' = session /\ hydrated' = hydrated
    BY <1>4 DEF Recover, memory
  <2> QED BY <2>1, <2>2, <2>3, <2>4, SessionKept
<1>5. CASE Replay
  BY <1>0, <1>5, <1>t, ReplayMoves DEF SessionInv
<1>6. CASE Crash
  <2>1. job' = [h \in Workers |-> Idle] /\ hydrated' = FALSE
    BY <1>6 DEF Crash
  <2>2. \A h \in Workers : job'[h].stage = "idle"
    BY <2>1, IdleSound
  <2> QED BY <2>1, <2>2 DEF SessionInv
<1>7. ASSUME NEW s \in Starts, Start(s) PROVE SessionInv'
  <2>1. /\ Main \in Workers /\ Only(Main)
        /\ \A h \in Workers : job[h] = Idle
        /\ job'[Main] = Idle \/ job'[Main].stage = "recover"
    BY <1>0, <1>7, StartMoves
  <2>2. \A g \in Workers : job[g].stage = "idle"
    BY <2>1, IdleSound
  <2>3. job'[Main].stage \notin {"lookup", "run"}
    BY <2>1, IdleSound
  <2>4. session' = session /\ hydrated' = hydrated
    BY <1>7 DEF Start, memory
  <2>5. \A g \in Workers : g # Main => job[g].stage = "idle" /\ job'[g] = job[g]
    BY <2>1, <2>2 DEF Only
  <2>6. job[Main].stage # "run"
    BY <2>1, <2>2
  <2> QED BY <2>1, <2>3, <2>4, <2>5, <2>6, SessionKept
<1>8. CASE Finished
  BY <1>1, <1>8 DEF Finished
<1> QED BY <1>1, <1>2, <1>3, <1>4, <1>5, <1>6, <1>7, <1>8 DEF Next, Workers

\* With requests that do not overlap, a re-orchestration that was let through
\* finds its workflow in runtime memory, wherever the process stopped before and
\* however it was started again (SessionFound).
THEOREM SessionIsFound ==
    ASSUME OneHandler
    PROVE  Spec => []SessionFound
<1>1. Init => TypesInv /\ Alone /\ SessionInv
  <2>1. Init => SessionInv
    BY IdleSound DEF Init, SessionInv
  <2> QED BY <2>1, TypesInit, AloneInit
<1>2. TypesInv /\ Alone /\ SessionInv /\ [Next]_vars => (TypesInv /\ Alone /\ SessionInv)'
  BY OneHandler, TypesStep, AloneStep, SessionStep
<1>3. SessionInv => SessionFound
  BY DEF SessionInv, SessionFound, At, Req, Workers
<1> QED BY <1>1, <1>2, <1>3, PTL DEF Spec

-----------------------------------------------------------------------------
(* The version token of a re-orchestration. *)

\* The plan of a finished pass is stored and not yet counted in the record.
Planned(j) == j.stage \in {"idem", "event", "upsert"} /\ Head(j.stream).type = "finished"

\* The copy a thread carries has the plan version of the stored record, or the
\* one it has just stored.
CopySynced(j, rec) ==
    /\ Carries(j) /\ j.stage # "save" => rec # NoRecord
    /\ Carries(j) /\ j.stage # "save" /\ ~Planned(j) => j.rec.plan = rec.plan
    /\ Planned(j) => j.rec.plan = rec.plan + 1

CopyInv == \A h \in Workers : CopySynced(job[h], record)

\* An idle thread carries nothing.
LEMMA IdleSynced ==
    ASSUME NEW j, j.stage = "idle", NEW rec
    PROVE  CopySynced(j, rec)
BY DEF CopySynced, Carries, Carrying, Planned

\* Only the thread at work has to be looked at.
LEMMA CopyKept ==
    ASSUME NEW h \in Workers, CopySynced(job'[h], record'),
           \A g \in Workers : g # h => job[g].stage = "idle" /\ job'[g] = job[g]
    PROVE  CopyInv'
<1> SUFFICES ASSUME NEW g \in Workers PROVE CopySynced(job'[g], record')
  BY DEF CopyInv, CopySynced, Carries, Planned
<1>1. CASE g = h
  BY <1>1
<1>2. CASE g # h
  BY <1>2, IdleSynced
<1> QED BY <1>1, <1>2

\* A thread at work keeps its copy in step with the record.
LEMMA CopyStepOf ==
    ASSUME TypesInv, CopyInv, NEW h \in Workers, Step(h) \/ Abandon(h)
    PROVE  CopySynced(job'[h], record')
<1>0. RowsInv /\ JobsSound /\ SessionTyped
  BY DEF TypesInv
<1>c. CopySynced(job[h], record)
  BY DEF CopyInv
<1>i. job'[h] = Idle => CopySynced(job'[h], record')
  BY IdleSound, IdleSynced
<1>1. CASE Lookup(h)
  <2>1. record' = record /\ job[h].stage = "lookup"
    BY <1>1 DEF Lookup, At, durable
  <2>2. CASE GoesOn(h, IF job[h].req.op = "submit" THEN "load" ELSE "run") /\ Keeps(h)
    <3>1. CASE job[h].req.op = "submit"
      BY <2>1, <2>2, <3>1 DEF CopySynced, Carries, Carrying, Planned, GoesOn, Keeps
    <3>2. CASE job[h].req.op # "submit"
      <4>1. Carries(job[h]) /\ job[h].stage # "save" /\ ~Planned(job[h])
        BY <2>1, <3>2 DEF Carries, Planned
      <4>2. record # NoRecord /\ job[h].rec.plan = record.plan
        BY <1>c, <4>1 DEF CopySynced
      <4>3. job'[h].stage = "run" /\ job'[h].rec = job[h].rec
        BY <2>2, <3>2 DEF GoesOn, Keeps
      <4> QED BY <2>1, <4>2, <4>3 DEF CopySynced, Planned
    <3> QED BY <3>1, <3>2
  <2> QED BY <1>0, <1>1, <1>i, <2>2, LookupMoves
<1>2. CASE Load(h)
  <2>1. job'[h].stage = "save"
    BY <1>0, <1>2, LoadMoves DEF GoesOn
  <2> QED BY <2>1 DEF CopySynced, Planned
<1>3. CASE Upsert(h)
  <2>1. /\ record' = job[h].rec /\ job[h].rec \in WorkflowRecord
        /\ job'[h].rec = job[h].rec /\ job'[h].stage \notin {"idem", "event", "upsert"}
    BY <1>0, <1>3, UpsertMoves DEF GoesOn, Keeps
  <2>2. record' # NoRecord
    BY <2>1, RecordAssumption
  <2> QED BY <2>1, <2>2 DEF CopySynced, Planned
<1>4. CASE Publish(h)
  <2>1. record' = record /\ job[h].stage \in {"announce", "notify", "publish"}
    BY <1>4 DEF Publish, durable
  <2>2. record # NoRecord /\ job[h].rec.plan = record.plan
    BY <1>c, <2>1 DEF CopySynced, Carries, Carrying, Planned
  <2>3. job'[h] = Idle \/ (job'[h].stage \in {"hydrate", "yield", "check", "replay"} /\ job'[h].rec = job[h].rec)
    BY <1>0, <1>4, PublishMoves DEF GoesOn, Keeps
  <2>4. CASE job'[h].stage \in {"hydrate", "yield", "check", "replay"} /\ job'[h].rec = job[h].rec
    BY <2>1, <2>2, <2>4 DEF CopySynced, Planned
  <2> QED BY <1>i, <2>3, <2>4
<1>5. CASE Hydrate(h)
  <2>1. record' = record /\ job[h].stage = "hydrate" /\ GoesOn(h, "run") /\ Keeps(h)
    BY <1>0, <1>5, RowMoves DEF Hydrate, durable
  <2>2. record # NoRecord /\ job[h].rec.plan = record.plan
    BY <1>c, <2>1 DEF CopySynced, Carries, Carrying, Planned
  <2> QED BY <2>1, <2>2 DEF CopySynced, Planned, GoesOn, Keeps
<1>6. CASE Run(h)
  <2>1. job[h].stage = "run" /\ record' = record
    BY <1>6 DEF Run, At, durable
  <2>2. job[h].req.op \in {"submit", "reorchestrate", "manual"} /\ job[h].req \in Requests
    BY <1>0, <2>1, LoopServes
  <2>3. /\ SamePlan(h)
        /\ \E stage \in {"plan", "idem", "event"} :
             GoesOn(h, stage) /\ (stage = "plan" <=> Head(job'[h].stream).type = "finished")
    BY <1>0, <1>6, <2>2, RunMoves DEF SessionTyped
  <2>4. record # NoRecord /\ job[h].rec.plan = record.plan
    BY <1>c, <2>1 DEF CopySynced, Carries, Carrying, Planned
  <2>5. ~Planned(job'[h])
    BY <2>3 DEF Planned, GoesOn
  <2> QED BY <2>1, <2>3, <2>4, <2>5 DEF CopySynced, SamePlan
<1>7. CASE WritePlan(h)
  <2>1. /\ job[h].stage = "plan" /\ job'[h].stream = job[h].stream
        /\ job'[h].rec.plan = job[h].rec.plan + 1
        /\ job'[h].stage \in {"idem", "event"}
    BY <1>0, <1>7, WritePlanMoves DEF GoesOn
  <2>2. record' = record
    BY <1>7 DEF WritePlan
  <2>3. record # NoRecord /\ job[h].rec.plan = record.plan
    BY <1>c, <2>1 DEF CopySynced, Carries, Carrying, Planned
  <2>4. Head(job[h].stream).type = "finished"
    BY <1>0, <2>1 DEF JobsSound, SoundJob
  <2>5. Planned(job'[h])
    BY <2>1, <2>4 DEF Planned
  <2> QED BY <2>1, <2>2, <2>3, <2>5 DEF CopySynced
<1>8. CASE PutIdempotency(h) \/ WriteEvent(h)
  <2>1. /\ job[h].stage \in {"idem", "event"} /\ job'[h].stage \in {"event", "upsert"}
        /\ Keeps(h)
    BY <1>0, <1>8, RowMoves DEF GoesOn
  <2>2. record' = record
    BY <1>8 DEF PutIdempotency, WriteEvent
  <2>3. record # NoRecord
    BY <1>c, <2>1 DEF CopySynced, Carries, Carrying
  <2>4. Planned(job'[h]) <=> Planned(job[h])
    BY <2>1 DEF Planned, Keeps
  <2>5. job[h].rec.plan = IF Planned(job[h]) THEN record.plan + 1 ELSE record.plan
    BY <1>c, <2>1 DEF CopySynced, Carries, Carrying
  <2> QED BY <2>1, <2>2, <2>3, <2>4, <2>5 DEF CopySynced, Keeps
<1>9. CASE Resume(h) \/ Abandon(h)
  <2>1. job[h].stage = "yield" /\ record' = record
    BY <1>9 DEF Resume, Abandon, At, durable
  <2>2. IsStream(job[h].stream)
    BY <1>0, <2>1 DEF JobsSound, SoundJob, Loop
  <2>3. record # NoRecord /\ job[h].rec.plan = record.plan
    BY <1>c, <2>1 DEF CopySynced, Carries, Carrying, Planned
  <2>4. CASE job'[h] # Idle
    <3>1. /\ SamePlan(h)
          /\ \E stage \in {"plan", "idem", "event"} :
               GoesOn(h, stage) /\ (stage = "plan" <=> Head(job'[h].stream).type = "finished")
      BY <1>0, <1>9, <2>2, <2>4, ResumeMoves, AbandonMoves
    <3>2. ~Planned(job'[h])
      BY <3>1 DEF Planned, GoesOn
    <3> QED BY <2>1, <2>3, <3>1, <3>2 DEF CopySynced, SamePlan
  <2> QED BY <1>i, <2>4
<1>10. CASE Check(h)
  <2>1. record' = record
    BY <1>10 DEF Check, durable
  <2>2. CASE job'[h] # Idle
    <3>1. record # NoRecord /\ job'[h].stage = "rehydrate" /\ job'[h].rec = record
      BY <1>0, <1>10, <2>2, CheckMoves DEF GoesOn, Refused
    <3> QED BY <2>1, <3>1 DEF CopySynced, Planned
  <2> QED BY <1>i, <2>2
<1>11. CASE Rehydrate(h)
  <2>1. record' = record /\ job[h].stage = "rehydrate"
    BY <1>11 DEF Rehydrate, At, durable
  <2>2. record # NoRecord /\ job[h].rec.plan = record.plan
    BY <1>c, <2>1 DEF CopySynced, Carries, Carrying, Planned
  <2>3. job'[h] = Idle \/ (job'[h].stage = "lookup" /\ job'[h].rec = job[h].rec)
    BY <1>0, <1>11, RehydrateMoves DEF GoesOn, Keeps
  <2>4. CASE job'[h].stage = "lookup" /\ job'[h].rec = job[h].rec
    BY <2>1, <2>2, <2>4 DEF CopySynced, Planned
  <2> QED BY <1>i, <2>3, <2>4
<1>12. CASE Fetch(h)
  <2>1. record' = record
    BY <1>12 DEF Fetch, durable
  <2>2. CASE job'[h] # Idle
    <3>1. record # NoRecord /\ job'[h].stage \in {"audit", "mark"} /\ job'[h].rec.plan = record.plan
      BY <1>0, <1>12, <2>2, FetchMoves DEF GoesOn
    <3> QED BY <2>1, <3>1 DEF CopySynced, Planned
  <2> QED BY <1>i, <2>2
<1>13. CASE WriteAudit(h)
  <2>1. record' = record
    BY <1>13 DEF WriteAudit
  <2>2. job[h].stage = "audit" /\ job'[h].stage = "close" /\ job'[h].rec.plan = job[h].rec.plan
    BY <1>0, <1>13, WriteAuditMoves DEF GoesOn, SamePlan
  <2>3. record # NoRecord /\ job[h].rec.plan = record.plan
    BY <1>c, <2>2 DEF CopySynced, Carries, Carrying, Planned
  <2> QED BY <2>1, <2>2, <2>3 DEF CopySynced, Planned
<1> QED
  BY <1>1, <1>2, <1>3, <1>4, <1>5, <1>6, <1>7, <1>8, <1>9, <1>10, <1>11, <1>12, <1>13 DEF Step

\* Every step keeps the copy of the thread at work in step with the record.
LEMMA CopyStep ==
    ASSUME OneHandler, TypesInv, Alone, CopyInv, [Next]_vars
    PROVE  CopyInv'
<1>0. RowsInv
  BY DEF TypesInv
<1>1. CASE UNCHANGED vars
  BY <1>1 DEF vars, durable, CopyInv, CopySynced, Carries, Planned
<1>2. ASSUME NEW h \in Handlers, NEW r \in Requests, Begin(h, r) PROVE CopyInv'
  <2>1. \A g \in Workers : g # h => job[g].stage = "idle" /\ job'[g] = job[g]
    BY <1>2, BeginQuiet DEF Quiet
  <2>2. /\ h \in Workers /\ job'[h].stage \in {"lookup", "check", "fetch"}
        /\ job'[h].stage = "lookup" => job'[h].req.op = "submit"
    BY <1>0, <1>2, BeginMoves
  <2>3. CopySynced(job'[h], record')
    BY <2>2 DEF CopySynced, Carries, Carrying, Planned
  <2> QED BY <2>1, <2>2, <2>3, CopyKept
<1>3. ASSUME NEW h \in Workers, Step(h) \/ Abandon(h) PROVE CopyInv'
  BY <1>3, OthersIdle, CopyStepOf, CopyKept
<1>4. CASE Recover \/ Replay
  <2>1. Main \in Workers /\ job[Main].stage # "idle" /\ Only(Main)
    BY <1>0, <1>4, RecoverMoves, ReplayMoves
  <2>2. \A g \in Workers : g # Main => job[g].stage = "idle" /\ job'[g] = job[g]
    BY <2>1 DEF Alone, Only
  <2>3. record' = record
    BY <1>4 DEF Recover, Replay, durable
  <2>4. CASE job'[Main] # Idle
    <3>1. record # NoRecord /\ job'[Main].stage = "audit" /\ job'[Main].rec = record
      BY <1>0, <1>4, <2>4, RecoverMoves, ReplayMoves DEF GoesOn
    <3>2. CopySynced(job'[Main], record')
      BY <2>3, <3>1 DEF CopySynced, Planned
    <3> QED BY <2>1, <2>2, <3>2, CopyKept
  <2>5. CASE job'[Main] = Idle
    <3>1. CopySynced(job'[Main], record')
      BY <2>5, IdleSound, IdleSynced
    <3> QED BY <2>1, <2>2, <3>1, CopyKept
  <2> QED BY <2>4, <2>5
<1>5. CASE Crash
  <2>1. \A h \in Workers : job'[h].stage = "idle"
    BY <1>5, IdleSound DEF Crash
  <2> QED BY <2>1 DEF CopyInv, CopySynced, Carries, Carrying, Planned
<1>6. ASSUME NEW s \in Starts, Start(s) PROVE CopyInv'
  <2>1. /\ Main \in Workers /\ Only(Main) /\ \A h \in Workers : job[h] = Idle
        /\ job'[Main] = Idle \/ job'[Main].stage = "recover"
    BY <1>0, <1>6, StartMoves
  <2>2. \A g \in Workers : g # Main => job[g].stage = "idle" /\ job'[g] = job[g]
    BY <2>1, IdleSound DEF Only
  <2>3. job'[Main].stage \in {"idle", "recover"}
    BY <2>1, IdleSound
  <2>4. CopySynced(job'[Main], record')
    BY <2>3 DEF CopySynced, Carries, Carrying, Planned
  <2> QED BY <2>1, <2>2, <2>4, CopyKept
<1>7. CASE Finished
  BY <1>1, <1>7 DEF Finished
<1> QED BY <1>1, <1>2, <1>3, <1>4, <1>5, <1>6, <1>7 DEF Next, Workers

\* Nobody carries a copy at the start.
LEMMA CopyInit == Init => CopyInv
BY IdleSound, IdleSynced DEF Init, CopyInv

\* Up to the plan of its finished pass, the copy of a re-orchestration has the
\* plan version that the request expects.
Unplanned(j) ==
    \/ j.stage \in {"rehydrate", "lookup", "run", "plan"}
    \/ j.stage \in Loop /\ Head(j.stream).type # "finished"

TokenHeld(j) ==
    j.req.op # "submit" /\ j.req.expected # AnyVersion /\ Unplanned(j)
        => j.rec.plan = j.req.expected

TokenInv == \A h \in Workers : TokenHeld(job[h])

\* Only the thread that takes a step has to be looked at.
LEMMA TokenKept ==
    ASSUME TokenInv, NEW h \in Workers, Only(h), TokenHeld(job'[h])
    PROVE  TokenInv'
<1> SUFFICES ASSUME NEW g \in Workers PROVE TokenHeld(job'[g])
  BY DEF TokenInv, TokenHeld, Unplanned
<1>1. g # h => job'[g] = job[g]
  BY DEF Only
<1>2. TokenHeld(job[g])
  BY DEF TokenInv
<1> QED BY <1>1, <1>2

\* Stages without a token to keep.
LEMMA NoToken ==
    ASSUME NEW j, j.stage \in {"idle", "load", "save", "announce", "hydrate", "fetch", "mark",
                               "audit", "close", "notify", "check", "recover", "replay"}
    PROVE  TokenHeld(j)
BY DEF TokenHeld, Unplanned, Loop

\* Going on with the same version.
LEMMA TokenGoesOn ==
    ASSUME NEW h \in Workers, TokenHeld(job[h]), Unplanned(job'[h]) => Unplanned(job[h]),
           NEW stage, GoesOn(h, stage), job'[h].rec.plan = job[h].rec.plan
    PROVE  TokenHeld(job'[h])
BY DEF TokenHeld, GoesOn

\* The steps of a thread keep its token.
LEMMA TokenStepOf ==
    ASSUME TypesInv, TokenInv, NEW h \in Workers, Step(h) \/ Abandon(h)
    PROVE  TokenHeld(job'[h])
<1>0. RowsInv /\ JobsSound /\ SessionTyped
  BY DEF TypesInv
<1>c. TokenHeld(job[h])
  BY DEF TokenInv
<1>i. job'[h] = Idle => TokenHeld(job'[h])
  BY IdleSound, NoToken
<1>1. CASE Lookup(h)
  <2>1. CASE job'[h] # Idle
    <3>1. /\ job[h].stage = "lookup" /\ Keeps(h)
          /\ GoesOn(h, IF job[h].req.op = "submit" THEN "load" ELSE "run")
      BY <1>0, <1>1, <2>1, LookupMoves
    <3>2. Unplanned(job[h])
      BY <3>1 DEF Unplanned
    <3> QED BY <1>c, <3>1, <3>2, TokenGoesOn DEF Keeps
  <2> QED BY <1>i, <2>1
<1>2. CASE Load(h) \/ WriteAudit(h)
  <2>1. job'[h].stage \in {"save", "close"}
    BY <1>0, <1>2, LoadMoves, WriteAuditMoves DEF GoesOn
  <2> QED BY <2>1, NoToken
<1>3. CASE Upsert(h)
  <2>1. Keeps(h) /\ job[h].stage \in {"save", "mark", "close", "upsert"}
    BY <1>0, <1>3, UpsertMoves
  <2>2. CASE job[h].stage = "upsert"
    <3>1. GoesOn(h, "publish")
      BY <1>0, <1>3, <2>2, UpsertMoves
    <3>2. Unplanned(job'[h]) => Unplanned(job[h])
      BY <2>1, <2>2, <3>1 DEF Unplanned, Loop, Keeps, GoesOn
    <3> QED BY <1>c, <2>1, <3>1, <3>2, TokenGoesOn DEF Keeps
  <2>3. CASE job[h].stage # "upsert"
    <3>1. job'[h].stage \in {"announce", "audit", "notify"}
      BY <1>0, <1>3, <2>1, <2>3, UpsertMoves DEF GoesOn
    <3> QED BY <3>1, NoToken
  <2> QED BY <2>2, <2>3
<1>4. CASE Publish(h)
  <2>1. CASE job[h].stage = "publish"
    <3>1. GoesOn(h, "yield") /\ Keeps(h)
      BY <1>0, <1>4, <2>1, PublishMoves
    <3>2. Unplanned(job'[h]) => Unplanned(job[h])
      BY <2>1, <3>1 DEF Unplanned, Loop, Keeps, GoesOn
    <3> QED BY <1>c, <3>1, <3>2, TokenGoesOn DEF Keeps
  <2>2. CASE job[h].stage # "publish" /\ job'[h] # Idle
    <3>1. job'[h].stage \in {"hydrate", "check", "replay"}
      BY <1>0, <1>4, <2>2, PublishMoves DEF GoesOn
    <3> QED BY <3>1, NoToken
  <2> QED BY <1>i, <2>1, <2>2
<1>5. CASE Hydrate(h)
  <2>1. job[h].stage = "hydrate" /\ GoesOn(h, "run")
    BY <1>0, <1>5, RowMoves
  <2>2. job[h].req.op = "submit"
    BY <1>0, <2>1 DEF JobsSound, SoundJob, StagesOf, Reorchestrating, Loop
  <2> QED BY <2>1, <2>2 DEF TokenHeld, GoesOn
<1>6. CASE Run(h)
  <2>1. job[h].stage = "run"
    BY <1>6 DEF Run, At
  <2>2. job[h].req.op \in {"submit", "reorchestrate", "manual"} /\ job[h].req \in Requests
    BY <1>0, <2>1, LoopServes
  <2>3. SamePlan(h) /\ \E stage \in {"plan", "idem", "event"} : GoesOn(h, stage)
    BY <1>0, <1>6, <2>2, RunMoves DEF SessionTyped
  <2>4. Unplanned(job[h])
    BY <2>1 DEF Unplanned
  <2> QED BY <1>c, <2>3, <2>4, TokenGoesOn DEF SamePlan
<1>7. CASE WritePlan(h)
  <2>1. /\ job[h].stage = "plan" /\ job'[h].stream = job[h].stream
        /\ job'[h].stage \in {"idem", "event"}
    BY <1>0, <1>7, WritePlanMoves DEF GoesOn
  <2>2. Head(job[h].stream).type = "finished"
    BY <1>0, <2>1 DEF JobsSound, SoundJob
  <2> QED BY <2>1, <2>2 DEF TokenHeld, Unplanned
<1>8. CASE PutIdempotency(h) \/ WriteEvent(h)
  <2>1. /\ job[h].stage \in {"idem", "event"} /\ Keeps(h)
        /\ GoesOn(h, "event") \/ GoesOn(h, "upsert")
    BY <1>0, <1>8, RowMoves
  <2>2. Unplanned(job'[h]) => Unplanned(job[h])
    BY <2>1 DEF Unplanned, Loop, Keeps, GoesOn
  <2> QED BY <1>c, <2>1, <2>2, TokenGoesOn DEF Keeps
<1>9. CASE Resume(h) \/ Abandon(h)
  <2>1. job[h].stage = "yield"
    BY <1>9 DEF Resume, Abandon, At
  <2>2. IsStream(job[h].stream)
    BY <1>0, <2>1 DEF JobsSound, SoundJob, Loop
  <2>3. CASE job'[h] # Idle
    <3>1. /\ SamePlan(h) /\ ~HasResponse(Head(job[h].stream))
          /\ \E stage \in {"plan", "idem", "event"} : GoesOn(h, stage)
      BY <1>0, <1>9, <2>2, <2>3, ResumeMoves, AbandonMoves
    <3>2. Unplanned(job[h])
      BY <2>1, <3>1 DEF Unplanned, Loop, HasResponse
    <3> QED BY <1>c, <3>1, <3>2, TokenGoesOn DEF SamePlan
  <2> QED BY <1>i, <2>3
<1>10. CASE Check(h)
  <2>1. CASE job'[h] # Idle
    <3>1. ~Refused(record, job[h].req) /\ job'[h].req = job[h].req /\ job'[h].rec = record
      BY <1>0, <1>10, <2>1, CheckMoves DEF GoesOn
    <3> QED BY <3>1 DEF TokenHeld, Refused
  <2> QED BY <1>i, <2>1
<1>11. CASE Rehydrate(h)
  <2>1. CASE job'[h] # Idle
    <3>1. job[h].stage = "rehydrate" /\ GoesOn(h, "lookup") /\ Keeps(h)
      BY <1>0, <1>11, <2>1, RehydrateMoves
    <3>2. Unplanned(job[h])
      BY <3>1 DEF Unplanned
    <3> QED BY <1>c, <3>1, <3>2, TokenGoesOn DEF Keeps
  <2> QED BY <1>i, <2>1
<1>12. CASE Fetch(h)
  <2>1. CASE job'[h] # Idle
    <3>1. job'[h].stage \in {"audit", "mark"}
      BY <1>0, <1>12, <2>1, FetchMoves DEF GoesOn
    <3> QED BY <3>1, NoToken
  <2> QED BY <1>i, <2>1
<1> QED
  BY <1>1, <1>2, <1>3, <1>4, <1>5, <1>6, <1>7, <1>8, <1>9, <1>10, <1>11, <1>12 DEF Step

\* Every step keeps the tokens.
LEMMA TokenStep ==
    ASSUME TypesInv, TokenInv, [Next]_vars
    PROVE  TokenInv'
<1>0. RowsInv
  BY DEF TypesInv
<1>1. CASE UNCHANGED vars
  BY <1>1 DEF vars, TokenInv, TokenHeld, Unplanned
<1>2. ASSUME NEW h \in Handlers, NEW r \in Requests, Begin(h, r) PROVE TokenInv'
  <2>1. /\ h \in Workers /\ Only(h) /\ job'[h].stage \in {"lookup", "check", "fetch"}
        /\ job'[h].stage = "lookup" => job'[h].req.op = "submit"
    BY <1>0, <1>2, BeginMoves
  <2>2. TokenHeld(job'[h])
    BY <2>1 DEF TokenHeld, Unplanned, Loop
  <2> QED BY <2>1, <2>2, TokenKept
<1>3. ASSUME NEW h \in Workers, Step(h) \/ Abandon(h) PROVE TokenInv'
  BY <1>3, StepOnly, TokenStepOf, TokenKept
<1>4. CASE Recover \/ Replay
  <2>1. Main \in Workers /\ Only(Main) /\ (job'[Main] = Idle \/ job'[Main].stage = "audit")
    BY <1>0, <1>4, RecoverMoves, ReplayMoves DEF GoesOn
  <2>2. TokenHeld(job'[Main])
    BY <2>1, IdleSound, NoToken
  <2> QED BY <2>1, <2>2, TokenKept
<1>5. CASE Crash
  <2>1. \A h \in Workers : job'[h].stage = "idle"
    BY <1>5, IdleSound DEF Crash
  <2> QED BY <2>1 DEF TokenInv, TokenHeld, Unplanned, Loop
<1>6. ASSUME NEW s \in Starts, Start(s) PROVE TokenInv'
  <2>1. Main \in Workers /\ Only(Main) /\ (job'[Main] = Idle \/ job'[Main].stage = "recover")
    BY <1>0, <1>6, StartMoves
  <2>2. TokenHeld(job'[Main])
    BY <2>1, IdleSound, NoToken
  <2> QED BY <2>1, <2>2, TokenKept
<1>7. CASE Finished
  BY <1>1, <1>7 DEF Finished
<1> QED BY <1>1, <1>2, <1>3, <1>4, <1>5, <1>6, <1>7 DEF Next, Workers

\* With requests that do not overlap, a plan version that a re-orchestration
\* stores under an expected version follows exactly that version of the stored
\* record, through stops, prunings and recoveries (VersionTokenHonoured).
THEOREM TokensAreHonoured ==
    ASSUME OneHandler
    PROVE  Spec => VersionTokenHonoured
<1> DEFINE Inv == TypesInv /\ Alone /\ CopyInv /\ TokenInv
           A == \A h \in Handlers :
                  (WritePlan(h) /\ Req(h).op # "submit" /\ Req(h).expected # AnyVersion)
                     => record.plan = Req(h).expected
<1>1. Init => Inv
  <2>1. Init => TokenInv
    BY IdleSound, NoToken DEF Init, TokenInv
  <2> QED BY <2>1, TypesInit, AloneInit, CopyInit
<1>2. Inv /\ [Next]_vars => Inv'
  BY OneHandler, TypesStep, AloneStep, CopyStep, TokenStep
<1>3. Inv => A
  <2> SUFFICES ASSUME TypesInv, CopyInv, TokenInv, NEW h \in Handlers, WritePlan(h),
                      Req(h).op # "submit", Req(h).expected # AnyVersion
               PROVE  record.plan = Req(h).expected
    OBVIOUS
  <2>1. h \in Workers /\ job[h].stage = "plan"
    BY DEF Workers, WritePlan, At
  <2>2. job[h].rec.plan = job[h].req.expected
    BY <2>1 DEF TokenInv, TokenHeld, Unplanned, Req
  <2>3. job[h].rec.plan = record.plan
    BY <2>1 DEF CopyInv, CopySynced, Carries, Carrying, Planned
  <2> QED BY <2>2, <2>3 DEF Req
<1>4. Inv /\ [Next]_vars => [A]_vars
  BY <1>3
<1> HIDE DEF Inv
<1> QED BY <1>1, <1>2, <1>4, PTL DEF Spec, VersionTokenHonoured

-----------------------------------------------------------------------------
(* One plan version for a key. *)

\* Submissions continue the stored record, and no start prunes.
Continuing == \A r \in Requests : r.op = "submit" => r.replace = "yes"
NoPruning == \A s \in Starts : ~s.prune

PlanCount == IF record = NoRecord THEN 0 ELSE record.plan

\* A request whose response is not out yet.
Unanswered(j) ==
    \/ j.stage \in {"load", "save", "announce", "hydrate", "run", "plan"}
    \/ j.stage \in Loop /\ ~HasResponse(Head(j.stream))

\* A request is served only while its key is not known; the row of a plan that
\* the record does not count yet is the request's, and its key is known before
\* the record counts it.
JobKeyed(j, n, pl, id) ==
    /\ Unanswered(j) => j.req.key = NoKey \/ j.req.key \notin DOMAIN id
    /\ Planned(j) => n + 1 \in DOMAIN pl /\ pl[n + 1].key = j.req.key
    /\ Planned(j) /\ j.stage # "idem" => j.req.key = NoKey \/ j.req.key \in DOMAIN id
    /\ j.stage = "save" => j.rec.plan = n
    /\ j.stage = "idem" => HasResponse(Head(j.stream))

\* Every key with a plan version is known, that of the version after the last
\* one counted excepted: the call that wrote it may have been cut short.
RowsKeyed(n) ==
    \A v \in DOMAIN plans : \/ plans[v].key = NoKey
                            \/ plans[v].key \in DOMAIN idem
                            \/ v = n + 1

KeyInv ==
    /\ OnePlanPerKey
    /\ RowsKeyed(PlanCount)
    /\ \A h \in Workers : JobKeyed(job[h], PlanCount, plans, idem)

\* Stages in which the keys do not matter.
LEMMA Keyless ==
    ASSUME NEW j, j.stage \in {"idle", "lookup", "check", "rehydrate", "fetch", "mark", "audit",
                               "close", "notify", "recover", "replay"},
           NEW n, NEW pl, NEW id
    PROVE  JobKeyed(j, n, pl, id)
BY DEF JobKeyed, Unanswered, Planned, Loop

\* Only the thread at work has to be looked at.
LEMMA KeysKept ==
    ASSUME NEW h \in Workers, OnePlanPerKey', NEW n, PlanCount' = n, RowsKeyed(n)',
           JobKeyed(job'[h], n, plans', idem'),
           \A g \in Workers : g # h => job[g].stage = "idle" /\ job'[g] = job[g]
    PROVE  KeyInv'
<1>1. ASSUME NEW g \in Workers PROVE JobKeyed(job'[g], n, plans', idem')
  <2>1. CASE g = h
    BY <2>1
  <2>2. CASE g # h
    <3>1. job'[g].stage = "idle"
      BY <2>2
    <3> QED BY <3>1, Keyless
  <2> QED BY <2>1, <2>2
<1>2. (\A g \in Workers : JobKeyed(job[g], PlanCount, plans, idem))'
  BY <1>1 DEF JobKeyed, Unanswered, Planned
<1>3. RowsKeyed(PlanCount)'
  BY DEF RowsKeyed
<1> QED BY <1>2, <1>3 DEF KeyInv

\* A record that counts the same plans.
LEMMA KeysSameCount ==
    ASSUME KeyInv, NEW h \in Workers,
           PlanCount' = PlanCount, plans' = plans, idem' = idem,
           JobKeyed(job'[h], PlanCount, plans, idem),
           \A g \in Workers : g # h => job[g].stage = "idle" /\ job'[g] = job[g]
    PROVE  KeyInv'
<1>1. PICK n : n = PlanCount
  OBVIOUS
<1>2. PlanCount' = n
  BY <1>1
<1>3. OnePlanPerKey'
  BY DEF KeyInv, OnePlanPerKey
<1>4. RowsKeyed(n)'
  <2>1. RowsKeyed(n)
    BY <1>1 DEF KeyInv
  <2> QED BY <2>1 DEF RowsKeyed
<1>5. JobKeyed(job'[h], n, plans', idem')
  BY <1>1
<1> QED BY <1>2, <1>3, <1>4, <1>5, KeysKept

\* A step that writes none of these rows.
LEMMA KeysAlone ==
    ASSUME KeyInv, NEW h \in Workers,
           record' = record, plans' = plans, idem' = idem,
           JobKeyed(job'[h], PlanCount, plans, idem),
           \A g \in Workers : g # h => job[g].stage = "idle" /\ job'[g] = job[g]
    PROVE  KeyInv'
<1>1. PlanCount' = PlanCount
  BY DEF PlanCount
<1> QED BY <1>1, KeysSameCount

\* An upsert counts the plan that has just been written, or counts the same.
LEMMA UpsertKeyed ==
    ASSUME TypesInv, CopyInv, KeyInv, NEW h \in Workers, Upsert(h),
           \A g \in Workers : g # h => job[g].stage = "idle" /\ job'[g] = job[g]
    PROVE  KeyInv'
<1>0. RowsInv /\ JobsSound
  BY DEF TypesInv
<1>1. /\ record' = job[h].rec /\ job[h].rec \in WorkflowRecord /\ Keeps(h)
      /\ job[h].stage \in {"save", "mark", "close", "upsert"}
      /\ job[h].stage = "save" => GoesOn(h, "announce")
      /\ job[h].stage = "mark" => GoesOn(h, "audit")
      /\ job[h].stage = "close" => GoesOn(h, "notify")
      /\ job[h].stage = "upsert" => GoesOn(h, "publish")
  BY <1>0, UpsertMoves
<1>2. plans' = plans /\ idem' = idem
  BY DEF Upsert
<1>3. PlanCount' = job[h].rec.plan
  BY <1>1, RecordAssumption DEF PlanCount
<1>4. JobKeyed(job[h], PlanCount, plans, idem)
  BY DEF KeyInv
<1>5. CASE job[h].stage = "save"
  <2>1. PlanCount' = PlanCount
    BY <1>3, <1>4, <1>5 DEF JobKeyed
  <2>2. job[h].req.key = NoKey \/ job[h].req.key \notin DOMAIN idem
    BY <1>4, <1>5 DEF JobKeyed, Unanswered
  <2>3. job'[h].stage = "announce" /\ job'[h].req = job[h].req
    BY <1>1, <1>5 DEF GoesOn
  <2>4. JobKeyed(job'[h], PlanCount, plans, idem)
    BY <2>2, <2>3 DEF JobKeyed, Planned
  <2> QED BY <1>2, <2>1, <2>4, KeysSameCount
<1>6. CASE job[h].stage \in {"mark", "close"}
  <2>1. record # NoRecord /\ job[h].rec.plan = record.plan
    BY <1>6 DEF CopyInv, CopySynced, Carries, Carrying, Planned
  <2>2. PlanCount' = PlanCount
    BY <1>3, <2>1 DEF PlanCount
  <2>3. JobKeyed(job'[h], PlanCount, plans, idem)
    BY <1>1, <1>6, Keyless DEF GoesOn
  <2> QED BY <1>2, <2>2, <2>3, KeysSameCount
<1>7. CASE job[h].stage = "upsert" /\ ~Planned(job[h])
  <2>1. record # NoRecord /\ job[h].rec.plan = record.plan
    BY <1>7 DEF CopyInv, CopySynced, Carries, Carrying
  <2>2. PlanCount' = PlanCount
    BY <1>3, <2>1 DEF PlanCount
  <2>3. job'[h].stage = "publish" /\ job'[h].req = job[h].req /\ job'[h].stream = job[h].stream
    BY <1>1, <1>7 DEF GoesOn, Keeps
  <2>4. Unanswered(job'[h]) => Unanswered(job[h])
    BY <1>7, <2>3 DEF Unanswered, Loop
  <2>5. JobKeyed(job'[h], PlanCount, plans, idem)
    BY <1>4, <2>3, <2>4 DEF JobKeyed, Planned
  <2> QED BY <1>2, <2>2, <2>5, KeysSameCount
<1>8. CASE job[h].stage = "upsert" /\ Planned(job[h])
  <2>1. record # NoRecord /\ job[h].rec.plan = record.plan + 1
    BY <1>8 DEF CopyInv, CopySynced, Carries, Carrying
  <2>2. PICK n : n = PlanCount
    OBVIOUS
  <2>3. PlanCount' = n + 1
    BY <1>3, <2>1, <2>2 DEF PlanCount
  <2>4. n + 1 \in DOMAIN plans /\ plans[n + 1].key = job[h].req.key
    BY <1>4, <1>8, <2>2 DEF JobKeyed
  <2>5. job[h].req.key = NoKey \/ job[h].req.key \in DOMAIN idem
    BY <1>4, <1>8 DEF JobKeyed
  <2>6. RowsKeyed(n)
    BY <2>2 DEF KeyInv
  <2>7. RowsKeyed(n + 1)'
    BY <1>2, <2>4, <2>5, <2>6 DEF RowsKeyed
  <2>8. OnePlanPerKey'
    BY <1>2 DEF KeyInv, OnePlanPerKey
  <2>9. /\ job'[h].stage = "publish" /\ job'[h].stream = job[h].stream
        /\ HasResponse(Head(job[h].stream))
    BY <1>1, <1>8 DEF GoesOn, Keeps, Planned, HasResponse
  <2>10. JobKeyed(job'[h], n + 1, plans', idem')
    BY <2>9 DEF JobKeyed, Planned, Unanswered
  <2>11. PICK m : m = n + 1
    OBVIOUS
  <2>12. PlanCount' = m /\ RowsKeyed(m)' /\ JobKeyed(job'[h], m, plans', idem')
    BY <2>3, <2>7, <2>10, <2>11
  <2> QED BY <2>8, <2>12, KeysKept
<1> QED BY <1>1, <1>5, <1>6, <1>7, <1>8

\* A plan version is written under a key that has none.
LEMMA WritePlanKeyed ==
    ASSUME TypesInv, CopyInv, KeyInv, NEW h \in Workers, WritePlan(h),
           \A g \in Workers : g # h => job[g].stage = "idle" /\ job'[g] = job[g]
    PROVE  KeyInv'
<1>0. RowsInv /\ JobsSound
  BY DEF TypesInv
<1>1. /\ job[h].stage = "plan" /\ job'[h].stream = job[h].stream
      /\ job'[h].req = job[h].req
      /\ job'[h].stage = IF job[h].req.key # NoKey THEN "idem" ELSE "event"
  BY <1>0, WritePlanMoves DEF GoesOn
<1>2. Head(job[h].stream).type = "finished"
  BY <1>0, <1>1 DEF JobsSound, SoundJob
<1>3. record # NoRecord /\ job[h].rec.plan = record.plan
  BY <1>1 DEF CopyInv, CopySynced, Carries, Carrying, Planned
<1>4. PICK n : n = PlanCount
  OBVIOUS
<1>5. PICK m : m = n + 1
  OBVIOUS
<1>6. PICK row : plans' = Put(plans, m, row) /\ row.key = job[h].req.key
  <2>1. PICK row : row = [call |-> job[h].call, key |-> job[h].req.key, boot |-> boot,
                          tasks |-> Head(job[h].stream).tasks]
    OBVIOUS
  <2>2. row.key = job[h].req.key
    BY <2>1
  <2>3. m = job[h].rec.plan + 1
    BY <1>3, <1>4, <1>5 DEF PlanCount
  <2> QED BY <1>0, <2>1, <2>2, <2>3, WritePlanMoves
<1>7. record' = record /\ idem' = idem
  BY DEF WritePlan
<1>8. PlanCount' = n
  BY <1>4, <1>7 DEF PlanCount
<1>9. /\ DOMAIN plans' = DOMAIN plans \cup {m} /\ plans'[m] = row
      /\ \A v \in DOMAIN plans : v # m => plans'[v] = plans[v]
  BY <1>6 DEF Put
<1>10. \A v \in DOMAIN plans : plans[v].key = NoKey \/ plans[v].key \in DOMAIN idem \/ v = m
  BY <1>4, <1>5 DEF KeyInv, RowsKeyed
<1>11. job[h].req.key = NoKey \/ job[h].req.key \notin DOMAIN idem
  BY <1>1 DEF KeyInv, JobKeyed, Unanswered
<1>12. RowsKeyed(n)'
  BY <1>5, <1>7, <1>9, <1>10 DEF RowsKeyed
<1>13. OnePlanPerKey'
  <2> SUFFICES ASSUME NEW v \in DOMAIN plans', NEW w \in DOMAIN plans',
                      plans'[v].key = plans'[w].key, plans'[v].key # NoKey
               PROVE  v = w
    BY DEF OnePlanPerKey
  <2>1. CASE v # m /\ w # m
    <3>1. v \in DOMAIN plans /\ w \in DOMAIN plans /\ plans'[v] = plans[v] /\ plans'[w] = plans[w]
      BY <1>9, <2>1
    <3> QED BY <3>1 DEF KeyInv, OnePlanPerKey
  <2>2. CASE v = m /\ w # m
    <3>1. w \in DOMAIN plans /\ plans'[w] = plans[w] /\ plans'[v].key = job[h].req.key
      BY <1>6, <1>9, <2>2
    <3> QED BY <1>10, <1>11, <2>2, <3>1
  <2>3. CASE v # m /\ w = m
    <3>1. v \in DOMAIN plans /\ plans'[v] = plans[v] /\ plans'[w].key = job[h].req.key
      BY <1>6, <1>9, <2>3
    <3> QED BY <1>10, <1>11, <2>3, <3>1
  <2> QED BY <2>1, <2>2, <2>3
<1>14. JobKeyed(job'[h], n, plans', idem')
  <2>1. HasResponse(Head(job'[h].stream)) /\ job'[h].stage \in {"idem", "event"}
    BY <1>1, <1>2 DEF HasResponse
  <2>2. ~Unanswered(job'[h]) /\ job'[h].stage # "save"
    BY <2>1 DEF Unanswered
  <2>3. n + 1 \in DOMAIN plans' /\ plans'[n + 1].key = job'[h].req.key
    BY <1>1, <1>5, <1>6, <1>9
  <2>4. job'[h].stage # "idem" => job'[h].req.key = NoKey
    BY <1>1
  <2> QED BY <2>1, <2>2, <2>3, <2>4 DEF JobKeyed
<1> QED BY <1>8, <1>12, <1>13, <1>14, KeysKept

\* The key of a response becomes known.
LEMMA PutIdempotencyKeyed ==
    ASSUME TypesInv, KeyInv, NEW h \in Workers, PutIdempotency(h),
           \A g \in Workers : g # h => job[g].stage = "idle" /\ job'[g] = job[g]
    PROVE  KeyInv'
<1>0. RowsInv
  BY DEF TypesInv
<1>1. /\ job[h].stage = "idem" /\ job'[h].stream = job[h].stream
      /\ job'[h].req = job[h].req /\ job'[h].stage = "event"
  BY <1>0, RowMoves DEF GoesOn, Keeps
<1>2. record' = record /\ plans' = plans
  BY DEF PutIdempotency
<1>3. DOMAIN idem' = DOMAIN idem \cup {job[h].req.key}
  <2>1. PICK row : idem' = Put(idem, Req(h).key, row)
    BY DEF PutIdempotency
  <2>2. PICK k : k = job[h].req.key
    OBVIOUS
  <2>3. idem' = Put(idem, k, row)
    BY <2>1, <2>2 DEF Req
  <2>4. DOMAIN Put(idem, k, row) = DOMAIN idem \cup {k}
    BY PutDomain
  <2> QED BY <2>2, <2>3, <2>4
<1>4. PICK n : n = PlanCount
  OBVIOUS
<1>5. PlanCount' = n
  BY <1>2, <1>4 DEF PlanCount
<1>6. OnePlanPerKey'
  BY <1>2 DEF KeyInv, OnePlanPerKey
<1>7. RowsKeyed(n)'
  BY <1>2, <1>3, <1>4 DEF KeyInv, RowsKeyed
<1>8. JobKeyed(job[h], n, plans, idem)
  BY <1>4 DEF KeyInv
<1>9. JobKeyed(job'[h], n, plans', idem')
  BY <1>1, <1>2, <1>3, <1>8 DEF JobKeyed, Planned, Unanswered
<1> QED BY <1>5, <1>6, <1>7, <1>9, KeysKept

\* The other steps of the thread at work.
LEMMA KeyStepOf ==
    ASSUME Continuing, TypesInv, CopyInv, KeyInv, NEW h \in Workers, Step(h) \/ Abandon(h),
           \A g \in Workers : g # h => job[g].stage = "idle" /\ job'[g] = job[g]
    PROVE  KeyInv'
<1>0. RowsInv /\ JobsSound /\ SessionTyped
  BY DEF TypesInv
<1>c. JobKeyed(job[h], PlanCount, plans, idem)
  BY DEF KeyInv
<1>i. job'[h] = Idle => JobKeyed(job'[h], PlanCount, plans, idem)
  BY IdleSound, Keyless
<1>1. CASE Lookup(h)
  <2>1. record' = record /\ plans' = plans /\ idem' = idem
    BY <1>1 DEF Lookup, durable
  <2>2. CASE job'[h] # Idle
    <3>1. /\ job[h].req.key = NoKey \/ job[h].req.key \notin DOMAIN idem
          /\ job'[h].req = job[h].req /\ job'[h].stage \in {"load", "run"}
      BY <1>0, <1>1, <2>2, LookupMoves DEF GoesOn
    <3> QED BY <2>1, <3>1, KeysAlone DEF JobKeyed, Planned
  <2> QED BY <1>i, <2>1, <2>2, KeysAlone
<1>2. CASE Load(h)
  <2>1. record' = record /\ plans' = plans /\ idem' = idem
    BY <1>2 DEF Load, durable
  <2>2. /\ job[h].stage = "load" /\ job'[h].stage = "save" /\ job'[h].req = job[h].req
        /\ job'[h].rec.plan = IF job[h].req.replace = "yes" /\ record # NoRecord
                              THEN record.plan ELSE 0
    BY <1>0, <1>2, LoadMoves DEF GoesOn
  <2>3. job[h].req.op = "submit"
    BY <1>0, <2>2 DEF JobsSound, SoundJob, StagesOf, Reorchestrating, Loop
  <2>4. job[h].req \in Requests
    BY <1>0, <2>2, <2>3 DEF JobsSound, SoundJob
  <2>5. job[h].req.replace = "yes"
    BY <2>3, <2>4 DEF Continuing
  <2>6. job'[h].rec.plan = PlanCount
    BY <2>2, <2>5 DEF PlanCount
  <2>7. job[h].req.key = NoKey \/ job[h].req.key \notin DOMAIN idem
    BY <1>c, <2>2 DEF JobKeyed, Unanswered
  <2>8. JobKeyed(job'[h], PlanCount, plans, idem)
    BY <2>2, <2>6, <2>7 DEF JobKeyed, Planned
  <2> QED BY <2>1, <2>8, KeysAlone
<1>3. CASE Upsert(h)
  BY <1>3, UpsertKeyed
<1>4. CASE Publish(h)
  <2>1. record' = record /\ plans' = plans /\ idem' = idem
    BY <1>4 DEF Publish, durable
  <2>2. CASE job[h].stage = "announce"
    <3>1. job'[h].stage = "hydrate" /\ job'[h].req = job[h].req
      BY <1>0, <1>4, <2>2, PublishMoves DEF GoesOn
    <3>2. job[h].req.key = NoKey \/ job[h].req.key \notin DOMAIN idem
      BY <1>c, <2>2 DEF JobKeyed, Unanswered
    <3>3. JobKeyed(job'[h], PlanCount, plans, idem)
      BY <3>1, <3>2 DEF JobKeyed, Planned
    <3> QED BY <2>1, <3>3, KeysAlone
  <2>3. CASE job[h].stage = "publish"
    <3>1. job'[h].stage = "yield" /\ job'[h].req = job[h].req /\ job'[h].stream = job[h].stream
      BY <1>0, <1>4, <2>3, PublishMoves DEF GoesOn, Keeps
    <3>2. Unanswered(job'[h]) => Unanswered(job[h])
      BY <2>3, <3>1 DEF Unanswered, Loop
    <3>3. JobKeyed(job'[h], PlanCount, plans, idem)
      BY <1>c, <3>1, <3>2 DEF JobKeyed, Planned
    <3> QED BY <2>1, <3>3, KeysAlone
  <2>4. CASE job[h].stage = "notify"
    <3>1. job'[h] = Idle \/ job'[h].stage \in {"check", "replay"}
      BY <1>0, <1>4, <2>4, PublishMoves DEF GoesOn
    <3>2. JobKeyed(job'[h], PlanCount, plans, idem)
      BY <1>i, <3>1, Keyless
    <3> QED BY <2>1, <3>2, KeysAlone
  <2> QED BY <1>0, <1>4, <2>2, <2>3, <2>4, PublishMoves
<1>5. CASE Hydrate(h)
  <2>1. record' = record /\ plans' = plans /\ idem' = idem
    BY <1>5 DEF Hydrate, durable
  <2>2. job[h].stage = "hydrate" /\ job'[h].stage = "run" /\ job'[h].req = job[h].req
    BY <1>0, <1>5, RowMoves DEF GoesOn
  <2>3. job[h].req.key = NoKey \/ job[h].req.key \notin DOMAIN idem
    BY <1>c, <2>2 DEF JobKeyed, Unanswered
  <2>4. JobKeyed(job'[h], PlanCount, plans, idem)
    BY <2>2, <2>3 DEF JobKeyed, Planned
  <2> QED BY <2>1, <2>4, KeysAlone
<1>6. ASSUME record' = record, plans' = plans, idem' = idem, Unanswered(job[h]),
             \E stage \in {"plan", "idem", "event"} :
                /\ GoesOn(h, stage)
                /\ stage = "plan" <=> Head(job'[h].stream).type = "finished"
                /\ stage = "idem" => HasResponse(Head(job'[h].stream))
      PROVE  KeyInv'
  <2>1. /\ job'[h].req = job[h].req /\ job'[h].stage \in {"plan", "idem", "event"}
        /\ ~Planned(job'[h])
        /\ job'[h].stage = "idem" => HasResponse(Head(job'[h].stream))
    BY <1>6 DEF GoesOn, Planned
  <2>2. job[h].req.key = NoKey \/ job[h].req.key \notin DOMAIN idem
    BY <1>c, <1>6 DEF JobKeyed
  <2>3. JobKeyed(job'[h], PlanCount, plans, idem)
    BY <2>1, <2>2 DEF JobKeyed
  <2> QED BY <1>6, <2>3, KeysAlone
<1>7. CASE Run(h)
  <2>1. record' = record /\ plans' = plans /\ idem' = idem /\ job[h].stage = "run"
    BY <1>7 DEF Run, At, durable
  <2>2. job[h].req.op \in {"submit", "reorchestrate", "manual"} /\ job[h].req \in Requests
    BY <1>0, <2>1, LoopServes
  <2>3. \E stage \in {"plan", "idem", "event"} :
           /\ GoesOn(h, stage)
           /\ stage = "plan" <=> Head(job'[h].stream).type = "finished"
           /\ stage = "idem" => HasResponse(Head(job'[h].stream))
    BY <1>0, <1>7, <2>2, RunMoves DEF SessionTyped
  <2>4. Unanswered(job[h])
    BY <2>1 DEF Unanswered
  <2> QED BY <1>6, <2>1, <2>3, <2>4
<1>8. CASE WritePlan(h)
  BY <1>8, WritePlanKeyed
<1>9. CASE PutIdempotency(h)
  BY <1>9, PutIdempotencyKeyed
<1>10. CASE WriteEvent(h)
  <2>1. record' = record /\ plans' = plans /\ idem' = idem
    BY <1>10 DEF WriteEvent
  <2>2. /\ job[h].stage = "event" /\ job'[h].stage = "upsert" /\ job'[h].req = job[h].req
        /\ job'[h].stream = job[h].stream
    BY <1>0, <1>10, RowMoves DEF GoesOn, Keeps
  <2>3. Unanswered(job'[h]) => Unanswered(job[h])
    BY <2>2 DEF Unanswered, Loop
  <2>4. Planned(job'[h]) => Planned(job[h])
    BY <2>2 DEF Planned
  <2>5. JobKeyed(job'[h], PlanCount, plans, idem)
    BY <1>c, <2>2, <2>3, <2>4 DEF JobKeyed
  <2> QED BY <2>1, <2>5, KeysAlone
<1>11. CASE Resume(h) \/ Abandon(h)
  <2>1. record' = record /\ plans' = plans /\ idem' = idem /\ job[h].stage = "yield"
    BY <1>11 DEF Resume, Abandon, At, durable
  <2>2. IsStream(job[h].stream)
    BY <1>0, <2>1 DEF JobsSound, SoundJob, Loop
  <2>3. CASE job'[h] # Idle
    <3>1. /\ ~HasResponse(Head(job[h].stream))
          /\ \E stage \in {"plan", "idem", "event"} :
               /\ GoesOn(h, stage)
               /\ stage = "plan" <=> Head(job'[h].stream).type = "finished"
               /\ stage = "idem" => HasResponse(Head(job'[h].stream))
      BY <1>0, <1>11, <2>2, <2>3, ResumeMoves, AbandonMoves
    <3>2. Unanswered(job[h])
      BY <2>1, <3>1 DEF Unanswered, Loop
    <3> QED BY <1>6, <2>1, <3>1, <3>2
  <2> QED BY <1>i, <2>1, <2>3, KeysAlone
<1>12. CASE Check(h) \/ Rehydrate(h) \/ Fetch(h) \/ WriteAudit(h)
  <2>1. record' = record /\ plans' = plans /\ idem' = idem
    BY <1>12 DEF Check, Rehydrate, Fetch, WriteAudit, durable
  <2>2. job'[h] = Idle \/ job'[h].stage \in {"rehydrate", "lookup", "audit", "mark", "close"}
    BY <1>0, <1>12, CheckMoves, RehydrateMoves, FetchMoves, WriteAuditMoves DEF GoesOn
  <2>3. JobKeyed(job'[h], PlanCount, plans, idem)
    BY <1>i, <2>2, Keyless
  <2> QED BY <2>1, <2>3, KeysAlone
<1> QED
  BY <1>1, <1>2, <1>3, <1>4, <1>5, <1>7, <1>8, <1>9, <1>10, <1>11, <1>12 DEF Step

\* Every step keeps one plan version for a key.
LEMMA KeyStep ==
    ASSUME OneHandler, Continuing, NoPruning, TypesInv, Alone, CopyInv, KeyInv, [Next]_vars
    PROVE  KeyInv'
<1>0. RowsInv
  BY DEF TypesInv
<1>1. CASE UNCHANGED vars
  <2>1. record' = record /\ plans' = plans /\ idem' = idem /\ job' = job
    BY <1>1 DEF vars, durable
  <2>2. PlanCount' = PlanCount
    BY <2>1 DEF PlanCount
  <2> QED BY <2>1, <2>2 DEF KeyInv, OnePlanPerKey, RowsKeyed, JobKeyed, Unanswered, Planned
<1>2. ASSUME NEW h \in Handlers, NEW r \in Requests, Begin(h, r) PROVE KeyInv'
  <2>1. \A g \in Workers : g # h => job[g].stage = "idle" /\ job'[g] = job[g]
    BY <1>2, BeginQuiet DEF Quiet
  <2>2. h \in Workers /\ job'[h].stage \in {"lookup", "check", "fetch"}
    BY <1>0, <1>2, BeginMoves
  <2>3. JobKeyed(job'[h], PlanCount, plans, idem)
    BY <2>2, Keyless
  <2>4. record' = record /\ plans' = plans /\ idem' = idem
    BY <1>2 DEF Begin, durable
  <2> QED BY <2>1, <2>2, <2>3, <2>4, KeysAlone
<1>3. ASSUME NEW h \in Workers, Step(h) \/ Abandon(h) PROVE KeyInv'
  BY <1>3, OthersIdle, KeyStepOf
<1>4. CASE Recover \/ Replay
  <2>1. /\ Main \in Workers /\ job[Main].stage # "idle" /\ Only(Main)
        /\ job'[Main] = Idle \/ job'[Main].stage = "audit"
    BY <1>0, <1>4, RecoverMoves, ReplayMoves DEF GoesOn
  <2>2. \A g \in Workers : g # Main => job[g].stage = "idle" /\ job'[g] = job[g]
    BY <2>1 DEF Alone, Only
  <2>3. record' = record /\ plans' = plans /\ idem' = idem
    BY <1>4 DEF Recover, Replay, durable
  <2>4. JobKeyed(job'[Main], PlanCount, plans, idem)
    BY <2>1, IdleSound, Keyless
  <2> QED BY <2>1, <2>2, <2>3, <2>4, KeysAlone
<1>5. CASE Crash
  <2>1. \A h \in Workers : job'[h].stage = "idle"
    BY <1>5, IdleSound DEF Crash
  <2>2. record' = record /\ plans' = plans /\ idem' = idem
    BY <1>5 DEF Crash, durable
  <2>3. PlanCount' = PlanCount
    BY <2>2 DEF PlanCount
  <2>4. OnePlanPerKey' /\ RowsKeyed(PlanCount)'
    BY <2>2, <2>3 DEF KeyInv, OnePlanPerKey, RowsKeyed
  <2>5. (\A h \in Workers : JobKeyed(job[h], PlanCount, plans, idem))'
    BY <2>1 DEF JobKeyed, Unanswered, Planned, Loop
  <2> QED BY <2>4, <2>5 DEF KeyInv
<1>6. ASSUME NEW s \in Starts, Start(s) PROVE KeyInv'
  <2>1. /\ Main \in Workers /\ Only(Main) /\ \A h \in Workers : job[h] = Idle
        /\ job'[Main] = Idle \/ job'[Main].stage = "recover"
    BY <1>0, <1>6, StartMoves
  <2>2. \A g \in Workers : g # Main => job[g].stage = "idle" /\ job'[g] = job[g]
    BY <2>1, IdleSound DEF Only
  <2>3. record' = record /\ plans' = plans /\ idem' = idem
    BY <1>6 DEF Start, NoPruning
  <2>4. JobKeyed(job'[Main], PlanCount, plans, idem)
    BY <2>1, IdleSound, Keyless
  <2> QED BY <2>1, <2>2, <2>3, <2>4, KeysAlone
<1>7. CASE Finished
  BY <1>1, <1>7 DEF Finished
<1> QED BY <1>1, <1>2, <1>3, <1>4, <1>5, <1>6, <1>7 DEF Next, Workers

\* With requests that do not overlap, submissions that continue the stored
\* record and starts that do not prune, a request with a key leaves one plan
\* version behind, however often it is sent and wherever the process stops
\* between write_plan_version and put_idempotency_record (OnePlanPerKey).
THEOREM KeysHaveOnePlan ==
    ASSUME OneHandler, Continuing, NoPruning
    PROVE  Spec => []OnePlanPerKey
<1> DEFINE Inv == TypesInv /\ Alone /\ CopyInv /\ KeyInv
<1>1. Init => Inv
  <2> SUFFICES ASSUME Init PROVE KeyInv
    BY TypesInit, AloneInit, CopyInit
  <2>1. plans = <<>> /\ \A h \in Workers : job[h].stage = "idle"
    BY IdleSound DEF Init
  <2>2. OnePlanPerKey /\ RowsKeyed(PlanCount)
    BY <2>1 DEF OnePlanPerKey, RowsKeyed
  <2> QED BY <2>1, <2>2, Keyless DEF KeyInv
<1>2. Inv /\ [Next]_vars => Inv'
  BY OneHandler, Continuing, NoPruning, TypesStep, AloneStep, CopyStep, KeyStep
<1>3. Inv => OnePlanPerKey
  BY DEF KeyInv
<1> HIDE DEF Inv
<1> QED BY <1>1, <1>2, <1>3, PTL DEF Spec

-----------------------------------------------------------------------------
(* A workflow that is being planned. *)

\* A thread in the event loop whose response is not stored yet.
Working(j) ==
    j.stage \in Loop /\ (j.stage \in {"publish", "yield"} => ~HasResponse(Head(j.stream)))

\* A response moves the copy out of planning; the copies that other steps store
\* are not of a workflow that is being planned.
StateSound(j) ==
    /\ j.stage \in {"plan", "idem", "event", "upsert"} /\ HasResponse(Head(j.stream))
          => j.rec.state # "planning"
    /\ j.stage \in {"save", "mark", "audit", "close"} => j.rec.state # "planning"

PlanningInv ==
    /\ Planning => \E h \in Workers : Working(job[h])
    /\ \A h \in Workers : StateSound(job[h])

\* Clients drain the streams they ask for, and the process is not stopped.
Undisturbed == ~Streaming /\ MaxCrashes = 0

\* The state of a copy that has taken in a response.
LEMMA ResponseState ==
    ASSUME NEW e, HasResponse(e), NEW current
    PROVE  StateForEvent(e, current) # "planning"
BY DEF HasResponse, StateForEvent

\* Stages in which the state does not matter.
LEMMA Stateless ==
    ASSUME NEW j, j.stage \notin {"plan", "idem", "event", "upsert", "save", "mark", "audit", "close"}
    PROVE  StateSound(j)
BY DEF StateSound

\* Only the thread at work has to be looked at.
LEMMA PlanningKept ==
    ASSUME NEW h \in Workers, StateSound(job'[h]), Planning' => Working(job'[h]),
           \A g \in Workers : g # h => job[g].stage = "idle" /\ job'[g] = job[g]
    PROVE  PlanningInv'
<1>1. ASSUME NEW g \in Workers PROVE StateSound(job'[g])
  <2>1. CASE g = h
    BY <2>1
  <2>2. CASE g # h
    <3>1. job'[g].stage = "idle"
      BY <2>2
    <3> QED BY <3>1, Stateless
  <2> QED BY <2>1, <2>2
<1>2. (\A g \in Workers : StateSound(job[g]))'
  BY <1>1 DEF StateSound
<1>3. (Planning => \E g \in Workers : Working(job[g]))'
  BY DEF Working
<1> QED BY <1>2, <1>3 DEF PlanningInv

\* Planning goes on with the thread at work.
LEMMA WorkerPlans ==
    ASSUME PlanningInv, NEW h \in Workers, \A g \in Workers : g # h => job[g].stage = "idle",
           Planning
    PROVE  Working(job[h])
<1>1. PICK g \in Workers : Working(job[g])
  BY DEF PlanningInv
<1>2. g = h
  BY <1>1 DEF Working, Loop
<1> QED BY <1>1, <1>2

\* The steps of the thread at work.
LEMMA PlanningStepOf ==
    ASSUME ~Streaming, TypesInv, PlanningInv, NEW h \in Workers, Step(h) \/ Abandon(h),
           \A g \in Workers : g # h => job[g].stage = "idle" /\ job'[g] = job[g]
    PROVE  PlanningInv'
<1>0. RowsInv /\ JobsSound /\ SessionTyped
  BY DEF TypesInv
<1>c. StateSound(job[h])
  BY DEF PlanningInv
<1>p. Planning => Working(job[h])
  BY WorkerPlans
<1>i. job'[h] = Idle => StateSound(job'[h])
  BY IdleSound, Stateless
<1>1. CASE Lookup(h) \/ Hydrate(h) \/ Check(h) \/ Rehydrate(h)
  <2>1. record' = record
    BY <1>1 DEF Lookup, Hydrate, Check, Rehydrate, durable
  <2>2. job[h].stage \notin Loop
    BY <1>1 DEF Lookup, Hydrate, Check, Rehydrate, At, Loop
  <2>3. job'[h] = Idle \/ job'[h].stage \in {"load", "run", "rehydrate", "lookup"}
    BY <1>0, <1>1, LookupMoves, RowMoves, CheckMoves, RehydrateMoves DEF GoesOn
  <2>4. StateSound(job'[h])
    BY <1>i, <2>3, Stateless
  <2>5. ~Planning'
    BY <1>p, <2>1, <2>2 DEF Planning, Working
  <2> QED BY <2>4, <2>5, PlanningKept
<1>2. CASE Load(h)
  <2>1. record' = record /\ job[h].stage = "load"
    BY <1>2 DEF Load, At, durable
  <2>2. job'[h].stage = "save" /\ job'[h].rec.state = "submitted"
    BY <1>0, <1>2, LoadMoves DEF GoesOn
  <2>3. StateSound(job'[h])
    BY <2>2 DEF StateSound
  <2>4. ~Planning'
    BY <1>p, <2>1 DEF Planning, Working, Loop
  <2> QED BY <2>3, <2>4, PlanningKept
<1>3. CASE Upsert(h)
  <2>1. /\ record' = job[h].rec /\ Keeps(h)
        /\ job[h].stage \in {"save", "mark", "close", "upsert"}
        /\ job[h].stage = "save" => GoesOn(h, "announce")
        /\ job[h].stage = "mark" => GoesOn(h, "audit")
        /\ job[h].stage = "close" => GoesOn(h, "notify")
        /\ job[h].stage = "upsert" => GoesOn(h, "publish")
    BY <1>0, <1>3, UpsertMoves
  <2>2. StateSound(job'[h])
    <3>1. job[h].stage = "mark" => job[h].rec.state # "planning"
      BY <1>c DEF StateSound
    <3> QED BY <2>1, <3>1 DEF StateSound, GoesOn, Keeps
  <2>3. Planning' => Working(job'[h])
    <3> SUFFICES ASSUME job[h].rec.state = "planning" PROVE Working(job'[h])
      BY <2>1 DEF Planning
    <3>1. job[h].stage = "upsert" /\ ~HasResponse(Head(job[h].stream))
      BY <1>c, <2>1 DEF StateSound
    <3> QED BY <2>1, <3>1 DEF Working, Loop, GoesOn, Keeps
  <2> QED BY <2>2, <2>3, PlanningKept
<1>4. CASE Publish(h)
  <2>1. record' = record
    BY <1>4 DEF Publish, durable
  <2>2. job'[h] = Idle \/ job'[h].stage \in {"hydrate", "yield", "check", "replay"}
    BY <1>0, <1>4, PublishMoves DEF GoesOn
  <2>3. StateSound(job'[h])
    BY <1>i, <2>2, Stateless
  <2>4. Planning' => Working(job'[h])
    <3> SUFFICES ASSUME Planning PROVE Working(job'[h])
      BY <2>1 DEF Planning
    <3>1. job[h].stage = "publish" /\ ~HasResponse(Head(job[h].stream))
      BY <1>0, <1>4, <1>p, PublishMoves DEF Working, Loop
    <3>2. job'[h].stage = "yield" /\ job'[h].stream = job[h].stream
      BY <1>0, <1>4, <3>1, PublishMoves DEF GoesOn, Keeps
    <3> QED BY <3>1, <3>2 DEF Working, Loop
  <2> QED BY <2>3, <2>4, PlanningKept
<1>5. ASSUME record' = record,
             job'[h].rec.state = StateForEvent(Head(job'[h].stream), job[h].rec.state),
             \E stage \in {"plan", "idem", "event"} : GoesOn(h, stage)
      PROVE  PlanningInv'
  <2>1. job'[h].stage \in {"plan", "idem", "event"}
    BY <1>5 DEF GoesOn
  <2>2. HasResponse(Head(job'[h].stream)) => job'[h].rec.state # "planning"
    BY <1>5, ResponseState
  <2>3. StateSound(job'[h]) /\ Working(job'[h])
    BY <2>1, <2>2 DEF StateSound, Working, Loop
  <2> QED BY <2>3, PlanningKept
<1>6. CASE Run(h)
  <2>1. record' = record /\ job[h].stage = "run"
    BY <1>6 DEF Run, At, durable
  <2>2. job[h].req.op \in {"submit", "reorchestrate", "manual"} /\ job[h].req \in Requests
    BY <1>0, <2>1, LoopServes
  <2>3. /\ job'[h].rec.state = StateForEvent(Head(job'[h].stream), job[h].rec.state)
        /\ \E stage \in {"plan", "idem", "event"} : GoesOn(h, stage)
    BY <1>0, <1>6, <2>2, RunMoves DEF SessionTyped
  <2> QED BY <1>5, <2>1, <2>3
<1>7. CASE Resume(h)
  <2>1. record' = record /\ job[h].stage = "yield"
    BY <1>7 DEF Resume, At, durable
  <2>2. IsStream(job[h].stream)
    BY <1>0, <2>1 DEF JobsSound, SoundJob, Loop
  <2>3. CASE ~HasResponse(Head(job[h].stream))
    <3>1. /\ job'[h].rec.state = StateForEvent(Head(job'[h].stream), job[h].rec.state)
          /\ \E stage \in {"plan", "idem", "event"} : GoesOn(h, stage)
      BY <1>0, <1>7, <2>2, <2>3, ResumeMoves
    <3> QED BY <1>5, <2>1, <3>1
  <2>4. CASE HasResponse(Head(job[h].stream))
    <3>1. job'[h] = Idle
      BY <1>0, <1>7, <2>2, <2>4, ResumeMoves
    <3>2. ~Planning'
      BY <1>p, <2>1, <2>4 DEF Planning, Working
    <3> QED BY <1>i, <3>1, <3>2, PlanningKept
  <2> QED BY <2>3, <2>4
<1>8. CASE Abandon(h)
  BY <1>8 DEF Abandon
<1>9. CASE WritePlan(h)
  <2>1. record' = record
    BY <1>9 DEF WritePlan
  <2>2. /\ job[h].stage = "plan" /\ job'[h].stage \in {"idem", "event"}
        /\ job'[h].stream = job[h].stream /\ job'[h].rec.state = job[h].rec.state
    BY <1>0, <1>9, WritePlanMoves DEF GoesOn
  <2>3. StateSound(job'[h]) /\ Working(job'[h])
    BY <1>c, <2>2 DEF StateSound, Working, Loop
  <2> QED BY <2>3, PlanningKept
<1>10. CASE PutIdempotency(h) \/ WriteEvent(h)
  <2>1. /\ job[h].stage \in {"idem", "event"} /\ job'[h].stage \in {"event", "upsert"}
        /\ Keeps(h)
    BY <1>0, <1>10, RowMoves DEF GoesOn
  <2>2. StateSound(job'[h]) /\ Working(job'[h])
    BY <1>c, <2>1 DEF StateSound, Working, Loop, Keeps
  <2> QED BY <2>2, PlanningKept
<1>11. CASE Fetch(h)
  <2>1. record' = record /\ job[h].stage = "fetch"
    BY <1>11 DEF Fetch, At, durable
  <2>2. ~Planning
    BY <1>p, <2>1 DEF Working, Loop
  <2>3. CASE job'[h] # Idle
    <3>1. /\ record # NoRecord /\ job'[h].stage \in {"audit", "mark"}
          /\ job'[h].rec.state = record.state \/ job'[h].rec.state # "planning"
      BY <1>0, <1>11, <2>3, FetchMoves DEF GoesOn
    <3>2. StateSound(job'[h])
      BY <2>2, <3>1 DEF StateSound, Planning
    <3> QED BY <2>1, <2>2, <3>2, PlanningKept DEF Planning
  <2>4. CASE job'[h] = Idle
    BY <1>i, <2>1, <2>2, <2>4, PlanningKept DEF Planning
  <2> QED BY <2>3, <2>4
<1>12. CASE WriteAudit(h)
  <2>1. record' = record
    BY <1>12 DEF WriteAudit
  <2>2. job[h].stage = "audit" /\ job'[h].stage = "close" /\ job'[h].rec.state = job[h].rec.state
    BY <1>0, <1>12, WriteAuditMoves DEF GoesOn
  <2>3. StateSound(job'[h])
    BY <1>c, <2>2 DEF StateSound
  <2>4. ~Planning'
    BY <1>p, <2>1, <2>2 DEF Working, Loop, Planning
  <2> QED BY <2>3, <2>4, PlanningKept
<1> QED
  BY <1>1, <1>2, <1>3, <1>4, <1>6, <1>7, <1>8, <1>9, <1>10, <1>11, <1>12 DEF Step

\* Every step keeps a thread at work while the state says planning.
LEMMA PlanningStep ==
    ASSUME OneHandler, Undisturbed, TypesInv, Alone, PlanningInv, [Next]_vars
    PROVE  PlanningInv'
<1>0. RowsInv /\ ScalarsTyped
  BY DEF TypesInv
<1>1. CASE UNCHANGED vars
  BY <1>1 DEF vars, durable, PlanningInv, Planning, Working, StateSound
<1>2. ASSUME NEW h \in Handlers, NEW r \in Requests, Begin(h, r) PROVE PlanningInv'
  <2>1. \A g \in Workers : job[g].stage = "idle" /\ (g # h => job'[g] = job[g])
    BY <1>2, BeginQuiet DEF Quiet
  <2>2. h \in Workers /\ job'[h].stage \in {"lookup", "check", "fetch"}
    BY <1>0, <1>2, BeginMoves
  <2>3. record' = record
    BY <1>2 DEF Begin, durable
  <2>4. ~Planning'
    BY <2>1, <2>3 DEF PlanningInv, Planning, Working, Loop
  <2>5. StateSound(job'[h])
    BY <2>2, Stateless
  <2> QED BY <2>1, <2>2, <2>4, <2>5, PlanningKept
<1>3. ASSUME NEW h \in Workers, Step(h) \/ Abandon(h) PROVE PlanningInv'
  BY <1>3, OthersIdle, PlanningStepOf DEF Undisturbed
<1>4. CASE Recover \/ Replay
  <2>1. /\ Main \in Workers /\ job[Main].stage \in {"recover", "replay"} /\ Only(Main)
        /\ job'[Main] = Idle \/ (job'[Main].stage = "audit" /\ job'[Main].rec = record /\ record # NoRecord)
    BY <1>0, <1>4, RecoverMoves, ReplayMoves DEF GoesOn
  <2>2. \A g \in Workers : g # Main => job[g].stage = "idle" /\ job'[g] = job[g]
    BY <2>1 DEF Alone, Only
  <2>3. ~Planning
    BY <2>1, <2>2, WorkerPlans DEF Working, Loop
  <2>4. record' = record
    BY <1>4 DEF Recover, Replay, durable
  <2>5. StateSound(job'[Main])
    <3>1. CASE job'[Main] = Idle
      BY <3>1, IdleSound, Stateless
    <3>2. CASE job'[Main].stage = "audit" /\ job'[Main].rec = record /\ record # NoRecord
      BY <2>3, <3>2 DEF StateSound, Planning
    <3> QED BY <2>1, <3>1, <3>2
  <2>6. ~Planning'
    BY <2>3, <2>4 DEF Planning
  <2> QED BY <2>1, <2>2, <2>5, <2>6, PlanningKept
<1>5. CASE Crash
  BY <1>0, <1>5 DEF Crash, Undisturbed, ScalarsTyped
<1>6. ASSUME NEW s \in Starts, Start(s) PROVE PlanningInv'
  <2>1. /\ Main \in Workers /\ Only(Main) /\ \A h \in Workers : job[h] = Idle
        /\ job'[Main] = Idle \/ job'[Main].stage = "recover"
    BY <1>0, <1>6, StartMoves
  <2>2. \A g \in Workers : job[g].stage = "idle" /\ (g # Main => job'[g] = job[g])
    BY <2>1, IdleSound DEF Only
  <2>3. record' = record
    BY <1>6 DEF Start
  <2>4. ~Planning'
    BY <2>2, <2>3 DEF PlanningInv, Planning, Working, Loop
  <2>5. StateSound(job'[Main])
    BY <2>1, IdleSound, Stateless
  <2> QED BY <2>1, <2>2, <2>4, <2>5, PlanningKept
<1>7. CASE Finished
  BY <1>1, <1>7 DEF Finished
<1> QED BY <1>1, <1>2, <1>3, <1>4, <1>5, <1>6, <1>7 DEF Next, Workers

\* With requests that do not overlap, clients that drain their streams and a
\* process that is not stopped, the stored state says planning only while a
\* handler is at work (PlanningInProgress).
THEOREM PlanningIsServed ==
    ASSUME OneHandler, Undisturbed
    PROVE  Spec => []PlanningInProgress
<1> DEFINE Inv == TypesInv /\ Alone /\ PlanningInv
<1>1. Init => Inv
  <2> SUFFICES ASSUME Init PROVE PlanningInv
    BY TypesInit, AloneInit
  <2>1. record = NoRecord /\ \A h \in Workers : job[h].stage = "idle"
    BY IdleSound DEF Init
  <2> QED BY <2>1, Stateless DEF PlanningInv, Planning
<1>2. Inv /\ [Next]_vars => Inv'
  BY OneHandler, Undisturbed, TypesStep, AloneStep, PlanningStep
<1>3. Inv => PlanningInProgress
  BY DEF PlanningInv, PlanningInProgress, Planning, Quiet, Working, Loop
<1> HIDE DEF Inv
<1> QED BY <1>1, <1>2, <1>3, PTL DEF Spec
-----------------------------------------------------------------------------
(* The log of a process that is not stopped. *)

\* The process is never stopped while it serves.
NoStops == MaxCrashes = 0

\* The counters of a stored record.
EventsIn(rec) == IF rec = NoRecord THEN 0 ELSE rec.events
PlansIn(rec) == IF rec = NoRecord THEN 0 ELSE rec.plan
AuditsIn(rec) == IF rec = NoRecord THEN 0 ELSE rec.audits

\* What a thread has added and the stored record does not count yet: the event
\* it has taken in, the event, the plan and the audit entry it has written.
Taken(j) == IF j.stage \in {"plan", "idem", "event", "upsert"} THEN 1 ELSE 0
Logged(j) == IF j.stage = "upsert" THEN 1 ELSE 0
Versioned(j) == IF Planned(j) THEN 1 ELSE 0
Entered(j) == IF j.stage = "close" THEN 1 ELSE 0

\* Its copy counts what the stored record counts, and what it has added.
CopyCounts(j, rec) ==
    Carries(j) => /\ j.rec.events = EventsIn(rec) + Taken(j)
                  /\ j.rec.plan = PlansIn(rec) + Versioned(j)
                  /\ j.rec.audits = AuditsIn(rec) + Entered(j)

Within(table, n) == \A k \in DOMAIN table : k <= n

\* No row has a number that is still to be given.
RowsCount(j, rec, ev, pl, au) ==
    /\ Within(ev, EventsIn(rec) + Logged(j))
    /\ Within(pl, PlansIn(rec) + Versioned(j))
    /\ Within(au, AuditsIn(rec) + Entered(j))

\* The others have nothing to do with the log.
Busiest(h) == \A g \in Workers : g # h => job[g].stage = "idle"

LogInv ==
    \A h \in Workers : Busiest(h) =>
        CopyCounts(job[h], record) /\ RowsCount(job[h], record, events, plans, audits)

\* The process stays up, and its main thread has nothing to recover.
Steady == up /\ crashes = 0 /\ job[Main].stage = "idle"

\* A job that has added nothing.
LEMMA AddsNothing ==
    ASSUME NEW j, j.stage \notin {"plan", "idem", "event", "upsert", "close"}
    PROVE  Taken(j) = 0 /\ Logged(j) = 0 /\ Versioned(j) = 0 /\ Entered(j) = 0
BY DEF Taken, Logged, Versioned, Entered, Planned

\* A job that goes on as it was, or ends.
LEMMA LogSame ==
    ASSUME NEW j, NEW k, NEW rec, NEW ev, NEW pl, NEW au,
           CopyCounts(j, rec), RowsCount(j, rec, ev, pl, au),
           Carries(k) => Carries(j) /\ k.rec = j.rec,
           Taken(k) = Taken(j), Logged(k) = Logged(j),
           Versioned(k) = Versioned(j), Entered(k) = Entered(j)
    PROVE  CopyCounts(k, rec) /\ RowsCount(k, rec, ev, pl, au)
BY DEF CopyCounts, RowsCount

\* A job takes a copy of the stored record.
LEMMA LogCopied ==
    ASSUME NEW j, NEW k, NEW rec, NEW ev, NEW pl, NEW au, rec = NoRecord \/ rec \in WorkflowRecord,
           RowsCount(j, rec, ev, pl, au),
           k.rec.events = EventsIn(rec), k.rec.plan = PlansIn(rec), k.rec.audits = AuditsIn(rec),
           j.stage \notin {"plan", "idem", "event", "upsert", "close"},
           k.stage \notin {"plan", "idem", "event", "upsert", "close"}
    PROVE  CopyCounts(k, rec) /\ RowsCount(k, rec, ev, pl, au)
<1>1. /\ Taken(j) = 0 /\ Logged(j) = 0 /\ Versioned(j) = 0 /\ Entered(j) = 0
      /\ Taken(k) = 0 /\ Logged(k) = 0 /\ Versioned(k) = 0 /\ Entered(k) = 0
  BY AddsNothing
<1>2. EventsIn(rec) \in Nat /\ PlansIn(rec) \in Nat /\ AuditsIn(rec) \in Nat
  BY DEF EventsIn, PlansIn, AuditsIn, WorkflowRecord
<1> QED BY <1>1, <1>2 DEF CopyCounts, RowsCount

\* The counters of a copy that takes in an event.
LEMMA ReceiveCounts ==
    ASSUME RowsInv, NEW h \in Workers, job[h].rec \in WorkflowRecord, NEW s,
           Become(h, Receive(job[h], s))
    PROVE  /\ job'[h].rec.events = job[h].rec.events + 1
           /\ job'[h].rec.audits = job[h].rec.audits
<1> DEFINE k == Receive(job[h], s)
           e == Head(s)
<1>1. JobShape(job[h]) /\ JobsShaped
  BY DEF RowsInv, JobsShaped
<1>2. k.rec = Noted(job[h].rec, e)
  BY <1>1 DEF Receive, JobShape
<1>3. Noted(job[h].rec, e).events = job[h].rec.events + 1
  BY DEF Noted, WorkflowRecord
<1>4. Noted(job[h].rec, e).audits = job[h].rec.audits
  BY NotedKeeps
<1>5. job' = [job EXCEPT ![h] = k]
  BY DEF Become
<1> HIDE DEF k
<1>6. job'[h] = k
  BY <1>1, <1>5, JobChanges
<1> QED BY <1>2, <1>3, <1>4, <1>6

\* The counters of a submission's record, when it continues the stored one.
LEMMA LoadCounts ==
    ASSUME RowsInv, NEW h \in Workers, Load(h), job[h].req.replace = "yes"
    PROVE  /\ job'[h].rec.events = EventsIn(record)
           /\ job'[h].rec.plan = PlansIn(record)
           /\ job'[h].rec.audits = AuditsIn(record)
<1> DEFINE base == IF record # NoRecord THEN record ELSE FreshRecord
           rec == [base EXCEPT !.state = "submitted"]
<1>1. base \in WorkflowRecord
  BY DEF RowsInv, RecordTyped, FreshRecord, WorkflowRecord, States
<1>2. /\ base.events = EventsIn(record) /\ base.plan = PlansIn(record)
      /\ base.audits = AuditsIn(record)
  BY DEF EventsIn, PlansIn, AuditsIn, FreshRecord
<1>3. GotoWith(h, "save", rec)
  BY DEF Load, Req
<1> HIDE DEF base
<1>4. rec.events = base.events /\ rec.plan = base.plan /\ rec.audits = base.audits
  BY <1>1 DEF WorkflowRecord
<1> HIDE DEF rec
<1>5. job'[h].rec = rec
  BY <1>3, GotoWithMoves DEF RowsInv
<1> QED BY <1>2, <1>4, <1>5

\* The counters of a copy that an operator's action takes.
LEMMA FetchCounts ==
    ASSUME RowsInv, NEW h \in Workers, Fetch(h), job'[h] # Idle
    PROVE  /\ job'[h].rec.events = record.events
           /\ job'[h].rec.plan = record.plan
           /\ job'[h].rec.audits = record.audits
<1> DEFINE rec == Marked(record, Req(h).op)
           s == IF Req(h).op = "manual" THEN "audit" ELSE "mark"
<1>1. record # NoRecord /\ GotoWith(h, s, rec)
  BY LeaveMoves DEF Fetch, RowsInv
<1>2. record \in WorkflowRecord
  BY <1>1 DEF RowsInv, RecordTyped
<1>3. rec.events = record.events /\ rec.plan = record.plan /\ rec.audits = record.audits
  BY <1>2 DEF Marked, WorkflowRecord
<1> HIDE DEF rec, s
<1>4. job'[h].rec = rec
  BY <1>1, GotoWithMoves DEF RowsInv
<1> QED BY <1>3, <1>4

\* The counters of a copy with another plan version or audit entry.
LEMMA WriteCounts ==
    ASSUME RowsInv, NEW h \in Workers
    PROVE  /\ WritePlan(h) => /\ job'[h].rec.events = job[h].rec.events
                              /\ job'[h].rec.audits = job[h].rec.audits
           /\ WriteAudit(h) => /\ job'[h].rec.events = job[h].rec.events
                               /\ job'[h].rec.audits = job[h].rec.audits + 1
                               /\ audits' = Put(audits, job[h].rec.audits + 1,
                                     [call |-> job[h].call, boot |-> boot,
                                      action |-> job[h].req.op])
<1>1. ASSUME WritePlan(h)
      PROVE  /\ job'[h].rec.events = job[h].rec.events
             /\ job'[h].rec.audits = job[h].rec.audits
  <2> DEFINE rec == [job[h].rec EXCEPT !.plan = job[h].rec.plan + 1]
             s == IF Req(h).key # NoKey THEN "idem" ELSE "event"
  <2>1. job[h].rec \in WorkflowRecord
    BY <1>1, WritePlanMoves
  <2>2. GotoWith(h, s, rec)
    BY <1>1 DEF WritePlan, Rec
  <2>3. rec.events = job[h].rec.events /\ rec.audits = job[h].rec.audits
    BY <2>1 DEF WorkflowRecord
  <2> HIDE DEF rec, s
  <2>4. job'[h].rec = rec
    BY <2>2, GotoWithMoves DEF RowsInv
  <2> QED BY <2>3, <2>4
<1>2. ASSUME WriteAudit(h)
      PROVE  /\ job'[h].rec.events = job[h].rec.events
             /\ job'[h].rec.audits = job[h].rec.audits + 1
             /\ audits' = Put(audits, job[h].rec.audits + 1,
                   [call |-> job[h].call, boot |-> boot, action |-> job[h].req.op])
  <2> DEFINE rec == [job[h].rec EXCEPT !.audits = job[h].rec.audits + 1]
  <2>1. job[h].rec \in WorkflowRecord
    BY <1>2, WriteAuditMoves
  <2>2. /\ GotoWith(h, "close", rec)
        /\ audits' = Put(audits, job[h].rec.audits + 1,
              [call |-> job[h].call, boot |-> boot, action |-> job[h].req.op])
    BY <1>2 DEF WriteAudit, Rec, Req
  <2>3. rec.events = job[h].rec.events /\ rec.audits = job[h].rec.audits + 1
    BY <2>1 DEF WorkflowRecord
  <2> HIDE DEF rec
  <2>4. job'[h].rec = rec
    BY <2>2, GotoWithMoves DEF RowsInv
  <2> QED BY <2>2, <2>3, <2>4
<1> QED BY <1>1, <1>2
\* A thread's steps keep the counts.
LEMMA LogStepOf ==
    ASSUME Continuing, TypesInv, NEW h \in Workers, h # Main, Step(h) \/ Abandon(h),
           CopyCounts(job[h], record), RowsCount(job[h], record, events, plans, audits)
    PROVE  /\ CopyCounts(job'[h], record')
           /\ RowsCount(job'[h], record', events', plans', audits')
<1>0. RowsInv /\ JobsSound /\ SessionTyped /\ SoundJob(h, job[h])
  BY DEF TypesInv, JobsSound
<1> DEFINE Goal == /\ CopyCounts(job'[h], record')
                   /\ RowsCount(job'[h], record', events', plans', audits')
           Added == {"plan", "idem", "event", "upsert", "close"}
<1>r. RecordTyped
  BY <1>0 DEF RowsInv
<1>n. EventsIn(record) \in Nat /\ PlansIn(record) \in Nat /\ AuditsIn(record) \in Nat
  BY <1>r DEF EventsIn, PlansIn, AuditsIn, WorkflowRecord, RecordTyped
<1>i. ASSUME UNCHANGED record, UNCHANGED events, UNCHANGED plans, UNCHANGED audits,
             job[h].stage \notin Added, job'[h].stage \notin Added,
             Carries(job'[h]) => Carries(job[h]) /\ job'[h].rec = job[h].rec
      PROVE  Goal
  <2>1. /\ Taken(job[h]) = 0 /\ Logged(job[h]) = 0 /\ Versioned(job[h]) = 0
        /\ Entered(job[h]) = 0
    BY <1>i, AddsNothing
  <2>2. /\ Taken(job'[h]) = 0 /\ Logged(job'[h]) = 0 /\ Versioned(job'[h]) = 0
        /\ Entered(job'[h]) = 0
    BY <1>i, AddsNothing
  <2> QED BY <1>i, <2>1, <2>2, LogSame
<1>e. job'[h] = Idle => job'[h].stage \notin Added /\ ~Carries(job'[h])
  BY IdleSound, IdleCarriesNothing
<1>1. CASE Lookup(h)
  <2>1. /\ UNCHANGED record /\ UNCHANGED events /\ UNCHANGED plans /\ UNCHANGED audits
    BY <1>1 DEF Lookup, durable
  <2>2. CASE job'[h] # Idle
    <3>1. /\ job[h].stage = "lookup" /\ Keeps(h)
          /\ GoesOn(h, IF job[h].req.op = "submit" THEN "load" ELSE "run")
      BY <1>0, <1>1, <2>2, LookupMoves
    <3>2. Carries(job'[h]) => Carries(job[h])
      BY <3>1 DEF GoesOn, Carries, Carrying
    <3> QED BY <1>i, <2>1, <3>1, <3>2 DEF GoesOn, Keeps
  <2>3. CASE job'[h] = Idle
    BY <1>0, <1>1, <1>e, <1>i, <2>1, <2>3, LookupMoves
  <2> QED BY <2>2, <2>3
<1>2. CASE Load(h)
  <2>1. /\ UNCHANGED record /\ UNCHANGED events /\ UNCHANGED plans /\ UNCHANGED audits
    BY <1>2 DEF Load, durable
  <2>2. job[h].stage = "load" /\ job'[h].stage = "save"
    BY <1>0, <1>2, LoadMoves DEF GoesOn
  <2>3. job[h].req \in Requests /\ job[h].req.op = "submit"
    BY <1>0, <2>2 DEF SoundJob, StagesOf, Reorchestrating, Loop
  <2>4. /\ job'[h].rec.events = EventsIn(record) /\ job'[h].rec.plan = PlansIn(record)
        /\ job'[h].rec.audits = AuditsIn(record)
    BY <1>0, <1>2, <2>3, LoadCounts DEF Continuing
  <2> QED BY <1>r, <2>1, <2>2, <2>4, LogCopied DEF RecordTyped
<1>3. CASE Upsert(h)
  <2>1. /\ UNCHANGED events /\ UNCHANGED plans /\ UNCHANGED audits
    BY <1>3 DEF Upsert
  <2>2. /\ record' = job[h].rec /\ job[h].rec \in WorkflowRecord
        /\ job'[h].rec = job[h].rec /\ job'[h].stage \notin Added
        /\ job[h].stage \in {"save", "mark", "close", "upsert"}
    BY <1>0, <1>3, UpsertMoves DEF GoesOn, Keeps
  <2>3. /\ EventsIn(record') = job[h].rec.events /\ PlansIn(record') = job[h].rec.plan
        /\ AuditsIn(record') = job[h].rec.audits
    BY <2>2, RecordAssumption DEF EventsIn, PlansIn, AuditsIn
  <2>4. /\ Taken(job'[h]) = 0 /\ Logged(job'[h]) = 0 /\ Versioned(job'[h]) = 0
        /\ Entered(job'[h]) = 0
    BY <2>2, AddsNothing
  <2>5. Carries(job[h])
    BY <2>2 DEF Carries, Carrying
  <2>6. /\ job[h].rec.events = EventsIn(record) + Taken(job[h])
        /\ job[h].rec.plan = PlansIn(record) + Versioned(job[h])
        /\ job[h].rec.audits = AuditsIn(record) + Entered(job[h])
    BY <2>5 DEF CopyCounts
  <2>7. Logged(job[h]) = Taken(job[h])
    BY <2>2 DEF Logged, Taken
  <2>8. job[h].rec.events \in Nat /\ job[h].rec.plan \in Nat /\ job[h].rec.audits \in Nat
    BY <2>2 DEF WorkflowRecord
  <2>9. CopyCounts(job'[h], record')
    BY <2>2, <2>3, <2>4, <2>8 DEF CopyCounts
  <2>10. RowsCount(job'[h], record', events', plans', audits')
    BY <2>1, <2>3, <2>4, <2>6, <2>7, <2>8 DEF RowsCount
  <2> QED BY <2>9, <2>10
<1>4. CASE Publish(h) \/ Hydrate(h) \/ Rehydrate(h)
  <2>1. /\ UNCHANGED record /\ UNCHANGED events /\ UNCHANGED plans /\ UNCHANGED audits
    BY <1>4 DEF Publish, Hydrate, Rehydrate, durable
  <2>2. /\ job[h].stage \in {"announce", "notify", "publish", "hydrate", "rehydrate"}
        /\ Carries(job[h])
    BY <1>0, <1>4, PublishMoves, RowMoves, RehydrateMoves DEF Carries, Carrying
  <2>3. CASE job'[h] # Idle
    <3>1. /\ job'[h].stage \in {"hydrate", "yield", "check", "replay", "run", "lookup"}
          /\ job'[h].rec = job[h].rec
      BY <1>0, <1>4, <2>3, PublishMoves, RowMoves, RehydrateMoves DEF GoesOn, Keeps
    <3> QED BY <1>i, <2>1, <2>2, <3>1
  <2>4. CASE job'[h] = Idle
    BY <1>e, <1>i, <2>1, <2>2, <2>4
  <2> QED BY <2>3, <2>4
<1>5. CASE Run(h) \/ Resume(h) \/ Abandon(h)
  <2>1. /\ UNCHANGED record /\ UNCHANGED events /\ UNCHANGED plans /\ UNCHANGED audits
    BY <1>5 DEF Run, Resume, Abandon, durable
  <2>2. job[h].stage \in {"run", "yield"} /\ Carries(job[h])
    BY <1>5 DEF Run, Resume, Abandon, At, Carries, Carrying
  <2>3. CASE job'[h] = Idle
    BY <1>e, <1>i, <2>1, <2>2, <2>3
  <2>4. CASE job'[h] # Idle
    <3>1. job[h].rec \in WorkflowRecord
      BY <1>0, <2>2, CopyIsRecord
    <3>2. PICK s : Become(h, Receive(job[h], s))
      BY <1>0, <1>5, <2>4, LeaveMoves, AbandonMoves DEF Run, Resume, RowsInv
    <3>3. /\ job'[h].rec.events = job[h].rec.events + 1
          /\ job'[h].rec.audits = job[h].rec.audits
      BY <1>0, <3>1, <3>2, ReceiveCounts
    <3>4. /\ SamePlan(h)
          /\ \E stage \in {"plan", "idem", "event"} :
               GoesOn(h, stage) /\ (stage = "plan" <=> Head(job'[h].stream).type = "finished")
      <4>1. CASE Run(h)
        <5>1. job[h].req.op \in {"submit", "reorchestrate", "manual"} /\ job[h].req \in Requests
          BY <1>0, <4>1, LoopServes DEF Run, At
        <5> QED BY <1>0, <4>1, <5>1, RunMoves DEF SessionTyped
      <4>2. CASE Resume(h)
        <5>1. IsStream(job[h].stream)
          BY <1>0, <4>2 DEF SoundJob, Loop, Resume, At
        <5> QED BY <1>0, <2>4, <4>2, <5>1, ResumeMoves
      <4>3. CASE Abandon(h)
        BY <1>0, <2>4, <4>3, AbandonMoves
      <4> QED BY <1>5, <4>1, <4>2, <4>3
    <3>5. job'[h].stage \in {"plan", "idem", "event"} /\ ~Planned(job'[h])
      BY <3>4 DEF Planned, GoesOn
    <3>6. /\ Taken(job'[h]) = 1 /\ Logged(job'[h]) = 0 /\ Versioned(job'[h]) = 0
          /\ Entered(job'[h]) = 0
      BY <3>5 DEF Taken, Logged, Versioned, Entered
    <3>7. /\ Taken(job[h]) = 0 /\ Logged(job[h]) = 0 /\ Versioned(job[h]) = 0
          /\ Entered(job[h]) = 0
      BY <2>2, AddsNothing
    <3>8. /\ job[h].rec.events = EventsIn(record) /\ job[h].rec.plan = PlansIn(record)
          /\ job[h].rec.audits = AuditsIn(record)
      BY <1>n, <2>2, <3>7 DEF CopyCounts
    <3>9. CopyCounts(job'[h], record')
      BY <1>n, <2>1, <3>3, <3>4, <3>6, <3>8 DEF CopyCounts, SamePlan
    <3>10. RowsCount(job'[h], record', events', plans', audits')
      BY <2>1, <3>6, <3>7 DEF RowsCount
    <3> QED BY <3>9, <3>10
  <2> QED BY <2>3, <2>4
<1>6. CASE WritePlan(h)
  <2>1. /\ UNCHANGED record /\ UNCHANGED events /\ UNCHANGED audits
    BY <1>6 DEF WritePlan
  <2>2. /\ job[h].stage = "plan" /\ job'[h].stream = job[h].stream
        /\ job'[h].stage \in {"idem", "event"}
        /\ job'[h].rec.plan = job[h].rec.plan + 1
        /\ DOMAIN plans' = DOMAIN plans \cup {job[h].rec.plan + 1}
    <3>1. PICK row : plans' = Put(plans, job[h].rec.plan + 1, row)
      BY <1>0, <1>6, WritePlanMoves
    <3>2. DOMAIN plans' = DOMAIN plans \cup {job[h].rec.plan + 1}
      BY <3>1, PutDomain
    <3> QED BY <1>0, <1>6, <3>2, WritePlanMoves DEF GoesOn
  <2>3. /\ job'[h].rec.events = job[h].rec.events /\ job'[h].rec.audits = job[h].rec.audits
    BY <1>0, <1>6, WriteCounts
  <2>4. Head(job[h].stream).type = "finished"
    BY <1>0, <2>2 DEF SoundJob
  <2>5. Planned(job'[h]) /\ ~Planned(job[h]) /\ Carries(job[h])
    BY <2>2, <2>4 DEF Planned, Carries, Carrying
  <2>6. /\ Taken(job'[h]) = 1 /\ Logged(job'[h]) = 0 /\ Versioned(job'[h]) = 1
        /\ Entered(job'[h]) = 0
        /\ Taken(job[h]) = 1 /\ Logged(job[h]) = 0 /\ Versioned(job[h]) = 0
        /\ Entered(job[h]) = 0
    BY <2>2, <2>5 DEF Taken, Logged, Versioned, Entered
  <2>7. CopyCounts(job'[h], record')
    BY <1>n, <2>1, <2>2, <2>3, <2>5, <2>6 DEF CopyCounts
  <2>8. job[h].rec.plan + 1 <= PlansIn(record) + 1
    BY <1>n, <2>5, <2>6 DEF CopyCounts
  <2>9. RowsCount(job'[h], record', events', plans', audits')
    <3>1. Within(plans, PlansIn(record))
      BY <1>n, <2>6 DEF RowsCount
    <3>2. DOMAIN plans \subseteq Nat
      BY DEF TypesInv, TablesTyped
    <3>3. Within(plans', PlansIn(record) + 1)
      BY <1>n, <2>2, <2>8, <3>1, <3>2 DEF Within
    <3> QED BY <2>1, <2>6, <3>3 DEF RowsCount
  <2> QED BY <2>7, <2>9
<1>7. CASE PutIdempotency(h)
  <2>1. /\ UNCHANGED record /\ UNCHANGED events /\ UNCHANGED plans /\ UNCHANGED audits
    BY <1>7 DEF PutIdempotency
  <2>2. job[h].stage = "idem" /\ GoesOn(h, "event") /\ Keeps(h)
    BY <1>0, <1>7, RowMoves
  <2>3. Planned(job'[h]) <=> Planned(job[h])
    BY <2>2 DEF Planned, Keeps, GoesOn
  <2>4. /\ Taken(job'[h]) = Taken(job[h]) /\ Logged(job'[h]) = Logged(job[h])
        /\ Versioned(job'[h]) = Versioned(job[h]) /\ Entered(job'[h]) = Entered(job[h])
    BY <2>2, <2>3 DEF Taken, Logged, Versioned, Entered, GoesOn
  <2>5. Carries(job[h])
    BY <2>2 DEF Carries, Carrying
  <2> QED BY <2>1, <2>2, <2>4, <2>5, LogSame DEF Keeps
<1>8. CASE WriteEvent(h)
  <2>1. /\ UNCHANGED record /\ UNCHANGED plans /\ UNCHANGED audits
        /\ DOMAIN events' = DOMAIN events \cup {job[h].rec.events}
    BY <1>8, PutDomain DEF WriteEvent, Rec
  <2>2. job[h].stage = "event" /\ GoesOn(h, "upsert") /\ Keeps(h)
    BY <1>0, <1>8, RowMoves
  <2>3. Planned(job'[h]) <=> Planned(job[h])
    BY <2>2 DEF Planned, Keeps, GoesOn
  <2>4. /\ Taken(job'[h]) = 1 /\ Logged(job'[h]) = 1
        /\ Taken(job[h]) = 1 /\ Logged(job[h]) = 0
        /\ Versioned(job'[h]) = Versioned(job[h]) /\ Entered(job'[h]) = Entered(job[h])
    BY <2>2, <2>3 DEF Taken, Logged, Versioned, Entered, GoesOn
  <2>5. Carries(job[h])
    BY <2>2 DEF Carries, Carrying
  <2>6. CopyCounts(job'[h], record')
    BY <2>1, <2>2, <2>4, <2>5 DEF CopyCounts, Keeps
  <2>7. RowsCount(job'[h], record', events', plans', audits')
    <3>1. Within(events, EventsIn(record)) /\ job[h].rec.events = EventsIn(record) + 1
      BY <1>n, <2>4, <2>5 DEF RowsCount, CopyCounts
    <3>2. DOMAIN events \subseteq Nat
      BY DEF TypesInv, TablesTyped
    <3>3. Within(events', EventsIn(record) + 1)
      BY <1>n, <2>1, <3>1, <3>2 DEF Within
    <3> QED BY <2>1, <2>4, <3>3 DEF RowsCount
  <2> QED BY <2>6, <2>7
<1>9. CASE Check(h)
  <2>1. /\ UNCHANGED record /\ UNCHANGED events /\ UNCHANGED plans /\ UNCHANGED audits
    BY <1>9 DEF Check, durable
  <2>2. job[h].stage = "check"
    BY <1>9 DEF Check, At
  <2>3. CASE job'[h] # Idle
    <3>1. record # NoRecord /\ job'[h].stage = "rehydrate" /\ job'[h].rec = record
      BY <1>0, <1>9, <2>3, CheckMoves DEF GoesOn, Refused
    <3>2. /\ job'[h].rec.events = EventsIn(record) /\ job'[h].rec.plan = PlansIn(record)
          /\ job'[h].rec.audits = AuditsIn(record)
      BY <3>1 DEF EventsIn, PlansIn, AuditsIn
    <3> QED BY <1>r, <2>1, <2>2, <3>1, <3>2, LogCopied DEF RecordTyped
  <2>4. CASE job'[h] = Idle
    BY <1>e, <1>i, <2>1, <2>2, <2>4
  <2> QED BY <2>3, <2>4
<1>10. CASE Fetch(h)
  <2>1. /\ UNCHANGED record /\ UNCHANGED events /\ UNCHANGED plans /\ UNCHANGED audits
    BY <1>10 DEF Fetch, durable
  <2>2. job[h].stage = "fetch"
    BY <1>10 DEF Fetch, At
  <2>3. CASE job'[h] # Idle
    <3>1. record # NoRecord /\ job'[h].stage \in {"audit", "mark"}
      BY <1>0, <1>10, <2>3, FetchMoves DEF GoesOn
    <3>2. /\ job'[h].rec.events = EventsIn(record) /\ job'[h].rec.plan = PlansIn(record)
          /\ job'[h].rec.audits = AuditsIn(record)
      BY <1>0, <1>10, <2>3, <3>1, FetchCounts DEF EventsIn, PlansIn, AuditsIn
    <3> QED BY <1>r, <2>1, <2>2, <3>1, <3>2, LogCopied DEF RecordTyped
  <2>4. CASE job'[h] = Idle
    BY <1>e, <1>i, <2>1, <2>2, <2>4
  <2> QED BY <2>3, <2>4
<1>11. CASE WriteAudit(h)
  <2>1. /\ UNCHANGED record /\ UNCHANGED events /\ UNCHANGED plans
    BY <1>11 DEF WriteAudit
  <2>2. /\ job[h].stage = "audit" /\ job'[h].stage = "close"
        /\ job'[h].rec.plan = job[h].rec.plan
    BY <1>0, <1>11, WriteAuditMoves DEF GoesOn, SamePlan
  <2>3. /\ job'[h].rec.events = job[h].rec.events
        /\ job'[h].rec.audits = job[h].rec.audits + 1
        /\ DOMAIN audits' = DOMAIN audits \cup {job[h].rec.audits + 1}
    <3>1. PICK row : audits' = Put(audits, job[h].rec.audits + 1, row)
      BY <1>0, <1>11, WriteAuditMoves
    <3>2. DOMAIN audits' = DOMAIN audits \cup {job[h].rec.audits + 1}
      BY <3>1, PutDomain
    <3> QED BY <1>0, <1>11, <3>2, WriteCounts
  <2>4. /\ Taken(job'[h]) = 0 /\ Logged(job'[h]) = 0 /\ Versioned(job'[h]) = 0
        /\ Entered(job'[h]) = 1
        /\ Taken(job[h]) = 0 /\ Logged(job[h]) = 0 /\ Versioned(job[h]) = 0
        /\ Entered(job[h]) = 0
    BY <2>2 DEF Taken, Logged, Versioned, Entered, Planned
  <2>5. Carries(job[h])
    BY <2>2 DEF Carries, Carrying
  <2>6. /\ job[h].rec.events = EventsIn(record) /\ job[h].rec.plan = PlansIn(record)
        /\ job[h].rec.audits = AuditsIn(record)
    BY <1>n, <2>4, <2>5 DEF CopyCounts
  <2>7. CopyCounts(job'[h], record')
    BY <1>n, <2>1, <2>2, <2>3, <2>4, <2>6 DEF CopyCounts
  <2>8. RowsCount(job'[h], record', events', plans', audits')
    <3>1. Within(audits, AuditsIn(record))
      BY <1>n, <2>4 DEF RowsCount
    <3>2. DOMAIN audits \subseteq Nat
      BY DEF TypesInv, TablesTyped
    <3>3. Within(audits', AuditsIn(record) + 1)
      BY <1>n, <2>3, <2>6, <3>1, <3>2 DEF Within
    <3> QED BY <2>1, <2>4, <3>3 DEF RowsCount
  <2> QED BY <2>7, <2>8
<1> QED
  BY <1>1, <1>2, <1>3, <1>4, <1>5, <1>6, <1>7, <1>8, <1>9, <1>10, <1>11 DEF Step

\* Only the thread at work has to be looked at.
LEMMA LogKept ==
    ASSUME TypesInv, TypesInv', NEW h \in Workers, CopyCounts(job'[h], record'),
           RowsCount(job'[h], record', events', plans', audits'),
           \A g \in Workers : g # h => job[g].stage = "idle" /\ job'[g] = job[g]
    PROVE  LogInv'
<1> SUFFICES ASSUME NEW g \in Workers, \A f \in Workers : f # g => job'[f].stage = "idle"
             PROVE  /\ CopyCounts(job'[g], record')
                    /\ RowsCount(job'[g], record', events', plans', audits')
  BY DEF LogInv, Busiest, CopyCounts, RowsCount, Carries, Taken, Logged, Versioned, Entered,
         Planned, Within
<1>1. CASE g = h
  BY <1>1
<1>2. CASE g # h
  <2>1. job'[g].stage = "idle" /\ job'[h].stage = "idle"
    BY <1>2
  <2>2. /\ Logged(job'[g]) = 0 /\ Versioned(job'[g]) = 0 /\ Entered(job'[g]) = 0
        /\ Logged(job'[h]) = 0 /\ Versioned(job'[h]) = 0 /\ Entered(job'[h]) = 0
    BY <2>1 DEF Logged, Versioned, Entered, Planned
  <2>3. ~Carries(job'[g])
    BY <2>1 DEF Carries, Carrying
  <2> QED BY <2>2, <2>3 DEF CopyCounts, RowsCount
<1> QED BY <1>1, <1>2

\* A process that is not stopped has nothing to recover.
LEMMA SteadyStep ==
    ASSUME NoStops, TypesInv, Steady, [Next]_vars
    PROVE  /\ Steady'
           /\ \/ UNCHANGED vars
              \/ \E h \in Handlers : (\E r \in Requests : Begin(h, r)) \/ Step(h) \/ Abandon(h)
<1>0. RowsInv /\ Main \in Workers
  BY DEF TypesInv, Workers
<1>1. CASE UNCHANGED vars
  BY <1>1 DEF Steady, vars, bounds
<1>2. ASSUME NEW h \in Handlers, NEW r \in Requests, Begin(h, r) PROVE Steady'
  <2>1. Main # h /\ Only(h)
    BY <1>0, <1>2, BeginMoves, MainAssumption DEF Workers
  <2>2. UNCHANGED up /\ UNCHANGED crashes
    BY <1>2 DEF Begin
  <2> QED BY <1>0, <2>1, <2>2 DEF Steady, Only
<1>3. ASSUME NEW h \in Handlers, Step(h) \/ Abandon(h) PROVE Steady'
  <2>1. Main # h /\ Only(h)
    BY <1>3, StepOnly, MainAssumption DEF Workers
  <2>2. UNCHANGED up /\ UNCHANGED crashes
    BY <1>3 DEF Step, Lookup, Load, Upsert, Publish, Hydrate, Run, WritePlan, PutIdempotency,
       WriteEvent, Resume, Check, Rehydrate, Fetch, WriteAudit, Abandon, bounds
  <2> QED BY <1>0, <2>1, <2>2 DEF Steady, Only
<1>4. CASE Step(Main)
  BY <1>0, <1>4, StepOnly DEF Steady
<1>5. CASE Recover \/ Replay
  BY <1>5 DEF Recover, Replay, At, Steady
<1>6. CASE Crash
  BY <1>6 DEF Crash, Steady, NoStops
<1>7. ASSUME NEW s \in Starts, Start(s) PROVE FALSE
  BY <1>7 DEF Start, Steady
<1>8. CASE Finished
  BY <1>1, <1>8 DEF Finished
<1> QED BY <1>1, <1>2, <1>3, <1>4, <1>5, <1>6, <1>7, <1>8 DEF Next

\* Every step keeps the counts of the log.
LEMMA LogStep ==
    ASSUME OneHandler, Continuing, NoStops, TypesInv, Alone, Steady, LogInv, [Next]_vars
    PROVE  LogInv'
<1>0. RowsInv /\ TypesInv'
  BY TypesStep DEF TypesInv
<1>1. CASE UNCHANGED vars
  BY <1>1 DEF vars, durable, LogInv, Busiest, CopyCounts, RowsCount, Carries, Taken, Logged,
              Versioned, Entered, Planned, Within
<1>2. ASSUME NEW h \in Handlers, NEW r \in Requests, Begin(h, r) PROVE LogInv'
  <2>1. \A g \in Workers : g # h => job[g].stage = "idle" /\ job'[g] = job[g]
    BY <1>2, BeginQuiet DEF Quiet
  <2>2. /\ h \in Workers /\ job[h].stage = "idle" /\ job'[h].stage \in {"lookup", "check", "fetch"}
        /\ job'[h].stage = "lookup" => job'[h].req.op = "submit"
    BY <1>0, <1>2, BeginMoves
  <2>3. CopyCounts(job[h], record) /\ RowsCount(job[h], record, events, plans, audits)
    BY <2>1, <2>2 DEF LogInv, Busiest
  <2>4. /\ UNCHANGED record /\ UNCHANGED events /\ UNCHANGED plans /\ UNCHANGED audits
    BY <1>2 DEF Begin, durable
  <2>5. ~Carries(job'[h])
    BY <2>2 DEF Carries, Carrying
  <2>6. /\ Taken(job[h]) = 0 /\ Logged(job[h]) = 0 /\ Versioned(job[h]) = 0
        /\ Entered(job[h]) = 0
    BY <2>2, AddsNothing
  <2>7. /\ Taken(job'[h]) = 0 /\ Logged(job'[h]) = 0 /\ Versioned(job'[h]) = 0
        /\ Entered(job'[h]) = 0
    BY <2>2, AddsNothing
  <2>8. /\ CopyCounts(job'[h], record')
        /\ RowsCount(job'[h], record', events', plans', audits')
    BY <2>3, <2>4, <2>5, <2>6, <2>7, LogSame
  <2> QED BY <1>0, <2>1, <2>2, <2>8, LogKept
<1>3. ASSUME NEW h \in Handlers, Step(h) \/ Abandon(h) PROVE LogInv'
  <2>1. /\ h \in Workers /\ h # Main
        /\ \A g \in Workers : g # h => job[g].stage = "idle" /\ job'[g] = job[g]
    BY <1>3, OthersIdle, MainAssumption DEF Workers
  <2>2. CopyCounts(job[h], record) /\ RowsCount(job[h], record, events, plans, audits)
    BY <2>1 DEF LogInv, Busiest
  <2>3. /\ CopyCounts(job'[h], record')
        /\ RowsCount(job'[h], record', events', plans', audits')
    BY <1>3, <2>1, <2>2, LogStepOf
  <2> QED BY <1>0, <2>1, <2>3, LogKept
<1> QED BY <1>1, <1>2, <1>3, SteadyStep

\* The log is empty at the start.
LEMMA LogInit == Init => LogInv /\ Steady
<1> SUFFICES ASSUME Init PROVE LogInv /\ Steady
  OBVIOUS
<1>1. \A h \in Workers : job[h] = Idle /\ job[h].stage = "idle"
  BY IdleSound DEF Init
<1>2. Steady
  BY <1>1 DEF Init, Steady, Workers
<1>3. DOMAIN events = {} /\ DOMAIN plans = {} /\ DOMAIN audits = {}
  BY DEF Init
<1>4. \A h \in Workers : CopyCounts(job[h], record)
  BY <1>1 DEF CopyCounts, Carries, Carrying
<1>5. \A h \in Workers : RowsCount(job[h], record, events, plans, audits)
  BY <1>3 DEF RowsCount, Within
<1> QED BY <1>2, <1>4, <1>5 DEF LogInv

\* The number of a row that a thread writes was not given before.
LEMMA NewNumbers ==
    ASSUME TypesInv, NEW h \in Workers, CopyCounts(job[h], record),
           RowsCount(job[h], record, events, plans, audits)
    PROVE  /\ WriteEvent(h) => job[h].rec.events \notin DOMAIN events
           /\ WritePlan(h) => job[h].rec.plan + 1 \notin DOMAIN plans
           /\ WriteAudit(h) => job[h].rec.audits + 1 \notin DOMAIN audits
<1>0. RecordTyped
  BY DEF TypesInv, RowsInv
<1>1. EventsIn(record) \in Nat /\ PlansIn(record) \in Nat /\ AuditsIn(record) \in Nat
  BY <1>0 DEF EventsIn, PlansIn, AuditsIn, WorkflowRecord, RecordTyped
<1>2. ASSUME WriteEvent(h) PROVE job[h].rec.events \notin DOMAIN events
  <2>1. job[h].stage = "event" /\ Carries(job[h])
    BY <1>2 DEF WriteEvent, At, Carries, Carrying
  <2>2. Taken(job[h]) = 1 /\ Logged(job[h]) = 0
    BY <2>1 DEF Taken, Logged
  <2>3. job[h].rec.events = EventsIn(record) + 1 /\ Within(events, EventsIn(record))
    BY <1>1, <2>1, <2>2 DEF CopyCounts, RowsCount
  <2> QED BY <1>1, <2>3 DEF Within
<1>3. ASSUME WritePlan(h) PROVE job[h].rec.plan + 1 \notin DOMAIN plans
  <2>1. job[h].stage = "plan" /\ ~Planned(job[h]) /\ Carries(job[h])
    BY <1>3 DEF WritePlan, At, Planned, Carries, Carrying
  <2>2. job[h].rec.plan = PlansIn(record) /\ Within(plans, PlansIn(record))
    BY <1>1, <2>1 DEF CopyCounts, RowsCount, Versioned
  <2> QED BY <1>1, <2>2 DEF Within
<1>4. ASSUME WriteAudit(h) PROVE job[h].rec.audits + 1 \notin DOMAIN audits
  <2>1. job[h].stage = "audit" /\ Carries(job[h])
    BY <1>4 DEF WriteAudit, At, Carries, Carrying
  <2>2. Entered(job[h]) = 0
    BY <2>1 DEF Entered
  <2>3. job[h].rec.audits = AuditsIn(record) /\ Within(audits, AuditsIn(record))
    BY <1>1, <2>1, <2>2 DEF CopyCounts, RowsCount
  <2> QED BY <1>1, <2>3 DEF Within
<1> QED BY <1>2, <1>3, <1>4

\* A row with a new number changes no other.
LEMMA PutUnchanging ==
    ASSUME NEW table, NEW n, n \notin DOMAIN table, NEW row
    PROVE  Unchanging(table, Put(table, n, row))
BY DEF Unchanging, Put

\* In a process that is not stopped, whose submissions continue the stored
\* record and whose requests do not overlap, no stored event, plan version or
\* audit entry is ever replaced (HistoryAppendOnly).
THEOREM HistoryIsAppendOnly ==
    ASSUME OneHandler, Continuing, NoStops
    PROVE  Spec => HistoryAppendOnly
<1> DEFINE Inv == TypesInv /\ Alone /\ Steady /\ LogInv
           A == /\ Unchanging(events, events') /\ Unchanging(plans, plans')
                /\ Unchanging(audits, audits')
<1>1. Init => Inv
  BY TypesInit, AloneInit, LogInit
<1>2. Inv /\ [Next]_vars => Inv'
  BY OneHandler, Continuing, NoStops, TypesStep, AloneStep, SteadyStep, LogStep
<1>3. Inv /\ [Next]_vars => [A]_vars
  <2> SUFFICES ASSUME TypesInv, Alone, Steady, LogInv, [Next]_vars, ~UNCHANGED vars
               PROVE  A
    OBVIOUS
  <2>s. \A table : Unchanging(table, table)
    BY DEF Unchanging
  <2>1. ASSUME NEW h \in Handlers, NEW r \in Requests, Begin(h, r) PROVE A
    <3>1. UNCHANGED events /\ UNCHANGED plans /\ UNCHANGED audits
      BY <2>1 DEF Begin, durable
    <3> QED BY <2>s, <3>1
  <2>2. ASSUME NEW h \in Handlers, Step(h) \/ Abandon(h) PROVE A
    <3>0. RowsInv /\ h \in Workers
      BY DEF TypesInv, Workers
    <3>1. CopyCounts(job[h], record) /\ RowsCount(job[h], record, events, plans, audits)
      BY <2>2, <3>0, OthersIdle DEF LogInv, Busiest
    <3>2. CASE WritePlan(h)
      <4>1. UNCHANGED events /\ UNCHANGED audits
        BY <3>2 DEF WritePlan
      <4>2. PICK row : plans' = Put(plans, job[h].rec.plan + 1, row)
        BY <3>0, <3>2, WritePlanMoves
      <4>3. job[h].rec.plan + 1 \notin DOMAIN plans
        BY <3>0, <3>1, <3>2, NewNumbers
      <4>4. Unchanging(plans, plans')
        BY <4>2, <4>3, PutUnchanging
      <4> QED BY <2>s, <4>1, <4>4
    <3>3. CASE WriteEvent(h)
      <4>1. UNCHANGED plans /\ UNCHANGED audits
        BY <3>3 DEF WriteEvent
      <4>2. PICK row : events' = Put(events, job[h].rec.events, row)
        BY <3>3 DEF WriteEvent, Rec
      <4>3. job[h].rec.events \notin DOMAIN events
        BY <3>0, <3>1, <3>3, NewNumbers
      <4>4. Unchanging(events, events')
        BY <4>2, <4>3, PutUnchanging
      <4> QED BY <2>s, <4>1, <4>4
    <3>4. CASE WriteAudit(h)
      <4>1. UNCHANGED plans /\ UNCHANGED events
        BY <3>4 DEF WriteAudit
      <4>2. PICK row : audits' = Put(audits, job[h].rec.audits + 1, row)
        BY <3>0, <3>4, WriteAuditMoves
      <4>3. job[h].rec.audits + 1 \notin DOMAIN audits
        BY <3>0, <3>1, <3>4, NewNumbers
      <4>4. Unchanging(audits, audits')
        BY <4>2, <4>3, PutUnchanging
      <4> QED BY <2>s, <4>1, <4>4
    <3>5. CASE ~(WritePlan(h) \/ WriteEvent(h) \/ WriteAudit(h))
      <4>1. UNCHANGED events /\ UNCHANGED plans /\ UNCHANGED audits
        BY <2>2, <3>5 DEF Step, Lookup, Load, Upsert, Publish, Hydrate, Run, PutIdempotency,
           Resume, Check, Rehydrate, Fetch, Abandon, durable
      <4> QED BY <2>s, <4>1
    <3> QED BY <3>2, <3>3, <3>4, <3>5
  <2> QED BY <2>1, <2>2, NoStops, SteadyStep
<1> HIDE DEF Inv
<1> QED BY <1>1, <1>2, <1>3, PTL DEF Spec, HistoryAppendOnly

-----------------------------------------------------------------------------
(* A workflow on hold. *)

\* Held, of the given events and audit entries.
HeldIn(ev, au) ==
    \E n \in DOMAIN au :
        /\ au[n].action \in {"pause", "cancel"}
        /\ \A m \in DOMAIN au : au[m].action = "resume" => au[m].call < au[n].call
        /\ \A m \in DOMAIN ev : ev[m].event.type = "accepted" => ev[m].call < au[n].call

\* The workflow is on hold by its stored state.
OnHold(rec) == rec # NoRecord /\ rec.state \in {"paused", "cancelled"}

\* A submission that has stored its record and not logged yet that the runtime
\* accepted it.
Resubmitting(j) ==
    /\ j.req.op = "submit"
    /\ \/ j.stage \in {"announce", "hydrate", "run"}
       \/ j.stage = "event" /\ Head(j.stream).type = "accepted"

\* A resumption whose audit entry is not written yet.
Resuming(j) == j.req.op = "resume" /\ j.stage = "audit"

\* The audit entries are of earlier calls than n + 1; the entries of a call that
\* may still write one that ends a hold are all of earlier calls than its own.
CallsKnown(j, au, n) ==
    /\ \A m \in DOMAIN au : au[m].call \in Nat /\ au[m].call <= n
    /\ j.stage # "idle" => j.call <= n
    /\ j.stage # "idle" /\ (j.req.op = "submit" \/ j.stage \in {"fetch", "mark", "audit"}) =>
          \A m \in DOMAIN au : au[m].call < j.call

\* A hold in the audit trail shows in the stored state, unless it is being
\* ended; a copy about to be stored keeps the hold, or there is none.
HoldKnown(j, rec, ev, au) ==
    /\ HeldIn(ev, au) => OnHold(rec) \/ Resuming(j) \/ Resubmitting(j)
    /\ j.stage \in {"mark", "audit", "close"} /\ j.req.op \in {"pause", "cancel"} => OnHold(j.rec)
    /\ j.stage \in {"audit", "close"} /\ j.req.op \in {"pause", "cancel"} => OnHold(rec)
    /\ j.stage \in {"audit", "close"} /\ j.req.op = "manual" => j.rec.state = rec.state
    /\ j.stage = "close" /\ j.req.op = "resume" => ~HeldIn(ev, au)
    /\ j.stage \in {"rehydrate", "lookup", "run"} /\ j.req.op # "submit" => ~HeldIn(ev, au)
    /\ j.stage \in Loop /\ ~Resubmitting(j) => ~HeldIn(ev, au)

HoldInv ==
    \A h \in Workers : Busiest(h) =>
        CallsKnown(job[h], audits, calls) /\ HoldKnown(job[h], record, events, audits)

\* The hold of the stored tables.
LEMMA HeldIsIn == Held <=> HeldIn(events, audits)
BY DEF Held, HeldIn

\* Without a hold only the copies of an operator's action matter.
LEMMA NoHold ==
    ASSUME NEW j, NEW rec, NEW ev, NEW au, ~HeldIn(ev, au),
           j.stage \notin {"mark", "audit", "close"}
    PROVE  HoldKnown(j, rec, ev, au)
BY DEF HoldKnown

\* A stored state on hold is enough while no copy is at hand.
LEMMA HoldStays ==
    ASSUME NEW j, NEW k, NEW rec, NEW ev, NEW au, HoldKnown(j, rec, ev, au),
           Resuming(j) \/ Resubmitting(j) => Resubmitting(k),
           k.stage \notin {"mark", "audit", "close"} \cup Loop,
           k.stage \in {"rehydrate", "lookup", "run"} => k.req.op = "submit"
    PROVE  HoldKnown(k, rec, ev, au)
BY DEF HoldKnown

\* A new event starts no hold, and an acceptance of a later call ends it.
LEMMA EventHolds ==
    ASSUME NEW ev, NEW au, NEW n, n \notin DOMAIN ev, NEW row, NEW new, new = Put(ev, n, row)
    PROVE  /\ HeldIn(new, au) => HeldIn(ev, au)
           /\ row.event.type = "accepted" /\ (\A m \in DOMAIN au : ~(row.call < au[m].call)) =>
                ~HeldIn(new, au)
<1>1. DOMAIN new = DOMAIN ev \cup {n}
  BY PutDomain
<1>2. new[n] = row /\ \A m \in DOMAIN ev : new[m] = ev[m]
  BY DEF Put
<1>3. HeldIn(new, au) => HeldIn(ev, au)
  BY <1>1, <1>2 DEF HeldIn
<1>4. ASSUME row.event.type = "accepted", \A m \in DOMAIN au : ~(row.call < au[m].call)
      PROVE  ~HeldIn(new, au)
  BY <1>1, <1>2, <1>4 DEF HeldIn
<1> QED BY <1>3, <1>4

\* Only a pause or a cancellation starts a hold, and a resumption of a later
\* call ends it.
LEMMA AuditHolds ==
    ASSUME NEW ev, NEW au, NEW n, n \notin DOMAIN au, NEW row, NEW new, new = Put(au, n, row)
    PROVE  /\ row.action \notin {"pause", "cancel"} => (HeldIn(ev, new) => HeldIn(ev, au))
           /\ row.action = "resume" /\ (\A m \in DOMAIN au : ~(row.call < au[m].call)) =>
                ~HeldIn(ev, new)
<1>1. DOMAIN new = DOMAIN au \cup {n}
  BY PutDomain
<1>2. new[n] = row /\ \A m \in DOMAIN au : new[m] = au[m]
  BY DEF Put
<1>3. ASSUME row.action \notin {"pause", "cancel"}, HeldIn(ev, new) PROVE HeldIn(ev, au)
  BY <1>1, <1>2, <1>3 DEF HeldIn
<1>4. ASSUME row.action = "resume", \A m \in DOMAIN au : ~(row.call < au[m].call)
      PROVE  ~HeldIn(ev, new)
  BY <1>1, <1>2, <1>4 DEF HeldIn
<1> QED BY <1>3, <1>4

\* A thread that goes on serves the same call, and an operator's action goes
\* through its stages in their order.
LEMMA StepCalls ==
    ASSUME TypesInv, NEW h \in Workers, Step(h) \/ Abandon(h), job'[h] # Idle
    PROVE  /\ job'[h].call = job[h].call /\ job'[h].req = job[h].req
           /\ job'[h].stage # "fetch"
           /\ job'[h].stage \in {"mark", "audit"} => job[h].stage \in {"fetch", "mark"}
<1>0. RowsInv /\ JobsSound /\ SessionTyped
  BY DEF TypesInv
<1>1. CASE Lookup(h) \/ Load(h) \/ Publish(h)
  BY <1>0, <1>1, LookupMoves, LoadMoves, PublishMoves DEF GoesOn
<1>2. CASE Upsert(h)
  BY <1>0, <1>2, UpsertMoves DEF GoesOn
<1>3. CASE Hydrate(h) \/ PutIdempotency(h) \/ WriteEvent(h) \/ WritePlan(h) \/ WriteAudit(h)
  BY <1>0, <1>3, RowMoves, WritePlanMoves, WriteAuditMoves DEF GoesOn
<1>4. CASE Run(h)
  <2>1. job[h].stage = "run"
    BY <1>4 DEF Run, At
  <2>2. \E stage \in {"plan", "idem", "event"} : GoesOn(h, stage)
    BY <1>0, <1>4, <2>1, LoopServes, RunMoves DEF SessionTyped
  <2> QED BY <2>2 DEF GoesOn
<1>5. CASE Resume(h)
  <2>1. job[h].stage = "yield"
    BY <1>5 DEF Resume, At
  <2>2. IsStream(job[h].stream)
    BY <1>0, <2>1 DEF JobsSound, SoundJob, Loop
  <2>3. \E stage \in {"plan", "idem", "event"} : GoesOn(h, stage)
    BY <1>0, <1>5, <2>2, ResumeMoves
  <2> QED BY <2>3 DEF GoesOn
<1>6. CASE Abandon(h) \/ Check(h) \/ Rehydrate(h) \/ Fetch(h)
  BY <1>0, <1>6, AbandonMoves, CheckMoves, RehydrateMoves, FetchMoves DEF GoesOn
<1> QED BY <1>1, <1>2, <1>3, <1>4, <1>5, <1>6 DEF Step

\* The steps of a thread keep the calls in their order.
LEMMA CallsStepOf ==
    ASSUME TypesInv, NEW h \in Workers, Step(h) \/ Abandon(h), CallsKnown(job[h], audits, calls)
    PROVE  CallsKnown(job'[h], audits', calls')
<1>0. RowsInv /\ SoundJob(h, job[h]) /\ job[h].stage # "idle"
  BY StepOnly DEF TypesInv, JobsSound
<1>1. UNCHANGED calls
  BY DEF Step, Lookup, Load, Upsert, Publish, Hydrate, Run, WritePlan, PutIdempotency,
     WriteEvent, Resume, Check, Rehydrate, Fetch, WriteAudit, Abandon, bounds
<1>2. CASE WriteAudit(h)
  <2>1. PICK row : audits' = Put(audits, job[h].rec.audits + 1, row) /\ row.call = job[h].call
    <3>1. PICK row : row = [call |-> job[h].call, boot |-> boot, action |-> job[h].req.op]
      OBVIOUS
    <3>2. audits' = Put(audits, job[h].rec.audits + 1, row)
      BY <1>0, <1>2, <3>1, WriteCounts
    <3>3. row.call = job[h].call
      BY <3>1
    <3> QED BY <3>2, <3>3
  <2>2. PICK n : n = job[h].rec.audits + 1
    OBVIOUS
  <2>3. DOMAIN audits' = DOMAIN audits \cup {n}
    BY <2>1, <2>2, PutDomain
  <2>4. \A m \in DOMAIN audits' : audits'[m] = IF m = n THEN row ELSE audits[m]
    BY <2>1, <2>2, <2>3 DEF Put
  <2>5. job[h].stage = "audit" /\ GoesOn(h, "close")
    BY <1>0, <1>2, WriteAuditMoves
  <2>6. job[h].req.op # "submit"
    BY <1>0, <2>5 DEF SoundJob, StagesOf, Loop
  <2>7. job[h].call \in Nat /\ job[h].call <= calls
    BY <1>0 DEF SoundJob, CallsKnown
  <2>8. \A m \in DOMAIN audits' : audits'[m].call \in Nat /\ audits'[m].call <= calls
    BY <2>1, <2>3, <2>4, <2>7 DEF CallsKnown
  <2> QED BY <1>1, <2>5, <2>6, <2>7, <2>8 DEF CallsKnown, GoesOn
<1>3. CASE ~WriteAudit(h)
  <2>1. UNCHANGED audits
    BY <1>3 DEF Step, Lookup, Load, Upsert, Publish, Hydrate, Run, WritePlan, PutIdempotency,
       WriteEvent, Resume, Check, Rehydrate, Fetch, Abandon, durable
  <2>2. CASE job'[h] = Idle
    <3>1. job'[h].stage = "idle"
      BY <2>2, IdleSound
    <3> QED BY <1>1, <2>1, <3>1 DEF CallsKnown
  <2>3. CASE job'[h] # Idle
    BY <1>0, <1>1, <2>1, <2>3, StepCalls DEF CallsKnown
  <2> QED BY <2>2, <2>3
<1> QED BY <1>2, <1>3

\* The first event of a submission that replaces is its acceptance.
LEMMA RunAccepted ==
    ASSUME RowsInv, NEW h \in Workers, Run(h), job[h].req.op = "submit",
           job[h].req.replace = "yes"
    PROVE  Head(job'[h].stream).type = "accepted" /\ job'[h].stage = "event"
<1>0. job[h].rec \in WorkflowRecord
  BY CopyIsRecord DEF Run, At, Carries, Carrying
<1>1. PICK r : r = job[h].req
  OBVIOUS
<1>2. PICK answer \in RuntimeSubmit(r) : Become(h, Receive(job[h], answer.stream))
  BY <1>1 DEF Run, Req
<1>3. PICK s \in PlanningStreams(Tasks) :
         answer = [session |-> Tasks, stream |-> <<EventOf("accepted", {})>> \o s]
  BY <1>1, <1>2 DEF RuntimeSubmit
<1>4. PICK e : e = EventOf("accepted", {})
  OBVIOUS
<1>5. PICK t : t = <<e>> \o s
  OBVIOUS
<1>6. Become(h, Receive(job[h], t))
  BY <1>2, <1>3, <1>4, <1>5
<1>7. e.type = "accepted" /\ e \in Event
  BY <1>4 DEF EventOf, Event, EventTypes
<1>8. IsStream(s)
  BY PlanningIsStream
<1>9. Head(t) = e
  BY <1>5, <1>7, <1>8 DEF IsStream
<1>10. /\ job'[h].stream = t
       /\ \E stage \in {"plan", "idem", "event"} :
            /\ GoesOn(h, stage)
            /\ stage = "plan" <=> Head(t).type = "finished"
            /\ stage = "idem" => HasResponse(Head(t))
  BY <1>0, <1>6, ReceiveMoves
<1> QED BY <1>7, <1>9, <1>10 DEF GoesOn, HasResponse

\* The copy that an operator's action takes.
LEMMA FetchHolds ==
    ASSUME RowsInv, NEW h \in Workers, Fetch(h), job'[h] # Idle
    PROVE  /\ job[h].req.op \in {"pause", "cancel"} => OnHold(job'[h].rec)
           /\ job[h].req.op = "manual" => job'[h].rec.state = record.state
<1> DEFINE rec == Marked(record, Req(h).op)
           s == IF Req(h).op = "manual" THEN "audit" ELSE "mark"
<1>1. record # NoRecord /\ GotoWith(h, s, rec)
  BY LeaveMoves DEF Fetch, RowsInv
<1>2. record \in WorkflowRecord
  BY <1>1 DEF RowsInv, RecordTyped
<1>3. /\ Req(h).op = "pause" => rec.state = "paused"
      /\ Req(h).op = "cancel" => rec.state = "cancelled"
      /\ Req(h).op = "manual" => rec.state = record.state
  BY <1>2 DEF Marked, WorkflowRecord
<1> HIDE DEF rec, s
<1>4. job'[h].rec = rec
  BY <1>1, GotoWithMoves DEF RowsInv
<1>5. rec # NoRecord
  BY <1>4, FetchMoves, RecordAssumption
<1> QED BY <1>3, <1>4, <1>5 DEF OnHold, Req

\* The steps of a thread keep what it knows of the hold.
LEMMA HoldStepOf ==
    ASSUME Continuing, TypesInv, NEW h \in Workers, h # Main, Step(h) \/ Abandon(h),
           CopyCounts(job[h], record), RowsCount(job[h], record, events, plans, audits),
           CallsKnown(job[h], audits, calls), HoldKnown(job[h], record, events, audits)
    PROVE  HoldKnown(job'[h], record', events', audits')
<1>0. RowsInv /\ JobsSound /\ SessionTyped /\ SoundJob(h, job[h])
  BY DEF TypesInv, JobsSound
<1> DEFINE Acting == {"mark", "audit", "close"}
<1>o. job[h].stage # "idle" => job[h].req \in Requests
  BY <1>0 DEF SoundJob
<1>e. job'[h] = Idle => job'[h].stage = "idle"
  BY IdleSound
<1>l. ASSUME job[h].stage \in Loop, ~Resubmitting(job[h]) PROVE ~HeldIn(events, audits)
  BY <1>l DEF HoldKnown
\* Steps of a thread that knows of no hold.
<1>n. ASSUME UNCHANGED events, UNCHANGED audits, ~HeldIn(events, audits),
             job'[h].stage \notin Acting
      PROVE  HoldKnown(job'[h], record', events', audits')
  BY <1>n, NoHold
<1>1. CASE Lookup(h)
  <2>1. UNCHANGED record /\ UNCHANGED events /\ UNCHANGED audits
    BY <1>1 DEF Lookup, durable
  <2>2. job[h].stage = "lookup"
    BY <1>1 DEF Lookup, At
  <2>3. /\ job'[h].stage = "idle" \/ GoesOn(h, IF job[h].req.op = "submit" THEN "load" ELSE "run")
    BY <1>0, <1>1, <1>e, LookupMoves
  <2>4. CASE job[h].req.op # "submit"
    <3>1. ~HeldIn(events, audits)
      BY <2>2, <2>4 DEF HoldKnown
    <3> QED BY <1>n, <2>1, <2>3, <2>4, <3>1 DEF GoesOn
  <2>5. CASE job[h].req.op = "submit"
    <3>1. job'[h].stage \in {"idle", "load"} /\ ~Resuming(job[h]) /\ ~Resubmitting(job[h])
      BY <2>2, <2>3, <2>5 DEF GoesOn, Resuming, Resubmitting
    <3> QED BY <2>1, <3>1, HoldStays DEF Loop
  <2> QED BY <2>4, <2>5
<1>2. CASE Load(h)
  <2>1. UNCHANGED record /\ UNCHANGED events /\ UNCHANGED audits
    BY <1>2 DEF Load, durable
  <2>2. job[h].stage = "load" /\ job'[h].stage = "save"
    BY <1>0, <1>2, LoadMoves DEF GoesOn
  <2>3. ~Resuming(job[h]) /\ ~Resubmitting(job[h])
    BY <2>2 DEF Resuming, Resubmitting
  <2> QED BY <2>1, <2>2, <2>3, HoldStays DEF Loop
<1>3. CASE Upsert(h)
  <2>1. UNCHANGED events /\ UNCHANGED audits
    BY <1>3 DEF Upsert
  <2>2. /\ record' = job[h].rec /\ job'[h].rec = job[h].rec
        /\ job[h].stage \in {"save", "mark", "close", "upsert"}
    BY <1>0, <1>3, UpsertMoves DEF Keeps
  <2>3. CASE job[h].stage = "save"
    <3>1. GoesOn(h, "announce")
      BY <1>0, <1>3, <2>3, UpsertMoves
    <3>2. job[h].req.op = "submit"
      BY <1>0, <2>3 DEF SoundJob, StagesOf, Reorchestrating, Loop
    <3>3. Resubmitting(job'[h]) /\ job'[h].stage = "announce"
      BY <3>1, <3>2 DEF Resubmitting, GoesOn
    <3> QED BY <3>3 DEF HoldKnown, Loop
  <2>4. CASE job[h].stage = "upsert"
    <3>1. job'[h].stage = "publish"
      BY <1>0, <1>3, <2>4, UpsertMoves DEF GoesOn
    <3>2. ~HeldIn(events, audits)
      BY <1>l, <2>4 DEF Loop, Resubmitting
    <3> QED BY <1>n, <2>1, <3>1, <3>2
  <2>5. CASE job[h].stage = "mark"
    <3>1. job'[h].stage = "audit" /\ job'[h].req = job[h].req
      BY <1>0, <1>3, <2>5, UpsertMoves DEF GoesOn
    <3>2. job[h].req.op \in {"pause", "cancel", "resume"}
      <4>1. job[h].req \in Requests /\ job[h].stage \in StagesOf(job[h].req.op)
        BY <1>0, <1>o, <2>5 DEF SoundJob
      <4> QED BY <2>5, <4>1, RequestsAssumption DEF StagesOf, Reorchestrating, Loop
    <3>3. job[h].req.op = "resume" => Resuming(job'[h])
      BY <3>1 DEF Resuming
    <3>4. job[h].req.op \in {"pause", "cancel"} => OnHold(job[h].rec)
      BY <2>5 DEF HoldKnown
    <3> QED BY <2>2, <3>1, <3>2, <3>3, <3>4 DEF HoldKnown, Loop
  <2>6. CASE job[h].stage = "close"
    <3>1. job'[h].stage = "notify" /\ job'[h].req = job[h].req
      BY <1>0, <1>3, <2>6, UpsertMoves DEF GoesOn
    <3>2. job[h].req.op \in {"pause", "cancel", "resume", "manual"}
      <4>1. job[h].req \in Requests /\ job[h].stage \in StagesOf(job[h].req.op)
        BY <1>0, <1>o, <2>6 DEF SoundJob
      <4> QED BY <2>6, <4>1, RequestsAssumption DEF StagesOf, Reorchestrating, Loop
    <3>3. CASE job[h].req.op = "resume"
      <4>1. ~HeldIn(events, audits)
        BY <2>6, <3>3 DEF HoldKnown
      <4> QED BY <1>n, <2>1, <3>1, <4>1
    <3>4. CASE job[h].req.op \in {"pause", "cancel"}
      <4>1. OnHold(record')
        BY <2>2, <2>6, <3>4 DEF HoldKnown
      <4> QED BY <3>1, <4>1 DEF HoldKnown, Loop
    <3>5. CASE job[h].req.op = "manual"
      <4>1. HeldIn(events, audits) => OnHold(record)
        BY <2>6, <3>5 DEF HoldKnown, Resuming, Resubmitting
      <4>2. job[h].rec.state = record.state /\ job[h].rec # NoRecord
        <5>1. job[h].rec \in WorkflowRecord
          BY <1>0, <2>6, CopyIsRecord DEF Carries, Carrying
        <5> QED BY <2>6, <3>5, <5>1, RecordAssumption DEF HoldKnown
      <4>3. HeldIn(events', audits') => OnHold(record')
        BY <2>1, <2>2, <4>1, <4>2 DEF OnHold
      <4> QED BY <3>1, <4>3 DEF HoldKnown, Loop
    <3> QED BY <3>2, <3>3, <3>4, <3>5
  <2> QED BY <2>2, <2>3, <2>4, <2>5, <2>6
<1>4. CASE Publish(h)
  <2>1. UNCHANGED record /\ UNCHANGED events /\ UNCHANGED audits
    BY <1>4 DEF Publish, durable
  <2>2. CASE job[h].stage = "publish"
    <3>1. job'[h].stage = "yield"
      BY <1>0, <1>4, <2>2, PublishMoves DEF GoesOn
    <3>2. ~HeldIn(events, audits)
      BY <1>l, <2>2 DEF Loop, Resubmitting
    <3> QED BY <1>n, <2>1, <3>1, <3>2
  <2>3. CASE job[h].stage = "announce"
    <3>1. GoesOn(h, "hydrate")
      BY <1>0, <1>4, <2>3, PublishMoves
    <3>2. Resubmitting(job[h]) => Resubmitting(job'[h])
      BY <3>1 DEF Resubmitting, GoesOn
    <3>3. job'[h].stage = "hydrate" /\ ~Resuming(job[h])
      BY <2>3, <3>1 DEF GoesOn, Resuming
    <3> QED BY <2>1, <3>2, <3>3, HoldStays DEF Loop
  <2>4. CASE job[h].stage = "notify"
    <3>1. job'[h].stage \in {"idle", "check", "replay"}
      BY <1>0, <1>4, <1>e, <2>4, PublishMoves DEF GoesOn
    <3>2. ~Resuming(job[h]) /\ ~Resubmitting(job[h])
      BY <2>4 DEF Resuming, Resubmitting
    <3> QED BY <2>1, <3>1, <3>2, HoldStays DEF Loop
  <2> QED BY <1>0, <1>4, <2>2, <2>3, <2>4, PublishMoves
<1>5. CASE Hydrate(h)
  <2>1. UNCHANGED record /\ UNCHANGED events /\ UNCHANGED audits
    BY <1>5 DEF Hydrate, durable
  <2>2. job[h].stage = "hydrate" /\ GoesOn(h, "run")
    BY <1>0, <1>5, RowMoves
  <2>3. job[h].req.op = "submit"
    BY <1>0, <2>2 DEF SoundJob, StagesOf, Reorchestrating, Loop
  <2>4. Resubmitting(job'[h]) /\ job'[h].stage = "run" /\ job'[h].req.op = "submit"
    BY <2>2, <2>3 DEF Resubmitting, GoesOn
  <2> QED BY <2>1, <2>4, HoldStays DEF Loop
<1>6. CASE Run(h)
  <2>1. UNCHANGED record /\ UNCHANGED events /\ UNCHANGED audits
    BY <1>6 DEF Run, durable
  <2>2. job[h].stage = "run"
    BY <1>6 DEF Run, At
  <2>3. job[h].req.op \in {"submit", "reorchestrate", "manual"} /\ job[h].req \in Requests
    BY <1>0, <2>2, LoopServes
  <2>4. \E stage \in {"plan", "idem", "event"} : GoesOn(h, stage)
    BY <1>0, <1>6, <2>3, RunMoves DEF SessionTyped
  <2>5. CASE job[h].req.op # "submit"
    <3>1. ~HeldIn(events, audits)
      BY <2>2, <2>5 DEF HoldKnown
    <3> QED BY <1>n, <2>1, <2>4, <3>1 DEF GoesOn
  <2>6. CASE job[h].req.op = "submit"
    <3>1. Head(job'[h].stream).type = "accepted" /\ job'[h].stage = "event"
      BY <1>0, <1>6, <2>3, <2>6, RunAccepted DEF Continuing
    <3>2. Resubmitting(job'[h])
      BY <2>4, <2>6, <3>1 DEF Resubmitting, GoesOn
    <3> QED BY <3>1, <3>2 DEF HoldKnown
  <2> QED BY <2>5, <2>6
<1>7. CASE WritePlan(h) \/ PutIdempotency(h)
  <2>1. UNCHANGED events /\ UNCHANGED audits
    BY <1>7 DEF WritePlan, PutIdempotency
  <2>2. job[h].stage \in {"plan", "idem"} /\ job'[h].stage \in {"idem", "event"}
    BY <1>0, <1>7, WritePlanMoves, RowMoves DEF GoesOn
  <2>3. ~HeldIn(events, audits)
    BY <1>l, <2>2 DEF Loop, Resubmitting
  <2> QED BY <1>n, <2>1, <2>2, <2>3
<1>8. CASE WriteEvent(h)
  <2>1. UNCHANGED audits
    BY <1>8 DEF WriteEvent
  <2>2. job[h].stage = "event" /\ job'[h].stage = "upsert"
    BY <1>0, <1>8, RowMoves DEF GoesOn
  <2>3. PICK n, row : /\ n = job[h].rec.events
                      /\ row = [call |-> job[h].call, boot |-> boot, event |-> Head(job[h].stream)]
    OBVIOUS
  <2>4. events' = Put(events, n, row) /\ n \notin DOMAIN events
    BY <1>8, <2>3, NewNumbers DEF WriteEvent, Rec, Current
  <2>5. row.call = job[h].call /\ row.event = Head(job[h].stream)
    BY <2>3
  <2>6. ~HeldIn(events', audits)
    <3>1. CASE ~Resubmitting(job[h])
      <4>1. ~HeldIn(events, audits)
        BY <1>l, <2>2, <3>1 DEF Loop
      <4> QED BY <2>4, <4>1, EventHolds
    <3>2. CASE Resubmitting(job[h])
      <4>1. row.event.type = "accepted" /\ job[h].req.op = "submit"
        BY <2>2, <2>5, <3>2 DEF Resubmitting
      <4>2. \A m \in DOMAIN audits : audits[m].call \in Nat /\ audits[m].call < row.call
        BY <2>2, <2>5, <4>1 DEF CallsKnown
      <4>3. row.call \in Nat
        BY <1>0, <2>5 DEF SoundJob
      <4>4. \A m \in DOMAIN audits : ~(row.call < audits[m].call)
        BY <4>2, <4>3
      <4> QED BY <2>4, <4>1, <4>4, EventHolds
    <3> QED BY <3>1, <3>2
  <2> QED BY <2>1, <2>2, <2>6, NoHold
<1>9. CASE Resume(h) \/ Abandon(h)
  <2>1. UNCHANGED events /\ UNCHANGED audits
    BY <1>9 DEF Resume, Abandon, durable
  <2>2. job[h].stage = "yield"
    BY <1>9 DEF Resume, Abandon, At
  <2>3. ~HeldIn(events, audits)
    BY <1>l, <2>2 DEF Loop, Resubmitting
  <2>4. IsStream(job[h].stream)
    BY <1>0, <2>2 DEF SoundJob, Loop
  <2>5. job'[h].stage \notin Acting
    BY <1>0, <1>9, <1>e, <2>4, ResumeMoves, AbandonMoves DEF GoesOn
  <2> QED BY <1>n, <2>1, <2>3, <2>5
<1>10. CASE Check(h)
  <2>1. UNCHANGED record /\ UNCHANGED events /\ UNCHANGED audits
    BY <1>10 DEF Check, durable
  <2>2. job[h].stage = "check" /\ ~Resuming(job[h]) /\ ~Resubmitting(job[h])
    BY <1>10 DEF Check, At, Resuming, Resubmitting
  <2>3. CASE job'[h] = Idle
    BY <1>e, <2>1, <2>2, <2>3, HoldStays DEF Loop
  <2>4. CASE job'[h] # Idle
    <3>1. ~Refused(record, job[h].req) /\ job'[h].stage = "rehydrate"
      BY <1>0, <1>10, <2>4, CheckMoves DEF GoesOn
    <3>2. ~HeldIn(events, audits)
      BY <2>2, <3>1 DEF HoldKnown, OnHold, Refused
    <3> QED BY <1>n, <2>1, <3>1, <3>2
  <2> QED BY <2>3, <2>4
<1>11. CASE Rehydrate(h)
  <2>1. UNCHANGED events /\ UNCHANGED audits
    BY <1>11 DEF Rehydrate, durable
  <2>2. job[h].stage = "rehydrate" /\ job'[h].stage \in {"idle", "lookup"}
    BY <1>0, <1>11, <1>e, RehydrateMoves DEF GoesOn
  <2>3. job[h].req.op # "submit"
    BY <1>0, <2>2 DEF SoundJob, StagesOf, Loop
  <2>4. ~HeldIn(events, audits)
    BY <2>2, <2>3 DEF HoldKnown
  <2> QED BY <1>n, <2>1, <2>2, <2>4
<1>12. CASE Fetch(h)
  <2>1. UNCHANGED record /\ UNCHANGED events /\ UNCHANGED audits
    BY <1>12 DEF Fetch, durable
  <2>2. job[h].stage = "fetch" /\ ~Resuming(job[h]) /\ ~Resubmitting(job[h])
    BY <1>12 DEF Fetch, At, Resuming, Resubmitting
  <2>3. CASE job'[h] = Idle
    BY <1>e, <2>1, <2>2, <2>3, HoldStays DEF Loop
  <2>4. CASE job'[h] # Idle
    <3>1. /\ job'[h].req = job[h].req
          /\ job'[h].stage = IF job[h].req.op = "manual" THEN "audit" ELSE "mark"
      BY <1>0, <1>12, <2>4, FetchMoves DEF GoesOn
    <3>2. /\ job[h].req.op \in {"pause", "cancel"} => OnHold(job'[h].rec)
          /\ job[h].req.op = "manual" => job'[h].rec.state = record.state
      BY <1>0, <1>12, <2>4, FetchHolds
    <3>3. HeldIn(events, audits) => OnHold(record)
      BY <2>2 DEF HoldKnown
    <3> QED BY <2>1, <3>1, <3>2, <3>3 DEF HoldKnown, Loop
  <2> QED BY <2>3, <2>4
<1>13. CASE WriteAudit(h)
  <2>1. UNCHANGED record /\ UNCHANGED events
    BY <1>13 DEF WriteAudit
  <2>2. /\ job[h].stage = "audit" /\ job'[h].stage = "close" /\ job'[h].req = job[h].req
        /\ job'[h].rec.state = job[h].rec.state
        /\ job[h].rec \in WorkflowRecord /\ job'[h].rec \in WorkflowRecord
    BY <1>0, <1>13, WriteAuditMoves DEF GoesOn, SamePlan
  <2>3. PICK n, row : /\ n = job[h].rec.audits + 1
                      /\ row = [call |-> job[h].call, boot |-> boot, action |-> job[h].req.op]
    OBVIOUS
  <2>4. audits' = Put(audits, n, row)
    BY <1>0, <1>13, <2>3, WriteCounts
  <2>5. n \notin DOMAIN audits
    BY <1>13, <2>3, NewNumbers
  <2>6. row.call = job[h].call /\ row.action = job[h].req.op
    BY <2>3
  <2>7. job[h].req.op \in {"pause", "cancel", "resume", "manual"}
    <3>1. job[h].req \in Requests /\ job[h].stage \in StagesOf(job[h].req.op)
      BY <1>0, <1>o, <2>2 DEF SoundJob
    <3> QED BY <2>2, <3>1, RequestsAssumption DEF StagesOf, Reorchestrating, Loop
  <2>8. CASE job[h].req.op \in {"pause", "cancel"}
    <3>1. OnHold(record) /\ OnHold(job[h].rec)
      BY <2>2, <2>8 DEF HoldKnown
    <3>2. OnHold(job'[h].rec)
      BY <2>2, <3>1, RecordAssumption DEF OnHold
    <3> QED BY <2>1, <2>2, <2>8, <3>1, <3>2 DEF HoldKnown, Loop
  <2>9. CASE job[h].req.op = "manual"
    <3>1. HeldIn(events, audits) => OnHold(record)
      BY <2>2, <2>9 DEF HoldKnown, Resuming, Resubmitting
    <3>2. HeldIn(events, audits') => HeldIn(events, audits)
      BY <2>4, <2>5, <2>6, <2>9, AuditHolds
    <3>3. job[h].rec.state = record.state
      BY <2>2, <2>9 DEF HoldKnown
    <3> QED BY <2>1, <2>2, <2>9, <3>1, <3>2, <3>3 DEF HoldKnown, Loop
  <2>10. CASE job[h].req.op = "resume"
    <3>1. \A m \in DOMAIN audits : audits[m].call \in Nat /\ audits[m].call < row.call
      BY <2>2, <2>6 DEF CallsKnown
    <3>2. row.call \in Nat
      BY <1>0, <2>6 DEF SoundJob
    <3>3. \A m \in DOMAIN audits : ~(row.call < audits[m].call)
      BY <3>1, <3>2
    <3>4. ~HeldIn(events, audits')
      BY <2>4, <2>5, <2>6, <2>10, <3>3, AuditHolds
    <3> QED BY <2>1, <2>2, <2>10, <3>4 DEF HoldKnown, Loop
  <2> QED BY <2>7, <2>8, <2>9, <2>10
<1> QED
  BY <1>1, <1>2, <1>3, <1>4, <1>5, <1>6, <1>7, <1>8, <1>9, <1>10, <1>11, <1>12, <1>13 DEF Step

\* Only the thread at work has to be looked at.
LEMMA HoldKept ==
    ASSUME NEW h \in Workers, CallsKnown(job'[h], audits', calls'),
           HoldKnown(job'[h], record', events', audits'),
           \A g \in Workers : g # h => job[g].stage = "idle" /\ job'[g] = job[g]
    PROVE  HoldInv'
<1> SUFFICES ASSUME NEW g \in Workers, \A f \in Workers : f # g => job'[f].stage = "idle"
             PROVE  /\ CallsKnown(job'[g], audits', calls')
                    /\ HoldKnown(job'[g], record', events', audits')
  BY DEF HoldInv, Busiest, CallsKnown, HoldKnown, HeldIn, OnHold, Resuming, Resubmitting
<1>1. CASE g = h
  BY <1>1
<1>2. CASE g # h
  <2>1. job'[g].stage = "idle" /\ job'[h].stage = "idle"
    BY <1>2
  <2>2. CallsKnown(job'[g], audits', calls')
    BY <2>1 DEF CallsKnown
  <2>3. ~Resuming(job'[h]) /\ ~Resubmitting(job'[h])
    BY <2>1 DEF Resuming, Resubmitting
  <2> QED BY <2>1, <2>2, <2>3, HoldStays DEF Loop
<1> QED BY <1>1, <1>2

\* Every step keeps what is known of the hold.
LEMMA HoldStep ==
    ASSUME OneHandler, Continuing, NoStops, TypesInv, Alone, Steady, LogInv, HoldInv, [Next]_vars
    PROVE  HoldInv'
<1>0. RowsInv /\ calls \in Nat
  BY DEF TypesInv, ScalarsTyped
<1>1. CASE UNCHANGED vars
  BY <1>1 DEF vars, durable, bounds, HoldInv, Busiest, CallsKnown, HoldKnown, HeldIn, OnHold,
              Resuming, Resubmitting
<1>2. ASSUME NEW h \in Handlers, NEW r \in Requests, Begin(h, r) PROVE HoldInv'
  <2>1. \A g \in Workers : g # h => job[g].stage = "idle" /\ job'[g] = job[g]
    BY <1>2, BeginQuiet DEF Quiet
  <2>2. /\ h \in Workers /\ job[h].stage = "idle" /\ job'[h].stage \in {"lookup", "check", "fetch"}
        /\ job'[h].stage = "lookup" => job'[h].req.op = "submit"
        /\ job'[h].call = calls + 1
    BY <1>0, <1>2, BeginMoves
  <2>3. CallsKnown(job[h], audits, calls) /\ HoldKnown(job[h], record, events, audits)
    BY <2>1, <2>2 DEF HoldInv, Busiest
  <2>4. UNCHANGED record /\ UNCHANGED events /\ UNCHANGED audits /\ calls' = calls + 1
    BY <1>2 DEF Begin, durable
  <2>5. CallsKnown(job'[h], audits', calls')
    <3>1. \A m \in DOMAIN audits : /\ audits[m].call \in Nat /\ audits[m].call <= calls + 1
                                   /\ audits[m].call < calls + 1
      BY <1>0, <2>3 DEF CallsKnown
    <3> QED BY <1>0, <2>2, <2>4, <3>1 DEF CallsKnown
  <2>6. ~Resuming(job[h]) /\ ~Resubmitting(job[h])
    BY <2>2 DEF Resuming, Resubmitting
  <2>7. HoldKnown(job'[h], record', events', audits')
    BY <2>2, <2>3, <2>4, <2>6, HoldStays DEF Loop
  <2> QED BY <2>1, <2>2, <2>5, <2>7, HoldKept
<1>3. ASSUME NEW h \in Handlers, Step(h) \/ Abandon(h) PROVE HoldInv'
  <2>1. /\ h \in Workers /\ h # Main
        /\ \A g \in Workers : g # h => job[g].stage = "idle" /\ job'[g] = job[g]
    BY <1>3, OthersIdle, MainAssumption DEF Workers
  <2>2. /\ CopyCounts(job[h], record) /\ RowsCount(job[h], record, events, plans, audits)
        /\ CallsKnown(job[h], audits, calls) /\ HoldKnown(job[h], record, events, audits)
    BY <2>1 DEF LogInv, HoldInv, Busiest
  <2>3. CallsKnown(job'[h], audits', calls')
    BY <1>3, <2>1, <2>2, CallsStepOf
  <2>4. HoldKnown(job'[h], record', events', audits')
    BY <1>3, <2>1, <2>2, HoldStepOf
  <2> QED BY <2>1, <2>3, <2>4, HoldKept
<1> QED BY <1>1, <1>2, <1>3, SteadyStep

\* Nothing is held at the start.
LEMMA HoldInit == Init => HoldInv
<1> SUFFICES ASSUME Init PROVE HoldInv
  OBVIOUS
<1>1. \A h \in Workers : job[h].stage = "idle"
  BY IdleSound DEF Init
<1>2. DOMAIN audits = {}
  BY DEF Init
<1>3. ~HeldIn(events, audits)
  BY <1>2 DEF HeldIn
<1>4. \A h \in Workers : CallsKnown(job[h], audits, calls)
  BY <1>1, <1>2 DEF CallsKnown
<1> QED BY <1>1, <1>3, <1>4, NoHold DEF HoldInv

\* In a process that is not stopped, whose submissions replace the workflow and
\* whose requests do not overlap, no re-orchestration is let through once a
\* pause or a cancellation is the last word of the audit trail (HeldIsRefused).
THEOREM HoldsAreRespected ==
    ASSUME OneHandler, Continuing, NoStops
    PROVE  Spec => HeldIsRefused
<1> DEFINE Inv == TypesInv /\ Alone /\ Steady /\ LogInv /\ HoldInv
           A == \A h \in Handlers : Check(h) /\ Held => job'[h].stage = "idle"
<1>1. Init => Inv
  BY TypesInit, AloneInit, LogInit, HoldInit
<1>2. Inv /\ [Next]_vars => Inv'
  BY OneHandler, Continuing, NoStops, TypesStep, AloneStep, SteadyStep, LogStep, HoldStep
<1>3. Inv => A
  <2> SUFFICES ASSUME TypesInv, Alone, HoldInv, NEW h \in Handlers, Check(h), Held
               PROVE  job'[h].stage = "idle"
    OBVIOUS
  <2>1. h \in Workers /\ RowsInv /\ Step(h) /\ job[h].stage = "check"
    BY DEF Workers, TypesInv, Step, Check, At
  <2>2. HoldKnown(job[h], record, events, audits)
    BY <2>1, OthersIdle DEF HoldInv, Busiest
  <2>3. ~Resuming(job[h]) /\ ~Resubmitting(job[h])
    BY <2>1 DEF Resuming, Resubmitting
  <2>4. OnHold(record)
    BY <2>2, <2>3, HeldIsIn DEF HoldKnown
  <2>5. Refused(record, job[h].req)
    BY <2>4 DEF OnHold, Refused
  <2>6. job'[h] = Idle
    BY <2>1, <2>5, CheckMoves
  <2> QED BY <2>6, IdleSound
<1>4. Inv /\ [Next]_vars => [A]_vars
  BY <1>3
<1> HIDE DEF Inv
<1> QED BY <1>1, <1>2, <1>4, PTL DEF Spec, HeldIsRefused

-----------------------------------------------------------------------------
(* The plan and the tasks that are left. *)

\* Every re-orchestration asks for a plan, and an override other than a
\* completion names no task.
Replanning ==
    \A r \in Requests : r.op \in {"reorchestrate", "manual"} =>
        /\ r.trigger
        /\ \A i \in DOMAIN r.overrides :
              r.overrides[i].type = "override" => r.overrides[i].tasks = {}

\* CompletedTasks, of the given events.
CompletedIn(ev) ==
    UNION {ev[n].event.tasks : n \in
        {n \in DOMAIN ev : /\ ev[n].event.type = "completed"
                           /\ \A m \in DOMAIN ev : ev[m].event.type = "accepted" => m < n}}

\* The tasks whose completion is in a stream, from its n-th event on.
ComingFrom(s, n) == UNION {s[i].tasks : i \in {i \in n..Len(s) : s[i].type = "completed"}}

\* The tasks whose completion a thread has still to log.
Coming(j) == ComingFrom(j.stream, IF j.stage \in {"plan", "idem", "event"} THEN 1 ELSE 2)

\* A stream whose plan is for the session, and in which only the first event of
\* a submission is an acceptance.
FitsSession(j, sess) ==
    \A i \in 1..Len(j.stream) :
        /\ j.stream[i].type = "finished" => j.stream[i].tasks = sess
        /\ j.stream[i].type = "accepted" => i = 1 /\ j.req.op = "submit"

\* A stored workflow is in memory with the tasks that the log does not have as
\* completed, up to the completions that are still to be logged.
MemoryKnown(j, rec, ev, sess, known) ==
    /\ rec # NoRecord => known = TRUE \/ j.stage \in {"announce", "hydrate"}
    /\ j.stage \notin Loop /\ ~Resubmitting(j) /\ rec # NoRecord => sess = Tasks \ CompletedIn(ev)
    /\ j.stage \in Loop =>
         /\ IF Resubmitting(j) THEN sess = Tasks /\ Coming(j) = {}
                               ELSE sess = Tasks \ (CompletedIn(ev) \cup Coming(j))
         /\ FitsSession(j, sess)
         /\ j.stage = "idem" => HasResponse(Head(j.stream))

MemoryInv ==
    \A h \in Workers : Busiest(h) => MemoryKnown(job[h], record, events, session, hydrated)

\* The completions from the second event on are those of the rest.
LEMMA ComingTail ==
    ASSUME NEW s \in Seq(Event), Len(s) > 0
    PROVE  ComingFrom(Tail(s), 1) = ComingFrom(s, 2)
<1>1. Len(s) \in Nat /\ Len(Tail(s)) = Len(s) - 1 /\ \A i \in 1..(Len(s) - 1) : Tail(s)[i] = s[i + 1]
  OBVIOUS
<1>2. PICK t : t = Tail(s)
  OBVIOUS
<1>3. Len(t) = Len(s) - 1 /\ \A i \in 1..(Len(s) - 1) : t[i] = s[i + 1]
  BY <1>1, <1>2
<1>4. ASSUME NEW x \in ComingFrom(t, 1) PROVE x \in ComingFrom(s, 2)
  <2>1. PICK i \in 1..Len(t) : t[i].type = "completed" /\ x \in t[i].tasks
    BY <1>4 DEF ComingFrom
  <2>2. i + 1 \in 2..Len(s) /\ s[i + 1] = t[i]
    BY <1>1, <1>3, <2>1
  <2> QED BY <2>1, <2>2 DEF ComingFrom
<1>5. ASSUME NEW x \in ComingFrom(s, 2) PROVE x \in ComingFrom(t, 1)
  <2>1. PICK i \in 2..Len(s) : s[i].type = "completed" /\ x \in s[i].tasks
    BY <1>5 DEF ComingFrom
  <2>2. i - 1 \in 1..Len(t) /\ t[i - 1] = s[(i - 1) + 1] /\ (i - 1) + 1 = i
    BY <1>1, <1>3, <2>1
  <2>3. t[i - 1] = s[i]
    BY <2>2
  <2> QED BY <2>1, <2>2, <2>3 DEF ComingFrom
<1>6. ComingFrom(t, 1) = ComingFrom(s, 2)
  BY <1>4, <1>5
<1> QED BY <1>2, <1>6

\* The completions of a stream are its first event's and those after it.
LEMMA ComingHead ==
    ASSUME NEW s \in Seq(Event), Len(s) > 0
    PROVE  /\ Head(s).type = "completed" =>
                ComingFrom(s, 1) = Head(s).tasks \cup ComingFrom(s, 2)
           /\ Head(s).type # "completed" => ComingFrom(s, 1) = ComingFrom(s, 2)
<1>1. Len(s) \in Nat /\ Head(s) = s[1] /\ 1 \in 1..Len(s)
  OBVIOUS
<1>2. \A i \in 1..Len(s) : i = 1 \/ i \in 2..Len(s)
  BY <1>1
<1>3. \A i \in 2..Len(s) : i \in 1..Len(s)
  BY <1>1
<1>4. \A x : x \in ComingFrom(s, 1) <=> \E i \in 1..Len(s) : s[i].type = "completed" /\ x \in s[i].tasks
  BY DEF ComingFrom
<1>5. \A x : x \in ComingFrom(s, 2) <=> \E i \in 2..Len(s) : s[i].type = "completed" /\ x \in s[i].tasks
  BY DEF ComingFrom
<1>6. ASSUME Head(s).type = "completed"
      PROVE  ComingFrom(s, 1) = Head(s).tasks \cup ComingFrom(s, 2)
  BY <1>1, <1>2, <1>3, <1>4, <1>5, <1>6
<1>7. ASSUME Head(s).type # "completed" PROVE ComingFrom(s, 1) = ComingFrom(s, 2)
  BY <1>1, <1>2, <1>3, <1>4, <1>5, <1>7
<1> QED BY <1>6, <1>7

\* A stream without completions, or a part of one event.
LEMMA ComingNone ==
    ASSUME NEW s \in Seq(Event),
           (\A i \in 1..Len(s) : s[i].type # "completed") \/ Len(s) = 1
    PROVE  ComingFrom(s, 2) = {}
BY DEF ComingFrom

\* The completions of overrides before a planning pass.
LEMMA ComingConcat ==
    ASSUME NEW o \in Seq(Event), NEW s \in Seq(Event),
           \A i \in 1..Len(s) : s[i].type # "completed",
           \A i \in DOMAIN o : o[i].type # "completed" => o[i].tasks = {}
    PROVE  ComingFrom(o \o s, 1) = UNION {o[i].tasks : i \in DOMAIN o}
<1>1. PICK t : t = o \o s
  OBVIOUS
<1>2. /\ Len(o) \in Nat /\ Len(s) \in Nat /\ DOMAIN o = 1..Len(o)
      /\ Len(t) = Len(o) + Len(s)
      /\ \A i \in 1..Len(o) : t[i] = o[i]
      /\ \A i \in 1..Len(t) : i > Len(o) => t[i] = s[i - Len(o)]
  BY <1>1
<1>3. ASSUME NEW x \in ComingFrom(t, 1) PROVE x \in UNION {o[i].tasks : i \in DOMAIN o}
  <2>1. PICK i \in 1..Len(t) : t[i].type = "completed" /\ x \in t[i].tasks
    BY <1>3 DEF ComingFrom
  <2>2. CASE i > Len(o)
    <3>1. i - Len(o) \in 1..Len(s) /\ t[i] = s[i - Len(o)]
      BY <1>2, <2>1, <2>2
    <3> QED BY <2>1, <3>1
  <2>3. CASE ~(i > Len(o))
    <3>1. i \in DOMAIN o /\ t[i] = o[i]
      BY <1>2, <2>1, <2>3
    <3> QED BY <2>1, <3>1
  <2> QED BY <2>2, <2>3
<1>4. ASSUME NEW x \in UNION {o[i].tasks : i \in DOMAIN o} PROVE x \in ComingFrom(t, 1)
  <2>1. PICK i \in DOMAIN o : x \in o[i].tasks
    BY <1>4
  <2>2. o[i].type = "completed"
    BY <2>1
  <2>3. i \in 1..Len(t) /\ t[i] = o[i]
    BY <1>2, <2>1
  <2> QED BY <2>1, <2>2, <2>3 DEF ComingFrom
<1>5. ComingFrom(t, 1) = UNION {o[i].tasks : i \in DOMAIN o}
  BY <1>3, <1>4
<1> QED BY <1>1, <1>5

\* A new event, with a number above all others.
LEMMA EventCompletes ==
    ASSUME NEW ev, NEW n \in Nat, DOMAIN ev \subseteq Nat, \A m \in DOMAIN ev : m < n,
           NEW row, NEW new, new = Put(ev, n, row)
    PROVE  /\ row.event.type = "accepted" => CompletedIn(new) = {}
           /\ row.event.type = "completed" =>
                CompletedIn(new) = CompletedIn(ev) \cup row.event.tasks
           /\ row.event.type \notin {"accepted", "completed"} => CompletedIn(new) = CompletedIn(ev)
<1>1. DOMAIN new = DOMAIN ev \cup {n}
  BY PutDomain
<1>2. new[n] = row /\ \A m \in DOMAIN ev : new[m] = ev[m] /\ m # n /\ m < n /\ ~(n < m)
  <2>1. \A m \in DOMAIN ev : m # n /\ m < n /\ ~(n < m)
    OBVIOUS
  <2> QED BY <2>1 DEF Put
<1>3. \A x : x \in CompletedIn(ev) <=>
         \E k \in DOMAIN ev : /\ ev[k].event.type = "completed" /\ x \in ev[k].event.tasks
                              /\ \A m \in DOMAIN ev : ev[m].event.type = "accepted" => m < k
  BY DEF CompletedIn
<1>4. \A x : x \in CompletedIn(new) <=>
         \E k \in DOMAIN new : /\ new[k].event.type = "completed" /\ x \in new[k].event.tasks
                               /\ \A m \in DOMAIN new : new[m].event.type = "accepted" => m < k
  BY DEF CompletedIn
<1>5. ASSUME row.event.type = "accepted" PROVE CompletedIn(new) = {}
  BY <1>1, <1>2, <1>4, <1>5
<1>6. ASSUME row.event.type = "completed"
      PROVE  CompletedIn(new) = CompletedIn(ev) \cup row.event.tasks
  <2>1. ASSUME NEW x \in CompletedIn(new) PROVE x \in CompletedIn(ev) \cup row.event.tasks
    BY <1>1, <1>2, <1>3, <1>4, <1>6, <2>1
  <2>2. ASSUME NEW x \in CompletedIn(ev) PROVE x \in CompletedIn(new)
    BY <1>1, <1>2, <1>3, <1>4, <1>6, <2>2
  <2>3. ASSUME NEW x \in row.event.tasks PROVE x \in CompletedIn(new)
    BY <1>1, <1>2, <1>4, <1>6, <2>3
  <2> QED BY <2>1, <2>2, <2>3
<1>7. ASSUME row.event.type \notin {"accepted", "completed"} PROVE CompletedIn(new) = CompletedIn(ev)
  <2>1. ASSUME NEW x \in CompletedIn(new) PROVE x \in CompletedIn(ev)
    BY <1>1, <1>2, <1>3, <1>4, <1>7, <2>1
  <2>2. ASSUME NEW x \in CompletedIn(ev) PROVE x \in CompletedIn(new)
    BY <1>1, <1>2, <1>3, <1>4, <1>7, <2>2
  <2> QED BY <2>1, <2>2
<1> QED BY <1>5, <1>6, <1>7

\* What a planning pass yields.
LEMMA PlanningEvents ==
    ASSUME NEW tasks \in SUBSET Tasks, NEW s \in PlanningStreams(tasks)
    PROVE  \A i \in 1..Len(s) : /\ s[i].type \notin {"accepted", "completed"}
                                /\ s[i].type = "finished" => s[i].tasks = tasks
<1> DEFINE a == EventOf("replanning", {})
           b == EventOf("planned", {})
           Fits(e) == e.type \notin {"accepted", "completed"} /\ (e.type = "finished" => e.tasks = tasks)
<1>1. a \in Event /\ b \in Event /\ Fits(a) /\ Fits(b)
  BY DEF EventOf, Event, EventTypes
<1>2. PICK assigned \in {<<>>, <<b>>},
           last \in {EventOf("finished", tasks), EventOf("failed", {})} :
             s = <<a>> \o assigned \o <<last>>
  BY DEF PlanningStreams
<1>3. last \in Event /\ Fits(last)
  BY DEF EventOf, Event, EventTypes
<1> HIDE DEF a, b, Fits
<1>4. assigned \in Seq(Event) /\ \A i \in 1..Len(assigned) : Fits(assigned[i])
  <2>1. CASE assigned = <<>>
    BY <2>1
  <2>2. CASE assigned = <<b>>
    <3>1. <<b>> \in Seq(Event) /\ Len(<<b>>) = 1 /\ <<b>>[1] = b
      BY <1>1
    <3> QED BY <1>1, <2>2, <3>1
  <2> QED BY <1>2, <2>1, <2>2
<1>5. \A e \in Event : Fits(e) => <<e>> \in Seq(Event) /\ \A i \in 1..Len(<<e>>) : Fits(<<e>>[i])
  <2> SUFFICES ASSUME NEW e \in Event, Fits(e)
               PROVE  <<e>> \in Seq(Event) /\ \A i \in 1..Len(<<e>>) : Fits(<<e>>[i])
    OBVIOUS
  <2>1. <<e>> \in Seq(Event) /\ Len(<<e>>) = 1 /\ <<e>>[1] = e
    OBVIOUS
  <2> QED BY <2>1
<1>6. PICK x, y : x = <<a>> /\ y = <<last>>
  OBVIOUS
<1>7. /\ x \in Seq(Event) /\ \A i \in 1..Len(x) : Fits(x[i])
      /\ y \in Seq(Event) /\ \A i \in 1..Len(y) : Fits(y[i])
  BY <1>1, <1>3, <1>5, <1>6
<1>8. PICK z : z = x \o assigned
  OBVIOUS
<1>9. z \in Seq(Event) /\ \A i \in 1..Len(z) : Fits(z[i])
  BY <1>4, <1>7, <1>8
<1>10. \A i \in 1..Len(z \o y) : Fits((z \o y)[i])
  BY <1>7, <1>9
<1> QED BY <1>2, <1>6, <1>8, <1>10 DEF Fits

\* The stream of a submission or of a re-orchestration fits the session that the
\* runtime keeps for it.
LEMMA RunFits ==
    ASSUME Continuing, Replanning, TypesInv, NEW h \in Workers, Run(h),
           job[h].req.op # "submit" => session # NoSession
    PROVE  /\ FitsSession(job'[h], session')
           /\ job[h].req.op = "submit" => session' = Tasks /\ Coming(job'[h]) = {}
           /\ job[h].req.op # "submit" => session' = session \ Coming(job'[h])
<1>0. RowsInv /\ JobsSound /\ SessionTyped /\ job[h].stage = "run"
  BY DEF TypesInv, Run, At
<1>1. job[h].req.op \in {"submit", "reorchestrate", "manual"} /\ job[h].req \in Requests
  BY <1>0, LoopServes
<1>2. job[h].rec \in WorkflowRecord
  BY <1>0, CopyIsRecord DEF Carries, Carrying
<1>3. PICK r : r = job[h].req
  OBVIOUS
<1>4. PICK answer \in IF r.op = "submit" THEN RuntimeSubmit(r) ELSE RuntimeReorchestrate(r) :
         session' = answer.session /\ Become(h, Receive(job[h], answer.stream))
  BY <1>3 DEF Run, Req
<1>5. PICK t : t = answer.stream
  OBVIOUS
<1>6. /\ job'[h].stream = t /\ job'[h].req = job[h].req
      /\ job'[h].stage \in {"plan", "idem", "event"}
  <2>1. Become(h, Receive(job[h], t))
    BY <1>4, <1>5
  <2> QED BY <1>0, <1>2, <2>1, ReceiveMoves DEF GoesOn
<1>7. Coming(job'[h]) = ComingFrom(t, 1)
  BY <1>6 DEF Coming
<1>8. CASE r.op = "submit"
  <2>1. PICK s \in PlanningStreams(Tasks) :
           answer = [session |-> Tasks, stream |-> <<EventOf("accepted", {})>> \o s]
    BY <1>1, <1>3, <1>4, <1>8 DEF RuntimeSubmit, Continuing
  <2>2. PICK e : e = EventOf("accepted", {})
    OBVIOUS
  <2>3. e \in Event /\ e.type = "accepted"
    BY <2>2 DEF EventOf, Event, EventTypes
  <2>4. answer.session = Tasks /\ t = <<e>> \o s
    BY <1>5, <2>1, <2>2
  <2>5. s \in Seq(Event)
    BY PlanningIsStream DEF IsStream
  <2>6. \A i \in 1..Len(s) : /\ s[i].type \notin {"accepted", "completed"}
                             /\ s[i].type = "finished" => s[i].tasks = Tasks
    BY PlanningEvents
  <2>7. PICK x : x = <<e>>
    OBVIOUS
  <2>8. x \in Seq(Event) /\ Len(x) = 1 /\ x[1] = e
    BY <2>3, <2>7
  <2>9. /\ t \in Seq(Event) /\ Len(t) = Len(s) + 1 /\ Len(s) \in Nat /\ t[1] = e
        /\ \A i \in 1..Len(t) : i > 1 => t[i] = s[i - 1] /\ i - 1 \in 1..Len(s)
    BY <2>4, <2>5, <2>7, <2>8
  <2>10. \A i \in 1..Len(t) : i = 1 \/ (i > 1 /\ i - 1 \in 1..Len(s) /\ t[i] = s[i - 1])
    BY <2>9
  <2>11. FitsSession(job'[h], session')
    <3> SUFFICES ASSUME NEW i \in 1..Len(t)
                 PROVE  /\ t[i].type = "finished" => t[i].tasks = Tasks
                        /\ t[i].type = "accepted" => i = 1 /\ job'[h].req.op = "submit"
      BY <1>4, <1>6, <2>4 DEF FitsSession
    <3>1. CASE i = 1
      BY <1>3, <1>6, <1>8, <2>3, <2>9, <3>1
    <3>2. CASE i # 1
      BY <2>6, <2>10, <3>2
    <3> QED BY <3>1, <3>2
  <2>12. \A i \in 1..Len(t) : t[i].type # "completed"
    BY <2>3, <2>6, <2>9, <2>10
  <2>13. ComingFrom(t, 1) = {}
    BY <2>12 DEF ComingFrom
  <2> QED BY <1>3, <1>4, <1>7, <1>8, <2>4, <2>11, <2>13
<1>9. CASE r.op # "submit"
  <2> DEFINE rest == AfterOverrides(session, r.overrides)
  <2>0. session # NoSession /\ session \subseteq Tasks
    BY <1>0, <1>3, <1>9 DEF SessionTyped
  <2>1. r.trigger /\ r.op \in {"reorchestrate", "manual"}
    BY <1>1, <1>3, <1>9 DEF Replanning
  <2>2. PICK s \in PlanningStreams(rest) :
           answer = [session |-> rest, stream |-> r.overrides \o s]
    BY <1>4, <1>9, <2>0, <2>1 DEF RuntimeReorchestrate
  <2>3. rest \in SUBSET Tasks
    BY <2>0 DEF AfterOverrides
  <2> HIDE DEF rest
  <2>4. answer.session = rest /\ t = r.overrides \o s
    BY <1>5, <2>2
  <2>5. s \in Seq(Event)
    BY <2>3, PlanningIsStream DEF IsStream
  <2>6. \A i \in 1..Len(s) : /\ s[i].type \notin {"accepted", "completed"}
                             /\ s[i].type = "finished" => s[i].tasks = rest
    BY <2>3, PlanningEvents
  <2>7. PICK o : o = r.overrides
    OBVIOUS
  <2>8. /\ o \in Seq(Event)
        /\ \A i \in DOMAIN o : o[i].type \in {"override", "completed"}
    <3> DEFINE O == [type : {"override", "completed"}, tasks : SUBSET Tasks]
    <3>1. O \subseteq Event /\ \A e \in O : e.type \in {"override", "completed"}
      BY DEF Event, EventTypes
    <3>2. o \in Seq(O)
      BY <1>1, <1>3, <2>1, <2>7, RequestsAssumption
    <3> HIDE DEF O
    <3> QED BY <3>1, <3>2
  <2>9. \A i \in DOMAIN o : o[i].type # "completed" => o[i].tasks = {}
    BY <1>1, <1>3, <2>1, <2>7, <2>8 DEF Replanning
  <2>10. ComingFrom(o \o s, 1) = UNION {o[i].tasks : i \in DOMAIN o}
    BY <2>5, <2>6, <2>8, <2>9, ComingConcat
  <2>11. rest = session \ ComingFrom(t, 1)
    BY <2>4, <2>7, <2>10 DEF rest, AfterOverrides
  <2>12. /\ Len(o) \in Nat /\ Len(s) \in Nat /\ DOMAIN o = 1..Len(o)
         /\ Len(t) = Len(o) + Len(s)
         /\ \A i \in 1..Len(o) : t[i] = o[i]
         /\ \A i \in 1..Len(t) : i > Len(o) => t[i] = s[i - Len(o)]
    BY <2>4, <2>5, <2>7, <2>8
  <2>13. FitsSession(job'[h], session')
    <3> SUFFICES ASSUME NEW i \in 1..Len(t)
                 PROVE  /\ t[i].type = "finished" => t[i].tasks = rest
                        /\ t[i].type = "accepted" => i = 1 /\ job'[h].req.op = "submit"
      BY <1>4, <1>6, <2>4 DEF FitsSession
    <3>1. CASE i > Len(o)
      <4>1. i - Len(o) \in 1..Len(s) /\ t[i] = s[i - Len(o)]
        BY <2>12, <3>1
      <4> QED BY <2>6, <4>1
    <3>2. CASE ~(i > Len(o))
      <4>1. i \in DOMAIN o /\ t[i] = o[i]
        BY <2>12, <3>2
      <4> QED BY <2>8, <4>1
    <3> QED BY <3>1, <3>2
  <2> QED BY <1>3, <1>4, <1>7, <1>9, <2>4, <2>11, <2>13
<1> QED BY <1>8, <1>9

\* Outside the event loop, with the same log and memory.
LEMMA MemoryStays ==
    ASSUME NEW j, NEW k, NEW rec, NEW new, NEW ev, NEW sess, NEW known,
           MemoryKnown(j, rec, ev, sess, known), new # NoRecord => rec # NoRecord,
           j.stage \notin Loop, k.stage \notin Loop,
           Resubmitting(j) => Resubmitting(k),
           j.stage \in {"announce", "hydrate"} => k.stage \in {"announce", "hydrate"}
    PROVE  MemoryKnown(k, new, ev, sess, known)
BY DEF MemoryKnown

\* In the event loop, with the same log, memory and events to come.
LEMMA MemoryGoesOn ==
    ASSUME NEW j, NEW k, NEW rec, NEW new, NEW ev, NEW sess, NEW known,
           MemoryKnown(j, rec, ev, sess, known), rec # NoRecord,
           j.stage \in Loop, k.stage \in Loop, ~Resubmitting(j), ~Resubmitting(k),
           Coming(k) = Coming(j), FitsSession(k, sess),
           k.stage = "idem" => HasResponse(Head(k.stream))
    PROVE  MemoryKnown(k, new, ev, sess, known)
BY DEF MemoryKnown, Loop

\* The steps of a thread keep the memory in step with the log.
LEMMA MemoryStepOf ==
    ASSUME Continuing, Replanning, ~Streaming, TypesInv, NEW h \in Workers, h # Main,
           Step(h) \/ Abandon(h),
           CopyCounts(job[h], record), RowsCount(job[h], record, events, plans, audits),
           CopySynced(job[h], record),
           MemoryKnown(job[h], record, events, session, hydrated)
    PROVE  MemoryKnown(job'[h], record', events', session', hydrated')
<1>0. /\ RowsInv /\ JobsSound /\ SessionTyped /\ SoundJob(h, job[h]) /\ hydrated \in BOOLEAN
      /\ RecordTyped
  BY DEF TypesInv, JobsSound, ScalarsTyped, RowsInv
<1>e. job'[h] = Idle => job'[h].stage = "idle"
  BY IdleSound
<1>s. ASSUME job[h].stage \in Loop
      PROVE  /\ IsStream(job[h].stream) /\ job[h].stream \in Seq(Event) /\ Len(job[h].stream) > 0
             /\ Head(job[h].stream) = job[h].stream[1] /\ 1 \in 1..Len(job[h].stream)
             /\ record # NoRecord /\ FitsSession(job[h], session)
  <2>1. IsStream(job[h].stream)
    BY <1>0, <1>s DEF SoundJob
  <2>2. job[h].stream \in Seq(Event) /\ Len(job[h].stream) > 0
    BY <2>1 DEF IsStream
  <2>3. Head(job[h].stream) = job[h].stream[1] /\ 1 \in 1..Len(job[h].stream)
    BY <2>2
  <2>4. record # NoRecord
    BY <1>s DEF CopySynced, Carries, Carrying, Loop
  <2> QED BY <1>s, <2>1, <2>2, <2>3, <2>4 DEF MemoryKnown
<1>1. CASE Lookup(h) \/ Load(h) \/ Check(h) \/ Fetch(h) \/ WriteAudit(h)
  <2>1. UNCHANGED record /\ UNCHANGED events /\ UNCHANGED session /\ UNCHANGED hydrated
    BY <1>1 DEF Lookup, Load, Check, Fetch, WriteAudit, durable, memory
  <2>2. job[h].stage \in {"lookup", "load", "check", "fetch", "audit"}
    BY <1>1 DEF Lookup, Load, Check, Fetch, WriteAudit, At
  <2>3. job'[h].stage \notin Loop
    BY <1>0, <1>1, <1>e, LookupMoves, LoadMoves, CheckMoves, FetchMoves, WriteAuditMoves
       DEF GoesOn, Loop
  <2>4. ~Resubmitting(job[h]) /\ job[h].stage \notin Loop
    BY <2>2 DEF Resubmitting, Loop
  <2> QED BY <2>1, <2>2, <2>3, <2>4, MemoryStays
<1>2. CASE Upsert(h)
  <2>1. UNCHANGED events /\ UNCHANGED session /\ UNCHANGED hydrated
    BY <1>2 DEF Upsert, memory
  <2>2. job[h].stage \in {"save", "mark", "close", "upsert"} /\ Keeps(h)
    BY <1>0, <1>2, UpsertMoves
  <2>3. CASE job[h].stage = "save"
    <3>1. GoesOn(h, "announce")
      BY <1>0, <1>2, <2>3, UpsertMoves
    <3>2. job[h].req.op = "submit"
      BY <1>0, <2>3 DEF SoundJob, StagesOf, Reorchestrating, Loop
    <3>3. Resubmitting(job'[h]) /\ job'[h].stage = "announce"
      BY <3>1, <3>2 DEF Resubmitting, GoesOn
    <3> QED BY <3>3 DEF MemoryKnown, Loop
  <2>4. CASE job[h].stage \in {"mark", "close"}
    <3>1. job'[h].stage \in {"audit", "notify"}
      BY <1>0, <1>2, <2>4, UpsertMoves DEF GoesOn
    <3>2. record # NoRecord /\ ~Resubmitting(job[h])
      BY <2>4 DEF CopySynced, Carries, Carrying, Resubmitting
    <3> QED BY <2>1, <2>4, <3>1, <3>2, MemoryStays DEF Loop
  <2>5. CASE job[h].stage = "upsert"
    <3>1. GoesOn(h, "publish")
      BY <1>0, <1>2, <2>5, UpsertMoves
    <3>2. Coming(job'[h]) = Coming(job[h])
      BY <2>2, <2>5, <3>1 DEF Coming, Keeps, GoesOn
    <3>3. ~Resubmitting(job[h]) /\ ~Resubmitting(job'[h])
      BY <2>5, <3>1 DEF Resubmitting, GoesOn
    <3>4. job[h].stage \in Loop /\ job'[h].stage \in Loop /\ job'[h].stage # "idem"
      BY <2>5, <3>1 DEF Loop, GoesOn
    <3>5. FitsSession(job'[h], session)
      BY <1>s, <2>2, <3>1, <3>4 DEF FitsSession, Keeps, GoesOn
    <3> QED BY <1>s, <2>1, <3>2, <3>3, <3>4, <3>5, MemoryGoesOn
  <2> QED BY <2>2, <2>3, <2>4, <2>5
<1>3. CASE Publish(h)
  <2>1. UNCHANGED record /\ UNCHANGED events /\ UNCHANGED session /\ UNCHANGED hydrated
    BY <1>3 DEF Publish, durable, memory
  <2>2. CASE job[h].stage = "publish"
    <3>1. GoesOn(h, "yield") /\ Keeps(h)
      BY <1>0, <1>3, <2>2, PublishMoves
    <3>2. Coming(job'[h]) = Coming(job[h])
      BY <2>2, <3>1 DEF Coming, Keeps, GoesOn
    <3>3. ~Resubmitting(job[h]) /\ ~Resubmitting(job'[h])
      BY <2>2, <3>1 DEF Resubmitting, GoesOn
    <3>4. job[h].stage \in Loop /\ job'[h].stage \in Loop /\ job'[h].stage # "idem"
      BY <2>2, <3>1 DEF Loop, GoesOn
    <3>5. FitsSession(job'[h], session)
      BY <1>s, <3>1, <3>4 DEF FitsSession, Keeps, GoesOn
    <3> QED BY <1>s, <2>1, <3>2, <3>3, <3>4, <3>5, MemoryGoesOn
  <2>3. CASE job[h].stage = "announce"
    <3>1. GoesOn(h, "hydrate")
      BY <1>0, <1>3, <2>3, PublishMoves
    <3>2. Resubmitting(job[h]) => Resubmitting(job'[h])
      BY <3>1 DEF Resubmitting, GoesOn
    <3>3. job'[h].stage = "hydrate"
      BY <3>1 DEF GoesOn
    <3> QED BY <2>1, <2>3, <3>2, <3>3, MemoryStays DEF Loop
  <2>4. CASE job[h].stage = "notify"
    <3>1. job'[h].stage \in {"idle", "check", "replay"}
      BY <1>0, <1>3, <1>e, <2>4, PublishMoves DEF GoesOn
    <3>2. ~Resubmitting(job[h])
      BY <2>4 DEF Resubmitting
    <3> QED BY <2>1, <2>4, <3>1, <3>2, MemoryStays DEF Loop
  <2> QED BY <1>0, <1>3, <2>2, <2>3, <2>4, PublishMoves
<1>4. CASE Hydrate(h)
  <2>1. hydrated' = TRUE
    BY <1>4 DEF Hydrate
  <2>2. job[h].stage = "hydrate" /\ GoesOn(h, "run")
    BY <1>0, <1>4, RowMoves
  <2>3. job[h].req.op = "submit"
    BY <1>0, <2>2 DEF SoundJob, StagesOf, Reorchestrating, Loop
  <2>4. Resubmitting(job'[h]) /\ job'[h].stage = "run"
    BY <2>2, <2>3 DEF Resubmitting, GoesOn
  <2> QED BY <2>1, <2>4 DEF MemoryKnown, Loop
<1>5. CASE Run(h)
  <2>1. UNCHANGED record /\ UNCHANGED events /\ UNCHANGED hydrated
    BY <1>5 DEF Run, durable
  <2>2. job[h].stage = "run" /\ record # NoRecord
    BY <1>5 DEF Run, At, CopySynced, Carries, Carrying
  <2>3. hydrated' = TRUE
    BY <2>1, <2>2 DEF MemoryKnown
  <2>4. job[h].req.op \in {"submit", "reorchestrate", "manual"} /\ job[h].req \in Requests
    BY <1>0, <2>2, LoopServes
  <2>5. PICK stage \in {"plan", "idem", "event"} :
          GoesOn(h, stage) /\ (stage = "idem" => HasResponse(Head(job'[h].stream)))
    BY <1>0, <1>5, <2>4, RunMoves DEF SessionTyped
  <2>6. job'[h].stage \in Loop /\ job'[h].stage \notin {"announce", "hydrate", "run"}
    BY <2>5 DEF GoesOn, Loop
  <2>7. CASE job[h].req.op = "submit"
    <3>1. Head(job'[h].stream).type = "accepted" /\ job'[h].stage = "event"
      BY <1>0, <1>5, <2>4, <2>7, RunAccepted DEF Continuing
    <3>2. Resubmitting(job'[h])
      BY <2>5, <2>7, <3>1 DEF Resubmitting, GoesOn
    <3>3. session' = Tasks /\ Coming(job'[h]) = {} /\ FitsSession(job'[h], session')
      BY <1>5, <2>7, RunFits
    <3> QED BY <2>3, <2>6, <3>1, <3>2, <3>3 DEF MemoryKnown
  <2>8. CASE job[h].req.op # "submit"
    <3>1. session = Tasks \ CompletedIn(events)
      BY <2>2, <2>8 DEF MemoryKnown, Resubmitting, Loop
    <3>2. session # NoSession
      BY <3>1, SessionAssumption
    <3>3. session' = session \ Coming(job'[h]) /\ FitsSession(job'[h], session')
      BY <1>5, <2>8, <3>2, RunFits
    <3>4. ~Resubmitting(job'[h])
      BY <2>5, <2>8 DEF Resubmitting, GoesOn
    <3>5. session' = Tasks \ (CompletedIn(events') \cup Coming(job'[h]))
      BY <2>1, <3>1, <3>3
    <3>6. job'[h].stage = "idem" => HasResponse(Head(job'[h].stream))
      BY <2>5 DEF GoesOn
    <3> QED BY <2>3, <2>6, <3>3, <3>4, <3>5, <3>6 DEF MemoryKnown
  <2> QED BY <2>7, <2>8
<1>6. CASE WritePlan(h) \/ PutIdempotency(h)
  <2>1. UNCHANGED record /\ UNCHANGED events /\ UNCHANGED session /\ UNCHANGED hydrated
    BY <1>6 DEF WritePlan, PutIdempotency, memory
  <2>2. /\ job[h].stage \in {"plan", "idem"} /\ job'[h].stage \in {"idem", "event"}
        /\ job'[h].stream = job[h].stream /\ job'[h].req = job[h].req
    BY <1>0, <1>6, WritePlanMoves, RowMoves DEF GoesOn, Keeps
  <2>3. HasResponse(Head(job[h].stream))
    BY <1>0, <2>2 DEF SoundJob, MemoryKnown, Loop, HasResponse
  <2>4. Coming(job'[h]) = Coming(job[h])
    BY <2>2 DEF Coming
  <2>5. ~Resubmitting(job[h]) /\ ~Resubmitting(job'[h])
    BY <2>2, <2>3 DEF Resubmitting, HasResponse
  <2>6. job[h].stage \in Loop /\ job'[h].stage \in Loop
    BY <2>2 DEF Loop
  <2>7. FitsSession(job'[h], session)
    BY <1>s, <2>2, <2>6 DEF FitsSession
  <2> QED BY <1>s, <2>1, <2>2, <2>3, <2>4, <2>5, <2>6, <2>7, MemoryGoesOn
<1>7. CASE WriteEvent(h)
  <2>1. UNCHANGED record /\ UNCHANGED session /\ UNCHANGED hydrated
    BY <1>7 DEF WriteEvent, memory
  <2>2. /\ job[h].stage = "event" /\ job'[h].stage = "upsert"
        /\ job'[h].stream = job[h].stream /\ job'[h].req = job[h].req
    BY <1>0, <1>7, RowMoves DEF GoesOn, Keeps
  <2>3. job[h].stage \in Loop /\ job'[h].stage \in Loop
    BY <2>2 DEF Loop
  <2>4. PICK s : s = job[h].stream
    OBVIOUS
  <2>5. /\ s \in Seq(Event) /\ Len(s) > 0 /\ record # NoRecord /\ Head(s) = s[1]
        /\ 1 \in 1..Len(s) /\ FitsSession(job[h], session)
    BY <1>s, <2>3, <2>4
  <2>6. PICK n, row : /\ n = job[h].rec.events
                      /\ row = [call |-> job[h].call, boot |-> boot, event |-> Head(s)]
    OBVIOUS
  <2>7. events' = Put(events, n, row)
    BY <1>7, <2>4, <2>6 DEF WriteEvent, Rec, Current
  <2>8. n \in Nat /\ DOMAIN events \subseteq Nat /\ \A m \in DOMAIN events : m < n
    <3>1. EventsIn(record) \in Nat
      BY <1>0 DEF EventsIn, WorkflowRecord, RecordTyped
    <3>2. Taken(job[h]) = 1 /\ Logged(job[h]) = 0 /\ Carries(job[h])
      BY <2>2 DEF Taken, Logged, Carries, Carrying
    <3>3. n = EventsIn(record) + 1 /\ Within(events, EventsIn(record))
      BY <2>6, <3>1, <3>2 DEF CopyCounts, RowsCount
    <3>4. DOMAIN events \subseteq Nat
      BY DEF TypesInv, TablesTyped
    <3> QED BY <3>1, <3>3, <3>4 DEF Within
  <2>9. row.event = Head(s)
    BY <2>6
  <2>10. /\ Head(s).type = "accepted" => CompletedIn(events') = {}
         /\ Head(s).type = "completed" =>
              CompletedIn(events') = CompletedIn(events) \cup Head(s).tasks
         /\ Head(s).type \notin {"accepted", "completed"} => CompletedIn(events') = CompletedIn(events)
    BY <2>7, <2>8, <2>9, EventCompletes
  <2>11. /\ Coming(job[h]) = ComingFrom(s, 1) /\ Coming(job'[h]) = ComingFrom(s, 2)
    BY <2>2, <2>4 DEF Coming
  <2>12. /\ Head(s).type = "completed" =>
              Coming(job[h]) = Head(s).tasks \cup Coming(job'[h])
         /\ Head(s).type # "completed" => Coming(job[h]) = Coming(job'[h])
    BY <2>5, <2>11, ComingHead
  <2>13. session = Tasks \ (CompletedIn(events') \cup Coming(job'[h]))
    <3>1. CASE Resubmitting(job[h])
      <4>1. Head(s).type = "accepted" /\ session = Tasks /\ Coming(job[h]) = {}
        BY <2>2, <2>3, <2>4, <3>1 DEF Resubmitting, MemoryKnown
      <4> QED BY <2>10, <2>12, <4>1
    <3>2. CASE ~Resubmitting(job[h])
      <4>1. session = Tasks \ (CompletedIn(events) \cup Coming(job[h]))
        BY <2>3, <3>2 DEF MemoryKnown
      <4>2. Head(s).type # "accepted"
        BY <2>2, <2>4, <2>5, <3>2 DEF FitsSession, Resubmitting
      <4> QED BY <2>10, <2>12, <4>1, <4>2
    <3> QED BY <3>1, <3>2
  <2>14. FitsSession(job'[h], session)
    BY <2>2, <2>5 DEF FitsSession
  <2>15. hydrated = TRUE
    BY <2>2, <2>5 DEF MemoryKnown
  <2>16. ~Resubmitting(job'[h])
    BY <2>2 DEF Resubmitting
  <2> QED BY <2>1, <2>2, <2>3, <2>13, <2>14, <2>15, <2>16 DEF MemoryKnown
<1>8. CASE Resume(h)
  <2>1. UNCHANGED record /\ UNCHANGED events /\ UNCHANGED session /\ UNCHANGED hydrated
    BY <1>8 DEF Resume, durable, memory
  <2>2. job[h].stage = "yield" /\ job[h].stage \in Loop /\ ~Resubmitting(job[h])
    BY <1>8 DEF Resume, At, Loop, Resubmitting
  <2>3. PICK s : s = job[h].stream
    OBVIOUS
  <2>4. /\ s \in Seq(Event) /\ Len(s) > 0 /\ record # NoRecord /\ IsStream(s)
        /\ FitsSession(job[h], session)
    BY <1>s, <2>2, <2>3
  <2>5. Coming(job[h]) = ComingFrom(s, 2)
    BY <2>2, <2>3 DEF Coming
  <2>6. CASE Tail(s) = <<>>
    <3>1. job'[h] = Idle
      BY <1>0, <1>8, <2>3, <2>6, LeaveMoves DEF Resume, RowsInv
    <3>2. Len(s) = 1
      <4>1. Len(Tail(s)) = Len(s) - 1 /\ Len(s) \in Nat
        BY <2>4
      <4>2. PICK t : t = Tail(s)
        OBVIOUS
      <4>3. Len(<<>>) = 0
        OBVIOUS
      <4>4. Len(t) = 0
        BY <2>6, <4>2, <4>3
      <4>5. Len(t) = Len(s) - 1
        BY <4>1, <4>2
      <4> QED BY <4>1, <4>4, <4>5
    <3>3. Coming(job[h]) = {}
      BY <2>4, <2>5, <3>2, ComingNone
    <3>4. session = Tasks \ CompletedIn(events) /\ hydrated = TRUE
      BY <2>2, <2>4, <3>3 DEF MemoryKnown
    <3>5. job'[h].stage = "idle"
      BY <3>1, <1>e
    <3> QED BY <2>1, <3>4, <3>5 DEF MemoryKnown, Loop
  <2>7. CASE Tail(s) # <<>>
    <3>1. PICK t : t = Tail(s)
      OBVIOUS
    <3>2. Become(h, Receive(job[h], t))
      BY <1>8, <2>3, <2>7, <3>1 DEF Resume
    <3>3. job[h].rec \in WorkflowRecord
      BY <1>0, <2>2, CopyIsRecord DEF Carries, Carrying
    <3>4. /\ job'[h].stream = t
          /\ \E stage \in {"plan", "idem", "event"} :
               GoesOn(h, stage) /\ (stage = "idem" => HasResponse(Head(t)))
      BY <1>0, <3>2, <3>3, ReceiveMoves
    <3>5. job'[h].stage \in {"plan", "idem", "event"} /\ job'[h].req = job[h].req
      BY <3>4 DEF GoesOn
    <3>6. job'[h].stage = "idem" => HasResponse(Head(job'[h].stream))
      BY <3>4 DEF GoesOn
    <3>7. Coming(job'[h]) = Coming(job[h])
      <4>1. Coming(job'[h]) = ComingFrom(t, 1)
        BY <3>4, <3>5 DEF Coming
      <4> QED BY <2>4, <2>5, <3>1, <4>1, ComingTail
    <3>8. /\ Len(t) = Len(s) - 1 /\ Len(s) \in Nat /\ t \in Seq(Event)
          /\ \A i \in 1..Len(t) : t[i] = s[i + 1] /\ i + 1 \in 1..Len(s) /\ i + 1 # 1
      BY <2>4, <3>1
    <3>9. \A i \in 1..Len(t) : /\ t[i].type = "finished" => t[i].tasks = session
                               /\ t[i].type # "accepted"
      <4> TAKE i \in 1..Len(t)
      <4>1. t[i] = s[i + 1] /\ i + 1 \in 1..Len(s) /\ i + 1 # 1
        BY <3>8
      <4> QED BY <2>3, <2>4, <4>1 DEF FitsSession
    <3>10. FitsSession(job'[h], session)
      BY <3>4, <3>9 DEF FitsSession
    <3>11. ~Resubmitting(job'[h])
      <4>1. IsStream(t)
        BY <2>4, <2>7, <3>1, StreamTail
      <4>2. Head(t) = t[1] /\ 1 \in 1..Len(t)
        BY <4>1 DEF IsStream
      <4>3. Head(job'[h].stream).type # "accepted"
        BY <3>4, <3>9, <4>2
      <4> QED BY <3>5, <4>3 DEF Resubmitting
    <3>12. job'[h].stage \in Loop
      BY <3>5 DEF Loop
    <3> QED BY <2>1, <2>2, <2>4, <3>6, <3>7, <3>10, <3>11, <3>12, MemoryGoesOn
  <2> QED BY <2>6, <2>7
<1>9. CASE Abandon(h)
  BY <1>9 DEF Abandon
<1>10. CASE Rehydrate(h)
  <2>1. UNCHANGED record /\ UNCHANGED events
    BY <1>10 DEF Rehydrate, durable
  <2>2. job[h].stage = "rehydrate" /\ record # NoRecord
    BY <1>10 DEF Rehydrate, At, CopySynced, Carries, Carrying
  <2>3. hydrated
    BY <2>2 DEF MemoryKnown
  <2>4. session' = session /\ hydrated' = hydrated /\ job'[h].stage = "lookup"
    BY <1>0, <1>10, <2>3, RehydrateMoves DEF GoesOn
  <2>5. ~Resubmitting(job[h])
    BY <2>2 DEF Resubmitting
  <2> QED BY <2>1, <2>2, <2>4, <2>5, MemoryStays DEF Loop
<1> QED BY <1>1, <1>2, <1>3, <1>4, <1>5, <1>6, <1>7, <1>8, <1>9, <1>10 DEF Step

\* Only the thread at work has to be looked at.
LEMMA MemoryKept ==
    ASSUME NEW h \in Workers, MemoryKnown(job'[h], record', events', session', hydrated'),
           \A g \in Workers : g # h => job[g].stage = "idle" /\ job'[g] = job[g]
    PROVE  MemoryInv'
<1> SUFFICES ASSUME NEW g \in Workers, \A f \in Workers : f # g => job'[f].stage = "idle"
             PROVE  MemoryKnown(job'[g], record', events', session', hydrated')
  BY DEF MemoryInv, Busiest, MemoryKnown, CompletedIn, Coming, ComingFrom, FitsSession,
         Resubmitting
<1>1. CASE g = h
  BY <1>1
<1>2. CASE g # h
  <2>1. job'[g].stage = "idle" /\ job'[h].stage = "idle"
    BY <1>2
  <2>2. ~Resubmitting(job'[h])
    BY <2>1 DEF Resubmitting
  <2> QED BY <2>1, <2>2, MemoryStays DEF Loop
<1> QED BY <1>1, <1>2

\* Every step keeps the memory in step with the log.
LEMMA MemoryStep ==
    ASSUME OneHandler, Continuing, NoStops, Replanning, ~Streaming,
           TypesInv, Alone, Steady, LogInv, CopyInv, MemoryInv, [Next]_vars
    PROVE  MemoryInv'
<1>0. RowsInv
  BY DEF TypesInv
<1>1. CASE UNCHANGED vars
  BY <1>1 DEF vars, durable, memory, MemoryInv, Busiest, MemoryKnown, CompletedIn, Coming,
              ComingFrom, FitsSession, Resubmitting
<1>2. ASSUME NEW h \in Handlers, NEW r \in Requests, Begin(h, r) PROVE MemoryInv'
  <2>1. \A g \in Workers : g # h => job[g].stage = "idle" /\ job'[g] = job[g]
    BY <1>2, BeginQuiet DEF Quiet
  <2>2. h \in Workers /\ job[h].stage = "idle" /\ job'[h].stage \in {"lookup", "check", "fetch"}
    BY <1>0, <1>2, BeginMoves
  <2>3. MemoryKnown(job[h], record, events, session, hydrated)
    BY <2>1, <2>2 DEF MemoryInv, Busiest
  <2>4. UNCHANGED record /\ UNCHANGED events /\ UNCHANGED session /\ UNCHANGED hydrated
    BY <1>2 DEF Begin, durable, memory
  <2>5. ~Resubmitting(job[h])
    BY <2>2 DEF Resubmitting
  <2>6. MemoryKnown(job'[h], record', events', session', hydrated')
    BY <2>2, <2>3, <2>4, <2>5, MemoryStays DEF Loop
  <2> QED BY <2>1, <2>2, <2>6, MemoryKept
<1>3. ASSUME NEW h \in Handlers, Step(h) \/ Abandon(h) PROVE MemoryInv'
  <2>1. /\ h \in Workers /\ h # Main
        /\ \A g \in Workers : g # h => job[g].stage = "idle" /\ job'[g] = job[g]
    BY <1>3, OthersIdle, MainAssumption DEF Workers
  <2>2. /\ CopyCounts(job[h], record) /\ RowsCount(job[h], record, events, plans, audits)
        /\ CopySynced(job[h], record) /\ MemoryKnown(job[h], record, events, session, hydrated)
    BY <2>1 DEF LogInv, CopyInv, MemoryInv, Busiest
  <2>3. MemoryKnown(job'[h], record', events', session', hydrated')
    BY <1>3, <2>1, <2>2, MemoryStepOf
  <2> QED BY <2>1, <2>3, MemoryKept
<1> QED BY <1>1, <1>2, <1>3, SteadyStep

\* In a process that is not stopped, whose requests do not overlap, whose
\* streams are drained and whose re-orchestrations ask for a plan, a stored plan
\* version was made for exactly the tasks that the log does not have as
\* completed since the last submission (PlanCoversOutstanding).
THEOREM PlansCoverOutstanding ==
    ASSUME OneHandler, Continuing, NoStops, Replanning, ~Streaming
    PROVE  Spec => PlanCoversOutstanding
<1> DEFINE Inv == TypesInv /\ Alone /\ Steady /\ LogInv /\ CopyInv /\ MemoryInv
           A == \A h \in Handlers : WritePlan(h) => Current(h).tasks = Tasks \ CompletedTasks
<1>1. Init => Inv
  <2>1. Init => MemoryInv
    BY IdleSound DEF Init, MemoryInv, MemoryKnown, Loop
  <2> QED BY <2>1, TypesInit, AloneInit, LogInit, CopyInit
<1>2. Inv /\ [Next]_vars => Inv'
  BY OneHandler, Continuing, NoStops, Replanning, TypesStep, AloneStep, SteadyStep, LogStep,
     CopyStep, MemoryStep
<1>3. Inv => A
  <2> SUFFICES ASSUME TypesInv, Alone, MemoryInv, NEW h \in Handlers, WritePlan(h)
               PROVE  Head(job[h].stream).tasks = Tasks \ CompletedTasks
    BY DEF Current
  <2>1. h \in Workers /\ Step(h) /\ job[h].stage = "plan"
    BY DEF Workers, Step, WritePlan, At
  <2>2. MemoryKnown(job[h], record, events, session, hydrated)
    BY <2>1, OthersIdle DEF MemoryInv, Busiest
  <2>3. job[h].stage \in Loop /\ ~Resubmitting(job[h])
    BY <2>1 DEF Loop, Resubmitting
  <2>4. PICK s : s = job[h].stream
    OBVIOUS
  <2>5. IsStream(s) /\ Head(s).type = "finished"
    BY <2>1, <2>3, <2>4 DEF TypesInv, JobsSound, SoundJob
  <2>6. s \in Seq(Event) /\ Len(s) > 0 /\ Head(s) = s[1] /\ 1 \in 1..Len(s)
    BY <2>5 DEF IsStream
  <2>7. Len(s) = 1
    BY <2>5, <2>6 DEF IsStream, HasResponse
  <2>8. Coming(job[h]) = {}
    <3>1. Coming(job[h]) = ComingFrom(s, 1)
      BY <2>1, <2>4 DEF Coming
    <3>2. ComingFrom(s, 1) = ComingFrom(s, 2)
      BY <2>5, <2>6, ComingHead
    <3> QED BY <2>6, <2>7, <3>1, <3>2, ComingNone
  <2>9. session = Tasks \ CompletedIn(events) /\ FitsSession(job[h], session)
    BY <2>2, <2>3, <2>8 DEF MemoryKnown
  <2>10. Head(s).tasks = session
    BY <2>4, <2>5, <2>6, <2>9 DEF FitsSession
  <2>11. CompletedIn(events) = CompletedTasks
    BY DEF CompletedIn, CompletedTasks
  <2> QED BY <2>4, <2>9, <2>10, <2>11
<1>4. Inv /\ [Next]_vars => [A]_vars
  BY <1>3
<1> HIDE DEF Inv
<1> QED BY <1>1, <1>2, <1>4, PTL DEF Spec, PlanCoversOutstanding

=============================================================================
