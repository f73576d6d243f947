------------------------- MODULE ControlPlaneProofs -------------------------
(***************************************************************************)
(* For any number of handlers, any requests, tasks and bounds, and with    *)
(* stops, reboots and pruning anywhere: the rows a stored record counts as *)
(* its newest exist, and an update is published after every write.         *)
(***************************************************************************)
EXTENDS ControlPlane, TLAPS

\* The stages in which a handler holds a copy of the record that it will store.
Carrying == {"save", "announce", "hydrate", "run", "plan", "idem", "event",
             "upsert", "publish", "yield", "mark", "audit", "close", "notify",
             "rehydrate", "replay"}

Carries(j) == j.stage \in Carrying \/ (j.stage = "lookup" /\ j.req.op # "submit")

\* A copy may be stored: what it counts is in the tables, the event it has
\* just taken in excepted until write_event.
Storable(j, ev, pl, au) ==
    /\ j.rec \in WorkflowRecord
    /\ CountedRow(pl, j.rec.plan)
    /\ CountedRow(au, j.rec.audits)
    /\ j.stage \notin {"plan", "idem", "event"} => CountedRow(ev, j.rec.events)

JobShape(j) == j \in [stage : {j.stage}, call : {j.call}, req : {j.req},
                       rec : {j.rec}, stream : {j.stream}]

RecordTyped == record = NoRecord \/ record \in WorkflowRecord

JobsShaped == job = [h \in Workers |-> job[h]] /\ \A h \in Workers : JobShape(job[h])

CopiesStorable ==
    \A h \in Workers : Carries(job[h]) => Storable(job[h], events, plans, audits)

DownIsIdle == ~up => \A h \in Workers : job[h] = Idle

\* The inductive invariant: LatestRowsStored alone is not one, because an upsert
\* stores a handler's copy, which must itself count only rows that exist.
RowsInv == RecordTyped /\ JobsShaped /\ CopiesStorable /\ DownIsIdle /\ LatestRowsStored

\* Put adds its key and removes none (INSERT OR REPLACE).
LEMMA PutDomain ==
    ASSUME NEW table, NEW key, NEW row
    PROVE  DOMAIN Put(table, key, row) = DOMAIN table \cup {key}
BY DEF Put

\* A counted row stays counted when a table grows.
LEMMA CountedGrows ==
    ASSUME NEW old, NEW new, DOMAIN old \subseteq DOMAIN new, NEW n, CountedRow(old, n)
    PROVE  CountedRow(new, n)
BY DEF CountedRow

\* Taking in an event changes neither the plan version nor the audit count.
LEMMA NotedKeeps ==
    ASSUME NEW rec \in WorkflowRecord, NEW e
    PROVE  /\ Noted(rec, e) \in WorkflowRecord
           /\ Noted(rec, e).plan = rec.plan
           /\ Noted(rec, e).audits = rec.audits
<1>1. StateForEvent(e, rec.state) \in States
  BY DEF StateForEvent, States, WorkflowRecord
<1>2. rec.events + 1 \in Nat
  BY DEF WorkflowRecord
<1> QED BY <1>1, <1>2 DEF Noted, WorkflowRecord

\* The stored rows stay counted when a handler's step grows the tables and
\* leaves the record, or stores a storable copy of it.
LEMMA StepKeeps ==
    ASSUME RowsInv, NEW h \in Workers, up, up' = up,
           DOMAIN events \subseteq DOMAIN events',
           DOMAIN plans \subseteq DOMAIN plans',
           DOMAIN audits \subseteq DOMAIN audits',
           NEW j, JobShape(j), job' = [job EXCEPT ![h] = j],
           Carries(j) => Storable(j, events', plans', audits'),
           \/ record' = record
           \/ record' = job[h].rec /\ Carries(job[h])
                /\ job[h].stage \notin {"plan", "idem", "event"}
    PROVE  RowsInv'
<1>1. JobsShaped'
  BY DEF RowsInv, JobsShaped, JobShape
<1>2. CopiesStorable'
  <2> SUFFICES ASSUME NEW g \in Workers, Carries(job[g])'
               PROVE  Storable(job[g], events, plans, audits)'
    BY DEF CopiesStorable
  <2>1. CASE g = h
    <3>1. job'[h] = j
      BY DEF RowsInv, JobsShaped
    <3> QED BY <2>1, <3>1 DEF Carries, Storable
  <2>2. CASE g # h
    <3>1. job'[g] = job[g]
      BY <2>2 DEF RowsInv, JobsShaped
    <3>2. Storable(job[g], events, plans, audits)
      BY <3>1 DEF RowsInv, CopiesStorable, Carries
    <3> QED BY <3>1, <3>2 DEF Storable, CountedRow
  <2> QED BY <2>1, <2>2
<1>3. RecordTyped' /\ LatestRowsStored'
  <2>1. CASE record' = record
    BY <2>1 DEF RowsInv, RecordTyped, LatestRowsStored, CountedRow
  <2>2. CASE record' = job[h].rec /\ Carries(job[h])
               /\ job[h].stage \notin {"plan", "idem", "event"}
    <3>1. Storable(job[h], events, plans, audits)
      BY <2>2 DEF RowsInv, CopiesStorable
    <3> QED BY <2>2, <3>1 DEF Storable, RecordTyped, LatestRowsStored, CountedRow
  <2> QED BY <2>1, <2>2
<1>4. DownIsIdle'
  BY DEF DownIsIdle
<1> QED BY <1>1, <1>2, <1>3, <1>4 DEF RowsInv

\* A handler that ends holds no copy.
LEMMA IdleCarriesNothing == JobShape(Idle) /\ ~Carries(Idle)
BY DEF JobShape, Idle, Carries, Carrying, NoRequest

\* The job that has taken in the first event of a stream is storable if the
\* job before it was.
LEMMA ReceiveStorable ==
    ASSUME NEW j, JobShape(j), Storable(j, events, plans, audits), NEW stream
    PROVE  /\ JobShape(Receive(j, stream))
           /\ Storable(Receive(j, stream), events, plans, audits)
<1> DEFINE e == Head(stream)
           k == Receive(j, stream)
<1>1. k.rec = Noted(j.rec, e) /\ k.stage \in {"plan", "idem", "event"}
  BY DEF Receive, JobShape
<1>2. JobShape(k)
  BY DEF Receive, JobShape
<1>3. j.rec \in WorkflowRecord /\ CountedRow(plans, j.rec.plan) /\ CountedRow(audits, j.rec.audits)
  BY DEF Storable
<1>4. /\ k.rec \in WorkflowRecord
      /\ k.rec.plan = j.rec.plan /\ k.rec.audits = j.rec.audits
  BY <1>1, <1>3, NotedKeeps
<1> HIDE DEF k
<1>5. Storable(k, events, plans, audits)
  BY <1>1, <1>3, <1>4 DEF Storable
<1> QED BY <1>2, <1>5 DEF k

\* Going to another stage keeps the copy.
LEMMA MoveTo ==
    ASSUME NEW j, JobShape(j), NEW stage
    PROVE  /\ JobShape([j EXCEPT !.stage = stage])
           /\ [j EXCEPT !.stage = stage].stage = stage
           /\ [j EXCEPT !.stage = stage].rec = j.rec
           /\ [j EXCEPT !.stage = stage].req = j.req
BY DEF JobShape

\* Each step a handler takes in serving a request keeps the invariant.
LEMMA HandlerStep ==
    ASSUME RowsInv, NEW h \in Workers, Step(h) \/ Abandon(h)
    PROVE  RowsInv'
<1> USE IdleCarriesNothing
<1>0. JobShape(job[h]) /\ (Carries(job[h]) => Storable(job[h], events, plans, audits))
  BY DEF RowsInv, JobsShaped, CopiesStorable
<1>1. CASE Lookup(h)
  <2> DEFINE next == IF Req(h).op = "submit" THEN "load" ELSE "run"
             k == [job[h] EXCEPT !.stage = next]
  <2>1. JobShape(k) /\ k.rec = job[h].rec /\ k.stage = next
    BY <1>0 DEF JobShape
  <2>2. Carries(k) => Storable(k, events, plans, audits)
    <3> SUFFICES ASSUME Carries(k) PROVE Storable(k, events, plans, audits)
      OBVIOUS
    <3>1. job[h].req.op # "submit"
      BY <2>1 DEF Carries, Carrying, Req
    <3>2. Carries(job[h]) /\ job[h].stage = "lookup"
      BY <1>1, <3>1 DEF Lookup, At, Carries
    <3>3. Storable(job[h], events, plans, audits)
      BY <3>2, <1>0
    <3> QED BY <3>3, <3>2, <2>1 DEF Storable
  <2>3. up /\ up' = up /\ events' = events /\ plans' = plans /\ audits' = audits /\ record' = record
    BY <1>1 DEF Lookup, At, durable, bounds
  <2>4. job' = [job EXCEPT ![h] = Idle] \/ job' = [job EXCEPT ![h] = k]
    BY <1>1 DEF Lookup, Leave, Goto, Become
  <2> HIDE DEF k
  <2>5. CASE job' = [job EXCEPT ![h] = Idle]
    BY <2>3, <2>5, StepKeeps
  <2>6. CASE job' = [job EXCEPT ![h] = k]
    BY <2>1, <2>2, <2>3, <2>6, StepKeeps
  <2> QED BY <2>4, <2>5, <2>6
<1>2. CASE Load(h)
  <2> DEFINE base == IF Req(h).replace = "yes" /\ record # NoRecord
                     THEN record ELSE FreshRecord
             rec == [base EXCEPT !.state = "submitted"]
             k == [job[h] EXCEPT !.stage = "save", !.rec = rec]
  <2>1. JobShape(k) /\ k.rec = rec /\ k.stage = "save"
    BY <1>0 DEF JobShape
  <2>2. /\ base \in WorkflowRecord
        /\ CountedRow(events, base.events) /\ CountedRow(plans, base.plan)
        /\ CountedRow(audits, base.audits)
    BY DEF RowsInv, RecordTyped, LatestRowsStored, FreshRecord, WorkflowRecord, States, CountedRow
  <2>3. /\ rec \in WorkflowRecord
        /\ rec.events = base.events /\ rec.plan = base.plan /\ rec.audits = base.audits
    BY <2>2 DEF WorkflowRecord, States
  <2>4. job' = [job EXCEPT ![h] = k]
    BY <1>2 DEF Load, GotoWith, Become
  <2> HIDE DEF base
  <2> HIDE DEF rec
  <2> HIDE DEF k
  <2>5. Storable(k, events, plans, audits)
    BY <2>1, <2>2, <2>3 DEF Storable
  <2>6. up /\ up' = up /\ events' = events /\ plans' = plans /\ audits' = audits /\ record' = record
    BY <1>2 DEF Load, At, durable, bounds
  <2>7. Carries(k) => Storable(k, events', plans', audits')
    BY <2>5, <2>6
  <2> QED BY <2>1, <2>4, <2>6, <2>7, StepKeeps
<1>3. CASE Upsert(h)
  <2> DEFINE next == AfterUpsert(job[h].stage)
             k == [job[h] EXCEPT !.stage = next]
  <2>1. JobShape(k) /\ k.rec = job[h].rec /\ k.stage = next
    BY <1>0, MoveTo
  <2>2. Carries(job[h]) /\ job[h].stage \notin {"plan", "idem", "event"}
    BY <1>3 DEF Upsert, Carries, Carrying
  <2>3. Storable(k, events, plans, audits)
    BY <1>0, <2>1, <2>2 DEF Storable
  <2>4. /\ up /\ up' = up /\ events' = events /\ plans' = plans /\ audits' = audits
        /\ record' = job[h].rec /\ job' = [job EXCEPT ![h] = k]
    BY <1>3 DEF Upsert, Goto, Become, Rec, bounds
  <2> HIDE DEF k
  <2>5. Carries(k) => Storable(k, events', plans', audits')
    BY <2>3, <2>4
  <2> QED BY <2>1, <2>2, <2>4, <2>5, StepKeeps
<1>4. CASE Publish(h)
  <2> DEFINE k == AfterPublish(h)
  <2>1. Storable(job[h], events, plans, audits)
    BY <1>0, <1>4 DEF Publish, Carries, Carrying
  <2>2. job[h].stage \in {"announce", "notify", "publish"}
    BY <1>4 DEF Publish
  <2>3. k = Idle \/ \E stage \in {"hydrate", "yield", "check", "replay"} :
                       k = [job[h] EXCEPT !.stage = stage]
    BY DEF AfterPublish
  <2>4. JobShape(k) /\ (Carries(k) => Storable(k, events, plans, audits))
    <3>1. CASE k = Idle
      BY <3>1
    <3>2. ASSUME NEW stage, k = [job[h] EXCEPT !.stage = stage]
          PROVE  JobShape(k) /\ Storable(k, events, plans, audits)
      <4>1. JobShape(k) /\ k.rec = job[h].rec
        BY <1>0, <3>2, MoveTo
      <4> QED BY <2>1, <2>2, <4>1 DEF Storable
    <3> QED BY <2>3, <3>1, <3>2
  <2>5. /\ up /\ up' = up /\ events' = events /\ plans' = plans /\ audits' = audits
        /\ record' = record /\ job' = [job EXCEPT ![h] = k]
    BY <1>4 DEF Publish, Become, durable, bounds
  <2> HIDE DEF k
  <2>6. Carries(k) => Storable(k, events', plans', audits')
    BY <2>4, <2>5
  <2> QED BY <2>4, <2>5, <2>6, StepKeeps
<1>5. CASE Hydrate(h)
  <2> DEFINE k == [job[h] EXCEPT !.stage = "run"]
  <2>1. JobShape(k) /\ k.rec = job[h].rec
    BY <1>0, MoveTo
  <2>2. Storable(job[h], events, plans, audits) /\ job[h].stage = "hydrate"
    BY <1>0, <1>5 DEF Hydrate, At, Carries, Carrying
  <2>3. Storable(k, events, plans, audits)
    BY <2>1, <2>2 DEF Storable
  <2>4. /\ up /\ up' = up /\ events' = events /\ plans' = plans /\ audits' = audits
        /\ record' = record /\ job' = [job EXCEPT ![h] = k]
    BY <1>5 DEF Hydrate, At, Goto, Become, durable, bounds
  <2> HIDE DEF k
  <2>5. Carries(k) => Storable(k, events', plans', audits')
    BY <2>3, <2>4
  <2> QED BY <2>1, <2>4, <2>5, StepKeeps
<1>6. CASE Run(h)
  <2>1. Storable(job[h], events, plans, audits)
    BY <1>0, <1>6 DEF Run, At, Carries, Carrying
  <2>2. PICK answer : job' = [job EXCEPT ![h] = Receive(job[h], answer.stream)]
    BY <1>6 DEF Run, Become
  <2> DEFINE k == Receive(job[h], answer.stream)
  <2>3. JobShape(k) /\ Storable(k, events, plans, audits)
    BY <1>0, <2>1, ReceiveStorable
  <2>4. /\ up /\ up' = up /\ events' = events /\ plans' = plans /\ audits' = audits
        /\ record' = record
    BY <1>6 DEF Run, At, durable, bounds
  <2>5. job' = [job EXCEPT ![h] = k]
    BY <2>2
  <2> HIDE DEF k
  <2>6. Carries(k) => Storable(k, events', plans', audits')
    BY <2>3, <2>4
  <2> QED BY <2>3, <2>4, <2>5, <2>6, StepKeeps
<1>7. CASE WritePlan(h)
  <2> DEFINE version == Rec(h).plan + 1
             rec == [Rec(h) EXCEPT !.plan = version]
             next == IF Req(h).key # NoKey THEN "idem" ELSE "event"
             k == [job[h] EXCEPT !.stage = next, !.rec = rec]
  <2>1. JobShape(k) /\ k.rec = rec /\ k.stage \in {"idem", "event"}
    BY <1>0 DEF JobShape
  <2>2. Storable(job[h], events, plans, audits)
    BY <1>0, <1>7 DEF WritePlan, At, Carries, Carrying
  <2>3. rec \in WorkflowRecord /\ rec.plan = version /\ rec.audits = job[h].rec.audits
    BY <2>2 DEF Storable, WorkflowRecord, Rec
  <2>4. /\ up /\ up' = up /\ events' = events /\ audits' = audits /\ record' = record
        /\ job' = [job EXCEPT ![h] = k]
    BY <1>7 DEF WritePlan, At, GotoWith, Become, bounds
  <2>5. DOMAIN plans' = DOMAIN plans \cup {version}
    BY <1>7, PutDomain DEF WritePlan
  <2> HIDE DEF version
  <2> HIDE DEF rec
  <2> HIDE DEF k
  <2>6. Storable(k, events', plans', audits')
    BY <2>1, <2>2, <2>3, <2>4, <2>5 DEF Storable, CountedRow
  <2>7. DOMAIN plans \subseteq DOMAIN plans'
    BY <2>5
  <2> QED BY <2>1, <2>4, <2>6, <2>7, StepKeeps
<1>8. CASE PutIdempotency(h)
  <2> DEFINE k == [job[h] EXCEPT !.stage = "event"]
  <2>1. JobShape(k) /\ k.rec = job[h].rec /\ k.stage = "event"
    BY <1>0, MoveTo
  <2>2. Storable(job[h], events, plans, audits)
    BY <1>0, <1>8 DEF PutIdempotency, At, Carries, Carrying
  <2>3. Storable(k, events, plans, audits)
    BY <2>1, <2>2 DEF Storable
  <2>4. /\ up /\ up' = up /\ events' = events /\ plans' = plans /\ audits' = audits
        /\ record' = record /\ job' = [job EXCEPT ![h] = k]
    BY <1>8 DEF PutIdempotency, At, Goto, Become, bounds
  <2> HIDE DEF k
  <2>5. Carries(k) => Storable(k, events', plans', audits')
    BY <2>3, <2>4
  <2> QED BY <2>1, <2>4, <2>5, StepKeeps
<1>9. CASE WriteEvent(h)
  <2> DEFINE k == [job[h] EXCEPT !.stage = "upsert"]
  <2>1. JobShape(k) /\ k.rec = job[h].rec
    BY <1>0, MoveTo
  <2>2. Storable(job[h], events, plans, audits)
    BY <1>0, <1>9 DEF WriteEvent, At, Carries, Carrying
  <2>3. /\ up /\ up' = up /\ plans' = plans /\ audits' = audits /\ record' = record
        /\ job' = [job EXCEPT ![h] = k]
    BY <1>9 DEF WriteEvent, At, Goto, Become, bounds
  <2>4. DOMAIN events' = DOMAIN events \cup {job[h].rec.events}
    BY <1>9, PutDomain DEF WriteEvent, Rec
  <2> HIDE DEF k
  <2>5. Storable(k, events', plans', audits')
    BY <2>1, <2>2, <2>3, <2>4 DEF Storable, CountedRow
  <2>6. DOMAIN events \subseteq DOMAIN events'
    BY <2>4
  <2> QED BY <2>1, <2>3, <2>5, <2>6, StepKeeps
<1>10. CASE Resume(h)
  <2> DEFINE k == Receive(job[h], Tail(job[h].stream))
  <2>1. Storable(job[h], events, plans, audits)
    BY <1>0, <1>10 DEF Resume, At, Carries, Carrying
  <2>2. JobShape(k) /\ Storable(k, events, plans, audits)
    BY <1>0, <2>1, ReceiveStorable
  <2>3. /\ up /\ up' = up /\ events' = events /\ plans' = plans /\ audits' = audits
        /\ record' = record
    BY <1>10 DEF Resume, At, durable, bounds
  <2>4. job' = [job EXCEPT ![h] = Idle] \/ job' = [job EXCEPT ![h] = k]
    BY <1>10 DEF Resume, Leave, Become
  <2> HIDE DEF k
  <2>5. CASE job' = [job EXCEPT ![h] = Idle]
    BY <2>3, <2>5, StepKeeps
  <2>6. CASE job' = [job EXCEPT ![h] = k]
    <3>1. Carries(k) => Storable(k, events', plans', audits')
      BY <2>2, <2>3
    <3> QED BY <2>2, <2>3, <2>6, <3>1, StepKeeps
  <2> QED BY <2>4, <2>5, <2>6
<1>11. CASE Abandon(h)
  <2>1. /\ up /\ up' = up /\ events' = events /\ plans' = plans /\ audits' = audits
        /\ record' = record /\ job' = [job EXCEPT ![h] = Idle]
    BY <1>11 DEF Abandon, At, Leave, Become, durable, bounds
  <2> QED BY <2>1, StepKeeps
<1>12. CASE Check(h)
  <2> DEFINE k == [job[h] EXCEPT !.stage = "rehydrate", !.rec = record]
  <2>1. JobShape(k) /\ k.rec = record
    BY <1>0 DEF JobShape
  <2>2. /\ up /\ up' = up /\ events' = events /\ plans' = plans /\ audits' = audits
        /\ record' = record
    BY <1>12 DEF Check, At, durable, bounds
  <2>3. \/ job' = [job EXCEPT ![h] = Idle]
        \/ record # NoRecord /\ job' = [job EXCEPT ![h] = k]
    BY <1>12 DEF Check, Refused, Leave, GotoWith, Become
  <2> HIDE DEF k
  <2>4. CASE job' = [job EXCEPT ![h] = Idle]
    BY <2>2, <2>4, StepKeeps
  <2>5. CASE record # NoRecord /\ job' = [job EXCEPT ![h] = k]
    <3>1. Storable(k, events', plans', audits')
      BY <2>1, <2>2, <2>5 DEF RowsInv, RecordTyped, LatestRowsStored, Storable
    <3> QED BY <2>1, <2>2, <2>5, <3>1, StepKeeps
  <2> QED BY <2>3, <2>4, <2>5
<1>13. CASE Rehydrate(h)
  <2> DEFINE k == [job[h] EXCEPT !.stage = "lookup"]
  <2>1. JobShape(k) /\ k.rec = job[h].rec
    BY <1>0, MoveTo
  <2>2. Storable(job[h], events, plans, audits) /\ job[h].stage = "rehydrate"
    BY <1>0, <1>13 DEF Rehydrate, At, Carries, Carrying
  <2>3. Storable(k, events, plans, audits)
    BY <2>1, <2>2 DEF Storable
  <2>4. /\ up /\ up' = up /\ events' = events /\ plans' = plans /\ audits' = audits
        /\ record' = record
    BY <1>13 DEF Rehydrate, At, durable, bounds
  <2>5. job' = [job EXCEPT ![h] = Idle] \/ job' = [job EXCEPT ![h] = k]
    BY <1>13 DEF Rehydrate, Leave, Goto, Become
  <2> HIDE DEF k
  <2>6. CASE job' = [job EXCEPT ![h] = Idle]
    BY <2>4, <2>6, StepKeeps
  <2>7. CASE job' = [job EXCEPT ![h] = k]
    <3>1. Carries(k) => Storable(k, events', plans', audits')
      BY <2>3, <2>4
    <3> QED BY <2>1, <2>4, <2>7, <3>1, StepKeeps
  <2> QED BY <2>5, <2>6, <2>7
<1>14. CASE Fetch(h)
  <2> DEFINE rec == Marked(record, Req(h).op)
             next == IF Req(h).op = "manual" THEN "audit" ELSE "mark"
             k == [job[h] EXCEPT !.stage = next, !.rec = rec]
  <2>1. JobShape(k) /\ k.rec = rec
    BY <1>0 DEF JobShape
  <2>2. /\ up /\ up' = up /\ events' = events /\ plans' = plans /\ audits' = audits
        /\ record' = record
    BY <1>14 DEF Fetch, At, durable, bounds
  <2>3. \/ job' = [job EXCEPT ![h] = Idle]
        \/ record # NoRecord /\ job' = [job EXCEPT ![h] = k]
    BY <1>14 DEF Fetch, Leave, GotoWith, Become
  <2>4. record \in WorkflowRecord =>
          /\ rec \in WorkflowRecord
          /\ rec.events = record.events /\ rec.plan = record.plan /\ rec.audits = record.audits
    BY DEF Marked, WorkflowRecord, States
  <2> HIDE DEF rec
  <2> HIDE DEF k
  <2>5. CASE job' = [job EXCEPT ![h] = Idle]
    BY <2>2, <2>5, StepKeeps
  <2>6. CASE record # NoRecord /\ job' = [job EXCEPT ![h] = k]
    <3>1. Storable(k, events', plans', audits')
      BY <2>1, <2>2, <2>4, <2>6 DEF RowsInv, RecordTyped, LatestRowsStored, Storable
    <3> QED BY <2>1, <2>2, <2>6, <3>1, StepKeeps
  <2> QED BY <2>3, <2>5, <2>6
<1>15. CASE WriteAudit(h)
  <2> DEFINE sequence == Rec(h).audits + 1
             rec == [Rec(h) EXCEPT !.audits = sequence]
             k == [job[h] EXCEPT !.stage = "close", !.rec = rec]
  <2>1. JobShape(k) /\ k.rec = rec
    BY <1>0 DEF JobShape
  <2>2. Storable(job[h], events, plans, audits) /\ job[h].stage = "audit"
    BY <1>0, <1>15 DEF WriteAudit, At, Carries, Carrying
  <2>3. /\ rec \in WorkflowRecord /\ rec.audits = sequence
        /\ rec.plan = job[h].rec.plan /\ rec.events = job[h].rec.events
    BY <2>2 DEF Storable, WorkflowRecord, Rec
  <2>4. /\ up /\ up' = up /\ events' = events /\ plans' = plans /\ record' = record
        /\ job' = [job EXCEPT ![h] = k]
    BY <1>15 DEF WriteAudit, At, GotoWith, Become, bounds
  <2>5. DOMAIN audits' = DOMAIN audits \cup {sequence}
    BY <1>15, PutDomain DEF WriteAudit
  <2> HIDE DEF sequence
  <2> HIDE DEF rec
  <2> HIDE DEF k
  <2>6. Storable(k, events', plans', audits')
    BY <2>1, <2>2, <2>3, <2>4, <2>5 DEF Storable, CountedRow
  <2>7. DOMAIN audits \subseteq DOMAIN audits'
    BY <2>5
  <2> QED BY <2>1, <2>4, <2>6, <2>7, StepKeeps
<1> QED
  BY <1>1, <1>2, <1>3, <1>4, <1>5, <1>6, <1>7, <1>8, <1>9, <1>10, <1>11, <1>12,
     <1>13, <1>14, <1>15 DEF Step

\* The start of a request keeps the invariant: it holds no copy yet.
LEMMA BeginStep ==
    ASSUME RowsInv, NEW h \in Handlers, NEW r \in Requests, Begin(h, r)
    PROVE  RowsInv'
<1> DEFINE first == CASE r.op = "submit" -> "lookup"
                      [] r.op = "reorchestrate" -> "check"
                      [] OTHER -> "fetch"
           k == [Idle EXCEPT !.call = calls', !.req = r, !.stage = first]
<1>1. JobShape(k) /\ k.stage = first /\ k.req = r
  BY DEF JobShape, Idle
<1>2. /\ up /\ up' = up /\ events' = events /\ plans' = plans /\ audits' = audits
      /\ record' = record
  BY DEF Begin, durable
<1>3. job' = [job EXCEPT ![h] = k]
  BY DEF Begin, Become
<1>4. first \in {"lookup", "check", "fetch"} /\ (first = "lookup" => r.op = "submit")
  OBVIOUS
<1> HIDE DEF first
<1> HIDE DEF k
<1>5. ~Carries(k)
  BY <1>1, <1>4 DEF Carries, Carrying
<1>6. h \in Workers
  BY DEF Workers
<1> QED BY <1>1, <1>2, <1>3, <1>5, <1>6, StepKeeps

\* Recovery's own two steps keep the invariant.
LEMMA RecoveryStep ==
    ASSUME RowsInv, Recover \/ Replay
    PROVE  RowsInv'
<1>0. Main \in Workers /\ JobShape(job[Main])
  BY DEF Workers, RowsInv, JobsShaped
<1> DEFINE k == [job[Main] EXCEPT !.stage = "audit", !.rec = record]
<1>1. JobShape(k) /\ k.rec = record /\ k.stage = "audit"
  BY <1>0 DEF JobShape
<1>2. /\ up /\ up' = up /\ events' = events /\ plans' = plans /\ audits' = audits
      /\ record' = record
  BY DEF Recover, Replay, At, durable, bounds
<1>3. \/ job' = [job EXCEPT ![Main] = Idle]
      \/ record # NoRecord /\ job' = [job EXCEPT ![Main] = k]
  BY DEF Recover, Replay, Leave, GotoWith, Become
<1> HIDE DEF k
<1>4. CASE job' = [job EXCEPT ![Main] = Idle]
  BY <1>0, <1>2, <1>4, IdleCarriesNothing, StepKeeps
<1>5. CASE record # NoRecord /\ job' = [job EXCEPT ![Main] = k]
  <2>1. Storable(k, events', plans', audits')
    BY <1>1, <1>2, <1>5 DEF RowsInv, RecordTyped, LatestRowsStored, Storable
  <2> QED BY <1>0, <1>1, <1>2, <1>5, <2>1, StepKeeps
<1> QED BY <1>3, <1>4, <1>5

\* A stop leaves the database as it is and every handler idle.
LEMMA CrashStep ==
    ASSUME RowsInv, Crash
    PROVE  RowsInv'
<1>1. /\ events' = events /\ plans' = plans /\ audits' = audits /\ record' = record
      /\ job' = [h \in Workers |-> Idle]
  BY DEF Crash, durable
<1>2. RecordTyped' /\ LatestRowsStored'
  BY <1>1 DEF RowsInv, RecordTyped, LatestRowsStored
<1>3. JobsShaped' /\ CopiesStorable' /\ DownIsIdle'
  BY <1>1, IdleCarriesNothing DEF JobsShaped, CopiesStorable, DownIsIdle
<1> QED BY <1>2, <1>3 DEF RowsInv

\* Pruning keeps the newest row the record counts: only rows below it go.
LEMMA PruneKeeps ==
    ASSUME RowsInv, record # NoRecord, NEW now, Prune(now)
    PROVE  /\ CountedRow(events', record.events)
           /\ CountedRow(plans', record.plan)
           /\ CountedRow(audits', record.audits)
<1>0. /\ record.events \in Nat /\ record.plan \in Nat /\ record.audits \in Nat
      /\ CountedRow(events, record.events) /\ CountedRow(plans, record.plan)
      /\ CountedRow(audits, record.audits)
  BY DEF RowsInv, RecordTyped, LatestRowsStored, WorkflowRecord
<1>1. ASSUME NEW table, NEW new, NEW n \in Nat, CountedRow(table, n),
             NEW old \in SUBSET StaleRows(table, n, now),
             new = Restrict(table, DOMAIN table \ old)
      PROVE  CountedRow(new, n)
  <2>1. DOMAIN new = DOMAIN table \ old
    BY <1>1 DEF Restrict
  <2>2. n \notin old
    BY <1>1 DEF StaleRows
  <2> QED BY <1>1, <2>1, <2>2 DEF CountedRow
<1>2. PICK old \in SUBSET StaleRows(events, record.events, now) :
         events' = Restrict(events, DOMAIN events \ old)
  BY DEF Prune
<1>3. PICK oldPlans \in SUBSET StaleRows(plans, record.plan, now) :
         plans' = Restrict(plans, DOMAIN plans \ oldPlans)
  BY DEF Prune
<1>4. PICK oldAudits \in SUBSET StaleRows(audits, record.audits, now) :
         audits' = Restrict(audits, DOMAIN audits \ oldAudits)
  BY DEF Prune
<1> QED BY <1>0, <1>1, <1>2, <1>3, <1>4

\* A start, with or without a reboot, pruning and recovery.
LEMMA StartStep ==
    ASSUME RowsInv, NEW s \in Starts, Start(s)
    PROVE  RowsInv'
<1> DEFINE k == [Idle EXCEPT !.stage = "recover", !.req = [NoRequest EXCEPT !.op = "recover"]]
<1>0. \A h \in Workers : job[h] = Idle
  BY DEF RowsInv, DownIsIdle, Start
<1>1. job = [h \in Workers |-> job[h]] /\ Main \in Workers
  BY DEF RowsInv, JobsShaped, Workers
<1>2. job' = job \/ job' = [job EXCEPT ![Main] = k]
  BY DEF Start, Become
<1>3. JobShape(k) /\ k.stage = "recover"
  BY DEF JobShape, Idle
<1> HIDE DEF k
<1>4. ~Carries(k)
  BY <1>3 DEF Carries, Carrying
<1>5. JobsShaped'
  BY <1>0, <1>1, <1>2, <1>3, IdleCarriesNothing DEF JobsShaped
<1>6. \A h \in Workers : ~Carries(job'[h])
  BY <1>0, <1>1, <1>2, <1>4, IdleCarriesNothing
<1>7. CopiesStorable'
  BY <1>6 DEF CopiesStorable, Carries
<1>8. DownIsIdle' /\ RecordTyped'
  BY DEF Start, DownIsIdle, RowsInv, RecordTyped
<1>9. LatestRowsStored'
  <2>1. record' = record
    BY DEF Start
  <2>2. Prune(boot') \/ (events' = events /\ plans' = plans /\ audits' = audits)
    BY DEF Start
  <2> QED BY <2>1, <2>2, PruneKeeps DEF LatestRowsStored, RowsInv
<1> QED BY <1>5, <1>7, <1>8, <1>9 DEF RowsInv

\* The invariant holds initially.
LEMMA RowsInit == Init => RowsInv
<1> SUFFICES ASSUME Init PROVE RowsInv
  OBVIOUS
<1>1. RecordTyped /\ LatestRowsStored
  BY DEF Init, RecordTyped, LatestRowsStored
<1>2. JobsShaped /\ CopiesStorable /\ DownIsIdle
  BY IdleCarriesNothing DEF Init, JobsShaped, CopiesStorable, DownIsIdle
<1> QED BY <1>1, <1>2 DEF RowsInv

\* Every step keeps it.
LEMMA RowsStep == RowsInv /\ [Next]_vars => RowsInv'
<1> SUFFICES ASSUME RowsInv, [Next]_vars PROVE RowsInv'
  OBVIOUS
<1>1. CASE UNCHANGED vars
  BY <1>1 DEF vars, durable, memory, bounds, RowsInv, RecordTyped, JobsShaped, CopiesStorable,
              DownIsIdle, LatestRowsStored, Storable, Carries, CountedRow, JobShape
<1>2. ASSUME NEW h \in Handlers, NEW r \in Requests, Begin(h, r) PROVE RowsInv'
  BY <1>2, BeginStep
<1>3. ASSUME NEW h \in Workers, Step(h) \/ Abandon(h) PROVE RowsInv'
  BY <1>3, HandlerStep
<1>4. CASE Recover \/ Replay
  BY <1>4, RecoveryStep
<1>5. CASE Crash
  BY <1>5, CrashStep
<1>6. ASSUME NEW s \in Starts, Start(s) PROVE RowsInv'
  BY <1>6, StartStep
<1>7. CASE Finished
  BY <1>1, <1>7 DEF Finished
<1> QED BY <1>1, <1>2, <1>3, <1>4, <1>5, <1>6, <1>7 DEF Next, Workers

\* The rows a stored record counts as its newest are in the tables, for any
\* handlers, requests, stops, reboots and prunings (LatestRowsStored).
THEOREM NewestRowsStored == Spec => []LatestRowsStored
<1>1. RowsInv => LatestRowsStored
  BY DEF RowsInv
<1> QED BY <1>1, RowsInit, RowsStep, PTL DEF Spec

-----------------------------------------------------------------------------
(* Publication. *)

\* The stages from a write of the record to its publication.
Pending == {"announce", "audit", "close", "notify", "publish"}

\* The inductive invariant: a write nobody was told of has a handler on its way
\* to publish it.
PublishInv == unseen => \E h \in Workers : job[h].stage \in Pending

\* A handler's step keeps it unless the handler drops out of Pending.
LEMMA PendingKept ==
    ASSUME PublishInv, JobsShaped, NEW h \in Workers, NEW j, job' = [job EXCEPT ![h] = j],
           unseen' = unseen, job[h].stage \notin Pending
    PROVE  PublishInv'
<1> SUFFICES ASSUME unseen PROVE \E g \in Workers : job'[g].stage \in Pending
  BY DEF PublishInv
<1>1. PICK g \in Workers : job[g].stage \in Pending
  BY DEF PublishInv
<1>2. g # h
  BY <1>1
<1>3. job'[g] = job[g]
  BY <1>2 DEF JobsShaped
<1> QED BY <1>1, <1>3

\* Every step keeps it.
LEMMA PublishStep == RowsInv /\ PublishInv /\ [Next]_vars => PublishInv'
<1> SUFFICES ASSUME RowsInv, PublishInv, [Next]_vars PROVE PublishInv'
  OBVIOUS
<1>0. JobsShaped /\ \A h \in Workers : JobShape(job[h])
  BY DEF RowsInv, JobsShaped
<1>1. CASE UNCHANGED vars
  BY <1>1 DEF vars, PublishInv
<1>2. ASSUME NEW h \in Handlers, NEW r \in Requests, Begin(h, r) PROVE PublishInv'
  <2>1. h \in Workers /\ job[h].stage \notin Pending /\ unseen' = unseen
    BY <1>2 DEF Begin, Workers, Pending
  <2>2. \E j : job' = [job EXCEPT ![h] = j]
    BY <1>2 DEF Begin, Become
  <2> QED BY <1>0, <2>1, <2>2, PendingKept
<1>3. ASSUME NEW h \in Workers, Step(h) \/ Abandon(h) PROVE PublishInv'
  <2>1. CASE Upsert(h)
    <3> DEFINE k == [job[h] EXCEPT !.stage = AfterUpsert(job[h].stage)]
    <3>1. k.stage = AfterUpsert(job[h].stage)
      BY <1>0, MoveTo
    <3>2. AfterUpsert(job[h].stage) \in Pending
      BY <2>1 DEF Upsert, AfterUpsert, Pending
    <3>3. job' = [job EXCEPT ![h] = k]
      BY <2>1 DEF Upsert, Goto, Become
    <3> HIDE DEF k
    <3>4. job'[h].stage \in Pending
      BY <1>0, <3>1, <3>2, <3>3 DEF JobsShaped
    <3> QED BY <3>4 DEF PublishInv
  <2>2. CASE Publish(h)
    BY <2>2 DEF Publish, PublishInv
  <2>3. CASE WriteAudit(h)
    <3>1. PICK rec : job' = [job EXCEPT ![h] = [job[h] EXCEPT !.stage = "close", !.rec = rec]]
      BY <2>3 DEF WriteAudit, GotoWith, Become
    <3> DEFINE k == [job[h] EXCEPT !.stage = "close", !.rec = rec]
    <3>2. k.stage = "close"
      BY <1>0 DEF JobShape
    <3>3. job' = [job EXCEPT ![h] = k]
      BY <3>1
    <3> HIDE DEF k
    <3>4. job'[h].stage \in Pending
      BY <1>0, <3>2, <3>3 DEF JobsShaped, Pending
    <3> QED BY <3>4 DEF PublishInv
  <2>4. CASE Lookup(h) \/ Load(h) \/ Hydrate(h) \/ Run(h) \/ WritePlan(h)
               \/ PutIdempotency(h) \/ WriteEvent(h) \/ Resume(h) \/ Abandon(h)
               \/ Check(h) \/ Rehydrate(h) \/ Fetch(h)
    <3>1. job[h].stage \notin Pending
      BY <2>4 DEF Lookup, Load, Hydrate, Run, WritePlan, PutIdempotency, WriteEvent, Resume,
                  Abandon, Check, Rehydrate, Fetch, At, Pending
    <3>2. unseen' = unseen
      BY <2>4 DEF Lookup, Load, Hydrate, Run, WritePlan, PutIdempotency, WriteEvent, Resume,
                  Abandon, Check, Rehydrate, Fetch
    <3>3. \E j : job' = [job EXCEPT ![h] = j]
      <4>1. CASE Lookup(h) \/ Resume(h) \/ Check(h) \/ Rehydrate(h) \/ Fetch(h)
        BY <4>1 DEF Lookup, Resume, Check, Rehydrate, Fetch, Leave, Goto, GotoWith, Become
      <4>2. CASE Load(h) \/ Hydrate(h) \/ Run(h) \/ WritePlan(h)
        BY <4>2 DEF Load, Hydrate, Run, WritePlan, Goto, GotoWith, Become
      <4>3. CASE PutIdempotency(h) \/ WriteEvent(h) \/ Abandon(h)
        BY <4>3 DEF PutIdempotency, WriteEvent, Abandon, Leave, Goto, Become
      <4> QED BY <2>4, <4>1, <4>2, <4>3
    <3> QED BY <1>0, <3>1, <3>2, <3>3, PendingKept
  <2> QED BY <1>3, <2>1, <2>2, <2>3, <2>4 DEF Step
<1>4. CASE Recover \/ Replay
  <2>1. Main \in Workers /\ job[Main].stage \notin Pending /\ unseen' = unseen
    BY <1>4 DEF Recover, Replay, At, Workers, Pending
  <2>2. \E j : job' = [job EXCEPT ![Main] = j]
    BY <1>4 DEF Recover, Replay, Leave, GotoWith, Become
  <2> QED BY <1>0, <2>1, <2>2, PendingKept
<1>5. CASE Crash
  BY <1>5 DEF Crash, PublishInv
<1>6. ASSUME NEW s \in Starts, Start(s) PROVE PublishInv'
  <2>1. \A h \in Workers : job[h] = Idle
    BY <1>6 DEF RowsInv, DownIsIdle, Start
  <2>2. Idle.stage = "idle" /\ unseen' = unseen
    BY <1>6 DEF Idle, Start
  <2> QED BY <2>1, <2>2 DEF PublishInv, Pending
<1>7. CASE Finished
  BY <1>1, <1>7 DEF Finished
<1> QED BY <1>1, <1>2, <1>3, <1>4, <1>5, <1>6, <1>7 DEF Next, Workers

\* When no handler is at work, every write of the record has been published,
\* however requests, abandoned streams and stops interleave (UpdatesPublished).
THEOREM EveryWriteIsPublished == Spec => []UpdatesPublished
<1>1. Init => PublishInv
  BY DEF Init, PublishInv
<1>2. PublishInv => UpdatesPublished
  BY DEF PublishInv, UpdatesPublished, Quiet, Pending
<1> QED BY <1>1, <1>2, RowsInit, RowsStep, PublishStep, PTL DEF Spec
=============================================================================
