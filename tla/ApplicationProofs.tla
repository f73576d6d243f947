------------------------- MODULE ApplicationProofs -------------------------
(***************************************************************************)
(* Theorems about Application, for any workflows, connections and loads:   *)
(* types, the sockets that stop() closes, and what a dashboard stream has  *)
(* shown once it has caught up with the feed.                              *)
(***************************************************************************)
EXTENDS Application, TLAPS, SequenceTheorems

-----------------------------------------------------------------------------
(***************************************************************************)
(* Routing.                                                                *)
(***************************************************************************)
Statuses == {200, 400, 404, 405, 503}

(* What is known of the operation a request is routed to. *)
Sound(o, r) ==
    /\ o.status \in Statuses
    /\ o.op \in {"upsert_workflow", "submit"} => o.wf = r.body.wf
    /\ o.op = "upsert_task" => o.task = r.body.task

LEMMA RefusalIsSound ==
    ASSUME NEW r, NEW s \in Statuses
    PROVE  Sound(Refusal(s), r)
BY DEF Sound, Refusal

LEMMA AddressedIsSound ==
    ASSUME NEW r, NEW op, NEW w, NEW t, op \notin {"upsert_workflow", "submit"},
           op = "upsert_task" => t = r.body.task
    PROVE  Sound(Addressed(r, op, w, t), r)
BY RefusalIsSound DEF Addressed, Sound, Operation, Statuses

LEMMA VerbsAreActions ==
    ASSUME NEW v \in DOMAIN Verbs
    PROVE  Verbs[v] \in {"pause", "resume", "cancel", "manual"}
BY DEF Verbs

LEMMA OperatorRouteIsSound ==
    ASSUME NEW r
    PROVE  Sound(OperatorRoute(r), r)
<1>1. Sound(Refusal(400), r) /\ Sound(Refusal(404), r)
  BY RefusalIsSound DEF Statuses
<1>2. /\ Sound(Operation("dashboard", r.query, ""), r)
      /\ Sound(Operation("upsert_workflow", r.body.wf, ""), r)
  BY DEF Sound, Operation, Statuses
<1>3. /\ \A w : Sound(Addressed(r, "upsert_task", w, r.body.task), r)
      /\ \A w, t : Sound(Addressed(r, "delete_task", w, t), r)
  BY AddressedIsSound
<1>4. ASSUME \E v \in DOMAIN Verbs : OperatorWorkflow(r.path, v) # {}
      PROVE  \A w : Sound(Addressed(r, Verbs[r.path.verb], w, r.body.task), r)
  <2>1. r.path.verb \in DOMAIN Verbs
    BY <1>4 DEF OperatorWorkflow
  <2>2. Verbs[r.path.verb] \in {"pause", "resume", "cancel", "manual"}
    BY <2>1, VerbsAreActions
  <2> QED BY <2>2, AddressedIsSound
<1> QED
  BY <1>1, <1>2, <1>3, <1>4, Zenon DEF OperatorRoute

LEMMA RouteIsSound ==
    ASSUME NEW r, NEW control
    PROVE  Sound(Route(r, control), r)
<1>1. Sound(Refusal(400), r) /\ Sound(Refusal(404), r) /\ Sound(Refusal(405), r) /\ Sound(Refusal(503), r)
  BY RefusalIsSound DEF Statuses
<1>2. Sound(Operation("submit", r.body.wf, ""), r)
  BY DEF Sound, Operation, Statuses
<1>3. \A w : Sound(Addressed(r, "reorchestrate", w, r.body.task), r)
  BY AddressedIsSound
<1> QED
  BY <1>1, <1>2, <1>3, OperatorRouteIsSound, Zenon DEF Route

-----------------------------------------------------------------------------
(***************************************************************************)
(* The update feed: the numbers of the kept updates are consecutive and    *)
(* end with the latest.                                                    *)
(***************************************************************************)
Updates == [id : Nat, wf : Workflows]
Feeds == [latest : Nat, events : Seq(Updates), down : BOOLEAN]

FeedOK(f) ==
    /\ f \in Feeds
    /\ Len(f.events) <= KeptEvents
    /\ Len(f.events) <= f.latest
    /\ \A i \in 1..Len(f.events) : f.events[i].id = (f.latest - Len(f.events)) + i

(* An update of w after number n is kept; updates after n were dropped. *)
PendingIn(f, n, w) == \E i \in 1..Len(f.events) : f.events[i].id > n /\ f.events[i].wf = w
DroppedFrom(f, n) == n < f.latest - Len(f.events)

LEMMA EmptyFeedIsOK == FeedOK(EmptyFeed)
<1>1. EmptyFeed \in Feeds
  BY DEF EmptyFeed, Feeds
<1>2. EmptyFeed.events = << >> /\ EmptyFeed.latest = 0
  BY DEF EmptyFeed
<1>3. KeptEvents \in Nat
  BY RetainedAssumption DEF KeptEvents
<1> QED BY <1>1, <1>2, <1>3 DEF FeedOK

LEMMA ShutDownIsOK ==
    ASSUME NEW f, FeedOK(f)
    PROVE  /\ FeedOK(ShutDown(f))
           /\ ShutDown(f).latest = f.latest /\ ShutDown(f).events = f.events
<1>1. f \in Feeds
  BY DEF FeedOK
<1>2. /\ ShutDown(f) \in Feeds
      /\ ShutDown(f).latest = f.latest /\ ShutDown(f).events = f.events
  BY <1>1 DEF ShutDown, Feeds
<1> HIDE DEF ShutDown
<1> QED BY <1>2 DEF FeedOK

LEMMA FeedFields ==
    ASSUME NEW f, FeedOK(f)
    PROVE  /\ f.latest \in Nat /\ f.events \in Seq(Updates) /\ f.down \in BOOLEAN
           /\ Len(f.events) \in Nat
           /\ f.latest - Len(f.events) \in Nat
           /\ \A i \in 1..Len(f.events) : f.events[i] \in Updates
<1>1. f.latest \in Nat /\ f.events \in Seq(Updates) /\ f.down \in BOOLEAN
  BY DEF FeedOK, Feeds
<1>2. Len(f.events) \in Nat /\ Len(f.events) <= f.latest
  BY <1>1 DEF FeedOK
<1>3. \A i \in 1..Len(f.events) : f.events[i] \in Updates
  BY <1>1, ElementOfSeq
<1> QED BY <1>1, <1>2, <1>3

(* The parts of the feed after a publication. *)
LEMMA PublishForm ==
    ASSUME NEW f, FeedOK(f), NEW w \in Workflows
    PROVE  LET all == Append(f.events, [id |-> f.latest + 1, wf |-> w])
           IN /\ Publish(f, w) \in Feeds
              /\ Publish(f, w).latest = f.latest + 1
              /\ Publish(f, w).events = IF Len(all) > KeptEvents THEN Tail(all) ELSE all
<1> DEFINE u == [id |-> f.latest + 1, wf |-> w]
           all == Append(f.events, u)
           kept == IF Len(all) > KeptEvents THEN Tail(all) ELSE all
<1>1. f \in Feeds /\ f.latest \in Nat /\ f.events \in Seq(Updates) /\ Len(f.events) \in Nat
  BY FeedFields DEF FeedOK
<1>2. u \in Updates
  BY <1>1 DEF Updates
<1>3. all \in Seq(Updates) /\ Len(all) = Len(f.events) + 1
  BY <1>1, <1>2, AppendProperties
<1>4. all # << >>
  BY <1>1, <1>3
<1>5. Tail(all) \in Seq(Updates)
  BY <1>3, <1>4, HeadTailProperties
<1>6. kept \in Seq(Updates)
  BY <1>3, <1>5
<1>7. Publish(f, w) = [f EXCEPT !.latest = f.latest + 1, !.events = kept]
  BY Zenon DEF Publish
<1>8. f.latest + 1 \in Nat
  BY <1>1
<1> HIDE DEF kept
<1>9. /\ Publish(f, w) \in Feeds
      /\ Publish(f, w).latest = f.latest + 1 /\ Publish(f, w).events = kept
  BY <1>1, <1>6, <1>7, <1>8, Zenon DEF Feeds
<1> QED BY <1>9 DEF kept

(* Where the updates are after a publication: the new one last, the others *)
(* one place further to the front when the oldest was dropped.             *)
LEMMA PublishPlaces ==
    ASSUME NEW f, FeedOK(f), NEW w \in Workflows
    PROVE  \E d \in {0, 1} :
              /\ Len(Publish(f, w).events) = (Len(f.events) + 1) - d
              /\ Len(Publish(f, w).events) \in 1..KeptEvents
              /\ d = 1 => Len(f.events) # 0
              /\ Publish(f, w).events[(Len(f.events) + 1) - d] = [id |-> f.latest + 1, wf |-> w]
              /\ \A i \in (1 + d)..Len(f.events) : Publish(f, w).events[i - d] = f.events[i]
<1> DEFINE u == [id |-> f.latest + 1, wf |-> w]
           all == Append(f.events, u)
           n == Len(f.events)
<1>1. /\ f.latest \in Nat /\ f.events \in Seq(Updates) /\ n \in Nat /\ n <= KeptEvents
      /\ KeptEvents \in Nat /\ KeptEvents >= 1
  BY FeedFields, RetainedAssumption DEF FeedOK, KeptEvents
<1>2. u \in Updates
  BY <1>1 DEF Updates
<1>3. /\ all \in Seq(Updates) /\ Len(all) = n + 1
      /\ \A i \in 1..n : all[i] = f.events[i]
      /\ all[n + 1] = u
  BY <1>1, <1>2, AppendProperties
<1>4. Publish(f, w).events = IF Len(all) > KeptEvents THEN Tail(all) ELSE all
  BY PublishForm
<1>5. /\ Len(Tail(all)) = n
      /\ \A i \in 1..n : Tail(all)[i] = all[i + 1]
  <2>1. all # << >>
    BY <1>1, <1>3
  <2> HIDE DEF all
  <2>2. Len(Tail(all)) = Len(all) - 1 /\ \A i \in 1 .. Len(Tail(all)) : Tail(all)[i] = all[i + 1]
    BY <1>3, <2>1, HeadTailProperties
  <2> QED BY <1>1, <1>3, <2>2
<1> HIDE DEF all, u, n
<1>6. CASE Len(all) > KeptEvents
  <2>1. Publish(f, w).events = Tail(all) /\ n >= 1 /\ n = KeptEvents
    BY <1>1, <1>3, <1>4, <1>6
  <2>2. Tail(all)[n] = u
    BY <1>1, <1>3, <1>5, <2>1
  <2>3. \A i \in 2..n : Tail(all)[i - 1] = f.events[i]
    BY <1>1, <1>3, <1>5
  <2>4. /\ Len(Tail(all)) = (n + 1) - 1 /\ Len(Tail(all)) \in 1..KeptEvents
        /\ n # 0
        /\ Tail(all)[(n + 1) - 1] = u
        /\ \A i \in (1 + 1)..n : Tail(all)[i - 1] = f.events[i]
    BY <1>1, <1>5, <2>1, <2>2, <2>3
  <2> QED BY <2>1, <2>4 DEF n, u
<1>7. CASE ~(Len(all) > KeptEvents)
  <2>1. Publish(f, w).events = all
    BY <1>4, <1>7
  <2>2. /\ Len(all) = (n + 1) - 0 /\ Len(all) \in 1..KeptEvents
        /\ all[(n + 1) - 0] = u
        /\ \A i \in (1 + 0)..n : all[i - 0] = f.events[i]
    BY <1>1, <1>3, <1>7
  <2> QED BY <2>1, <2>2 DEF n, u
<1> QED BY <1>6, <1>7

LEMMA PublishIsOK ==
    ASSUME NEW f, FeedOK(f), NEW w \in Workflows
    PROVE  FeedOK(Publish(f, w))
<1> DEFINE g == Publish(f, w)
           n == Len(f.events)
<1>1. /\ f.latest \in Nat /\ n \in Nat /\ n <= f.latest
      /\ \A i \in 1..n : f.events[i].id = (f.latest - n) + i
  BY FeedFields DEF FeedOK
<1>2. g \in Feeds /\ g.latest = f.latest + 1
  BY PublishForm
<1>3. PICK d \in {0, 1} :
              /\ Len(g.events) = (n + 1) - d
              /\ Len(g.events) \in 1..KeptEvents
              /\ d = 1 => n # 0
              /\ g.events[(n + 1) - d] = [id |-> f.latest + 1, wf |-> w]
              /\ \A i \in (1 + d)..n : g.events[i - d] = f.events[i]
  BY PublishPlaces
<1>4. KeptEvents \in Nat
  BY RetainedAssumption DEF KeptEvents
<1> HIDE DEF g, n
<1>5. g.events[(n + 1) - d].id = f.latest + 1
  BY <1>3
<1>6. ASSUME NEW i \in 1..Len(g.events)
      PROVE  g.events[i].id = (g.latest - Len(g.events)) + i
  <2>1. CASE i = (n + 1) - d
    BY <1>1, <1>2, <1>3, <1>5, <2>1
  <2>2. CASE i # (n + 1) - d
    <3>1. i + d \in (1 + d)..n /\ i + d \in 1..n /\ (i + d) - d = i
      BY <1>1, <1>3, <2>2
    <3>2. g.events[i] = f.events[i + d]
      BY <1>3, <3>1
    <3>3. f.events[i + d].id = (f.latest - n) + (i + d)
      BY <1>1, <3>1
    <3> QED BY <1>1, <1>2, <1>3, <3>2, <3>3
  <2> QED BY <2>1, <2>2
<1>7. Len(g.events) <= g.latest /\ Len(g.events) <= KeptEvents
  BY <1>1, <1>2, <1>3, <1>4
<1> QED BY <1>2, <1>6, <1>7 DEF FeedOK, g

(* A publication keeps what is pending pending, or drops it. *)
LEMMA PublishKeeps ==
    ASSUME NEW f, FeedOK(f), NEW w \in Workflows, NEW k \in Nat, k <= f.latest
    PROVE  /\ PendingIn(Publish(f, w), k, w)
           /\ DroppedFrom(f, k) => DroppedFrom(Publish(f, w), k)
           /\ \A v : PendingIn(f, k, v) =>
                 PendingIn(Publish(f, w), k, v) \/ DroppedFrom(Publish(f, w), k)
<1> DEFINE g == Publish(f, w)
           n == Len(f.events)
<1>1. /\ f.latest \in Nat /\ n \in Nat /\ n <= f.latest
      /\ \A i \in 1..n : f.events[i].id = (f.latest - n) + i
  BY FeedFields DEF FeedOK
<1>2. g.latest = f.latest + 1
  BY PublishForm
<1>3. PICK d \in {0, 1} :
              /\ Len(g.events) = (n + 1) - d
              /\ Len(g.events) \in 1..KeptEvents
              /\ d = 1 => n # 0
              /\ g.events[(n + 1) - d] = [id |-> f.latest + 1, wf |-> w]
              /\ \A i \in (1 + d)..n : g.events[i - d] = f.events[i]
  BY PublishPlaces
<1> HIDE DEF g, n
<1>4. PendingIn(g, k, w)
  <2>1. (n + 1) - d \in 1..Len(g.events)
    BY <1>1, <1>3
  <2>2. g.events[(n + 1) - d].id = f.latest + 1 /\ g.events[(n + 1) - d].wf = w
    BY <1>3
  <2> QED BY <1>1, <2>1, <2>2 DEF PendingIn
<1>5. DroppedFrom(f, k) => DroppedFrom(g, k)
  BY <1>1, <1>2, <1>3 DEF DroppedFrom, n
<1>6. ASSUME NEW v, PendingIn(f, k, v)
      PROVE  PendingIn(g, k, v) \/ DroppedFrom(g, k)
  <2>1. PICK i \in 1..n : f.events[i].id > k /\ f.events[i].wf = v
    BY <1>6 DEF PendingIn, n
  <2>2. CASE i >= 1 + d
    <3>1. i - d \in 1..Len(g.events) /\ i \in (1 + d)..n
      BY <1>1, <1>3, <2>2
    <3>2. g.events[i - d] = f.events[i]
      BY <1>3, <3>1
    <3> QED BY <2>1, <3>1, <3>2 DEF PendingIn
  <2>3. CASE i < 1 + d
    <3>1. f.events[i].id = (f.latest - n) + i
      BY <1>1
    <3>2. i = 1 /\ d = 1
      BY <1>1, <2>3
    <3> QED BY <1>1, <1>2, <1>3, <2>1, <3>1, <3>2 DEF DroppedFrom
  <2> QED BY <1>3, <2>2, <2>3
<1> QED BY <1>4, <1>5, <1>6 DEF g

(* A caught-up position has nothing pending and nothing dropped. *)
LEMMA CaughtUp ==
    ASSUME NEW f, FeedOK(f)
    PROVE  /\ ~DroppedFrom(f, f.latest)
           /\ \A v : ~PendingIn(f, f.latest, v)
<1> DEFINE n == Len(f.events)
<1>1. /\ f.latest \in Nat /\ n \in Nat
      /\ \A i \in 1..n : f.events[i].id = (f.latest - n) + i
  BY FeedFields DEF FeedOK
<1> HIDE DEF n
<1>2. \A i \in 1..n : ~(f.events[i].id > f.latest)
  BY <1>1
<1>3. ~(f.latest < f.latest - n)
  BY <1>1
<1> QED BY <1>2, <1>3 DEF PendingIn, DroppedFrom, n

(* wait_for_update returns the first kept update after the position: what  *)
(* is pending then is that update, or still pending; a position whose next *)
(* updates were dropped jumps.                                             *)
LEMMA NextUpdateIs ==
    ASSUME NEW f, FeedOK(f), NEW k \in Nat, k <= f.latest, UpdatesAfter(f, k) # {}
    PROVE  LET u == NextUpdate(f, k)
           IN /\ u \in Updates /\ u.id \in Nat /\ u.id <= f.latest
              /\ DroppedFrom(f, k) => u.id > k + 1
              /\ \A v : PendingIn(f, k, v) => u.wf = v \/ PendingIn(f, u.id, v)
<1> DEFINE n == Len(f.events)
           b == f.latest - n
           m == IF k >= b THEN (k - b) + 1 ELSE 1
           U == UpdatesAfter(f, k)
           x == CHOOSE i \in U : \A j \in U : i <= j
<1>1. /\ f.latest \in Nat /\ n \in Nat /\ b \in Nat /\ b + n = f.latest
      /\ \A i \in 1..n : f.events[i] \in Updates
      /\ \A i \in 1..n : f.events[i].id = b + i
  <2>1. f.latest \in Nat /\ n \in Nat /\ b \in Nat /\ \A i \in 1..n : f.events[i] \in Updates
    BY FeedFields
  <2>2. \A i \in 1..n : f.events[i].id = b + i
    BY DEF FeedOK
  <2> QED BY <2>1, <2>2
<1>2. U = {i \in 1..n : ~f.down /\ f.events[i].id > k}
  BY DEF UpdatesAfter
<1> HIDE DEF n, b, U
<1>3. ~f.down
  BY <1>2 DEF U
<1>4. U = {i \in 1..n : b + i > k}
  BY <1>1, <1>2, <1>3
<1>5. PICK y \in U : TRUE
  BY DEF U
<1>6. m \in U /\ \A j \in U : m <= j
  <2>1. y \in 1..n /\ b + y > k
    BY <1>4, <1>5
  <2>2. m \in 1..n /\ b + m > k
    BY <1>1, <2>1
  <2>3. \A j \in 1..n : b + j > k => m <= j
    BY <1>1
  <2> HIDE DEF m
  <2> QED BY <1>4, <2>2, <2>3
<1>7. x \in U /\ \A j \in U : x <= j
  <2> HIDE DEF m
  <2> QED BY <1>6
<1>8. NextUpdate(f, k) = f.events[x]
  BY DEF NextUpdate, U
<1> HIDE DEF x, m
<1>9. x \in 1..n /\ b + x > k /\ f.events[x].id = b + x /\ f.events[x] \in Updates
  BY <1>1, <1>4, <1>7
<1>10. DroppedFrom(f, k) => f.events[x].id > k + 1
  BY <1>1, <1>9 DEF DroppedFrom, b, n
<1>11. ASSUME NEW v, PendingIn(f, k, v)
       PROVE  f.events[x].wf = v \/ PendingIn(f, f.events[x].id, v)
  <2>1. PICK i \in 1..n : f.events[i].id > k /\ f.events[i].wf = v
    BY <1>11 DEF PendingIn, n
  <2>2. i \in U
    BY <1>1, <1>4, <2>1
  <2>3. x <= i
    BY <1>7, <2>2
  <2>4. CASE x = i
    BY <2>1, <2>4
  <2>5. CASE x # i
    <3>1. f.events[i].id > f.events[x].id
      <4>1. f.events[i].id = b + i
        BY <1>1
      <4> QED BY <1>1, <1>9, <2>3, <2>5, <4>1
    <3> QED BY <2>1, <3>1 DEF PendingIn, n
  <2> QED BY <2>4, <2>5
<1>12. f.events[x].id \in Nat /\ f.events[x].id <= f.latest
  BY <1>1, <1>9
<1> QED BY <1>8, <1>9, <1>10, <1>11, <1>12

-----------------------------------------------------------------------------
(***************************************************************************)
(* The operator service: what a thread's job and the stored records are.   *)
(***************************************************************************)
Fields == {"at", "op", "wf", "task", "tasks", "rec"}

(* The steps at which a thread has found, or is to create, its record. *)
Named == {"submit", "save", "announce", "plan", "publish", "log", "mark", "row", "stamp", "tell"}

SoundJob(j) ==
    /\ DOMAIN j = Fields
    /\ j.at \in Steps /\ j.tasks \subseteq Tasks /\ j.rec \in Record
    /\ j.at \in Named => j.wf \in Workflows
    /\ j.at \in {"act", "mark"} => j.op \in Actions
    /\ j.at = "edit" /\ j.op = "upsert_task" => j.task \in Tasks

RecordsOK == record \in [Workflows -> Record \cup {NoRecord}]
AuditsOK == DOMAIN audits = Workflows /\ \A w \in Workflows : DOMAIN audits[w] \subseteq Nat
JobsOK == DOMAIN job = Threads /\ \A h \in Threads : SoundJob(job[h])

ServiceOK ==
    /\ RecordsOK /\ AuditsOK /\ JobsOK /\ FeedOK(feed)
    /\ first \in Workflows /\ raced \subseteq Workflows

(* The thread has written and not published yet. *)
Behind(j) ==
    \/ j.at \in {"announce", "publish", "stamp", "tell"}
    \/ j.at = "row" /\ j.op \in Actions

LEMMA UnpublishedIsBehind ==
    ASSUME NEW w
    PROVE  Unpublished(w) <=> \E h \in Threads : job[h].wf = w /\ Behind(job[h])
BY DEF Unpublished, Behind

(* Editing a copy of a record. *)
LEMMA RecordEdits ==
    ASSUME NEW rec \in Record
    PROVE  /\ rec.tasks \subseteq Tasks /\ rec.audits \in Nat
           /\ \A ts \in SUBSET Tasks : [rec EXCEPT !.tasks = ts] \in Record
           /\ \A ts \in SUBSET Tasks :
                 [rec EXCEPT !.tasks = ts, !.state = "submitted"] \in Record
           /\ \A s \in {"submitted", "planned", "failed", "paused", "cancelled"} :
                 [rec EXCEPT !.state = s] \in Record
           /\ \A s \in {"planned", "failed"} :
                 [rec EXCEPT !.state = s, !.answered = (s = "planned")] \in Record
           /\ \A n \in Nat : [rec EXCEPT !.audits = n] \in Record
           /\ \A op : StateAfter(op, rec) \in {"submitted", "planned", "failed", "paused", "cancelled"}
<1>1. rec.tasks \subseteq Tasks /\ rec.audits \in Nat
  BY DEF Record
<1>2. \A ts \in SUBSET Tasks : [rec EXCEPT !.tasks = ts] \in Record
  BY DEF Record
<1>3. \A ts \in SUBSET Tasks : [rec EXCEPT !.tasks = ts, !.state = "submitted"] \in Record
  BY Zenon DEF Record
<1>4. \A s \in {"submitted", "planned", "failed", "paused", "cancelled"} :
                 [rec EXCEPT !.state = s] \in Record
  BY DEF Record
<1>5. \A s \in {"planned", "failed"} :
                 [rec EXCEPT !.state = s, !.answered = (s = "planned")] \in Record
  <2> TAKE s \in {"planned", "failed"}
  <2>1. PICK b \in BOOLEAN : b = (s = "planned")
    OBVIOUS
  <2>2. \A c \in BOOLEAN : [rec EXCEPT !.state = s, !.answered = c] \in Record
    BY Zenon DEF Record
  <2> QED BY <2>1, <2>2, Zenon
<1>6. \A n \in Nat : [rec EXCEPT !.audits = n] \in Record
  BY DEF Record
<1>7. \A op : StateAfter(op, rec) \in {"submitted", "planned", "failed", "paused", "cancelled"}
  <2>1. rec.state \in {"submitted", "planned", "failed", "paused", "cancelled"}
    BY DEF Record
  <2> QED BY <2>1, Zenon DEF StateAfter
<1> QED BY <1>1, <1>2, <1>3, <1>4, <1>5, <1>6, <1>7, Zenon

LEMMA FreshIsRecord == FreshRecord \in Record
BY Zenon DEF FreshRecord, Record

(* How a job changes: its step, the tasks it holds, its copy of the record. *)
Turns(j, k, h, s, ts, r) ==
    /\ DOMAIN k = Threads
    /\ \A g \in Threads \ {h} : k[g] = j[g]
    /\ DOMAIN k[h] = Fields
    /\ k[h].at = s /\ k[h].op = j[h].op /\ k[h].wf = j[h].wf /\ k[h].task = j[h].task
    /\ k[h].tasks = ts /\ k[h].rec = r

LEMMA JobEdits ==
    ASSUME NEW j, NEW h \in Threads, DOMAIN j = Threads, DOMAIN j[h] = Fields, NEW s
    PROVE  /\ Turns(j, [j EXCEPT ![h].at = s], h, s, j[h].tasks, j[h].rec)
           /\ \A r : Turns(j, [j EXCEPT ![h].at = s, ![h].rec = r], h, s, j[h].tasks, r)
           /\ \A ts : Turns(j, [j EXCEPT ![h].at = s, ![h].tasks = ts], h, s, ts, j[h].rec)
<1>1. Turns(j, [j EXCEPT ![h].at = s], h, s, j[h].tasks, j[h].rec)
  BY Zenon DEF Turns, Fields
<1>2. \A r : Turns(j, [j EXCEPT ![h].at = s, ![h].rec = r], h, s, j[h].tasks, r)
  BY Zenon DEF Turns, Fields
<1>3. \A ts : Turns(j, [j EXCEPT ![h].at = s, ![h].tasks = ts], h, s, ts, j[h].rec)
  BY Zenon DEF Turns, Fields
<1> QED BY <1>1, <1>2, <1>3, Zenon

-----------------------------------------------------------------------------
(***************************************************************************)
(* A step of the service by thread h: it writes to the job's workflow and  *)
(* is behind with the publication, or publishes, or only reads.            *)
(***************************************************************************)
Wrote(h) ==
    /\ Behind(job'[h]) /\ job[h].wf \in Workflows /\ feed' = feed
    /\ record' \in [Workflows -> Record \cup {NoRecord}] /\ AuditsOK'
    /\ \A v \in Workflows \ {job[h].wf} : record'[v] = record[v] /\ audits'[v] = audits[v]
    /\ first' \in Workflows
    /\ raced = {} => first' \in {first, job[h].wf}

Published(h) ==
    /\ job[h].wf \in Workflows /\ feed' = Publish(feed, job[h].wf)
    /\ UNCHANGED <<record, audits, first>>

OnlyRead(h) ==
    /\ Behind(job[h]) => Behind(job'[h])
    /\ UNCHANGED <<record, audits, first, feed>>

StepOf(h) ==
    /\ DOMAIN job' = Threads
    /\ \A g \in Threads \ {h} : job'[g] = job[g]
    /\ SoundJob(job'[h]) /\ job'[h].wf = job[h].wf
    /\ raced' = raced
    /\ Wrote(h) \/ Published(h) \/ OnlyRead(h)

(* The guard of a step decides what the thread's next job must satisfy. *)
LEMMA TurnsSound ==
    ASSUME NEW j, NEW k, NEW h, NEW s \in Steps, NEW ts, NEW r, Turns(j, k, h, s, ts, r),
           ts \subseteq Tasks, r \in Record,
           s \in Named => j[h].wf \in Workflows,
           s \in {"act", "mark"} => j[h].op \in Actions,
           s # "edit"
    PROVE  SoundJob(k[h])
BY DEF Turns, SoundJob

LEMMA Stores ==
    ASSUME ServiceOK, NEW w \in Workflows, NEW rec \in Record, Store(w, rec)
    PROVE  /\ record' \in [Workflows -> Record \cup {NoRecord}]
           /\ \A v \in Workflows \ {w} : record'[v] = record[v]
           /\ first' \in Workflows
           /\ raced = {} => first' \in {first, w}
BY DEF Store, ServiceOK, RecordsOK

LEMMA FetchedRecord ==
    ASSUME ServiceOK, NEW h \in Threads, Fetched(h) # NoRecord
    PROVE  Fetched(h) \in Record /\ job[h].wf \in Workflows
BY DEF Fetched, ServiceOK, RecordsOK

(* Steps that read. *)
LEMMA ReadSteps ==
    ASSUME ServiceOK, NEW h \in Threads,
           EditConfig(h) \/ SubmitRead(h) \/ ReorchestrateRead(h) \/ ActRead(h) \/ LogRead(h)
    PROVE  StepOf(h)
<1> DEFINE j == job[h]
<1>1. /\ DOMAIN job = Threads /\ SoundJob(j) /\ DOMAIN j = Fields
      /\ j.tasks \in SUBSET Tasks /\ j.rec \in Record
  BY DEF ServiceOK, JobsOK, SoundJob
<1>2. raced' = raced /\ UNCHANGED <<record, audits, first, feed>>
  BY DEF EditConfig, SubmitRead, ReorchestrateRead, ActRead, LogRead
<1>3. ~Behind(j)
  BY DEF EditConfig, SubmitRead, ReorchestrateRead, ActRead, LogRead, At, Behind
<1>4. SUFFICES ASSUME TRUE
               PROVE  \E s \in Steps \ {"edit"}, ts \in SUBSET Tasks, r \in Record :
                         /\ Turns(job, job', h, s, ts, r)
                         /\ s \in Named => j.wf \in Workflows
                         /\ s \in {"act", "mark"} => j.op \in Actions
  <2>1. PICK s \in Steps \ {"edit"}, ts \in SUBSET Tasks, r \in Record :
                         /\ Turns(job, job', h, s, ts, r)
                         /\ s \in Named => j.wf \in Workflows
                         /\ s \in {"act", "mark"} => j.op \in Actions
    BY <1>4
  <2>2. SoundJob(job'[h])
    BY <2>1, TurnsSound
  <2>3. /\ DOMAIN job' = Threads /\ job'[h].wf = j.wf
        /\ \A g \in Threads \ {h} : job'[g] = job[g]
    BY <2>1 DEF Turns
  <2> QED BY <1>2, <1>3, <2>2, <2>3 DEF StepOf, OnlyRead
<1>5. ASSUME Goto(h, "done")
      PROVE  Turns(job, job', h, "done", j.tasks, j.rec)
  BY <1>1, <1>5, JobEdits, Zenon DEF Goto
<1>6. ASSUME NEW s, NEW r, Holding(h, s, r)
      PROVE  Turns(job, job', h, s, j.tasks, r)
  BY <1>1, <1>6, JobEdits, Zenon DEF Holding
<1>7. "done" \in Steps \ {"edit"} /\ "done" \notin Named \cup {"act", "mark"}
  BY DEF Steps, Named
<1>8. Goto(h, "done") => \E s \in Steps \ {"edit"}, ts \in SUBSET Tasks, r \in Record :
                         /\ Turns(job, job', h, s, ts, r)
                         /\ s \in Named => j.wf \in Workflows
                         /\ s \in {"act", "mark"} => j.op \in Actions
  BY <1>1, <1>5, <1>7
<1>9. CASE EditConfig(h)
  <2> DEFINE rec == Fetched(h)
             t == j.task
             refused == rec = NoRecord \/ (j.op = "delete_task" /\ t \notin rec.tasks)
             ts == IF j.op = "upsert_task" THEN rec.tasks \cup {t} ELSE rec.tasks \ {t}
  <2>1. /\ j.at = "edit"
        /\ IF refused THEN Goto(h, "done")
           ELSE job' = [job EXCEPT ![h].at = "submit", ![h].tasks = ts]
    BY <1>9, Zenon DEF EditConfig, At
  <2>2. CASE refused
    BY <1>8, <2>1, <2>2
  <2>3. CASE ~refused
    <3>1. rec \in Record /\ j.wf \in Workflows
      BY <2>3, FetchedRecord
    <3>2. rec.tasks \subseteq Tasks
      BY <3>1, RecordEdits
    <3>3. j.op = "upsert_task" => t \in Tasks
      BY <1>1, <2>1 DEF SoundJob
    <3>4. ts \in SUBSET Tasks
      BY <3>2, <3>3
    <3>5. job' = [job EXCEPT ![h].at = "submit", ![h].tasks = ts]
      BY <2>1, <2>3
    <3> HIDE DEF ts, rec
    <3>6. Turns(job, job', h, "submit", ts, j.rec)
      BY <1>1, <3>5, JobEdits, Zenon
    <3> QED BY <1>1, <3>1, <3>4, <3>6 DEF Steps
  <2> QED BY <2>2, <2>3
<1>10. CASE SubmitRead(h)
  <2> DEFINE old == IF Fetched(h) = NoRecord \/ j.op = "submit" THEN FreshRecord ELSE Fetched(h)
             new == [old EXCEPT !.tasks = j.tasks, !.state = "submitted"]
  <2>1. j.at = "submit" /\ Holding(h, "save", new)
    BY <1>10, Zenon DEF SubmitRead, At
  <2>2. old \in Record
    BY FetchedRecord, FreshIsRecord
  <2> HIDE DEF old
  <2>3. new \in Record
    BY <1>1, <2>2, RecordEdits, Zenon
  <2> HIDE DEF new
  <2>4. Turns(job, job', h, "save", j.tasks, new)
    BY <1>6, <2>1
  <2>5. j.wf \in Workflows
    BY <1>1, <2>1 DEF SoundJob, Named
  <2> QED BY <1>1, <2>3, <2>4, <2>5 DEF Steps
<1>11. CASE ReorchestrateRead(h)
  <2> DEFINE rec == Fetched(h)
  <2>1. Goto(h, "done") \/ (rec # NoRecord /\ Holding(h, "plan", rec))
    BY <1>11 DEF ReorchestrateRead
  <2>2. CASE Goto(h, "done")
    BY <1>8, <2>2
  <2>3. CASE rec # NoRecord /\ Holding(h, "plan", rec)
    <3>1. Turns(job, job', h, "plan", j.tasks, rec)
      BY <1>6, <2>3
    <3>2. rec \in Record /\ j.wf \in Workflows
      BY <2>3, FetchedRecord
    <3> QED BY <1>1, <3>1, <3>2 DEF Steps
  <2> QED BY <2>1, <2>2, <2>3
<1>12. CASE ActRead(h)
  <2> DEFINE rec == Fetched(h)
             next == IF j.op = "manual" THEN "row" ELSE "mark"
             new == [rec EXCEPT !.state = StateAfter(j.op, rec)]
  <2>1. /\ j.at = "act"
        /\ IF rec = NoRecord THEN Goto(h, "done") ELSE Holding(h, next, new)
    BY <1>12, Zenon DEF ActRead, At
  <2>2. CASE rec = NoRecord
    BY <1>8, <2>1, <2>2
  <2>3. CASE rec # NoRecord
    <3>1. rec \in Record /\ j.wf \in Workflows
      BY <2>3, FetchedRecord
    <3>2. new \in Record
      BY <3>1, RecordEdits
    <3>3. Holding(h, next, new)
      BY <2>1, <2>3
    <3>4. next \in {"row", "mark"} /\ next \in Steps \ {"edit"} /\ next # "act"
      BY DEF Steps
    <3>5. j.op \in Actions
      BY <1>1, <2>1 DEF SoundJob
    <3> HIDE DEF next, new
    <3>6. Turns(job, job', h, next, j.tasks, new)
      BY <1>6, <3>3
    <3> QED BY <1>1, <3>1, <3>2, <3>4, <3>5, <3>6
  <2> QED BY <2>2, <2>3
<1>13. CASE LogRead(h)
  <2>1. IF Fetched(h) = NoRecord THEN Goto(h, "done") ELSE Holding(h, "row", Fetched(h))
    BY <1>13 DEF LogRead
  <2>2. CASE Fetched(h) = NoRecord
    BY <1>8, <2>1, <2>2
  <2>3. CASE Fetched(h) # NoRecord
    <3>1. Turns(job, job', h, "row", j.tasks, Fetched(h))
      BY <1>6, <2>1, <2>3
    <3>2. Fetched(h) \in Record /\ j.wf \in Workflows
      BY <2>3, FetchedRecord
    <3> QED BY <1>1, <3>1, <3>2 DEF Steps
  <2> QED BY <2>2, <2>3
<1> QED BY <1>9, <1>10, <1>11, <1>12, <1>13

(* Steps that write the record, or an audit row. *)
LEMMA WriteSteps ==
    ASSUME ServiceOK, NEW h \in Threads,
           SubmitSave(h) \/ PlanSave(h) \/ ActMark(h) \/ AuditRow(h) \/ AuditStamp(h)
    PROVE  StepOf(h)
<1> DEFINE j == job[h]
           w == j.wf
<1>1. /\ DOMAIN job = Threads /\ SoundJob(j) /\ DOMAIN j = Fields
      /\ j.tasks \in SUBSET Tasks /\ j.rec \in Record
      /\ record \in [Workflows -> Record \cup {NoRecord}]
      /\ AuditsOK /\ first \in Workflows
  BY DEF ServiceOK, JobsOK, SoundJob, RecordsOK
<1>2. raced' = raced /\ feed' = feed
  BY DEF SubmitSave, PlanSave, ActMark, AuditRow, AuditStamp
<1>3. j.at \in {"save", "plan", "mark", "row", "stamp"} /\ w \in Workflows
  <2>1. j.at \in {"save", "plan", "mark", "row", "stamp"}
    BY DEF SubmitSave, PlanSave, ActMark, AuditRow, AuditStamp, At
  <2> QED BY <1>1, <2>1 DEF SoundJob, Named
<1>4. ASSUME NEW s, Goto(h, s)
      PROVE  Turns(job, job', h, s, j.tasks, j.rec)
  BY <1>1, <1>4, JobEdits, Zenon DEF Goto
<1>5. ASSUME NEW s, NEW r, Holding(h, s, r)
      PROVE  Turns(job, job', h, s, j.tasks, r)
  BY <1>1, <1>5, JobEdits, Zenon DEF Holding
<1>6. ASSUME NEW s \in {"announce", "publish", "row", "stamp", "tell"}, NEW r \in Record,
             Turns(job, job', h, s, j.tasks, r),
             s = "row" => j.op \in Actions
      PROVE  /\ DOMAIN job' = Threads /\ job'[h].wf = w
             /\ \A g \in Threads \ {h} : job'[g] = job[g]
             /\ SoundJob(job'[h]) /\ Behind(job'[h])
  <2>1. s \in Steps /\ s # "edit" /\ s \notin {"act", "mark"}
    BY DEF Steps
  <2>2. SoundJob(job'[h])
    BY <1>1, <1>3, <1>6, <2>1, TurnsSound
  <2>3. Behind(job'[h])
    BY <1>6 DEF Turns, Behind
  <2> QED BY <1>6, <2>2, <2>3 DEF Turns
<1>7. ASSUME NEW s \in {"announce", "publish", "row", "tell"}, NEW r \in Record,
             Turns(job, job', h, s, j.tasks, r), s = "row" => j.op \in Actions,
             Store(w, r), audits' = audits
      PROVE  StepOf(h)
  <2>1. /\ record' \in [Workflows -> Record \cup {NoRecord}]
        /\ \A v \in Workflows \ {w} : record'[v] = record[v]
        /\ first' \in Workflows
        /\ raced = {} => first' \in {first, w}
    BY <1>3, <1>7, Stores
  <2>2. AuditsOK'
    BY <1>1, <1>7 DEF AuditsOK
  <2>3. /\ DOMAIN job' = Threads /\ job'[h].wf = w
        /\ \A g \in Threads \ {h} : job'[g] = job[g]
        /\ SoundJob(job'[h]) /\ Behind(job'[h])
    BY <1>6, <1>7
  <2>4. Wrote(h)
    BY <1>2, <1>3, <1>7, <2>1, <2>2, <2>3 DEF Wrote
  <2> QED BY <1>2, <2>3, <2>4 DEF StepOf
<1>8. CASE SubmitSave(h)
  <2>1. Goto(h, "announce") /\ Store(w, j.rec) /\ audits' = audits
    BY <1>8 DEF SubmitSave
  <2> QED BY <1>1, <1>4, <1>7, <2>1
<1>9. CASE PlanSave(h)
  <2>1. PICK s \in {"planned", "failed"} :
           LET rec == [j.rec EXCEPT !.state = s, !.answered = (s = "planned")]
           IN Holding(h, "publish", rec) /\ Store(w, rec)
    BY <1>9, Zenon DEF PlanSave
  <2> DEFINE rec == [j.rec EXCEPT !.state = s, !.answered = (s = "planned")]
  <2>2. Holding(h, "publish", rec) /\ Store(w, rec) /\ audits' = audits
    BY <1>9, <2>1, Zenon DEF PlanSave
  <2>3. rec \in Record
    BY <1>1, RecordEdits, Zenon
  <2> HIDE DEF rec
  <2> QED BY <1>5, <1>7, <2>2, <2>3
<1>10. CASE ActMark(h)
  <2>1. j.at = "mark" /\ Goto(h, "row") /\ Store(w, j.rec) /\ audits' = audits
    BY <1>10 DEF ActMark, At
  <2>2. j.op \in Actions
    BY <1>1, <2>1 DEF SoundJob
  <2> QED BY <1>1, <1>4, <1>7, <2>1, <2>2
<1>11. CASE AuditStamp(h)
  <2>1. Goto(h, "tell") /\ Store(w, j.rec) /\ audits' = audits
    BY <1>11 DEF AuditStamp
  <2> QED BY <1>1, <1>4, <1>7, <2>1
<1>12. CASE AuditRow(h)
  <2> DEFINE seq == j.rec.audits + 1
             new == [j.rec EXCEPT !.audits = seq]
             rows == [s \in DOMAIN audits[w] \cup {seq} |-> IF s = seq THEN j.op ELSE audits[w][s]]
  <2>1. /\ audits' = [audits EXCEPT ![w] = rows]
        /\ Holding(h, "stamp", new) /\ UNCHANGED <<record, first>>
    BY <1>12, Zenon DEF AuditRow
  <2>2. seq \in Nat
    BY <1>1 DEF Record
  <2>3. new \in Record
    BY <1>1, <2>2, RecordEdits
  <2>4. DOMAIN rows \subseteq Nat
    BY <1>1, <1>3, <2>2 DEF AuditsOK
  <2> HIDE DEF rows, new, seq
  <2>5. AuditsOK' /\ \A v \in Workflows \ {w} : audits'[v] = audits[v]
    BY <1>1, <1>3, <2>1, <2>4 DEF AuditsOK
  <2>6. Turns(job, job', h, "stamp", j.tasks, new)
    BY <1>5, <2>1
  <2>7. /\ DOMAIN job' = Threads /\ job'[h].wf = w
        /\ \A g \in Threads \ {h} : job'[g] = job[g]
        /\ SoundJob(job'[h]) /\ Behind(job'[h])
    BY <1>6, <2>3, <2>6
  <2>8. Wrote(h)
    BY <1>1, <1>2, <1>3, <2>1, <2>5, <2>7 DEF Wrote
  <2> QED BY <1>2, <2>7, <2>8 DEF StepOf
<1> QED BY <1>8, <1>9, <1>10, <1>11, <1>12

LEMMA PublicationStep ==
    ASSUME ServiceOK, NEW h \in Threads, Publication(h)
    PROVE  StepOf(h)
<1> DEFINE j == job[h]
<1>1. /\ DOMAIN job = Threads /\ SoundJob(j) /\ DOMAIN j = Fields
      /\ j.tasks \in SUBSET Tasks /\ j.rec \in Record
  BY DEF ServiceOK, JobsOK, SoundJob
<1>2. /\ raced' = raced /\ UNCHANGED <<record, audits, first>>
      /\ feed' = Publish(feed, j.wf)
      /\ j.at \in {"announce", "publish", "tell"}
  BY DEF Publication, Announce, At
<1>3. j.wf \in Workflows
  BY <1>1, <1>2 DEF SoundJob, Named
<1>4. PICK s \in {"plan", "log", "done", "reorchestrate"} : Goto(h, s)
  BY DEF Publication
<1>5. Turns(job, job', h, s, j.tasks, j.rec)
  BY <1>1, <1>4, JobEdits, Zenon DEF Goto
<1>6. s \in Steps /\ s # "edit" /\ s \notin {"act", "mark"}
  BY DEF Steps
<1>7. SoundJob(job'[h])
  BY <1>1, <1>3, <1>5, <1>6, TurnsSound
<1> QED BY <1>2, <1>3, <1>5, <1>7 DEF StepOf, Published, Turns

LEMMA ServiceSteps ==
    ASSUME ServiceOK, NEW h \in Threads, ServiceStep(h)
    PROVE  StepOf(h)
BY ReadSteps, WriteSteps, PublicationStep DEF ServiceStep

LEMMA StepKeepsService ==
    ASSUME ServiceOK, NEW h \in Threads, StepOf(h)
    PROVE  ServiceOK'
<1>1. JobsOK'
  BY DEF StepOf, ServiceOK, JobsOK
<1>2. raced' \subseteq Workflows
  BY DEF StepOf, ServiceOK
<1>3. CASE Wrote(h)
  BY <1>1, <1>2, <1>3 DEF Wrote, ServiceOK, RecordsOK
<1>4. CASE Published(h)
  <2>1. FeedOK(feed')
    BY <1>4, PublishIsOK DEF Published, ServiceOK
  <2> QED BY <1>1, <1>2, <1>4, <2>1 DEF Published, ServiceOK, RecordsOK, AuditsOK
<1>5. CASE OnlyRead(h)
  BY <1>1, <1>2, <1>5 DEF OnlyRead, ServiceOK, RecordsOK, AuditsOK
<1> QED BY <1>3, <1>4, <1>5 DEF StepOf

-----------------------------------------------------------------------------
(***************************************************************************)
(* The server: types, and which connections have a job.                    *)
(***************************************************************************)
(* The stages before a connection's request is taken up. *)
Before == {"away", "refused", "backlog", "queued", "checked", "handshake", "reading"}

StreamsOK ==
    /\ DOMAIN note = Threads /\ DOMAIN shown = Threads /\ DOMAIN seen = Threads
    /\ \A c \in Threads : DOMAIN seen[c] = Workflows
    /\ \A c \in Threads : last[c] <= feed.latest

ConnectionsOK ==
    /\ \A c \in Threads : stage[c] # "away" => c \in DOMAIN script.request
    /\ \A c \in Threads : stage[c] \in Before => job[c].at = "idle"

MainOK == main \in Phases /\ failed \in BOOLEAN

Types == ServiceOK /\ ServerTypeOK /\ StreamsOK /\ ConnectionsOK /\ MainOK

LEMMA IdleIsSound == SoundJob(Idle) /\ Idle.at = "idle"
<1>1. /\ DOMAIN Idle = Fields /\ Idle.at = "idle" /\ Idle.tasks = {} /\ Idle.rec = FreshRecord
  BY Zenon DEF Idle, Fields
<1> QED BY <1>1, FreshIsRecord DEF SoundJob, Steps, Named

LEMMA InitTypes == Init => Types
<1> SUFFICES ASSUME Init PROVE Types
  OBVIOUS
<1>1. RecordsOK
  <2>1. Original \in SUBSET Tasks
    BY StoredAssumption
  <2>2. [FreshRecord EXCEPT !.tasks = Original] \in Record
    BY <2>1, FreshIsRecord, RecordEdits, Zenon
  <2>3. record = [w \in Workflows |->
                   IF w \in Stored THEN [FreshRecord EXCEPT !.tasks = Original] ELSE NoRecord]
    BY DEF Init, ServiceInit
  <2> DEFINE start == [FreshRecord EXCEPT !.tasks = Original]
  <2> HIDE DEF start
  <2>4. start \in Record /\ record = [w \in Workflows |-> IF w \in Stored THEN start ELSE NoRecord]
    BY <2>2, <2>3 DEF start
  <2> QED BY <2>4 DEF RecordsOK
<1>2. AuditsOK
  BY DEF Init, ServiceInit, AuditsOK
<1>3. JobsOK
  <2>1. job = [h \in Threads |-> Idle]
    BY DEF Init, ServiceInit
  <2> QED BY <2>1, IdleIsSound DEF JobsOK
<1>4. FeedOK(feed) /\ feed.latest = 0
  <2>1. feed = EmptyFeed
    BY DEF Init, ServiceInit
  <2>2. EmptyFeed.latest = 0
    BY DEF EmptyFeed
  <2> QED BY <2>1, <2>2, EmptyFeedIsOK
<1>5. first \in Workflows /\ raced \subseteq Workflows
  BY StoredAssumption DEF Init, ServiceInit
<1>6. ServerTypeOK
  BY DEF Init, ServerInit, ServerTypeOK, Stages
<1>7. StreamsOK
  <2>1. last = [c \in Threads |-> 0]
    BY DEF Init, ServerInit
  <2>2. \A c \in Threads : last[c] <= feed.latest
    BY <1>4, <2>1
  <2>3. /\ DOMAIN note = Threads /\ DOMAIN shown = Threads /\ DOMAIN seen = Threads
        /\ \A c \in Threads : DOMAIN seen[c] = Workflows
    BY DEF Init, ServerInit
  <2> QED BY <2>2, <2>3 DEF StreamsOK
<1>8. ConnectionsOK
  BY IdleIsSound DEF Init, ServerInit, ServiceInit, ConnectionsOK
<1>9. MainOK
  BY DEF Init, MainOK, Phases
<1> QED BY <1>1, <1>2, <1>3, <1>4, <1>5, <1>6, <1>7, <1>8, <1>9 DEF Types, ServiceOK

LEMMA TypesImply == Types => TypeOK
<1> SUFFICES ASSUME Types PROVE TypeOK
  OBVIOUS
<1>1. ServiceTypeOK
  <2>1. feed.latest \in Nat /\ Len(feed.events) <= KeptEvents
    BY FeedFields DEF Types, ServiceOK, FeedOK
  <2>2. \A h \in Threads : job[h].at \in Steps /\ job[h].tasks \subseteq Tasks
    BY DEF Types, ServiceOK, JobsOK, SoundJob
  <2>3. /\ \A w \in Workflows : record[w] \in Record \cup {NoRecord}
        /\ \A w \in Workflows : DOMAIN audits[w] \subseteq Nat
    BY DEF Types, ServiceOK, RecordsOK, AuditsOK
  <2> QED BY <2>1, <2>2, <2>3 DEF ServiceTypeOK, Types, ServiceOK
<1> QED BY <1>1 DEF Types, TypeOK, MainOK

(* A request's operation is taken up. *)
LEMMA BeginsSoundly ==
    ASSUME ServiceOK, NEW c \in Threads, script \in Scripts, c \in DOMAIN script.request,
           Begin(c, Route(Request(c), script.control), Request(c).asks)
    PROVE  /\ ServiceOK'
           /\ DOMAIN job' = Threads
           /\ \A g \in Threads \ {c} : job'[g] = job[g]
           /\ UNCHANGED <<record, audits, feed, first>>
           /\ raced \subseteq raced'
<1> DEFINE r == Request(c)
           o == Route(r, script.control)
           at == IF Complete(o) THEN FirstStep(o.op) ELSE "done"
           new == [Idle EXCEPT !.at = at, !.op = o.op, !.wf = o.wf, !.task = o.task,
                               !.tasks = Submitted]
<1>1. Sound(o, r)
  BY RouteIsSound
<1>2. r.body.wf \in Workflows \cup {""} /\ r.body.task \in Tasks \cup {""}
  BY ScriptsAssumption DEF Request
<1>3. /\ job' = [job EXCEPT ![c] = new]
      /\ UNCHANGED <<record, audits, feed, first>>
  BY Zenon DEF Begin
<1>4. raced \subseteq raced' /\ raced' \subseteq Workflows
  BY DEF Begin, ServiceOK
<1> HIDE DEF o, r
<1>5. /\ DOMAIN new = Fields /\ new.at = at /\ new.op = o.op /\ new.wf = o.wf
      /\ new.task = o.task /\ new.tasks = Submitted /\ new.rec = FreshRecord
  BY Zenon DEF Idle, Fields
<1>6. /\ at \in {"edit", "submit", "act", "reorchestrate", "done"}
      /\ at = "edit" => o.op \in {"upsert_task", "delete_task"} /\ Complete(o)
      /\ at = "submit" => o.op \in {"upsert_workflow", "submit"} /\ Complete(o)
      /\ at = "act" => o.op \in Actions
  BY Zenon DEF FirstStep
<1> HIDE DEF at, new
<1>7. at = "submit" => o.wf \in Workflows
  BY <1>1, <1>2, <1>6 DEF Sound, Complete
<1>8. at = "edit" /\ o.op = "upsert_task" => o.task \in Tasks
  BY <1>1, <1>2, <1>6 DEF Sound, Complete
<1>9. SoundJob(new)
  <2>1. new.at \in Steps /\ (new.at \in Named => new.at = "submit")
    BY <1>5, <1>6 DEF Steps, Named
  <2>2. new.tasks \subseteq Tasks /\ new.rec \in Record
    BY <1>5, StoredAssumption, FreshIsRecord
  <2>3. new.at \in {"act", "mark"} => new.op \in Actions
    BY <1>5, <1>6
  <2> QED BY <1>5, <1>7, <1>8, <2>1, <2>2, <2>3 DEF SoundJob
<1>10. /\ JobsOK' /\ DOMAIN job' = Threads
       /\ \A g \in Threads \ {c} : job'[g] = job[g]
  BY <1>3, <1>9 DEF ServiceOK, JobsOK
<1> QED BY <1>3, <1>4, <1>10 DEF ServiceOK, RecordsOK, AuditsOK

-----------------------------------------------------------------------------
(***************************************************************************)
(* Steps that leave the operator service alone.                            *)
(***************************************************************************)
LEMMA ServiceUnchanged ==
    ASSUME ServiceOK, UNCHANGED serviceVars
    PROVE  ServiceOK'
BY DEF ServiceOK, serviceVars, RecordsOK, AuditsOK, JobsOK

(* The shapes of a change to the server's stages. *)
LEMMA MovesConnection ==
    ASSUME ConnectionsOK, ServerTypeOK, NEW c \in Threads, NEW s \in Stages,
           stage' = [stage EXCEPT ![c] = s], UNCHANGED <<script, job>>,
           stage[c] # "away" \/ c \in DOMAIN script.request,
           s \in Before => stage[c] \in Before
    PROVE  ConnectionsOK' /\ stage' \in [Threads -> Stages]
BY DEF ConnectionsOK, ServerTypeOK

LEMMA StreamsUnchanged ==
    ASSUME StreamsOK, UNCHANGED <<streamVars, feed>>
    PROVE  StreamsOK'
BY DEF StreamsOK, streamVars

LEMMA ClientTypes ==
    ASSUME Types, NEW c \in Threads, Client(c)
    PROVE  Types'
<1>1. ServiceOK' /\ MainOK' /\ StreamsOK' /\ UNCHANGED <<script, job>>
  <2>1. UNCHANGED <<main, failed, script, streamVars, serviceVars>>
    BY DEF Client, Connect, Send, HangUp, poolVars
  <2>2. UNCHANGED <<job, feed>>
    BY <2>1 DEF serviceVars
  <2> QED BY <2>1, <2>2, ServiceUnchanged, StreamsUnchanged DEF Types, MainOK
<1>2. CASE Connect(c)
  <2>1. PICK s \in {"backlog", "refused"} : stage' = [stage EXCEPT ![c] = s]
    BY <1>2 DEF Connect, To
  <2>2. s \in Stages /\ s \in Before /\ stage[c] \in Before /\ c \in DOMAIN script.request
    BY <1>2 DEF Stages, Before, Connect
  <2>3. ConnectionsOK' /\ stage' \in [Threads -> Stages]
    BY <1>1, <2>1, <2>2, MovesConnection DEF Types
  <2>4. ServerTypeOK'
    BY <1>2, <2>3 DEF Types, ServerTypeOK, Connect, poolVars, streamVars
  <2> QED BY <1>1, <2>3, <2>4 DEF Types
<1>3. CASE Send(c) \/ HangUp(c)
  <2>1. ServerTypeOK'
    BY <1>3 DEF Types, ServerTypeOK, Send, HangUp, poolVars, streamVars
  <2>2. ConnectionsOK'
    BY <1>1, <1>3 DEF Types, ConnectionsOK, Send, HangUp
  <2> QED BY <1>1, <2>1, <2>2 DEF Types
<1> QED BY <1>2, <1>3 DEF Client

(* The steps of the server that only move a connection from stage to stage. *)
LEMMA MoveTypes ==
    ASSUME Types, NEW c \in Threads, UNCHANGED <<main, failed>>,
           \/ AcceptLoop(c) \/ HandleConnection(c) \/ RegisterSocket(c) \/ Handshake(c)
           \/ ReadFails(c) \/ Close(c) \/ TlsShutdown(c) \/ StreamLoop(c) \/ StreamKeepalive(c) \/ StreamEnd(c)
    PROVE  Types'
<1>1. UNCHANGED <<poolVars, streamVars, serviceVars, spoken, answer>>
  BY DEF AcceptLoop, HandleConnection, RegisterSocket, Handshake, ReadFails, Close, TlsShutdown,
         StreamLoop, StreamKeepalive, StreamEnd
<1>2. UNCHANGED <<job, feed, script>>
  BY <1>1 DEF serviceVars, poolVars
<1>3. ServiceOK' /\ StreamsOK' /\ MainOK'
  BY <1>1, <1>2, ServiceUnchanged, StreamsUnchanged DEF Types, MainOK
<1>4. /\ stage[c] # "away"
      /\ \E s \in Stages : stage' = [stage EXCEPT ![c] = s] /\ (s \in Before => stage[c] \in Before)
  BY DEF AcceptLoop, HandleConnection, RegisterSocket, Handshake, ReadFails, Close, TlsShutdown,
         StreamLoop, StreamKeepalive, StreamEnd, To, Before, Stages
<1>5. ConnectionsOK' /\ stage' \in [Threads -> Stages]
  BY <1>2, <1>4, MovesConnection DEF Types
<1>6. /\ socket' \in [Threads -> {"none", "open", "broken"}]
      /\ registered' \subseteq Threads /\ missed' \subseteq Threads
  BY DEF Types, ServerTypeOK, AcceptLoop, HandleConnection, RegisterSocket, Handshake,
         ReadFails, Close, TlsShutdown, StreamLoop, StreamKeepalive, StreamEnd
<1>7. ServerTypeOK'
  BY <1>1, <1>5, <1>6 DEF Types, ServerTypeOK, poolVars, streamVars
<1> QED BY <1>3, <1>5, <1>7 DEF Types

LEMMA StatusIsTyped ==
    ASSUME NEW c
    PROVE  Status(c) \in {0, 200, 400, 404, 405, 503}
<1>1. Route(Request(c), script.control).status \in Statuses
  BY RouteIsSound DEF Sound
<1> QED BY <1>1 DEF Status, Statuses

LEMMA ReplyTypes ==
    ASSUME Types, NEW c \in Threads, UNCHANGED <<main, failed>>, Reply(c)
    PROVE  Types'
<1>1. UNCHANGED <<poolVars, streamVars, serviceVars, socket, spoken, registered, missed>>
  BY DEF Reply
<1>2. UNCHANGED <<job, feed, script>>
  BY <1>1 DEF serviceVars, poolVars
<1>3. ServiceOK' /\ StreamsOK' /\ MainOK'
  BY <1>1, <1>2, ServiceUnchanged, StreamsUnchanged DEF Types, MainOK
<1>4. stage[c] # "away" /\ stage' = [stage EXCEPT ![c] = "closing"]
  BY DEF Reply, To
<1>5. ConnectionsOK' /\ stage' \in [Threads -> Stages]
  <2>1. "closing" \in Stages /\ "closing" \notin Before
    BY DEF Stages, Before
  <2> QED BY <1>2, <1>4, <2>1, MovesConnection DEF Types
<1>6. answer' \in [Threads -> {0, 200, 400, 404, 405, 503}]
  <2>1. answer' = answer \/ answer' = [answer EXCEPT ![c] = Status(c)]
    BY DEF Reply
  <2>2. answer \in [Threads -> {0, 200, 400, 404, 405, 503}]
    BY DEF Types, ServerTypeOK
  <2> QED BY <2>1, <2>2, StatusIsTyped
<1>7. ServerTypeOK'
  BY <1>1, <1>5, <1>6 DEF Types, ServerTypeOK, poolVars, streamVars
<1> QED BY <1>3, <1>5, <1>7 DEF Types

LEMMA DispatchTypes ==
    ASSUME Types, NEW c \in Threads, UNCHANGED <<main, failed>>, Dispatch(c)
    PROVE  /\ Types' /\ raced \subseteq raced'
           /\ UNCHANGED <<record, audits, feed, first>>
           /\ \A g \in Threads \ {c} : job'[g] = job[g]
<1>1. /\ UNCHANGED <<poolVars, streamVars, socket, spoken, registered, missed, answer>>
      /\ stage[c] = "reading"
  BY DEF Dispatch
<1>2. PICK s \in {"opening", "replying", "serving"} :
         /\ stage' = [stage EXCEPT ![c] = s]
         /\ UNCHANGED serviceVars \/ Begin(c, Route(Request(c), script.control), Request(c).asks)
  BY DEF Dispatch, To
<1>3. c \in DOMAIN script.request /\ script \in Scripts /\ script' = script
  BY <1>1 DEF Types, ConnectionsOK, ServerTypeOK, poolVars
<1>4. /\ ServiceOK' /\ raced \subseteq raced'
      /\ UNCHANGED <<record, audits, feed, first>>
      /\ \A g \in Threads \ {c} : job'[g] = job[g]
  <2>1. CASE UNCHANGED serviceVars
    <3>1. ServiceOK'
      BY <2>1, ServiceUnchanged DEF Types
    <3> QED BY <2>1, <3>1 DEF serviceVars
  <2>2. CASE Begin(c, Route(Request(c), script.control), Request(c).asks)
    BY <1>3, <2>2, BeginsSoundly DEF Types
  <2> QED BY <1>2, <2>1, <2>2
<1>5. ConnectionsOK' /\ stage' \in [Threads -> Stages]
  BY <1>2, <1>3, <1>4 DEF Types, ConnectionsOK, ServerTypeOK, Before, Stages
<1>6. ServerTypeOK'
  BY <1>1, <1>5 DEF Types, ServerTypeOK, poolVars, streamVars
<1>7. StreamsOK' /\ MainOK'
  BY <1>1, <1>4, StreamsUnchanged DEF Types, MainOK
<1> QED BY <1>4, <1>5, <1>6, <1>7 DEF Types

LEMMA ServeTypes ==
    ASSUME Types, NEW c \in Threads, UNCHANGED <<main, failed>>, Serve(c)
    PROVE  Types' /\ StepOf(c)
<1>1. UNCHANGED <<poolVars, connVars, streamVars>> /\ stage[c] = "serving" /\ ServiceStep(c)
  BY DEF Serve, serverVars
<1>2. StepOf(c) /\ ServiceOK'
  BY <1>1, ServiceSteps, StepKeepsService DEF Types
<1>3. ServerTypeOK'
  BY <1>1 DEF Types, ServerTypeOK, poolVars, connVars, streamVars
<1>4. ConnectionsOK'
  BY <1>1, <1>2 DEF Types, ConnectionsOK, Before, StepOf, connVars, poolVars
<1>5. feed.latest \in Nat /\ feed'.latest \in Nat /\ feed'.latest >= feed.latest
  <2>1. CASE Published(c)
    <3>1. feed'.latest = feed.latest + 1
      BY <2>1, PublishForm DEF Published, Types, ServiceOK
    <3> QED BY <3>1, FeedFields DEF Types, ServiceOK
  <2>2. CASE feed' = feed
    BY <2>2, FeedFields DEF Types, ServiceOK
  <2> QED BY <1>2, <2>1, <2>2 DEF StepOf, Wrote, OnlyRead
<1>6. StreamsOK'
  <2>1. last' = last /\ last \in [Threads -> Nat] /\ UNCHANGED <<note, shown, seen>>
    BY <1>1 DEF Types, ServerTypeOK, streamVars
  <2>2. \A c1 \in Threads : last'[c1] <= feed'.latest
    <3> TAKE c1 \in Threads
    <3>1. last[c1] \in Nat /\ last[c1] <= feed.latest
      BY <2>1 DEF Types, StreamsOK
    <3> QED BY <1>5, <2>1, <3>1
  <2> QED BY <2>1, <2>2 DEF Types, StreamsOK
<1>7. MainOK'
  BY DEF Types, MainOK
<1> QED BY <1>2, <1>3, <1>4, <1>6, <1>7 DEF Types

(* The steps of a dashboard stream that change what it has taken or shown. *)
LEMMA StreamTypes ==
    ASSUME Types, NEW c \in Threads, UNCHANGED <<main, failed>>,
           StreamOpen(c) \/ StreamDashboard(c) \/ StreamUpdate(c) \/ StreamPush(c)
    PROVE  Types'
<1>1. UNCHANGED <<poolVars, serviceVars, socket, spoken, registered, missed, answer>>
  BY DEF StreamOpen, StreamDashboard, StreamUpdate, StreamPush
<1>2. UNCHANGED <<job, feed, script>>
  BY <1>1 DEF serviceVars, poolVars
<1>3. ServiceOK' /\ MainOK'
  BY <1>1, ServiceUnchanged DEF Types, MainOK
<1>4. /\ stage[c] # "away"
      /\ \E s \in Stages : stage' = [stage EXCEPT ![c] = s] /\ (s \in Before => stage[c] \in Before)
  BY DEF StreamOpen, StreamDashboard, StreamUpdate, StreamPush, To, Before, Stages
<1>5. ConnectionsOK' /\ stage' \in [Threads -> Stages]
  BY <1>2, <1>4, MovesConnection DEF Types
<1>6. /\ feed.latest \in Nat /\ last \in [Threads -> Nat] /\ StreamsOK /\ FeedOK(feed)
      /\ lapped \subseteq Threads
  BY FeedFields DEF Types, ServiceOK, ServerTypeOK
<1>7. /\ last' \in [Threads -> Nat] /\ \A d \in Threads : last'[d] <= feed'.latest
      /\ lapped' \subseteq Threads /\ DOMAIN note' = Threads
  <2>1. CASE StreamOpen(c)
    <3>1. /\ last' = [last EXCEPT ![c] = feed.latest] /\ feed' = feed
          /\ UNCHANGED <<lapped, note>>
      BY <1>2, <2>1 DEF StreamOpen
    <3> QED BY <1>6, <3>1 DEF StreamsOK
  <2>2. CASE StreamDashboard(c) \/ StreamPush(c)
    <3>1. last' = last /\ feed' = feed /\ UNCHANGED <<lapped, note>>
      BY <1>2, <2>2 DEF StreamDashboard, StreamPush
    <3> QED BY <1>6, <3>1 DEF StreamsOK
  <2>3. CASE StreamUpdate(c)
    <3> DEFINE u == NextUpdate(feed, last[c])
    <3>1. /\ last' = [last EXCEPT ![c] = u.id] /\ feed' = feed
          /\ note' = [note EXCEPT ![c] = u.wf]
          /\ lapped' \subseteq lapped \cup {c}
          /\ UpdatesAfter(feed, last[c]) # {}
      BY <1>2, <2>3 DEF StreamUpdate
    <3>2. last[c] \in Nat /\ last[c] <= feed.latest
      BY <1>6 DEF StreamsOK
    <3>3. u.id \in Nat /\ u.id <= feed.latest
      BY <1>6, <3>1, <3>2, NextUpdateIs
    <3> HIDE DEF u
    <3> QED BY <1>6, <3>1, <3>3 DEF StreamsOK
  <2> QED BY <2>1, <2>2, <2>3
<1>8. /\ DOMAIN shown' = Threads /\ DOMAIN seen' = Threads
      /\ \A d \in Threads : DOMAIN seen'[d] = Workflows
  <2>1. CASE UNCHANGED <<shown, seen>>
    BY <1>6, <2>1 DEF StreamsOK
  <2>2. CASE Show(c, TRUE) \/ Show(c, Selected(Query(c)) = note[c])
    <3> DEFINE w == Selected(Query(c))
    <3>1. shown' = [shown EXCEPT ![c] = w]
      BY <2>2 DEF Show
    <3>2. seen' = seen \/ seen' = [seen EXCEPT ![c][w] = Detail(w)]
      BY <2>2, Zenon DEF Show
    <3> HIDE DEF w
    <3>3. DOMAIN shown' = Threads
      BY <1>6, <3>1 DEF StreamsOK
    <3>4. DOMAIN seen' = Threads /\ \A d \in Threads : DOMAIN seen'[d] = Workflows
      BY <1>6, <3>2 DEF StreamsOK
    <3> QED BY <3>3, <3>4
  <2> QED BY <2>1, <2>2 DEF StreamOpen, StreamDashboard, StreamUpdate, StreamPush
<1>9. StreamsOK'
  BY <1>7, <1>8 DEF StreamsOK
<1>10. ServerTypeOK'
  BY <1>1, <1>5, <1>7 DEF Types, ServerTypeOK, poolVars
<1> QED BY <1>3, <1>5, <1>9, <1>10 DEF Types

(* The main thread. *)
LEMMA MainTypes ==
    ASSUME Types, StartHttp \/ StartGrpc \/ StopRequested \/ Stopping
    PROVE  Types'
<1>1. UNCHANGED <<script, streamVars, spoken, registered, missed, answer, job>>
  BY DEF StartHttp, StartGrpc, StopRequested, Stopping, StopFeed, StopGrpc, StopHttp,
         CloseAcceptor, StopPool, CloseActiveSockets, JoinPool, StopExecutor,
         serverVars, serviceVars, poolVars, connVars
<1>2. MainOK'
  BY DEF Types, MainOK, Phases, StartHttp, StartGrpc, StopRequested, Stopping, StopFeed, StopGrpc,
         StopHttp, CloseAcceptor, StopPool, CloseActiveSockets, JoinPool, StopExecutor, Step
<1>3. ServiceOK' /\ feed'.latest = feed.latest
  <2>1. CASE StopFeed
    <3>1. feed' = ShutDown(feed) /\ UNCHANGED <<record, audits, first, job, raced>>
      BY <2>1 DEF StopFeed
    <3>2. FeedOK(feed') /\ feed'.latest = feed.latest
      BY <3>1, ShutDownIsOK DEF Types, ServiceOK
    <3> QED BY <3>1, <3>2 DEF Types, ServiceOK, RecordsOK, AuditsOK, JobsOK
  <2>2. CASE ~StopFeed
    <3>1. UNCHANGED serviceVars
      BY <2>2 DEF StartHttp, StartGrpc, StopRequested, Stopping, StopGrpc, StopHttp,
         CloseAcceptor, StopPool, CloseActiveSockets, JoinPool, StopExecutor
    <3>2. ServiceOK'
      BY <3>1, ServiceUnchanged DEF Types
    <3> QED BY <3>1, <3>2 DEF serviceVars
  <2> QED BY <2>1, <2>2
<1>4. StreamsOK'
  BY <1>1, <1>3 DEF Types, StreamsOK, streamVars
<1>5. /\ stage' \in [Threads -> Stages]
      /\ \A c \in Threads : \/ stage'[c] = stage[c]
                            \/ /\ stage[c] = "backlog"
                               /\ stage'[c] = "refused"
                            \/ /\ stage[c] = "queued"
                               /\ stage'[c] = "done"
  <2>1. stage \in [Threads -> Stages] /\ "refused" \in Stages /\ "done" \in Stages
    BY DEF Types, ServerTypeOK, Stages
  <2>2. CASE CloseAcceptor \/ JoinPool
    BY <2>1, <2>2 DEF CloseAcceptor, JoinPool
  <2>3. CASE ~(CloseAcceptor \/ JoinPool)
    <3>1. stage' = stage
      BY <2>3 DEF StartHttp, StartGrpc, StopRequested, Stopping, StopFeed, StopGrpc, StopHttp,
                  StopPool, CloseActiveSockets, StopExecutor, connVars, serverVars
    <3> QED BY <2>1, <3>1
  <2> QED BY <2>2, <2>3
<1>6. ConnectionsOK'
  BY <1>1, <1>5 DEF Types, ConnectionsOK, Before
<1>7. /\ running' \in BOOLEAN /\ listening' \in BOOLEAN /\ swept' \in BOOLEAN
      /\ pool' \in {"none", "up", "stopped"}
  BY DEF Types, ServerTypeOK, StartHttp, StartGrpc, StopRequested, Stopping, StopFeed, StopGrpc,
         StopHttp, CloseAcceptor, StopPool, CloseActiveSockets, JoinPool, StopExecutor,
         serverVars, poolVars
<1>8. socket' \in [Threads -> {"none", "open", "broken"}]
  <2>1. socket \in [Threads -> {"none", "open", "broken"}]
    BY DEF Types, ServerTypeOK
  <2>2. CASE CloseAcceptor \/ CloseActiveSockets \/ JoinPool
    BY <2>1, <2>2 DEF CloseAcceptor, CloseActiveSockets, JoinPool
  <2>3. CASE ~(CloseAcceptor \/ CloseActiveSockets \/ JoinPool)
    BY <2>1, <2>3 DEF StartHttp, StartGrpc, StopRequested, Stopping, StopFeed, StopGrpc, StopHttp,
                      StopPool, StopExecutor, connVars, serverVars
  <2> QED BY <2>2, <2>3
<1>9. ServerTypeOK'
  BY <1>1, <1>5, <1>7, <1>8 DEF Types, ServerTypeOK, streamVars
<1> QED BY <1>2, <1>3, <1>4, <1>6, <1>9 DEF Types

(* HandlerStep, and the steps of the accept thread and of the pool. *)
LEMMA ServerTypes ==
    ASSUME Types, NEW c \in Threads, Server(c)
    PROVE  Types'
BY MoveTypes, ReplyTypes, DispatchTypes, ServeTypes, StreamTypes DEF Server, HandlerStep

LEMMA StutterTypes ==
    ASSUME Types, UNCHANGED vars
    PROVE  Types'
<1>1. UNCHANGED <<main, failed, poolVars, connVars, streamVars, serviceVars>>
  BY DEF vars, serverVars
<1>2. UNCHANGED <<job, feed, script, stage>>
  BY <1>1 DEF serviceVars, poolVars, connVars
<1>3. ServiceOK' /\ StreamsOK' /\ MainOK'
  BY <1>1, <1>2, ServiceUnchanged, StreamsUnchanged DEF Types, MainOK
<1>4. ConnectionsOK'
  BY <1>2 DEF Types, ConnectionsOK
<1>5. ServerTypeOK'
  BY <1>1 DEF Types, ServerTypeOK, poolVars, connVars, streamVars
<1> QED BY <1>3, <1>4, <1>5 DEF Types

LEMMA NextTypes == Types /\ [Next]_vars => Types'
BY MainTypes, ServerTypes, ClientTypes, StutterTypes DEF Next

(***************************************************************************)
(* Every variable keeps its type, for any set of workflows, connections    *)
(* and loads: the ids that reach the store after routing are ids of        *)
(* workflows, the copies of records that the edits hold are records, and   *)
(* the feed never holds more than it keeps.                                *)
(***************************************************************************)
THEOREM ApplicationIsTyped == Spec => []TypeOK
<1>1. Init => Types
  BY InitTypes
<1>2. Types /\ [Next]_vars => Types'
  BY NextTypes
<1>3. Types => TypeOK
  BY TypesImply
<1> QED BY <1>1, <1>2, <1>3, PTL DEF Spec

-----------------------------------------------------------------------------
(***************************************************************************)
(* The sockets that stop() closes.                                         *)
(***************************************************************************)
(* A handler in its TLS shutdown is no longer registered.  Without a pool  *)
(* no handler runs, and before the start and after the stop there is none. *)
SocketsOK ==
    /\ registered \subseteq Busy
    /\ \A c \in registered : stage[c] # "parting"
    /\ pool = "none" => Busy = {}
    /\ main \in {"start_http", "stop_executor", "exited"} => pool = "none"

LEMMA InitSockets == Init => SocketsOK
<1>1. Init => /\ stage = [c \in Threads |-> "away"]
              /\ registered = {} /\ pool = "none"
  BY DEF Init, ServerInit
<1>2. "away" \notin Handling
  BY DEF Handling
<1> QED BY <1>1, <1>2 DEF SocketsOK, Busy

LEMMA ServerSockets ==
    ASSUME Types, SocketsOK, NEW c \in Threads, Server(c)
    PROVE  SocketsOK'
<1>1. main' = main /\ pool' = pool /\ stage \in [Threads -> Stages]
  BY DEF Server, AcceptLoop, HandleConnection, HandlerStep, RegisterSocket, Handshake, ReadFails,
         Dispatch, Serve, Reply, Close, TlsShutdown, StreamOpen, StreamDashboard, StreamLoop, StreamUpdate,
         StreamKeepalive, StreamPush, StreamEnd, poolVars, serverVars, Types, ServerTypeOK
<1>2. CASE AcceptLoop(c)
  <2>1. registered' = registered /\ stage[c] = "backlog" /\ stage' = [stage EXCEPT ![c] = "queued"]
    BY <1>2 DEF AcceptLoop, To
  <2>2. Busy' = Busy /\ \A d \in Threads : stage'[d] = "parting" => stage[d] = "parting"
    BY <1>1, <2>1 DEF Busy, Handling, Stages
  <2> QED BY <1>1, <2>1, <2>2 DEF SocketsOK, Busy
<1>3. CASE HandleConnection(c)
  <2>1. /\ registered' = registered /\ stage[c] = "queued" /\ pool = "up"
        /\ \E s \in {"checked", "done"} : stage' = [stage EXCEPT ![c] = s]
    BY <1>3 DEF HandleConnection, To
  <2>2. Busy \subseteq Busy' /\ \A d \in Threads : stage'[d] = "parting" => stage[d] = "parting"
    BY <1>1, <2>1 DEF Busy, Handling, Stages
  <2> QED BY <1>1, <2>1, <2>2 DEF SocketsOK, Busy
<1>4. CASE HandlerStep(c)
  <2>1. stage[c] \in Handling /\ c \in Busy
    BY <1>4 DEF HandlerStep, RegisterSocket, Handshake, ReadFails, Dispatch, Serve, Reply, Close, TlsShutdown,
             StreamOpen, StreamDashboard, StreamLoop, StreamUpdate, StreamKeepalive, StreamPush,
             StreamEnd, Busy, Handling, Stages
  <2>2. pool # "none"
    BY <2>1 DEF SocketsOK
  <2>3. CASE registered' = registered \ {c} /\ stage' = [stage EXCEPT ![c] = "done"]
    <3>1. Busy \ {c} \subseteq Busy' /\ \A d \in Threads \ {c} : stage'[d] = stage[d]
      BY <1>1, <2>3 DEF Busy
    <3> QED BY <1>1, <2>2, <2>3, <3>1 DEF SocketsOK, Busy
  <2>4. CASE /\ registered' \subseteq registered \cup {c}
             /\ \E s \in Handling : /\ stage' = [stage EXCEPT ![c] = s]
                                    /\ s = "parting" => c \notin registered'
    <3>1. Busy \subseteq Busy' /\ \A d \in Threads \ {c} : stage'[d] = stage[d]
      BY <1>1, <2>1, <2>4 DEF Busy
    <3>2. PICK s \in Handling : /\ stage' = [stage EXCEPT ![c] = s]
                                /\ s = "parting" => c \notin registered'
      BY <2>4
    <3>3. stage'[c] = s
      BY <1>1, <3>2
    <3>4. ASSUME NEW d \in registered' PROVE stage'[d] # "parting"
      <4>1. CASE d = c
        BY <3>2, <3>3, <3>4, <4>1
      <4>2. CASE d # c
        <5>1. d \in registered /\ d \in Threads
          BY <2>4, <4>2 DEF SocketsOK, Busy
        <5> QED BY <3>1, <4>2, <5>1 DEF SocketsOK
      <4> QED BY <4>1, <4>2
    <3>5. registered' \subseteq Busy'
      BY <2>1, <2>4, <3>1 DEF SocketsOK
    <3> QED BY <1>1, <2>2, <3>4, <3>5 DEF SocketsOK
  <2>5. CASE stage' = stage /\ registered' = registered
    BY <1>1, <2>5 DEF SocketsOK, Busy
  <2>6. CASE Handshake(c)
    BY <2>3, <2>4, <2>6 DEF Handshake, To, Handling, Stages
  <2>p. CASE TlsShutdown(c)
    <3>1. /\ registered' = registered /\ stage[c] = "parting"
          /\ stage' = [stage EXCEPT ![c] = "done"]
      BY <2>p DEF TlsShutdown, To
    <3> QED BY <2>3, <3>1 DEF SocketsOK
  <2>c. CASE Close(c)
    <3>1. registered' = registered \ {c}
      BY <2>c DEF Close
    <3>2. stage' = [stage EXCEPT ![c] = "parting"] \/ stage' = [stage EXCEPT ![c] = "done"]
      BY <2>c DEF Close, To
    <3> QED BY <2>3, <2>4, <3>1, <3>2 DEF Handling, Stages
  <2>7. CASE Serve(c)
    BY <2>5, <2>7 DEF Serve, serverVars, connVars
  <2>8. CASE Dispatch(c)
    BY <2>4, <2>8 DEF Dispatch, To, Handling, Stages
  <2>9. CASE \/ RegisterSocket(c) \/ ReadFails(c) \/ Reply(c)
             \/ StreamOpen(c) \/ StreamDashboard(c) \/ StreamLoop(c) \/ StreamUpdate(c)
             \/ StreamKeepalive(c) \/ StreamPush(c) \/ StreamEnd(c)
    BY <2>4, <2>9 DEF RegisterSocket, ReadFails, Reply, StreamOpen, StreamDashboard,
         StreamLoop, StreamUpdate, StreamKeepalive, StreamPush, StreamEnd, To, Handling, Stages
  <2> QED BY <1>4, <2>6, <2>p, <2>c, <2>7, <2>8, <2>9 DEF HandlerStep
<1> QED BY <1>2, <1>3, <1>4 DEF Server

LEMMA NextSockets == Types /\ SocketsOK /\ [Next]_vars => SocketsOK'
<1> SUFFICES ASSUME Types, SocketsOK, [Next]_vars PROVE SocketsOK'
  OBVIOUS
<1>1. stage \in [Threads -> Stages]
  BY DEF Types, ServerTypeOK
<1>2. ASSUME NEW c \in Threads, Client(c) PROVE SocketsOK'
  <2>1. UNCHANGED <<main, pool, registered>>
    BY <1>2 DEF Client, Connect, Send, HangUp, poolVars
  <2>2. \/ stage' = stage
        \/ /\ stage[c] = "away"
           /\ \E s \in {"backlog", "refused"} : stage' = [stage EXCEPT ![c] = s]
    BY <1>2 DEF Client, Connect, Send, HangUp, To
  <2>3. Busy' = Busy /\ \A d \in Threads : stage'[d] = "parting" => stage[d] = "parting"
    BY <1>1, <2>2 DEF Busy, Handling, Stages
  <2> QED BY <2>1, <2>3 DEF SocketsOK, Busy
<1>3. CASE CloseAcceptor \/ JoinPool
  <2>1. /\ registered' = registered
        /\ \/ pool' = pool /\ main' = "stop_pool"
           \/ pool' = "none"
    BY <1>3 DEF CloseAcceptor, JoinPool, Step
  <2>2. Busy' = Busy /\ (JoinPool => Busy = {})
    <3>1. "refused" \notin Handling /\ "done" \notin Handling
          /\ "backlog" \notin Handling /\ "queued" \notin Handling
      BY DEF Handling
    <3>2. \A c \in Threads : stage'[c] \in Handling <=> stage[c] \in Handling
      BY <1>1, <1>3, <3>1 DEF CloseAcceptor, JoinPool
    <3> QED BY <1>3, <3>2 DEF Busy, JoinPool
  <2>3. \A c \in Threads : stage'[c] = "parting" => stage[c] = "parting"
    BY <1>1, <1>3 DEF CloseAcceptor, JoinPool
  <2> QED BY <1>3, <2>1, <2>2, <2>3 DEF SocketsOK, CloseAcceptor, Busy
<1>4. CASE \/ StartHttp \/ StartGrpc \/ StopRequested \/ StopFeed \/ StopGrpc \/ StopHttp
           \/ StopPool \/ CloseActiveSockets \/ StopExecutor
  <2>1. UNCHANGED <<stage, registered>>
    BY <1>4 DEF StartHttp, StartGrpc, StopRequested, StopFeed, StopGrpc, StopHttp,
                StopPool, CloseActiveSockets, StopExecutor, serverVars, connVars
  <2>2. Busy' = Busy
    BY <2>1 DEF Busy
  <2>3. /\ pool' = "none" => pool = "none"
        /\ main' \in {"start_http", "stop_executor", "exited"} =>
              main \in {"start_http", "stop_executor", "exited"} /\ pool' = pool
    BY <1>4 DEF StartHttp, StartGrpc, StopRequested, StopFeed, StopGrpc, StopHttp,
                StopPool, CloseActiveSockets, StopExecutor, Step, serverVars, poolVars
  <2> QED BY <2>1, <2>2, <2>3 DEF SocketsOK
<1>5. CASE UNCHANGED vars
  BY <1>5 DEF vars, serverVars, poolVars, connVars, SocketsOK, Busy
<1> QED BY <1>2, <1>3, <1>4, <1>5, ServerSockets DEF Next, Stopping

(***************************************************************************)
(* close_active_sockets dereferences only sockets on the stack of a        *)
(* handler that runs, and no handler is left once stop() has joined the    *)
(* pool, whichever way the handlers end and whenever stop() comes.         *)
(***************************************************************************)
THEOREM SocketsAreAlive == Spec => []SocketsOutliveTheirPointers
<1>1. Init => Types /\ SocketsOK
  BY InitTypes, InitSockets
<1>2. Types /\ SocketsOK /\ [Next]_vars => (Types /\ SocketsOK)'
  BY NextTypes, NextSockets
<1>3. SocketsOK => SocketsOutliveTheirPointers
  BY DEF SocketsOK, SocketsOutliveTheirPointers
<1> QED BY <1>1, <1>2, <1>3, PTL DEF Spec

-----------------------------------------------------------------------------
(***************************************************************************)
(* What a stream has shown.                                                *)
(***************************************************************************)
Following == {"loop", "wait", "update"}

(* The client has the latest detail of w, or the stream is going to hear   *)
(* of a change: the writer is behind, the update is kept, the stream has   *)
(* just taken it, or it will find out that it missed some.                 *)
Followed(c, w) ==
    \/ seen[c][w] = Detail(w)
    \/ Unpublished(w)
    \/ PendingIn(feed, last[c], w)
    \/ DroppedFrom(feed, last[c])
    \/ stage[c] = "update" /\ note[c] = w

(* For the workflow it shows and the one it would select now. *)
StreamFresh(c) ==
    /\ shown[c] \in Workflows
    /\ Query(c) # "" => shown[c] = Query(c)
    /\ (Query(c) = "" => raced = {}) => Followed(c, shown[c]) /\ Followed(c, Selected(Query(c)))

FollowersOK == \A c \in Threads \ lapped : stage[c] \in Following => StreamFresh(c)

LEMMA InitFollowers == Init => FollowersOK
BY DEF Init, ServerInit, FollowersOK, Following

LEMMA SelectedIsWorkflow ==
    ASSUME Types, NEW c \in Threads, stage[c] # "away"
    PROVE  Selected(Query(c)) \in Workflows
<1>1. c \in DOMAIN script.request /\ script \in Scripts /\ first \in Workflows
  BY DEF Types, ConnectionsOK, ServerTypeOK, ServiceOK
<1>2. Query(c) \in Workflows \cup {""}
  BY <1>1, ScriptsAssumption DEF Query, Request
<1> QED BY <1>1, <1>2 DEF Selected

LEMMA FollowersFresh == Types /\ FollowersOK => CaughtUpIsFresh
<1> SUFFICES ASSUME Types, FollowersOK, NEW c \in Threads \ lapped,
                    stage[c] = "wait", last[c] = feed.latest, ~Unpublished(shown[c]),
                    Query(c) = "" => raced = {}
             PROVE  seen[c][shown[c]] = Detail(shown[c])
  BY DEF CaughtUpIsFresh
<1>1. Followed(c, shown[c])
  BY DEF FollowersOK, Following, StreamFresh
<1>2. ~PendingIn(feed, last[c], shown[c]) /\ ~DroppedFrom(feed, last[c])
  BY CaughtUp DEF Types, ServiceOK
<1> QED BY <1>1, <1>2 DEF Followed

(* Steps that leave the service and what the streams have shown alone. *)
LEMMA AsideKeepsFollowers ==
    ASSUME Types, FollowersOK, UNCHANGED <<script, streamVars, record, audits, first>>,
           feed'.latest = feed.latest, feed'.events = feed.events,
           raced \subseteq raced',
           \A w : Unpublished(w) => Unpublished(w)',
           \A c \in Threads : stage'[c] \in Following =>
               stage[c] \in Following /\ (stage[c] = "update" => stage'[c] = "update")
    PROVE  FollowersOK'
<1> SUFFICES ASSUME NEW c \in Threads \ lapped', (stage[c] \in Following)'
             PROVE  StreamFresh(c)'
  BY DEF FollowersOK
<1>1. c \notin lapped /\ stage[c] \in Following
  BY DEF streamVars
<1>2. StreamFresh(c)
  BY <1>1 DEF FollowersOK
<1>3. /\ Query(c)' = Query(c) /\ Selected(Query(c))' = Selected(Query(c))
      /\ shown' = shown
  BY DEF Query, Request, Selected, streamVars
<1>4. ASSUME NEW w, Followed(c, w) PROVE Followed(c, w)'
  BY <1>1, <1>4 DEF Followed, Detail, streamVars, PendingIn, DroppedFrom
<1> QED BY <1>2, <1>3, <1>4 DEF StreamFresh

LEMMA ServeKeepsFollowers ==
    ASSUME Types, FollowersOK, NEW h \in Threads, StepOf(h),
           UNCHANGED <<script, stage, streamVars>>
    PROVE  FollowersOK'
<1> SUFFICES ASSUME NEW c \in Threads \ lapped', (stage[c] \in Following)'
             PROVE  StreamFresh(c)'
  BY DEF FollowersOK
<1>1. c \notin lapped /\ stage[c] \in Following
  BY DEF streamVars
<1>2. StreamFresh(c) /\ raced' = raced
  BY <1>1 DEF FollowersOK, StepOf
<1>3. Query(c)' = Query(c) /\ shown' = shown
  BY DEF Query, Request, streamVars
<1>4. \A w : Unpublished(w)' <=> \E g \in Threads : job'[g].wf = w /\ Behind(job'[g])
  BY DEF Unpublished, Behind
<1>5. ASSUME NEW w, Unpublished(w), w # job[h].wf PROVE Unpublished(w)'
  <2>1. PICK g \in Threads : job[g].wf = w /\ Behind(job[g])
    BY <1>5, UnpublishedIsBehind
  <2>2. job'[g] = job[g]
    BY <1>5, <2>1 DEF StepOf
  <2> QED BY <1>4, <2>1, <2>2
<1>6. /\ FeedOK(feed) /\ last[c] \in Nat /\ last[c] <= feed.latest /\ last' = last
      /\ Selected(Query(c)) \in Workflows /\ shown[c] \in Workflows
  <2>1. Selected(Query(c)) \in Workflows
    BY <1>1, SelectedIsWorkflow DEF Following
  <2> QED BY <1>2, <2>1 DEF Types, ServiceOK, ServerTypeOK, StreamsOK, StreamFresh, streamVars
<1>7. CASE Wrote(h)
  <2>1. ASSUME NEW w, w = job[h].wf PROVE Unpublished(w)'
    BY <1>4, <1>7, <2>1 DEF Wrote, StepOf
  <2>2. ASSUME NEW w \in Workflows, Followed(c, w) PROVE Followed(c, w)'
    <3>1. CASE w = job[h].wf
      BY <2>1, <3>1 DEF Followed
    <3>2. CASE w # job[h].wf
      <4>1. Detail(w)' = Detail(w) /\ feed' = feed
        BY <1>7, <3>2 DEF Wrote, Detail
      <4> QED BY <1>5, <2>2, <3>2, <4>1 DEF Followed, streamVars
    <3> QED BY <3>1, <3>2
  <2>3. ASSUME Query(c) = "" => raced = {}, Followed(c, Selected(Query(c)))
        PROVE  Followed(c, Selected(Query(c)))'
    <3>1. CASE Selected(Query(c))' = Selected(Query(c))
      BY <1>6, <2>2, <2>3, <3>1 DEF Followed
    <3>2. CASE Selected(Query(c))' # Selected(Query(c))
      <4>1. Selected(Query(c))' = job[h].wf
        BY <1>3, <1>7, <2>3, <3>2 DEF Selected, Wrote
      <4>2. PICK v : v = job[h].wf
        OBVIOUS
      <4>3. Unpublished(v)'
        BY <2>1, <4>2
      <4>4. Followed(c, v)'
        BY <4>3 DEF Followed
      <4>5. v = Selected(Query(c))'
        BY <4>1, <4>2
      <4> QED BY <4>4, <4>5
    <3> QED BY <3>1, <3>2
  <2> QED BY <1>2, <1>3, <1>6, <2>2, <2>3 DEF StreamFresh
<1>8. CASE Published(h)
  <2>1. feed' = Publish(feed, job[h].wf) /\ job[h].wf \in Workflows
    BY <1>8 DEF Published
  <2>2. /\ PendingIn(feed', last[c], job[h].wf)
        /\ DroppedFrom(feed, last[c]) => DroppedFrom(feed', last[c])
        /\ \A v : PendingIn(feed, last[c], v) =>
              PendingIn(feed', last[c], v) \/ DroppedFrom(feed', last[c])
    BY <1>6, <2>1, PublishKeeps
  <2>3. ASSUME NEW w, Followed(c, w) PROVE Followed(c, w)'
    <3>1. CASE w = job[h].wf
      BY <1>6, <2>2, <3>1 DEF Followed
    <3>2. CASE w # job[h].wf
      <4>1. Detail(w)' = Detail(w)
        BY <1>8 DEF Published, Detail
      <4> QED BY <1>5, <1>6, <2>2, <2>3, <3>2, <4>1 DEF Followed, streamVars
    <3> QED BY <3>1, <3>2
  <2>4. Selected(Query(c))' = Selected(Query(c))
    BY <1>3, <1>8 DEF Selected, Published
  <2> QED BY <1>2, <1>3, <1>6, <2>3, <2>4 DEF StreamFresh
<1>9. CASE OnlyRead(h)
  <2>1. \A w : Unpublished(w) => Unpublished(w)'
    <3> SUFFICES ASSUME NEW w, Unpublished(w) PROVE Unpublished(w)'
      OBVIOUS
    <3>1. PICK g \in Threads : job[g].wf = w /\ Behind(job[g])
      BY UnpublishedIsBehind
    <3>2. job'[g].wf = w /\ Behind(job'[g])
      BY <1>9, <3>1 DEF OnlyRead, StepOf
    <3> QED BY <1>4, <3>2
  <2>2. UNCHANGED <<record, audits, first, feed>>
    BY <1>9 DEF OnlyRead
  <2> QED BY <1>1, <1>2, <2>1, <2>2, AsideKeepsFollowers DEF FollowersOK
<1> QED BY <1>7, <1>8, <1>9 DEF StepOf

(* Another stream's steps. *)
LEMMA OtherStreams ==
    ASSUME Types, FollowersOK, NEW c \in Threads, NEW d \in Threads \ {c},
           UNCHANGED <<script, serviceVars>>, d \notin lapped, (stage[d] \in Following)',
           stage'[d] = stage[d], last'[d] = last[d], note'[d] = note[d],
           shown'[d] = shown[d], seen'[d] = seen[d]
    PROVE  StreamFresh(d)'
<1>1. StreamFresh(d)
  BY DEF FollowersOK
<1>2. UNCHANGED <<record, audits, feed, first, job, raced>>
  BY DEF serviceVars
<1>3. Query(d)' = Query(d) /\ Selected(Query(d))' = Selected(Query(d))
  BY <1>2 DEF Query, Request, Selected
<1>4. ASSUME NEW w, Followed(d, w) PROVE Followed(d, w)'
  <2>1. Detail(w)' = Detail(w) /\ (Unpublished(w)' <=> Unpublished(w))
    BY <1>2 DEF Detail, Unpublished
  <2> QED BY <1>2, <1>4, <2>1 DEF Followed
<1> QED BY <1>1, <1>2, <1>3, <1>4 DEF StreamFresh

LEMMA StreamStepsKeepFollowers ==
    ASSUME Types, FollowersOK, NEW c \in Threads,
           StreamOpen(c) \/ StreamDashboard(c) \/ StreamUpdate(c) \/ StreamPush(c)
    PROVE  FollowersOK'
<1> SUFFICES ASSUME NEW d \in Threads \ lapped', (stage[d] \in Following)'
             PROVE  StreamFresh(d)'
  BY DEF FollowersOK
<1> DEFINE w == Selected(Query(c))
<1>1. /\ UNCHANGED <<script, serviceVars>>
      /\ stage \in [Threads -> Stages] /\ last \in [Threads -> Nat] /\ StreamsOK
      /\ FeedOK(feed)
  BY DEF Types, ServiceOK, ServerTypeOK, StreamOpen, StreamDashboard, StreamUpdate, StreamPush, poolVars
<1>2. UNCHANGED <<record, audits, feed, first, job, raced>>
  BY <1>1 DEF serviceVars
<1>3. /\ \E s \in Stages : stage' = [stage EXCEPT ![c] = s]
      /\ stage[c] # "away"
  BY DEF StreamOpen, StreamDashboard, StreamUpdate, StreamPush, To, Stages
<1>4. w \in Workflows
  BY <1>3, SelectedIsWorkflow
<1>5. Query(c)' = Query(c) /\ w' = w
  BY <1>1, <1>2 DEF Query, Request, Selected
<1>6. ASSUME NEW v PROVE Detail(v)' = Detail(v) /\ (Unpublished(v)' <=> Unpublished(v))
  BY <1>2 DEF Detail, Unpublished
<1>7. ASSUME NEW b \in BOOLEAN, Show(c, b)
      PROVE  /\ shown'[c] = w /\ (b => seen'[c][w] = Detail(w)) /\ (~b => seen' = seen)
             /\ \A e \in Threads \ {c} : shown'[e] = shown[e] /\ seen'[e] = seen[e]
  <2>1. /\ shown' = [shown EXCEPT ![c] = w]
        /\ seen' = IF b THEN [seen EXCEPT ![c][w] = Detail(w)] ELSE seen
    BY <1>7, Zenon DEF Show
  <2> HIDE DEF w
  <2>2. DOMAIN shown = Threads /\ DOMAIN seen = Threads /\ DOMAIN seen[c] = Workflows
    BY <1>1 DEF StreamsOK
  <2>3. shown'[c] = w /\ \A e \in Threads \ {c} : shown'[e] = shown[e]
    BY <2>1, <2>2
  <2>4. \A e \in Threads \ {c} : seen'[e] = seen[e]
    BY <2>1, <2>2
  <2>5. b => seen'[c][w] = Detail(w)
    BY <1>4, <2>1, <2>2, Zenon
  <2> QED BY <2>1, <2>3, <2>4, <2>5
<1>8. CASE d # c
  <2>1. stage'[d] = stage[d]
    BY <1>1, <1>3, <1>8
  <2>2. /\ d \notin lapped /\ last'[d] = last[d] /\ note'[d] = note[d]
    BY <1>1, <1>8 DEF StreamOpen, StreamDashboard, StreamUpdate, StreamPush, StreamsOK
  <2>3. shown'[d] = shown[d] /\ seen'[d] = seen[d]
    <3>1. CASE UNCHANGED <<shown, seen>>
      BY <3>1
    <3>2. CASE Show(c, TRUE) \/ Show(c, w = note[c])
      <4>1. PICK b \in BOOLEAN : Show(c, b)
        <5>1. PICK b \in BOOLEAN : b = (w = note[c])
          OBVIOUS
        <5> QED BY <3>2, <5>1, Zenon
      <4> QED BY <1>7, <1>8, <4>1
    <3> QED BY <3>1, <3>2 DEF StreamOpen, StreamDashboard, StreamUpdate, StreamPush
  <2> QED BY <1>1, <1>8, <2>1, <2>2, <2>3, OtherStreams
<1>9. CASE d = c /\ StreamOpen(c)
  <2>1. stage'[c] \in {"dash", "closing"}
    BY <1>1, <1>9 DEF StreamOpen, To
  <2> QED BY <1>9, <2>1 DEF Following
<1>10. CASE d = c /\ StreamDashboard(c)
  <2>1. stage'[c] \in Following
    BY <1>10
  <2>2. Show(c, TRUE)
    <3>1. CASE socket[c] # "open"
      <4>1. stage' = [stage EXCEPT ![c] = "closing"]
        BY <1>10, <3>1 DEF StreamDashboard, To
      <4> QED BY <1>1, <2>1, <4>1 DEF Following
    <3> QED BY <1>10, <3>1 DEF StreamDashboard
  <2>3. shown'[c] = w /\ seen'[c][w] = Detail(w)
    BY <1>7, <2>2
  <2>4. Followed(c, w)' /\ shown'[c] = w'
    BY <1>5, <1>6, <2>3 DEF Followed
  <2>5. Query(c) # "" => w = Query(c)
    BY DEF Selected
  <2> QED BY <1>4, <1>5, <1>10, <2>3, <2>4, <2>5 DEF StreamFresh
<1>11. CASE d = c /\ StreamUpdate(c)
  <2> DEFINE u == NextUpdate(feed, last[c])
  <2>1. /\ stage[c] = "wait" /\ UpdatesAfter(feed, last[c]) # {}
        /\ last' = [last EXCEPT ![c] = u.id] /\ note' = [note EXCEPT ![c] = u.wf]
        /\ lapped' = IF u.id > last[c] + 1 THEN lapped \cup {c} ELSE lapped
        /\ stage' = [stage EXCEPT ![c] = "update"] /\ UNCHANGED <<shown, seen>>
    BY <1>11 DEF StreamUpdate, To
  <2>2. last[c] \in Nat /\ last[c] <= feed.latest
    BY <1>1 DEF StreamsOK
  <2>3. /\ DroppedFrom(feed, last[c]) => u.id > last[c] + 1
        /\ \A v : PendingIn(feed, last[c], v) => u.wf = v \/ PendingIn(feed, u.id, v)
    BY <1>1, <2>1, <2>2, NextUpdateIs
  <2> HIDE DEF u
  <2>4. c \notin lapped /\ ~(u.id > last[c] + 1)
    BY <1>11, <2>1
  <2>5. last'[c] = u.id /\ note'[c] = u.wf /\ stage'[c] = "update"
    BY <1>1, <2>1 DEF StreamsOK
  <2>6. ASSUME NEW v, Followed(c, v) PROVE Followed(c, v)'
    BY <1>2, <1>6, <2>1, <2>3, <2>4, <2>5, <2>6 DEF Followed
  <2>7. StreamFresh(c)
    BY <2>1, <2>4 DEF FollowersOK, Following
  <2> QED BY <1>2, <1>5, <1>11, <2>1, <2>6, <2>7 DEF StreamFresh
<1>12. CASE d = c /\ StreamPush(c)
  <2>1. /\ stage[c] = "update" /\ UNCHANGED <<last, note, lapped>>
    BY <1>12 DEF StreamPush
  <2>2. Show(c, w = note[c]) /\ stage' = [stage EXCEPT ![c] = "loop"]
    <3>1. CASE socket[c] # "open"
      <4>1. stage' = [stage EXCEPT ![c] = "ending"]
        BY <1>12, <3>1 DEF StreamPush, To
      <4> QED BY <1>1, <1>12, <4>1 DEF Following
    <3> QED BY <1>12, <3>1 DEF StreamPush, To
  <2>3. PICK b \in BOOLEAN : b = (w = note[c])
    OBVIOUS
  <2>4. Show(c, b)
    BY <2>2, <2>3, Zenon
  <2>5. shown'[c] = w /\ (b => seen'[c][w] = Detail(w)) /\ (~b => seen' = seen)
    BY <1>7, <2>4
  <2>6. StreamFresh(c)
    BY <1>12, <2>1 DEF FollowersOK, Following
  <2>7. ASSUME Query(c) = "" => raced = {} PROVE Followed(c, w)'
    <3>1. Followed(c, w)
      BY <2>6, <2>7 DEF StreamFresh
    <3>2. CASE b
      BY <1>5, <1>6, <2>5, <3>2 DEF Followed
    <3>3. CASE ~b
      <4>1. note[c] # w
        BY <2>3, <3>3, Zenon
      <4> QED BY <1>2, <1>5, <1>6, <2>1, <2>5, <3>1, <3>3, <4>1 DEF Followed
    <3> QED BY <3>2, <3>3
  <2>8. Query(c) # "" => w = Query(c)
    BY DEF Selected
  <2>9. shown'[c] = w' /\ raced' = raced
    BY <1>2, <1>5, <2>5
  <2> QED BY <1>4, <1>5, <1>12, <2>5, <2>7, <2>8, <2>9 DEF StreamFresh
<1> QED BY <1>8, <1>9, <1>10, <1>11, <1>12

LEMMA NextFollowers == Types /\ FollowersOK /\ [Next]_vars => FollowersOK'
<1> SUFFICES ASSUME Types, FollowersOK, [Next]_vars PROVE FollowersOK'
  OBVIOUS
<1>1. stage \in [Threads -> Stages]
  BY DEF Types, ServerTypeOK
<1>2. ASSUME UNCHANGED <<script, streamVars, serviceVars>>,
             \A c \in Threads : stage'[c] \in Following =>
                 stage[c] \in Following /\ (stage[c] = "update" => stage'[c] = "update")
      PROVE  FollowersOK'
  <2>1. UNCHANGED <<record, audits, feed, first, job, raced>>
    BY <1>2 DEF serviceVars
  <2>2. \A w : Unpublished(w) => Unpublished(w)'
    BY <2>1 DEF Unpublished
  <2> QED BY <1>2, <2>1, <2>2, AsideKeepsFollowers
<1>3. ASSUME NEW c \in Threads, Client(c) PROVE FollowersOK'
  <2>1. UNCHANGED <<script, streamVars, serviceVars>>
    BY <1>3 DEF Client, Connect, Send, HangUp, poolVars
  <2>2. stage' = stage \/ \E s \in {"backlog", "refused"} : stage' = [stage EXCEPT ![c] = s]
    BY <1>3 DEF Client, Connect, Send, HangUp, To
  <2> QED BY <1>1, <1>2, <2>1, <2>2 DEF Following
<1>4. ASSUME NEW c \in Threads, UNCHANGED <<main, failed>>, Dispatch(c) PROVE FollowersOK'
  <2>1. /\ raced \subseteq raced' /\ UNCHANGED <<record, audits, feed, first>>
        /\ \A g \in Threads \ {c} : job'[g] = job[g]
    BY <1>4, DispatchTypes
  <2>2. /\ stage[c] = "reading" /\ UNCHANGED <<script, streamVars>>
        /\ \E s \in {"opening", "replying", "serving"} : stage' = [stage EXCEPT ![c] = s]
    BY <1>4 DEF Dispatch, To, poolVars
  <2>3. job[c].at = "idle"
    BY <2>2 DEF Types, ConnectionsOK, Before
  <2>4. \A w : Unpublished(w) => Unpublished(w)'
    BY <2>1, <2>3 DEF Unpublished
  <2>5. \A d \in Threads : stage'[d] \in Following =>
                 stage[d] \in Following /\ (stage[d] = "update" => stage'[d] = "update")
    BY <1>1, <2>2 DEF Following
  <2> QED BY <2>1, <2>2, <2>4, <2>5, AsideKeepsFollowers
<1>5. ASSUME NEW c \in Threads, UNCHANGED <<main, failed>>, Serve(c) PROVE FollowersOK'
  <2>1. StepOf(c)
    BY <1>5, ServeTypes
  <2>2. UNCHANGED <<script, stage, streamVars>>
    BY <1>5 DEF Serve, serverVars, poolVars, connVars
  <2> QED BY <2>1, <2>2, ServeKeepsFollowers
<1>6. ASSUME NEW c \in Threads,
             \/ AcceptLoop(c) \/ HandleConnection(c) \/ RegisterSocket(c) \/ Handshake(c)
             \/ ReadFails(c) \/ Reply(c) \/ Close(c) \/ TlsShutdown(c)
             \/ StreamLoop(c) \/ StreamKeepalive(c) \/ StreamEnd(c)
      PROVE  FollowersOK'
  <2>1. UNCHANGED <<script, streamVars, serviceVars>>
    BY <1>6 DEF AcceptLoop, HandleConnection, RegisterSocket, Handshake, ReadFails, Reply, Close, TlsShutdown,
                StreamLoop, StreamKeepalive, StreamEnd, poolVars
  <2>2. \E s \in Stages : /\ stage' = [stage EXCEPT ![c] = s]
                          /\ s \in Following => stage[c] \in {"loop", "wait"}
    BY <1>6 DEF AcceptLoop, HandleConnection, RegisterSocket, Handshake, ReadFails, Reply, Close, TlsShutdown,
                StreamLoop, StreamKeepalive, StreamEnd, To, Following, Stages
  <2>3. \A d \in Threads : stage'[d] \in Following =>
                 stage[d] \in Following /\ (stage[d] = "update" => stage'[d] = "update")
    BY <1>1, <2>2 DEF Following
  <2> QED BY <1>2, <2>1, <2>3
<1>7. ASSUME NEW c \in Threads, Server(c) PROVE FollowersOK'
  BY <1>4, <1>5, <1>6, <1>7, StreamStepsKeepFollowers DEF Server, HandlerStep
<1>8. ASSUME StartHttp \/ StartGrpc \/ StopRequested \/ Stopping PROVE FollowersOK'
  <2>1. UNCHANGED <<script, streamVars>>
    BY <1>8 DEF StartHttp, StartGrpc, StopRequested, Stopping, StopFeed, StopGrpc, StopHttp,
                CloseAcceptor, StopPool, CloseActiveSockets, JoinPool, StopExecutor,
                serverVars, poolVars
  <2>2. \A c \in Threads : stage'[c] \in Following => stage'[c] = stage[c]
    <3>1. CASE CloseAcceptor \/ JoinPool
      BY <3>1 DEF CloseAcceptor, JoinPool, Following
    <3>2. CASE ~(CloseAcceptor \/ JoinPool)
      BY <1>8, <3>2 DEF StartHttp, StartGrpc, StopRequested, Stopping, StopFeed, StopGrpc, StopHttp,
                StopPool, CloseActiveSockets, StopExecutor, serverVars, connVars
    <3> QED BY <3>1, <3>2
  <2>3. CASE StopFeed
    <3>1. feed' = ShutDown(feed) /\ UNCHANGED <<record, audits, first, job, raced>>
      BY <2>3 DEF StopFeed
    <3>2. feed'.latest = feed.latest /\ feed'.events = feed.events
      BY <3>1, ShutDownIsOK DEF Types, ServiceOK
    <3>3. \A w : Unpublished(w) => Unpublished(w)'
      BY <3>1 DEF Unpublished
    <3> QED BY <2>1, <2>2, <3>1, <3>2, <3>3, AsideKeepsFollowers
  <2>4. CASE ~StopFeed
    <3>1. UNCHANGED serviceVars
      BY <1>8, <2>4 DEF StartHttp, StartGrpc, StopRequested, Stopping, StopGrpc, StopHttp,
         CloseAcceptor, StopPool, CloseActiveSockets, JoinPool, StopExecutor
    <3> QED BY <1>2, <2>1, <2>2, <3>1
  <2> QED BY <2>3, <2>4
<1>9. CASE UNCHANGED vars
  <2>1. UNCHANGED <<script, streamVars, serviceVars, stage>>
    BY <1>9 DEF vars, serverVars, poolVars, connVars
  <2> QED BY <1>2, <2>1
<1> QED BY <1>3, <1>7, <1>8, <1>9 DEF Next

(***************************************************************************)
(* A dashboard stream that waits, has taken every update and skipped none, *)
(* shows the selected workflow as it is stored once its writers have       *)
(* published: for any number of streams, writers and kept updates.         *)
(***************************************************************************)
THEOREM CaughtUpStreamsAreFresh == Spec => []CaughtUpIsFresh
<1>1. Init => Types /\ FollowersOK
  BY InitTypes, InitFollowers
<1>2. Types /\ FollowersOK /\ [Next]_vars => (Types /\ FollowersOK)'
  BY NextTypes, NextFollowers
<1>3. Types /\ FollowersOK => CaughtUpIsFresh
  BY FollowersFresh
<1> QED BY <1>1, <1>2, <1>3, PTL DEF Spec
-----------------------------------------------------------------------------
(***************************************************************************)
(* What edits that do not overlap leave of a record.                       *)
(***************************************************************************)
Counted(r) == IF r = NoRecord THEN 0 ELSE r.audits

(* Two records, or none, with the same tasks and the same counter. *)
Alike(r, s) ==
    IF r = NoRecord THEN s = NoRecord
    ELSE s # NoRecord /\ s.tasks = r.tasks /\ s.audits = r.audits

(* Record s has the tasks of r and n audit entries more. *)
Ahead(r, s, n) ==
    r # NoRecord /\ s # NoRecord /\ s.tasks = r.tasks /\ s.audits = r.audits + n

(* The audit entries an operation still owes once it has stored its tasks. *)
Due(op) == IF Audited(op) THEN 1 ELSE 0

(***************************************************************************)
(* How far job j has come: from the record r stored and the sequence       *)
(* numbers d of the audit rows to the record w its request asked for.      *)
(***************************************************************************)
Tracks(j, r, w, d) ==
    /\ j.at = "edit" =>
          /\ j.op \in {"upsert_task", "delete_task"} /\ d = 1..Counted(r)
          /\ IF r = NoRecord \/ (j.op = "delete_task" /\ j.task \notin r.tasks) THEN Alike(r, w)
             ELSE /\ w # NoRecord /\ w.audits = r.audits + 1
                  /\ w.tasks = IF j.op = "upsert_task" THEN r.tasks \cup {j.task}
                               ELSE r.tasks \ {j.task}
    /\ j.at = "submit" =>
          /\ w # NoRecord /\ w.tasks = j.tasks /\ w.audits = Counted(r) + Due(j.op)
          /\ d = 1..Counted(r) /\ (j.op = "submit" => Counted(r) = 0)
    /\ j.at = "save" => Ahead(j.rec, w, Due(j.op)) /\ d = 1..j.rec.audits
    /\ j.at \in {"announce", "plan", "publish"} =>
          Ahead(j.rec, r, 0) /\ Ahead(r, w, Due(j.op)) /\ d = 1..r.audits
    /\ j.at = "log" => Ahead(r, w, 1) /\ d = 1..r.audits
    /\ j.at = "act" => d = 1..Counted(r) /\ IF r = NoRecord THEN w = NoRecord ELSE Ahead(r, w, 1)
    /\ j.at \in {"mark", "row"} => Ahead(j.rec, r, 0) /\ Ahead(r, w, 1) /\ d = 1..r.audits
    /\ j.at = "stamp" => Ahead(r, w, 1) /\ Ahead(j.rec, w, 0) /\ d = 1..w.audits
    /\ j.at \in {"tell", "reorchestrate"} => Alike(r, w) /\ d = 1..Counted(r)
    /\ j.at = "reorchestrate" => ~Audited(j.op)

Working(w) == {h \in Threads : Active(h) /\ job[h].wf = w}

(* Nobody works on the workflow and its record is exact, or one thread     *)
(* does and is on the way there.                                           *)
OnTrack(w) ==
    /\ \A g, h \in Working(w) : g = h
    /\ Working(w) = {} =>
          Alike(record[w], wanted[w]) /\ DOMAIN audits[w] = 1..Counted(record[w])
    /\ \A h \in Working(w) : Tracks(job[h], record[w], wanted[w], DOMAIN audits[w])

(* What a load submits without replacing is never audited. *)
Unaudited ==
    \A c \in DOMAIN script.request : \A w \in Workflows :
        script.request[c].asks.op = "submit" /\ script.request[c].asks.wf = w =>
            Counted(wanted[w]) = 0

WantedOK == wanted \in [Workflows -> Record \cup {NoRecord}]

EditsOK == WantedOK /\ Unaudited /\ \A w \in Workflows \ raced : OnTrack(w)
(* Routing takes what the clients send for what they ask for. *)
Understood(o, r) == o.op = r.asks.op /\ o.wf = r.asks.wf /\ o.task = r.asks.task

LEMMA OperationFields ==
    ASSUME NEW op, NEW w, NEW t, NEW n
    PROVE  /\ Operation(op, w, t).op = op /\ Operation(op, w, t).wf = w
           /\ Operation(op, w, t).task = t
           /\ Refusal(n).status = n
BY DEF Operation, Refusal

LEMMA AddressedAsAsked ==
    ASSUME NEW r, NEW op, NEW w, NEW t, Addressed(r, op, w, t).status = 200
    PROVE  /\ Addressed(r, op, w, t).op = op /\ Addressed(r, op, w, t).wf = w
           /\ Addressed(r, op, w, t).task = t
           /\ Agrees(w, r.body.wf) /\ Agrees(t, r.body.task)
BY OperationFields DEF Addressed

(* A target whose id agrees with the body's has the id as it is. *)
LEMMA AgreesUnencoded ==
    ASSUME NEW id, Agrees(EncodeURIComponent(id), id)
    PROVE  EncodeURIComponent(id) = id
BY EncodingAssumption, Zenon DEF Agrees

(* What a request is routed to where there is an operator service. *)
RoutedTo(r, control, o) ==
    o = IF r.path.root = "operator" THEN OperatorRoute(r) ELSE Route(r, control)

LEMMA WithOperatorService ==
    ASSUME NEW r, NEW control, control
    PROVE  RoutedTo(r, control, Route(r, control))
<1>1. CASE r.path.root = "operator"
  <2>1. WorkflowOfTarget(r.path) = {}
    BY <1>1, Zenon DEF WorkflowOfTarget
  <2>2. Route(r, control) = OperatorRoute(r)
    BY <1>1, <2>1, Zenon DEF Route
  <2> QED BY <1>1, <2>2, Zenon DEF RoutedTo
<1>2. CASE r.path.root # "operator"
  BY <1>2, Zenon DEF RoutedTo
<1> QED BY <1>1, <1>2, Zenon

(* The id that a request without one names. *)
Blank(e) == e = ""

LEMMA UpsertWorkflowIsRouted ==
    ASSUME NEW r, NEW w, NEW control, NEW o, RoutedTo(r, control, o), NEW e, Blank(e),
           r = UpsertWorkflow(w)
    PROVE  o = Operation("upsert_workflow", w, e)
<1>1. /\ r.method = "POST" /\ r.path.root = "operator" /\ r.path.rest = <<"workflows">>
      /\ r.path.verb = "none" /\ r.body.garbled = FALSE /\ r.body.wf = w
  BY Zenon DEF Blank, Post, Path, Body, UpsertWorkflow
<1>2. r.path.rest # <<"dashboard">>
  BY <1>1
<1>3. OperatorTaskWorkflow(r.path) = {}
  BY <1>1 DEF OperatorTaskWorkflow
<1>4. OperatorTaskDelete(r.path) = {}
  BY <1>1 DEF OperatorTaskDelete
<1>5. \A v : OperatorWorkflow(r.path, v) = {}
  BY <1>1 DEF OperatorWorkflow
<1>6. OperatorRoute(r) = Operation("upsert_workflow", w, "")
  BY <1>1, <1>2, <1>3, <1>4, <1>5 DEF OperatorRoute
<1> QED BY <1>1, <1>6, Zenon DEF RoutedTo, Blank

LEMMA SubmitIsRouted ==
    ASSUME NEW r, NEW w, NEW control, NEW o, RoutedTo(r, control, o), NEW e, Blank(e),
           r = SubmitWorkflow(w)
    PROVE  o = Operation("submit", w, e)
<1>1. /\ r.method = "POST" /\ r.path.root = "submit" /\ r.path.rest = << >>
      /\ r.path.verb = "none" /\ r.body.garbled = FALSE /\ r.body.wf = w
  BY Zenon DEF Blank, Post, Path, Body, SubmitWorkflow
<1>2. WorkflowOfTarget(r.path) = {}
  BY <1>1 DEF WorkflowOfTarget
<1>3. Route(r, control) = Operation("submit", w, "")
  BY <1>1, <1>2 DEF Route
<1> QED BY <1>1, <1>3, Zenon DEF RoutedTo, Blank

LEMMA UpsertTaskIsRouted ==
    ASSUME NEW r, NEW w, NEW t, NEW control, NEW o, RoutedTo(r, control, o),
           r = UpsertTask(w, t)
    PROVE  o \in {Addressed(r, "upsert_task", EncodeURIComponent(w), t), Refusal(404)}
<1> DEFINE x == EncodeURIComponent(w)
<1>1. /\ r.method = "POST" /\ r.path.root = "operator" /\ r.path.rest = <<"workflows", x, "tasks">>
      /\ r.path.verb = "none" /\ r.body.task = t
  BY Zenon DEF Post, Path, Body, UpsertTask, OnTasks
<1> HIDE DEF x
<1>2. r.path.rest # <<"dashboard">> /\ r.path.rest # <<"workflows">>
  BY <1>1
<1>3. OperatorTaskWorkflow(r.path) \in {{x}, {}}
  BY <1>1 DEF OperatorTaskWorkflow
<1>4. OperatorTaskDelete(r.path) = {}
  BY <1>1 DEF OperatorTaskDelete
<1>5. \A v : OperatorWorkflow(r.path, v) = {}
  BY <1>1 DEF OperatorWorkflow
<1>6. OperatorRoute(r) \in {Addressed(r, "upsert_task", x, t), Refusal(404)}
  <2>1. CASE OperatorTaskWorkflow(r.path) = {x}
    <3>1. (CHOOSE y \in OperatorTaskWorkflow(r.path) : TRUE) = x
      BY <2>1
    <3> QED BY <1>1, <1>2, <1>4, <1>5, <2>1, <3>1 DEF OperatorRoute
  <2>2. CASE OperatorTaskWorkflow(r.path) = {}
    BY <1>1, <1>2, <1>4, <1>5, <2>2 DEF OperatorRoute
  <2> QED BY <1>3, <2>1, <2>2
<1> QED BY <1>1, <1>6, Zenon DEF RoutedTo, x

LEMMA DeleteTaskIsRouted ==
    ASSUME NEW r, NEW w, NEW t, NEW control, NEW o, RoutedTo(r, control, o),
           r = DeleteTask(w, t)
    PROVE  o \in {Addressed(r, "delete_task", EncodeURIComponent(w), EncodeURIComponent(t)), Refusal(404)}
<1> DEFINE x == EncodeURIComponent(w)
           y == EncodeURIComponent(t)
<1>1. /\ r.method = "POST" /\ r.path.root = "operator"
      /\ r.path.rest = <<"workflows", x, "tasks", y>> /\ r.path.verb = "delete"
  BY Zenon DEF Post, Path, Body, DeleteTask, OnTask
<1> HIDE DEF x, y
<1>2. r.path.rest # <<"dashboard">> /\ r.path.rest # <<"workflows">>
  BY <1>1
<1>3. OperatorTaskWorkflow(r.path) = {}
  BY <1>1 DEF OperatorTaskWorkflow
<1>4. OperatorTaskDelete(r.path) \in {{[wf |-> x, task |-> y]}, {}}
  BY <1>1 DEF OperatorTaskDelete
<1>5. \A v : OperatorWorkflow(r.path, v) = {}
  BY <1>1 DEF OperatorWorkflow
<1>6. OperatorRoute(r) \in {Addressed(r, "delete_task", x, y), Refusal(404)}
  <2>1. CASE OperatorTaskDelete(r.path) = {[wf |-> x, task |-> y]}
    <3>1. (CHOOSE d \in OperatorTaskDelete(r.path) : TRUE) = [wf |-> x, task |-> y]
      BY <2>1
    <3> QED BY <1>1, <1>2, <1>3, <1>5, <2>1, <3>1 DEF OperatorRoute
  <2>2. CASE OperatorTaskDelete(r.path) = {}
    BY <1>1, <1>2, <1>3, <1>5, <2>2 DEF OperatorRoute
  <2> QED BY <1>4, <2>1, <2>2
<1> QED BY <1>1, <1>6, Zenon DEF RoutedTo, x, y

LEMMA ReorchestrateIsRouted ==
    ASSUME NEW r, NEW w, NEW control, NEW o, RoutedTo(r, control, o), NEW e, Blank(e),
           r = Reorchestrate(w)
    PROVE  o \in {Addressed(r, "reorchestrate", w, e), Refusal(404)}
<1>1. /\ r.method = "POST" /\ r.path.root = "workflows" /\ r.path.rest = <<w>>
      /\ r.path.verb = "reorchestrate" /\ r.body.task = e
  BY Zenon DEF Blank, Post, Path, Body, Reorchestrate
<1>2. WorkflowOfTarget(r.path) \in {{w}, {}}
  <2>1. r.path.rest[1] = w
    BY <1>1
  <2> QED BY <2>1, Zenon DEF WorkflowOfTarget
<1>3. CASE WorkflowOfTarget(r.path) = {w}
  <2>1. (CHOOSE x \in WorkflowOfTarget(r.path) : TRUE) = w
    BY <1>3
  <2> QED BY <1>1, <1>3, <2>1 DEF RoutedTo, Route
<1>4. CASE WorkflowOfTarget(r.path) = {}
  BY <1>1, <1>4 DEF RoutedTo, Route
<1> QED BY <1>2, <1>3, <1>4

LEMMA RoutesOfActions ==
    ASSUME NEW r, NEW w, NEW v \in DOMAIN Verbs, NEW control, NEW o, NEW e,
           RoutedTo(r, control, o),
           r.method = "POST", r.path.root = "operator", r.path.rest = <<"workflows", w>>,
           r.path.verb = v, r.body.task = e
    PROVE  o \in {Addressed(r, Verbs[v], w, e), Refusal(404)}
<1>1. r.path.rest[1] = "workflows" /\ r.path.rest[2] = w /\ Len(r.path.rest) = 2
  OBVIOUS
<1>2. r.path.rest # <<"dashboard">> /\ r.path.rest # <<"workflows">>
  BY <1>1
<1>3. v \in {"pause", "resume", "cancel", "manualIntervention"}
  BY DEF Verbs
<1>4. OperatorTaskWorkflow(r.path) = {} /\ OperatorTaskDelete(r.path) = {}
  BY <1>1, <1>3 DEF OperatorTaskWorkflow, OperatorTaskDelete
<1>5. OperatorWorkflow(r.path, v) \in {{w}, {}}
  BY <1>1 DEF OperatorWorkflow
<1>6. \A u : u # v => OperatorWorkflow(r.path, u) = {}
  BY <1>1 DEF OperatorWorkflow
<1>7. OperatorRoute(r) \in {Addressed(r, Verbs[v], w, e), Refusal(404)}
  <2>1. CASE OperatorWorkflow(r.path, v) = {w}
    <3>1. (CHOOSE x \in OperatorWorkflow(r.path, r.path.verb) : TRUE) = w
      BY <1>1, <2>1
    <3>2. \E u \in DOMAIN Verbs : OperatorWorkflow(r.path, u) # {}
      BY <2>1
    <3> QED BY <1>1, <1>2, <1>4, <3>1, <3>2 DEF OperatorRoute
  <2>2. CASE OperatorWorkflow(r.path, v) = {}
    <3>1. \A u : OperatorWorkflow(r.path, u) = {}
      BY <1>6, <2>2
    <3> QED BY <1>1, <1>2, <1>4, <3>1 DEF OperatorRoute
  <2> QED BY <1>5, <2>1, <2>2
<1> QED BY <1>7, Zenon DEF RoutedTo

LEMMA EditsAreUnderstood ==
    ASSUME NEW r, NEW w, NEW t, NEW control, NEW o, RoutedTo(r, control, o),
           NEW e, Blank(e), IsEditOf(r, w, t), o.status = 200
    PROVE  /\ Understood(o, r)
           /\ r.asks.wf = w
           /\ r.asks.op \in {"upsert_workflow", "upsert_task", "delete_task", "submit", "reorchestrate"}
                            \cup Actions
           /\ r.asks.op \in {"upsert_task", "delete_task"} => r.asks.task = t
<1>1. Refusal(404).status # 200
  BY OperationFields
<1>2. CASE r = UpsertWorkflow(w)
  <2>1. o = Operation("upsert_workflow", w, e)
    BY <1>2, UpsertWorkflowIsRouted
  <2>2. r.asks.op = "upsert_workflow" /\ r.asks.wf = w /\ r.asks.task = e
    BY <1>2, Zenon DEF Blank, Post, Asks, UpsertWorkflow
  <2> QED BY <2>1, <2>2 DEF Understood, Operation
<1>3. CASE r = SubmitWorkflow(w)
  <2>1. o = Operation("submit", w, e)
    BY <1>3, SubmitIsRouted
  <2>2. r.asks.op = "submit" /\ r.asks.wf = w /\ r.asks.task = e
    BY <1>3, Zenon DEF Blank, Post, Asks, SubmitWorkflow
  <2> QED BY <2>1, <2>2 DEF Understood, Operation
<1>4. CASE r = UpsertTask(w, t)
  <2>1. o = Addressed(r, "upsert_task", EncodeURIComponent(w), t)
    BY <1>1, <1>4, UpsertTaskIsRouted
  <2>2. r.asks.op = "upsert_task" /\ r.asks.wf = w /\ r.asks.task = t /\ r.body.wf = w
    BY <1>4, Zenon DEF Blank, Post, Asks, Body, UpsertTask
  <2>3. EncodeURIComponent(w) = w
    BY <2>1, <2>2, AddressedAsAsked, AgreesUnencoded
  <2> QED BY <2>1, <2>2, <2>3, AddressedAsAsked DEF Understood
<1>5. CASE r = DeleteTask(w, t)
  <2>1. o = Addressed(r, "delete_task", EncodeURIComponent(w), EncodeURIComponent(t))
    BY <1>1, <1>5, DeleteTaskIsRouted
  <2>2. /\ r.asks.op = "delete_task" /\ r.asks.wf = w /\ r.asks.task = t
        /\ r.body.wf = w /\ r.body.task = t
    BY <1>5, Zenon DEF Blank, Post, Asks, Body, DeleteTask
  <2>3. EncodeURIComponent(w) = w /\ EncodeURIComponent(t) = t
    BY <2>1, <2>2, AddressedAsAsked, AgreesUnencoded
  <2> QED BY <2>1, <2>2, <2>3, AddressedAsAsked DEF Understood
<1>6. CASE r = Reorchestrate(w)
  <2>1. o = Addressed(r, "reorchestrate", w, e)
    BY <1>1, <1>6, ReorchestrateIsRouted
  <2>2. r.asks.op = "reorchestrate" /\ r.asks.wf = w /\ r.asks.task = e
    BY <1>6, Zenon DEF Blank, Post, Asks, Reorchestrate
  <2> QED BY <2>1, <2>2, AddressedAsAsked DEF Understood
<1>7. ASSUME NEW v \in DOMAIN Verbs,
             r = Post(OnWorkflow(w, v), Body(w, e), Asks(Verbs[v], w, e))
      PROVE  /\ Understood(o, r) /\ r.asks.wf = w /\ r.asks.op \in Actions
  <2>0. /\ r.method = "POST" /\ r.path.root = "operator" /\ r.body.wf = w
        /\ r.path.rest = <<"workflows", EncodeURIComponent(w)>>
        /\ r.path.verb = v /\ r.body.task = e
    BY <1>7, Zenon DEF Blank, Post, Path, Body, OnWorkflow
  <2>1. o = Addressed(r, Verbs[v], EncodeURIComponent(w), e)
    BY <1>1, <2>0, RoutesOfActions
  <2>2. r.asks.op = Verbs[v] /\ r.asks.wf = w /\ r.asks.task = e
    BY <1>7, Zenon DEF Blank, Post, Asks
  <2>3. Verbs[v] \in Actions
    BY VerbsAreActions DEF Actions
  <2>4. EncodeURIComponent(w) = w
    BY <2>0, <2>1, AddressedAsAsked, AgreesUnencoded
  <2> QED BY <2>1, <2>2, <2>3, <2>4, AddressedAsAsked DEF Understood
<1>8. /\ {"pause", "resume", "cancel", "manualIntervention"} \subseteq DOMAIN Verbs
      /\ Verbs["pause"] = "pause" /\ Verbs["resume"] = "resume" /\ Verbs["cancel"] = "cancel"
      /\ Verbs["manualIntervention"] = "manual"
  BY DEF Verbs
<1>9. CASE r \in {PauseWorkflow(w), ResumeWorkflow(w), CancelWorkflow(w), ManualIntervention(w)}
  <2>1. \E v \in {"pause", "resume", "cancel", "manualIntervention"} :
           r = Post(OnWorkflow(w, v), Body(w, e), Asks(Verbs[v], w, e))
    <3>1. CASE r = PauseWorkflow(w)
      BY <1>8, <3>1, Zenon DEF Blank, PauseWorkflow
    <3>2. CASE r = ResumeWorkflow(w)
      BY <1>8, <3>2, Zenon DEF Blank, ResumeWorkflow
    <3>3. CASE r = CancelWorkflow(w)
      BY <1>8, <3>3, Zenon DEF Blank, CancelWorkflow
    <3>4. CASE r = ManualIntervention(w)
      BY <1>8, <3>4, Zenon DEF Blank, ManualIntervention
    <3> QED BY <1>9, <3>1, <3>2, <3>3, <3>4, Zenon
  <2>2. Understood(o, r) /\ r.asks.wf = w /\ r.asks.op \in Actions
    BY <1>7, <1>8, <2>1, Zenon
  <2> QED BY <2>2 DEF Actions
<1> QED BY <1>2, <1>3, <1>4, <1>5, <1>6, <1>9 DEF IsEditOf
-----------------------------------------------------------------------------
(* Where a job leaves its workflow: done and exact, or further on its way. *)
Arrives(j, r, w, d) ==
    IF j.at = "done" THEN Alike(r, w) /\ d = 1..Counted(r) ELSE Tracks(j, r, w, d)

(* What an edit of a copy keeps. *)
LEMMA EditedFields ==
    ASSUME NEW rec \in Record
    PROVE  /\ rec # NoRecord /\ rec.audits \in Nat
           /\ \A ts, s : /\ [rec EXCEPT !.tasks = ts, !.state = s].tasks = ts
                         /\ [rec EXCEPT !.tasks = ts, !.state = s].audits = rec.audits
           /\ \A s : /\ [rec EXCEPT !.state = s].tasks = rec.tasks
                     /\ [rec EXCEPT !.state = s].audits = rec.audits
           /\ \A s, b : /\ [rec EXCEPT !.state = s, !.answered = b].tasks = rec.tasks
                        /\ [rec EXCEPT !.state = s, !.answered = b].audits = rec.audits
           /\ \A n : /\ [rec EXCEPT !.audits = n].tasks = rec.tasks
                     /\ [rec EXCEPT !.audits = n].audits = n
<1>1. rec # NoRecord /\ rec.audits \in Nat
  BY NoRecordAssumption, RecordEdits
<1>2. DOMAIN rec = {"tasks", "audits", "answered", "state"}
  BY DEF Record
<1>3. /\ \A ts, s : /\ [rec EXCEPT !.tasks = ts, !.state = s].tasks = ts
                    /\ [rec EXCEPT !.tasks = ts, !.state = s].audits = rec.audits
  BY <1>2, Zenon
<1>4. /\ \A s : /\ [rec EXCEPT !.state = s].tasks = rec.tasks
                /\ [rec EXCEPT !.state = s].audits = rec.audits
  BY <1>2, Zenon
<1>5. \A s, b : /\ [rec EXCEPT !.state = s, !.answered = b].tasks = rec.tasks
                /\ [rec EXCEPT !.state = s, !.answered = b].audits = rec.audits
  BY <1>2, Zenon
<1>6. \A n : /\ [rec EXCEPT !.audits = n].tasks = rec.tasks
             /\ [rec EXCEPT !.audits = n].audits = n
  BY <1>2, Zenon
<1> QED BY <1>1, <1>3, <1>4, <1>5, <1>6, Zenon

LEMMA FreshFields == FreshRecord.audits = 0 /\ FreshRecord.tasks = {}
BY DEF FreshRecord

(* The steps that only read. *)
LEMMA ReadsTrack ==
    ASSUME ServiceOK, NEW h \in Threads, NEW v \in Workflows, job[h].wf = v,
           NEW w \in Record \cup {NoRecord}, NEW d,
           Tracks(job[h], record[v], w, d),
           EditConfig(h) \/ SubmitRead(h) \/ ReorchestrateRead(h) \/ ActRead(h) \/ LogRead(h)
    PROVE  Arrives(job'[h], record[v], w, d)
<1> DEFINE j == job[h]
           k == job'[h]
           r == record[v]
<1>1. /\ DOMAIN job = Threads /\ DOMAIN j = Fields /\ j.rec \in Record /\ SoundJob(j)
  BY DEF ServiceOK, JobsOK, SoundJob
<1>2. Fetched(h) = r /\ r \in Record \cup {NoRecord}
  BY DEF Fetched, ServiceOK, RecordsOK
<1>3. /\ r # NoRecord => r \in Record /\ r.audits \in Nat
      /\ w # NoRecord => w \in Record /\ w.audits \in Nat
  BY <1>2, EditedFields
<1>4. ASSUME NEW s, Goto(h, s)
      PROVE  Turns(job, job', h, s, j.tasks, j.rec)
  BY <1>1, <1>4, JobEdits, Zenon DEF Goto
<1>5. ASSUME NEW s, NEW x, Holding(h, s, x)
      PROVE  Turns(job, job', h, s, j.tasks, x)
  BY <1>1, <1>5, JobEdits, Zenon DEF Holding
<1>6. CASE EditConfig(h)
  <2> DEFINE t == j.task
             refused == r = NoRecord \/ (j.op = "delete_task" /\ t \notin r.tasks)
             ts == IF j.op = "upsert_task" THEN r.tasks \cup {t} ELSE r.tasks \ {t}
  <2>1. /\ j.at = "edit"
        /\ IF refused THEN Goto(h, "done")
           ELSE job' = [job EXCEPT ![h].at = "submit", ![h].tasks = ts]
    BY <1>2, <1>6, Zenon DEF EditConfig, At
  <2>2. CASE refused
    <3>1. k.at = "done"
      BY <1>4, <2>1, <2>2 DEF Turns
    <3>2. Alike(r, w) /\ d = 1..Counted(r)
      BY <2>1, <2>2 DEF Tracks
    <3> QED BY <3>1, <3>2 DEF Arrives
  <2>3. CASE ~refused
    <3>1. job' = [job EXCEPT ![h].at = "submit", ![h].tasks = ts]
      BY <2>1, <2>3
    <3>2. /\ j.op \in {"upsert_task", "delete_task"} /\ d = 1..r.audits
          /\ w # NoRecord /\ w.audits = r.audits + 1 /\ w.tasks = ts
      BY <2>1, <2>3 DEF Tracks, Counted
    <3> HIDE DEF ts
    <3>3. Turns(job, job', h, "submit", ts, j.rec)
      BY <1>1, <3>1, JobEdits, Zenon
    <3>4. k.at = "submit" /\ k.op = j.op /\ k.tasks = ts
      BY <3>3 DEF Turns
    <3>5. Counted(r) = r.audits /\ Due(k.op) = 1
      BY <2>3, <3>2, <3>4 DEF Counted, Due, Audited
    <3>6. Tracks(k, r, w, d)
      BY <3>2, <3>4, <3>5 DEF Tracks
    <3> QED BY <3>4, <3>6 DEF Arrives
  <2> QED BY <2>2, <2>3
<1>7. CASE SubmitRead(h)
  <2> DEFINE old == IF r = NoRecord \/ j.op = "submit" THEN FreshRecord ELSE r
             new == [old EXCEPT !.tasks = j.tasks, !.state = "submitted"]
  <2>1. j.at = "submit" /\ Holding(h, "save", new)
    BY <1>2, <1>7, Zenon DEF SubmitRead, At
  <2>2. /\ w # NoRecord /\ w.tasks = j.tasks /\ w.audits = Counted(r) + Due(j.op)
        /\ d = 1..Counted(r) /\ (j.op = "submit" => Counted(r) = 0)
    BY <2>1 DEF Tracks
  <2>3. old \in Record /\ old.audits = Counted(r)
    BY <1>3, <2>2, FreshIsRecord, FreshFields DEF Counted
  <2>4. new.tasks = j.tasks /\ new.audits = old.audits /\ new \in Record
    <3>1. j.tasks \in SUBSET Tasks
      BY <1>1 DEF SoundJob
    <3> HIDE DEF old
    <3>2. /\ \A ts \in SUBSET Tasks : [old EXCEPT !.tasks = ts, !.state = "submitted"] \in Record
          /\ \A ts, s : /\ [old EXCEPT !.tasks = ts, !.state = s].tasks = ts
                        /\ [old EXCEPT !.tasks = ts, !.state = s].audits = old.audits
      BY <2>3, EditedFields, RecordEdits, Zenon
    <3> QED BY <3>1, <3>2, Zenon
  <2> HIDE DEF new, old
  <2>5. k.at = "save" /\ k.op = j.op /\ k.rec = new
    BY <1>5, <2>1 DEF Turns
  <2>6. new # NoRecord
    BY <2>4, EditedFields
  <2>7. Ahead(k.rec, w, Due(k.op)) /\ d = 1..k.rec.audits
    BY <2>2, <2>3, <2>4, <2>5, <2>6 DEF Ahead
  <2>8. Tracks(k, r, w, d)
    BY <2>5, <2>7 DEF Tracks
  <2> QED BY <2>5, <2>8 DEF Arrives
<1>8. CASE ReorchestrateRead(h)
  <2>1. /\ j.at = "reorchestrate"
        /\ Goto(h, "done") \/ (r # NoRecord /\ Holding(h, "plan", r))
    BY <1>2, <1>8, Zenon DEF ReorchestrateRead, At
  <2>2. Alike(r, w) /\ d = 1..Counted(r)
    BY <2>1 DEF Tracks
  <2>3. CASE Goto(h, "done")
    <3>1. k.at = "done"
      BY <1>4, <2>3 DEF Turns
    <3> QED BY <2>2, <3>1 DEF Arrives
  <2>4. CASE r # NoRecord /\ Holding(h, "plan", r)
    <3>1. k.at = "plan" /\ k.op = j.op /\ k.rec = r
      BY <1>5, <2>4 DEF Turns
    <3>2. Ahead(r, r, 0) /\ Ahead(r, w, 0) /\ d = 1..r.audits
      BY <1>3, <2>2, <2>4 DEF Ahead, Alike, Counted
    <3>3. Due(k.op) = 0
      BY <2>1, <3>1 DEF Tracks, Due
    <3> QED BY <3>1, <3>2, <3>3 DEF Arrives, Tracks
  <2> QED BY <2>1, <2>3, <2>4
<1>9. CASE ActRead(h)
  <2> DEFINE new == [r EXCEPT !.state = StateAfter(j.op, r)]
             s == IF j.op = "manual" THEN "row" ELSE "mark"
  <2>1. /\ j.at = "act"
        /\ IF r = NoRecord THEN Goto(h, "done") ELSE Holding(h, s, new)
    BY <1>2, <1>9, Zenon DEF ActRead, At
  <2>2. d = 1..Counted(r) /\ IF r = NoRecord THEN w = NoRecord ELSE Ahead(r, w, 1)
    BY <2>1 DEF Tracks
  <2>3. CASE r = NoRecord
    <3>1. k.at = "done"
      BY <1>4, <2>1, <2>3 DEF Turns
    <3> QED BY <2>2, <2>3, <3>1 DEF Arrives, Alike
  <2>4. CASE r # NoRecord
    <3>1. new.tasks = r.tasks /\ new.audits = r.audits /\ new \in Record
      <4>1. r \in Record
        BY <1>3, <2>4
      <4>2. /\ \A x : [r EXCEPT !.state = x].tasks = r.tasks /\ [r EXCEPT !.state = x].audits = r.audits
            /\ \A x \in {"submitted", "planned", "failed", "paused", "cancelled"} :
                  [r EXCEPT !.state = x] \in Record
            /\ StateAfter(j.op, r) \in {"submitted", "planned", "failed", "paused", "cancelled"}
        BY <4>1, EditedFields, RecordEdits, Zenon
      <4> QED BY <4>2, Zenon
    <3>2. new # NoRecord /\ s \in {"mark", "row"}
      BY <3>1, EditedFields
    <3>3. Holding(h, s, new)
      BY <2>1, <2>4
    <3> HIDE DEF new, s
    <3>4. k.at = s /\ k.rec = new
      BY <1>5, <3>3 DEF Turns
    <3>5. Ahead(k.rec, r, 0) /\ Ahead(r, w, 1) /\ d = 1..r.audits
      BY <1>3, <2>2, <2>4, <3>1, <3>2, <3>4 DEF Ahead, Counted
    <3> QED BY <3>2, <3>4, <3>5 DEF Arrives, Tracks
  <2> QED BY <2>3, <2>4
<1>10. CASE LogRead(h)
  <2>1. /\ j.at = "log"
        /\ IF r = NoRecord THEN Goto(h, "done") ELSE Holding(h, "row", r)
    BY <1>2, <1>10, Zenon DEF LogRead, At
  <2>2. Ahead(r, w, 1) /\ d = 1..r.audits /\ r # NoRecord
    BY <2>1 DEF Tracks, Ahead
  <2>3. k.at = "row" /\ k.rec = r
    BY <1>5, <2>1, <2>2 DEF Turns
  <2>4. Ahead(r, r, 0)
    BY <1>3, <2>2 DEF Ahead
  <2> QED BY <2>2, <2>3, <2>4 DEF Arrives, Tracks
<1> QED BY <1>6, <1>7, <1>8, <1>9, <1>10
(* The steps that write, and the publications. *)
LEMMA WritesTrack ==
    ASSUME ServiceOK, NEW h \in Threads, NEW v \in Workflows, job[h].wf = v,
           NEW w \in Record \cup {NoRecord}, Tracks(job[h], record[v], w, DOMAIN audits[v]),
           \/ SubmitSave(h) \/ PlanSave(h) \/ ActMark(h) \/ AuditRow(h) \/ AuditStamp(h)
           \/ Publication(h)
    PROVE  Arrives(job'[h], record'[v], w, DOMAIN audits'[v])
<1> DEFINE j == job[h]
           k == job'[h]
           r == record[v]
           d == DOMAIN audits[v]
<1>1. /\ DOMAIN job = Threads /\ DOMAIN j = Fields /\ j.rec \in Record
      /\ record \in [Workflows -> Record \cup {NoRecord}] /\ DOMAIN audits = Workflows
  BY DEF ServiceOK, JobsOK, SoundJob, RecordsOK, AuditsOK
<1>2. /\ j.rec # NoRecord /\ j.rec.audits \in Nat
      /\ r # NoRecord => r.audits \in Nat
      /\ w # NoRecord => w.audits \in Nat
  BY <1>1, EditedFields
<1>3. ASSUME NEW s, Goto(h, s)
      PROVE  k.at = s /\ k.op = j.op /\ k.rec = j.rec
  <2>1. Turns(job, job', h, s, j.tasks, j.rec)
    BY <1>1, <1>3, JobEdits, Zenon DEF Goto
  <2> QED BY <2>1 DEF Turns
<1>4. ASSUME NEW s, NEW x, Holding(h, s, x)
      PROVE  k.at = s /\ k.op = j.op /\ k.rec = x
  <2>1. Turns(job, job', h, s, j.tasks, x)
    BY <1>1, <1>4, JobEdits, Zenon DEF Holding
  <2> QED BY <2>1 DEF Turns
<1>5. ASSUME NEW x, Store(v, x)
      PROVE  record'[v] = x
  BY <1>1, <1>5 DEF Store
<1>6. CASE SubmitSave(h)
  <2>1. j.at = "save" /\ Goto(h, "announce") /\ Store(v, j.rec) /\ audits' = audits
    BY <1>6 DEF SubmitSave, At
  <2>2. Ahead(j.rec, w, Due(j.op)) /\ d = 1..j.rec.audits
    BY <2>1 DEF Tracks
  <2>3. k.at = "announce" /\ k.op = j.op /\ k.rec = j.rec /\ record'[v] = j.rec
    BY <1>3, <1>5, <2>1
  <2>4. Ahead(j.rec, j.rec, 0)
    BY <1>2 DEF Ahead
  <2> QED BY <2>1, <2>2, <2>3, <2>4 DEF Arrives, Tracks
<1>7. CASE PlanSave(h)
  <2>1. PICK s \in {"planned", "failed"} :
           LET rec == [j.rec EXCEPT !.state = s, !.answered = (s = "planned")]
           IN Holding(h, "publish", rec) /\ Store(v, rec)
    BY <1>7, Zenon DEF PlanSave
  <2> DEFINE rec == [j.rec EXCEPT !.state = s, !.answered = (s = "planned")]
  <2>2. Holding(h, "publish", rec) /\ Store(v, rec)
    BY <2>1, Zenon
  <2>3. rec \in Record /\ rec.tasks = j.rec.tasks /\ rec.audits = j.rec.audits
    <3>1. \A x \in {"planned", "failed"} :
             [j.rec EXCEPT !.state = x, !.answered = (x = "planned")] \in Record
      BY <1>1, RecordEdits, Zenon
    <3>2. \A x, b : /\ [j.rec EXCEPT !.state = x, !.answered = b].tasks = j.rec.tasks
                    /\ [j.rec EXCEPT !.state = x, !.answered = b].audits = j.rec.audits
      BY <1>1, EditedFields, Zenon
    <3> QED BY <3>1, <3>2, Zenon
  <2>4. j.at = "plan" /\ audits' = audits
    BY <1>7 DEF PlanSave, At
  <2> HIDE DEF rec
  <2>5. k.at = "publish" /\ k.op = j.op /\ k.rec = rec /\ record'[v] = rec
    BY <1>4, <1>5, <2>2
  <2>6. Ahead(j.rec, r, 0) /\ Ahead(r, w, Due(j.op)) /\ d = 1..r.audits
    BY <2>4 DEF Tracks
  <2>7. rec # NoRecord /\ rec.audits \in Nat
    BY <2>3, EditedFields
  <2>8. Ahead(rec, rec, 0) /\ Ahead(rec, w, Due(j.op)) /\ d = 1..rec.audits
    BY <1>2, <2>3, <2>6, <2>7 DEF Ahead
  <2> QED BY <2>4, <2>5, <2>8 DEF Arrives, Tracks
<1>8. CASE ActMark(h)
  <2>1. j.at = "mark" /\ Goto(h, "row") /\ Store(v, j.rec) /\ audits' = audits
    BY <1>8 DEF ActMark, At
  <2>2. Ahead(j.rec, r, 0) /\ Ahead(r, w, 1) /\ d = 1..r.audits
    BY <2>1 DEF Tracks
  <2>3. k.at = "row" /\ k.rec = j.rec /\ record'[v] = j.rec
    BY <1>3, <1>5, <2>1
  <2>4. Ahead(j.rec, j.rec, 0) /\ Ahead(j.rec, w, 1) /\ d = 1..j.rec.audits
    BY <1>2, <2>2 DEF Ahead
  <2> QED BY <2>1, <2>3, <2>4 DEF Arrives, Tracks
<1>9. CASE AuditRow(h)
  <2> DEFINE seq == j.rec.audits + 1
             new == [j.rec EXCEPT !.audits = seq]
             rows == [s \in d \cup {seq} |-> IF s = seq THEN j.op ELSE audits[v][s]]
  <2>1. /\ audits' = [audits EXCEPT ![v] = rows]
        /\ Holding(h, "stamp", new) /\ record' = record /\ j.at = "row"
    BY <1>9, Zenon DEF AuditRow, At
  <2>2. DOMAIN audits'[v] = d \cup {seq}
    BY <1>1, <2>1
  <2>3. new.audits = seq /\ new.tasks = j.rec.tasks
    BY <1>1, EditedFields, Zenon
  <2>4. new # NoRecord
    <3>1. seq \in Nat
      BY <1>2
    <3>2. \A n \in Nat : [j.rec EXCEPT !.audits = n] \in Record
      BY <1>1, RecordEdits, Zenon
    <3>3. new \in Record
      BY <3>1, <3>2, Zenon
    <3> QED BY <3>3, EditedFields
  <2> HIDE DEF new, rows
  <2>5. k.at = "stamp" /\ k.rec = new
    BY <1>4, <2>1
  <2>6. Ahead(j.rec, r, 0) /\ Ahead(r, w, 1) /\ d = 1..r.audits
    BY <2>1 DEF Tracks
  <2>7. Ahead(new, w, 0) /\ w.audits = r.audits + 1 /\ seq = r.audits + 1 /\ r.audits \in Nat
    BY <1>2, <2>3, <2>4, <2>6 DEF Ahead
  <2>8. DOMAIN audits'[v] = 1..w.audits
    BY <2>2, <2>6, <2>7
  <2> QED BY <2>1, <2>5, <2>6, <2>7, <2>8 DEF Arrives, Tracks
<1>10. CASE AuditStamp(h)
  <2>1. j.at = "stamp" /\ Goto(h, "tell") /\ Store(v, j.rec) /\ audits' = audits
    BY <1>10 DEF AuditStamp, At
  <2>2. Ahead(j.rec, w, 0) /\ d = 1..w.audits
    BY <2>1 DEF Tracks
  <2>3. k.at = "tell" /\ record'[v] = j.rec
    BY <1>3, <1>5, <2>1
  <2>4. Alike(j.rec, w) /\ d = 1..Counted(j.rec)
    BY <1>2, <2>2 DEF Ahead, Alike, Counted
  <2> QED BY <2>1, <2>3, <2>4 DEF Arrives, Tracks
<1>11. CASE Publication(h)
  <2>1. record' = record /\ audits' = audits
    BY <1>11 DEF Publication
  <2>2. CASE j.at = "announce" /\ Goto(h, "plan")
    <3>1. k.at = "plan" /\ k.op = j.op /\ k.rec = j.rec
      BY <1>3, <2>2
    <3> QED BY <2>1, <2>2, <3>1 DEF Arrives, Tracks
  <2>3. CASE j.at = "publish" /\ Goto(h, IF Audited(j.op) THEN "log" ELSE "done")
    <3>1. Ahead(r, w, Due(j.op)) /\ d = 1..r.audits
      BY <2>3 DEF Tracks
    <3>2. CASE Audited(j.op)
      <4>1. k.at = "log"
        BY <1>3, <2>3, <3>2
      <4>2. Ahead(r, w, 1)
        BY <3>1, <3>2 DEF Due
      <4> QED BY <2>1, <3>1, <4>1, <4>2 DEF Arrives, Tracks
    <3>3. CASE ~Audited(j.op)
      <4>1. k.at = "done"
        BY <1>3, <2>3, <3>3
      <4>2. Ahead(r, w, 0)
        BY <3>1, <3>3 DEF Due
      <4>3. Alike(r, w) /\ d = 1..Counted(r)
        BY <1>2, <3>1, <4>2 DEF Ahead, Alike, Counted
      <4> QED BY <2>1, <4>1, <4>3 DEF Arrives
    <3> QED BY <3>2, <3>3
  <2>4. CASE j.at = "tell" /\ Goto(h, IF j.op = "manual" THEN "reorchestrate" ELSE "done")
    <3>1. Alike(r, w) /\ d = 1..Counted(r)
      BY <2>4 DEF Tracks
    <3>2. CASE j.op = "manual"
      <4>1. k.at = "reorchestrate" /\ k.op = j.op
        BY <1>3, <2>4, <3>2
      <4>2. ~Audited(k.op)
        BY <3>2, <4>1 DEF Audited
      <4> QED BY <2>1, <3>1, <4>1, <4>2 DEF Arrives, Tracks
    <3>3. CASE j.op # "manual"
      <4>1. k.at = "done"
        BY <1>3, <2>4, <3>3
      <4> QED BY <2>1, <3>1, <4>1 DEF Arrives
    <3> QED BY <3>2, <3>3
  <2> QED BY <1>11, <2>2, <2>3, <2>4 DEF Publication, At
<1> QED BY <1>6, <1>7, <1>8, <1>9, <1>10, <1>11

(* A workflow nobody touches stays on its way. *)
LEMMA UntouchedOnTrack ==
    ASSUME NEW w, OnTrack(w), record'[w] = record[w], audits'[w] = audits[w],
           wanted'[w] = wanted[w], Working(w)' = Working(w),
           \A h \in Working(w) : job'[h] = job[h]
    PROVE  OnTrack(w)'
BY DEF OnTrack

LEMMA ServeKeepsEdits ==
    ASSUME Types, EditsOK, NEW c \in Threads, ServiceStep(c), script' = script
    PROVE  EditsOK'
<1>1. wanted' = wanted /\ raced' = raced
  BY DEF ServiceStep, EditConfig, SubmitRead, SubmitSave, PlanSave, ReorchestrateRead, ActRead,
         ActMark, LogRead, AuditRow, AuditStamp, Publication
<1>2. StepOf(c) /\ ServiceOK
  BY ServiceSteps DEF Types
<1>3. Active(c)
  BY DEF Active, ServiceStep, EditConfig, SubmitRead, SubmitSave, PlanSave, ReorchestrateRead, ActRead,
         ActMark, LogRead, AuditRow, AuditStamp, Publication, At
<1>4. /\ \A g \in Threads \ {c} : job'[g] = job[g]
      /\ job'[c].wf = job[c].wf /\ job'[c].at # "idle"
  <2>1. job'[c].at # "idle"
    <3>1. /\ DOMAIN job = Threads /\ DOMAIN job[c] = Fields
      BY <1>2 DEF ServiceOK, JobsOK, SoundJob
    <3>2. ASSUME NEW s, Goto(c, s) PROVE job'[c].at = s
      <4>1. Turns(job, job', c, s, job[c].tasks, job[c].rec)
        BY <3>1, <3>2, JobEdits, Zenon DEF Goto
      <4> QED BY <4>1 DEF Turns
    <3>3. ASSUME NEW s, NEW x, Holding(c, s, x) PROVE job'[c].at = s
      <4>1. Turns(job, job', c, s, job[c].tasks, x)
        BY <3>1, <3>3, JobEdits, Zenon DEF Holding
      <4> QED BY <4>1 DEF Turns
    <3>4. ASSUME NEW ts, job' = [job EXCEPT ![c].at = "submit", ![c].tasks = ts]
          PROVE  job'[c].at = "submit"
      <4>1. Turns(job, job', c, "submit", ts, job[c].rec)
        BY <3>1, <3>4, JobEdits, Zenon
      <4> QED BY <4>1 DEF Turns
    <3>5. \/ \E s \in Steps \ {"idle"} : Goto(c, s) \/ \E x : Holding(c, s, x)
          \/ \E ts : job' = [job EXCEPT ![c].at = "submit", ![c].tasks = ts]
      <4>1. CASE EditConfig(c)
        BY <4>1, Zenon DEF EditConfig, Steps
      <4>2. CASE SubmitRead(c) \/ SubmitSave(c) \/ PlanSave(c)
        BY <4>2, Zenon DEF SubmitRead, SubmitSave, PlanSave, Steps
      <4>3. CASE ReorchestrateRead(c) \/ LogRead(c)
        BY <4>3, Zenon DEF ReorchestrateRead, LogRead, Steps
      <4>4. CASE ActRead(c) \/ ActMark(c)
        BY <4>4, Zenon DEF ActRead, ActMark, Steps
      <4>5. CASE AuditRow(c) \/ AuditStamp(c)
        BY <4>5, Zenon DEF AuditRow, AuditStamp, Steps
      <4>6. CASE Publication(c)
        BY <4>6, Zenon DEF Publication, Steps
      <4> QED BY <4>1, <4>2, <4>3, <4>4, <4>5, <4>6 DEF ServiceStep
    <3> QED BY <3>2, <3>3, <3>4, <3>5, Zenon
  <2> QED BY <1>2, <2>1 DEF StepOf
<1>5. ASSUME NEW w \in Workflows \ raced, w # job[c].wf PROVE OnTrack(w)'
  <2>1. record'[w] = record[w] /\ audits'[w] = audits[w]
    BY <1>2, <1>5 DEF StepOf, Wrote, Published, OnlyRead
  <2>2. Working(w)' = Working(w) /\ c \notin Working(w)
    BY <1>4, <1>5 DEF Working, Active
  <2>3. \A h \in Working(w) : job'[h] = job[h]
    BY <1>4, <2>2 DEF Working
  <2> QED BY <1>1, <1>5, <2>1, <2>2, <2>3, UntouchedOnTrack DEF EditsOK
<1>6. ASSUME NEW w \in Workflows \ raced, w = job[c].wf PROVE OnTrack(w)'
  <2>1. OnTrack(w) /\ c \in Working(w)
    BY <1>3, <1>6 DEF EditsOK, Working
  <2>2. Working(w) = {c} /\ Tracks(job[c], record[w], wanted[w], DOMAIN audits[w])
    BY <2>1 DEF OnTrack
  <2>3. wanted[w] \in Record \cup {NoRecord}
    BY DEF EditsOK, WantedOK
  <2>4. Arrives(job'[c], record'[w], wanted[w], DOMAIN audits'[w])
    <3>1. CASE EditConfig(c) \/ SubmitRead(c) \/ ReorchestrateRead(c) \/ ActRead(c) \/ LogRead(c)
      <4>1. record' = record /\ audits' = audits
        BY <3>1 DEF EditConfig, SubmitRead, ReorchestrateRead, ActRead, LogRead
      <4> QED BY <1>2, <1>6, <2>2, <2>3, <3>1, <4>1, ReadsTrack
    <3>2. CASE \/ SubmitSave(c) \/ PlanSave(c) \/ ActMark(c) \/ AuditRow(c) \/ AuditStamp(c)
               \/ Publication(c)
      BY <1>2, <1>6, <2>2, <2>3, <3>2, WritesTrack
    <3> QED BY <3>1, <3>2 DEF ServiceStep
  <2>5. \A g \in Threads \ {c} : g \notin Working(w)'
    BY <1>4, <2>2 DEF Working, Active
  <2>6. CASE job'[c].at = "done"
    <3>1. Working(w)' = {}
      BY <2>5, <2>6 DEF Working, Active
    <3> QED BY <1>1, <2>4, <2>6, <3>1 DEF OnTrack, Arrives
  <2>7. CASE job'[c].at # "done"
    <3>1. Working(w)' = {c}
      BY <1>4, <1>6, <2>5, <2>7 DEF Working, Active
    <3> QED BY <1>1, <2>4, <2>7, <3>1 DEF OnTrack, Arrives
  <2> QED BY <2>6, <2>7
<1>7. WantedOK' /\ Unaudited'
  BY <1>1 DEF EditsOK, WantedOK, Unaudited
<1> QED BY <1>1, <1>5, <1>6, <1>7 DEF EditsOK
-----------------------------------------------------------------------------
(* What an operation asks for. *)
LEMMA AuditedRecord ==
    ASSUME NEW rec \in Record, NEW new, new = [rec EXCEPT !.audits = @ + 1]
    PROVE  new \in Record /\ new.tasks = rec.tasks /\ new.audits = rec.audits + 1
<1> DEFINE n == rec.audits + 1
<1>1. n \in Nat
  BY DEF Record
<1> HIDE DEF n
<1>2. new = [rec EXCEPT !.audits = n]
  BY Zenon DEF n
<1>3. \A m \in Nat : [rec EXCEPT !.audits = m] \in Record
  BY RecordEdits, Zenon
<1>4. \A m : /\ [rec EXCEPT !.audits = m].tasks = rec.tasks
             /\ [rec EXCEPT !.audits = m].audits = m
  BY EditedFields, Zenon
<1>5. new \in Record /\ new.tasks = rec.tasks /\ new.audits = n
  BY <1>1, <1>2, <1>3, <1>4, Zenon
<1> QED BY <1>5, Zenon DEF n

LEMMA RetaskedRecord ==
    ASSUME NEW rec \in Record, NEW ts \in SUBSET Tasks, NEW new, new = [rec EXCEPT !.tasks = ts]
    PROVE  new \in Record /\ new.tasks = ts /\ new.audits = rec.audits
<1>1. DOMAIN rec = {"tasks", "audits", "answered", "state"}
  BY DEF Record
<1>2. new \in Record
  BY RecordEdits, Zenon
<1> QED BY <1>1, <1>2, Zenon

(* Record new has the tasks ts and one audit entry more than rec. *)
Entered(rec, new, ts) ==
    new \in Record /\ new.tasks = ts /\ new.audits = Counted(rec) + 1

(* What an operation on a workflow that has the record rec asks for. *)
Requested(op, t, rec, new) ==
    /\ new \in Record \cup {NoRecord}
    /\ op = "upsert_workflow" => Entered(rec, new, Submitted)
    /\ op = "submit" => new \in Record /\ new.tasks = Submitted /\ new.audits = 0
    /\ op \in {"upsert_task", "delete_task"} =>
          IF rec = NoRecord \/ (op = "delete_task" /\ t \notin rec.tasks) THEN new = rec
          ELSE Entered(rec, new, IF op = "upsert_task" THEN rec.tasks \cup {t} ELSE rec.tasks \ {t})
    /\ op \in Actions =>
          IF rec = NoRecord THEN new = NoRecord ELSE Entered(rec, new, rec.tasks)
    /\ op = "reorchestrate" => new = rec

LEMMA IntendedIsRequested ==
    ASSUME NEW o, NEW rec \in Record \cup {NoRecord}, NEW op, NEW t, o.op = op, o.task = t,
           op = "upsert_task" => t \in Tasks,
           op \in {"upsert_workflow", "upsert_task", "delete_task", "submit", "reorchestrate"}
                  \cup Actions
    PROVE  Requested(op, t, rec, Intended(o, rec))
<1> DEFINE new == Intended(o, rec)
<1>1. rec # NoRecord => rec \in Record /\ rec.audits \in Nat /\ rec.tasks \in SUBSET Tasks
  BY RecordEdits
<1>2. Submitted \in SUBSET Tasks
  BY StoredAssumption
<1>3. CASE op = "upsert_workflow"
  <2> DEFINE before == IF rec = NoRecord THEN FreshRecord ELSE rec
             edited == [before EXCEPT !.tasks = Submitted]
  <2>1. before \in Record /\ before.audits = Counted(rec)
    BY <1>1, FreshIsRecord, FreshFields DEF Counted
  <2>2. new = [edited EXCEPT !.audits = @ + 1]
    BY <1>3, Zenon DEF Intended, Actions
  <2> HIDE DEF before
  <2>3. edited \in Record /\ edited.tasks = Submitted /\ edited.audits = before.audits
    BY <1>2, <2>1, RetaskedRecord, Zenon
  <2> HIDE DEF edited, new
  <2>4. new \in Record /\ new.tasks = edited.tasks /\ new.audits = edited.audits + 1
    BY <2>2, <2>3, AuditedRecord, Zenon
  <2>5. Entered(rec, new, Submitted)
    BY <2>1, <2>3, <2>4 DEF Entered
  <2>6. Requested(op, t, rec, new)
    BY <1>3, <2>4, <2>5 DEF Requested, Actions
  <2> QED BY <2>6 DEF new
<1>4. CASE op = "submit"
  <2>1. new = [FreshRecord EXCEPT !.tasks = Submitted]
    BY <1>4, Zenon DEF Intended, Actions
  <2> HIDE DEF new
  <2>2. new \in Record /\ new.tasks = Submitted /\ new.audits = 0
    BY <1>2, <2>1, FreshIsRecord, FreshFields, RetaskedRecord
  <2>3. Requested(op, t, rec, new)
    BY <1>4, <2>2 DEF Requested, Actions
  <2> QED BY <2>3 DEF new
<1>5. CASE op \in {"upsert_task", "delete_task"}
  <2> DEFINE nothing == rec = NoRecord \/ (op = "delete_task" /\ t \notin rec.tasks)
             ts == IF op = "upsert_task" THEN rec.tasks \cup {t} ELSE rec.tasks \ {t}
             edited == [rec EXCEPT !.tasks = ts]
  <2>1. CASE nothing
    <3>1. new = rec
      <4>1. CASE rec = NoRecord
        BY <1>5, <4>1, Zenon DEF Intended, Actions
      <4>2. CASE rec # NoRecord
        BY <1>5, <2>1, <4>2, Zenon DEF Intended, Actions
      <4> QED BY <4>1, <4>2
    <3> HIDE DEF new
    <3>2. Requested(op, t, rec, new)
      BY <1>5, <2>1, <3>1 DEF Requested, Actions
    <3> QED BY <3>2 DEF new
  <2>2. CASE ~nothing
    <3>1. new = [edited EXCEPT !.audits = @ + 1]
      <4>1. CASE op = "upsert_task"
        BY <2>2, <4>1, Zenon DEF Intended, Actions
      <4>2. CASE op = "delete_task"
        BY <2>2, <4>2, Zenon DEF Intended, Actions
      <4> QED BY <1>5, <4>1, <4>2
    <3>2. rec \in Record /\ ts \in SUBSET Tasks
      BY <1>1, <1>5, <2>2
    <3> HIDE DEF ts
    <3>3. edited \in Record /\ edited.tasks = ts /\ edited.audits = rec.audits
      BY <3>2, RetaskedRecord, Zenon
    <3> HIDE DEF edited, new
    <3>4. new \in Record /\ new.tasks = edited.tasks /\ new.audits = edited.audits + 1
      BY <3>1, <3>3, AuditedRecord, Zenon
    <3>5. Entered(rec, new, ts)
      BY <2>2, <3>3, <3>4 DEF Entered, Counted
    <3>6. Requested(op, t, rec, new)
      BY <1>5, <2>2, <3>4, <3>5 DEF Requested, Actions, ts
    <3> QED BY <3>6 DEF new
  <2> QED BY <2>1, <2>2
<1>6. CASE op \in Actions
  <2>1. CASE rec = NoRecord
    <3>1. new = rec
      BY <1>6, <2>1, Zenon DEF Intended, Actions
    <3> HIDE DEF new
    <3>2. Requested(op, t, rec, new)
      BY <1>6, <2>1, <3>1 DEF Requested, Actions
    <3> QED BY <3>2 DEF new
  <2>2. CASE rec # NoRecord
    <3>1. new = [rec EXCEPT !.audits = @ + 1]
      BY <1>6, <2>2, Zenon DEF Intended, Actions
    <3> HIDE DEF new
    <3>2. Entered(rec, new, rec.tasks)
      BY <1>1, <2>2, <3>1, AuditedRecord, Zenon DEF Entered, Counted
    <3>3. Requested(op, t, rec, new)
      BY <1>6, <2>2, <3>2 DEF Requested, Actions, Entered
    <3> QED BY <3>3 DEF new
  <2> QED BY <2>1, <2>2
<1>7. CASE op = "reorchestrate"
  <2>1. new = rec
    BY <1>7, Zenon DEF Intended, Actions
  <2> HIDE DEF new
  <2>2. Requested(op, t, rec, new)
    BY <1>7, <2>1 DEF Requested, Actions
  <2> QED BY <2>2 DEF new
<1> QED BY <1>3, <1>4, <1>5, <1>6, <1>7
(* A job that begins on an exact record is on its way. *)
LEMMA BeginTracks ==
    ASSUME NEW k, NEW r \in Record \cup {NoRecord}, NEW d, NEW w \in Record \cup {NoRecord},
           NEW new,
           k.at = FirstStep(k.op), k.tasks = Submitted,
           k.op \in {"upsert_workflow", "upsert_task", "delete_task", "submit", "reorchestrate"}
                    \cup Actions,
           Alike(r, w), d = 1..Counted(r), k.op = "submit" => Counted(w) = 0,
           Requested(k.op, k.task, w, new)
    PROVE  Arrives(k, r, new, d)
<1>1. /\ r # NoRecord => r \in Record /\ r.audits \in Nat
      /\ w # NoRecord => w \in Record /\ w.audits \in Nat
  BY EditedFields
<1>2. Counted(r) = Counted(w) /\ Counted(r) \in Nat
  BY <1>1 DEF Alike, Counted
<1>3. new \in Record => new # NoRecord
  BY EditedFields
<1>4. CASE k.op \in {"upsert_task", "delete_task"}
  <2>1. k.at = "edit"
    BY <1>4, Zenon DEF FirstStep, Actions
  <2>2. CASE w = NoRecord \/ (k.op = "delete_task" /\ k.task \notin w.tasks)
    <3>1. new = w /\ (r = NoRecord \/ (k.op = "delete_task" /\ k.task \notin r.tasks))
      BY <1>4, <2>2 DEF Requested, Alike
    <3> QED BY <1>4, <2>1, <3>1 DEF Arrives, Tracks
  <2>3. CASE ~(w = NoRecord \/ (k.op = "delete_task" /\ k.task \notin w.tasks))
    <3>1. /\ r # NoRecord /\ w.tasks = r.tasks /\ w.audits = r.audits
          /\ ~(k.op = "delete_task" /\ k.task \notin r.tasks)
      BY <2>3 DEF Alike
    <3>2. Entered(w, new, IF k.op = "upsert_task" THEN w.tasks \cup {k.task}
                          ELSE w.tasks \ {k.task})
      BY <1>4, <2>3 DEF Requested
    <3>3. /\ new # NoRecord /\ new.audits = r.audits + 1
          /\ new.tasks = IF k.op = "upsert_task" THEN r.tasks \cup {k.task}
                         ELSE r.tasks \ {k.task}
      BY <1>3, <2>3, <3>1, <3>2 DEF Entered, Counted
    <3> QED BY <1>4, <2>1, <3>1, <3>3 DEF Arrives, Tracks
  <2> QED BY <2>2, <2>3
<1>5. CASE k.op \in {"upsert_workflow", "submit"}
  <2>1. k.at = "submit"
    BY <1>5, Zenon DEF FirstStep, Actions
  <2>2. new # NoRecord /\ new.tasks = Submitted /\ new.audits = Counted(r) + Due(k.op)
    BY <1>2, <1>3, <1>5 DEF Requested, Entered, Due, Audited
  <2>3. k.op = "submit" => Counted(r) = 0
    BY <1>2
  <2> QED BY <2>1, <2>2, <2>3 DEF Arrives, Tracks
<1>6. CASE k.op \in Actions
  <2>1. k.at = "act"
    BY <1>6, Zenon DEF FirstStep, Actions
  <2>2. IF r = NoRecord THEN new = NoRecord ELSE Ahead(r, new, 1)
    BY <1>1, <1>2, <1>3, <1>6 DEF Requested, Entered, Ahead, Alike, Counted
  <2> QED BY <2>1, <2>2 DEF Arrives, Tracks
<1>7. CASE k.op = "reorchestrate"
  <2>1. k.at = "reorchestrate"
    BY <1>7, Zenon DEF FirstStep, Actions
  <2>2. Alike(r, new) /\ ~Audited(k.op)
    BY <1>7 DEF Requested, Audited
  <2> QED BY <2>1, <2>2 DEF Arrives, Tracks
<1> QED BY <1>4, <1>5, <1>6, <1>7

(* The job that a thread begins. *)
LEMMA BegunJob ==
    ASSUME NEW c \in Threads, NEW o, NEW asked, DOMAIN job = Threads, Begin(c, o, asked)
    PROVE  /\ job'[c].at = IF Complete(o) THEN FirstStep(o.op) ELSE "done"
           /\ job'[c].op = o.op /\ job'[c].wf = o.wf /\ job'[c].task = o.task
           /\ job'[c].tasks = Submitted
           /\ \A g \in Threads \ {c} : job'[g] = job[g]
           /\ record' = record /\ audits' = audits
<1> DEFINE at == IF Complete(o) THEN FirstStep(o.op) ELSE "done"
           new == [Idle EXCEPT !.at = at, !.op = o.op, !.wf = o.wf, !.task = o.task,
                               !.tasks = Submitted]
<1>1. /\ job' = [job EXCEPT ![c] = new]
      /\ record' = record /\ audits' = audits
  BY Zenon DEF Begin
<1>2. /\ new.at = at /\ new.op = o.op /\ new.wf = o.wf
      /\ new.task = o.task /\ new.tasks = Submitted
  BY Zenon DEF Idle
<1> HIDE DEF new, at
<1>3. /\ job'[c] = new
      /\ \A g \in Threads \ {c} : job'[g] = job[g]
  BY <1>1
<1>4. /\ job'[c].at = at
      /\ job'[c].op = o.op /\ job'[c].wf = o.wf /\ job'[c].task = o.task
      /\ job'[c].tasks = Submitted
  BY <1>2, <1>3, Zenon
<1> QED BY <1>1, <1>3, <1>4, Zenon DEF at

(* An edit is taken up. *)
LEMMA BeginKeepsEdits ==
    ASSUME Types, EditsOK, SubmittedUnaudited, NEW c \in Threads, c \in DOMAIN script.request,
           job[c].at = "idle", script' = script,
           NEW o, NEW r, r = Request(c), Begin(c, o, r.asks), Understood(o, r),
           r.asks.wf \in Workflows, r.asks.op = "upsert_task" => r.asks.task \in Tasks,
           r.asks.op \in {"upsert_workflow", "upsert_task", "delete_task", "submit", "reorchestrate"}
                         \cup Actions
    PROVE  EditsOK'
<1> DEFINE w == r.asks.wf
           op == r.asks.op
           new == Intended(r.asks, wanted[w])
           k == job'[c]
<1>1. DOMAIN job = Threads /\ record \in [Workflows -> Record \cup {NoRecord}]
  BY DEF Types, ServiceOK, JobsOK, RecordsOK
<1>2. /\ k.at = IF Complete(o) THEN FirstStep(o.op) ELSE "done"
      /\ k.op = o.op /\ k.wf = o.wf /\ k.task = o.task /\ k.tasks = Submitted
      /\ \A g \in Threads \ {c} : job'[g] = job[g]
      /\ record' = record /\ audits' = audits
  BY <1>1, BegunJob, Zenon
<1>3. k.wf = w /\ k.op = op /\ k.task = r.asks.task
  BY <1>2, Zenon DEF Understood
<1>4. Complete(o) <=> Complete(r.asks)
  BY Zenon DEF Complete, Understood
<1>5. wanted \in [Workflows -> Record \cup {NoRecord}]
  BY DEF EditsOK, WantedOK
<1>6. Requested(op, r.asks.task, wanted[w], new)
  <2>1. wanted[w] \in Record \cup {NoRecord}
    BY <1>5
  <2> QED BY <2>1, IntendedIsRequested, Zenon
<1>7. CASE Complete(r.asks)
  <2>1. wanted' = [wanted EXCEPT ![w] = new]
    BY <1>7, Zenon DEF Begin
  <2> HIDE DEF new
  <2>2. WantedOK'
    <3>1. new \in Record \cup {NoRecord}
      BY <1>6 DEF Requested
    <3> QED BY <1>5, <2>1, <3>1 DEF WantedOK
  <2>3. Unaudited'
    <3> SUFFICES ASSUME NEW d \in DOMAIN script.request, NEW v \in Workflows,
                        script.request[d].asks.op = "submit", script.request[d].asks.wf = v
                 PROVE  Counted(wanted'[v]) = 0
      BY DEF Unaudited
    <3>1. Counted(wanted[v]) = 0
      BY DEF EditsOK, Unaudited
    <3>2. CASE v # w
      BY <1>5, <2>1, <3>1, <3>2
    <3>3. CASE v = w
      <4>1. script \in Scripts /\ r = script.request[c]
        BY DEF Types, ServerTypeOK, Request
      <4>2. op \in {"submit", "reorchestrate"}
        BY <3>3, <4>1 DEF SubmittedUnaudited
      <4>3. wanted'[v] = new
        BY <1>5, <2>1, <3>3
      <4>4. CASE op = "submit"
        <5>1. new \in Record /\ new.audits = 0
          BY <1>6, <4>4 DEF Requested
        <5> QED BY <4>3, <5>1 DEF Counted
      <4>5. CASE op = "reorchestrate"
        <5>1. new = wanted[v]
          BY <1>6, <3>3, <4>5 DEF Requested
        <5> QED BY <3>1, <4>3, <5>1
      <4> QED BY <4>2, <4>4, <4>5
    <3> QED BY <3>2, <3>3
  <2>4. raced' = IF \E g \in Threads \ {c} : Active(g) /\ job[g].wf = w
                 THEN raced \cup {w} ELSE raced
    BY <1>7, Zenon DEF Begin
  <2>5. ASSUME NEW v \in Workflows \ raced', v # w PROVE OnTrack(v)'
    <3>1. OnTrack(v)
      BY <2>4, <2>5 DEF EditsOK
    <3>2. Working(v)' = Working(v) /\ c \notin Working(v)
      BY <1>2, <1>3, <2>5 DEF Working, Active
    <3>3. \A h \in Working(v) : job'[h] = job[h]
      BY <1>2, <3>2 DEF Working
    <3>4. wanted'[v] = wanted[v]
      BY <1>5, <2>1, <2>5
    <3> QED BY <1>2, <3>1, <3>2, <3>3, <3>4, UntouchedOnTrack
  <2>6. ASSUME w \notin raced' PROVE OnTrack(w)'
    <3>1. w \notin raced /\ ~\E g \in Threads \ {c} : Active(g) /\ job[g].wf = w
      BY <2>4, <2>6
    <3>2. Working(w) = {}
      BY <3>1 DEF Working, Active
    <3>3. Alike(record[w], wanted[w]) /\ DOMAIN audits[w] = 1..Counted(record[w])
      BY <3>1, <3>2 DEF EditsOK, OnTrack
    <3>4. op = "submit" => Counted(wanted[w]) = 0
      BY DEF EditsOK, Unaudited, Request
    <3>5. k.at = FirstStep(k.op)
      BY <1>2, <1>4, <1>7
    <3>6. record[w] \in Record \cup {NoRecord} /\ wanted[w] \in Record \cup {NoRecord}
      BY <1>1, <1>5
    <3>7. Arrives(k, record[w], new, DOMAIN audits[w])
      BY <1>2, <1>3, <1>6, <3>3, <3>4, <3>5, <3>6, BeginTracks
    <3>8. wanted'[w] = new
      BY <1>5, <2>1
    <3>9. \A g \in Threads \ {c} : g \notin Working(w)'
      BY <1>2, <3>2 DEF Working, Active
    <3>10. CASE k.at = "done"
      <4>1. Working(w)' = {}
        BY <3>9, <3>10 DEF Working, Active
      <4> QED BY <1>2, <3>7, <3>8, <3>10, <4>1 DEF OnTrack, Arrives
    <3>11. CASE k.at # "done"
      <4>1. Working(w)' \subseteq {c}
        BY <3>9 DEF Working
      <4>2. k.at # "idle"
        BY <3>5, Zenon DEF FirstStep
      <4>3. c \in Working(w)'
        BY <1>3, <3>11, <4>2 DEF Working, Active
      <4> QED BY <1>2, <3>7, <3>8, <3>11, <4>1, <4>3 DEF OnTrack, Arrives
    <3> QED BY <3>10, <3>11
  <2> QED BY <2>2, <2>3, <2>5, <2>6 DEF EditsOK
<1>8. CASE ~Complete(r.asks)
  <2>1. wanted' = wanted /\ raced' = raced
    BY <1>8, Zenon DEF Begin
  <2>2. k.at = "done"
    BY <1>2, <1>4, <1>8
  <2>3. ASSUME NEW v \in Workflows \ raced' PROVE OnTrack(v)'
    <3>1. OnTrack(v)
      BY <2>1 DEF EditsOK
    <3>2. Working(v)' = Working(v) /\ c \notin Working(v)
      BY <1>2, <2>2 DEF Working, Active
    <3>3. \A h \in Working(v) : job'[h] = job[h]
      BY <1>2, <3>2 DEF Working
    <3> QED BY <1>2, <2>1, <3>1, <3>2, <3>3, UntouchedOnTrack
  <2>4. WantedOK' /\ Unaudited'
    BY <2>1 DEF EditsOK, WantedOK, Unaudited
  <2> QED BY <2>3, <2>4 DEF EditsOK
<1> QED BY <1>7, <1>8
(* A request that asks for nothing is taken up, and changes nothing. *)
LEMMA IdleBeginKeepsEdits ==
    ASSUME Types, EditsOK, NEW c \in Threads, job[c].at = "idle", script' = script,
           NEW o, NEW asked, Begin(c, o, asked), asked = Nothing,
           o.op = "dashboard" \/ o.wf \notin Workflows
    PROVE  EditsOK'
<1>1. DOMAIN job = Threads
  BY DEF Types, ServiceOK, JobsOK
<1>2. /\ job'[c].at = IF Complete(o) THEN FirstStep(o.op) ELSE "done"
      /\ job'[c].wf = o.wf /\ \A g \in Threads \ {c} : job'[g] = job[g]
      /\ record' = record /\ audits' = audits
  BY <1>1, BegunJob, Zenon
<1>3. job'[c].at = "done" \/ job'[c].wf \notin Workflows
  <2>1. CASE o.op = "dashboard"
    <3>1. FirstStep(o.op) = "done"
      BY <2>1, Zenon DEF FirstStep, Actions
    <3> QED BY <1>2, <3>1
  <2>2. CASE o.wf \notin Workflows
    BY <1>2, <2>2
  <2> QED BY <2>1, <2>2
<1>4. wanted' = wanted /\ raced' = raced
  <2>1. ~Complete(asked)
    BY Zenon DEF Complete, Nothing, Asks
  <2> QED BY <2>1, Zenon DEF Begin
<1>5. ASSUME NEW v \in Workflows \ raced' PROVE OnTrack(v)'
  <2>1. OnTrack(v)
    BY <1>4 DEF EditsOK
  <2>2. Working(v)' = Working(v) /\ c \notin Working(v)
    BY <1>2, <1>3 DEF Working, Active
  <2>3. \A h \in Working(v) : job'[h] = job[h]
    BY <1>2, <2>2 DEF Working
  <2> QED BY <1>2, <1>4, <2>1, <2>2, <2>3, UntouchedOnTrack
<1>6. WantedOK' /\ Unaudited'
  BY <1>4 DEF EditsOK, WantedOK, Unaudited
<1> QED BY <1>5, <1>6 DEF EditsOK

LEMMA DispatchKeepsEdits ==
    ASSUME GenuineLoads, SubmittedUnaudited, Types, EditsOK, NEW c \in Threads, Dispatch(c),
           UNCHANGED serviceVars => EditsOK'
    PROVE  EditsOK'
<1> DEFINE r == Request(c)
           o == Route(r, script.control)
<1>1. stage[c] = "reading" /\ script' = script
  BY DEF Dispatch, poolVars
<1>2. /\ c \in DOMAIN script.request /\ script \in Scripts /\ job[c].at = "idle"
  BY <1>1 DEF Types, ConnectionsOK, ServerTypeOK, Before
<1>3. CASE ~UNCHANGED serviceVars
  <2>1. script.control /\ o.status = 200 /\ ~IsStreamRequest(r) /\ Begin(c, o, r.asks)
    BY <1>3, Zenon DEF Dispatch
  <2>2. RoutedTo(r, script.control, o)
    BY <2>1, WithOperatorService, Zenon
  <2>3. \/ \E w \in Workflows, t \in Tasks : IsEditOf(r, w, t)
        \/ r.asks = Nothing /\ (o.op = "dashboard" \/ o.wf \notin Workflows)
    <3>1. \/ \E w \in Workflows, t \in Tasks : IsEditOf(r, w, t)
          \/ /\ r.asks = Nothing
             /\ \/ IsStreamRequest(r) \/ o.status # 200
                \/ o.op = "dashboard" \/ o.wf \notin Workflows
      BY <1>2, Zenon DEF GenuineLoads, Request
    <3> QED BY <2>1, <3>1, Zenon
  <2> HIDE DEF o, r
  <2>4. ASSUME NEW w \in Workflows, NEW t \in Tasks, IsEditOf(r, w, t) PROVE EditsOK'
    <3>1. PICK e : Blank(e)
      BY Zenon DEF Blank
    <3>2. /\ Understood(o, r) /\ r.asks.wf = w
          /\ r.asks.op \in {"upsert_workflow", "upsert_task", "delete_task", "submit",
                            "reorchestrate"} \cup Actions
          /\ r.asks.op \in {"upsert_task", "delete_task"} => r.asks.task = t
      <4>1. PICK control : RoutedTo(r, control, o)
        BY <2>2, Zenon
      <4>2. o.status = 200
        BY <2>1, Zenon
      <4> QED BY <2>4, <3>1, <4>1, <4>2, EditsAreUnderstood
    <3>3. r = Request(c)
      BY DEF r
    <3> QED BY <1>1, <1>2, <2>1, <3>2, <3>3, BeginKeepsEdits
  <2>5. CASE r.asks = Nothing /\ (o.op = "dashboard" \/ o.wf \notin Workflows)
    <3>1. Begin(c, o, r.asks)
      BY <2>1, Zenon
    <3> QED BY <1>1, <1>2, <2>5, <3>1, IdleBeginKeepsEdits
  <2> QED BY <2>3, <2>4, <2>5, Zenon
<1> QED BY <1>3, Zenon

LEMMA InitEdits == Init => EditsOK
<1> SUFFICES ASSUME Init PROVE EditsOK
  OBVIOUS
<1>1. /\ wanted = record /\ raced = {} /\ DOMAIN audits = Workflows
      /\ \A w \in Workflows : DOMAIN audits[w] = {}
  BY DEF Init, ServiceInit
<1>2. record \in [Workflows -> Record \cup {NoRecord}]
  BY InitTypes DEF Types, ServiceOK, RecordsOK
<1>3. ASSUME NEW w \in Workflows PROVE Counted(record[w]) = 0
  <2> DEFINE start == [FreshRecord EXCEPT !.tasks = Original]
  <2>1. record = [v \in Workflows |-> IF v \in Stored THEN start ELSE NoRecord]
    BY DEF Init, ServiceInit
  <2>2. start \in Record /\ start.audits = 0
    BY StoredAssumption, FreshIsRecord, FreshFields, RetaskedRecord
  <2> HIDE DEF start
  <2> QED BY <2>1, <2>2 DEF Counted
<1>4. \A w \in Workflows : Working(w) = {}
  <2>1. job = [h \in Threads |-> Idle]
    BY DEF Init, ServiceInit
  <2> QED BY <2>1, IdleIsSound DEF Working, Active
<1>5. WantedOK /\ Unaudited
  BY <1>1, <1>2, <1>3 DEF WantedOK, Unaudited
<1>6. ASSUME NEW w \in Workflows PROVE OnTrack(w)
  <2>1. Alike(record[w], wanted[w])
    BY <1>1 DEF Alike
  <2>2. DOMAIN audits[w] = 1..Counted(record[w])
    BY <1>1, <1>3
  <2> QED BY <1>4, <2>1, <2>2 DEF OnTrack
<1> QED BY <1>5, <1>6 DEF EditsOK

LEMMA NextEdits ==
    ASSUME GenuineLoads, SubmittedUnaudited
    PROVE  Types /\ EditsOK /\ [Next]_vars => EditsOK'
<1> SUFFICES ASSUME Types, EditsOK, [Next]_vars PROVE EditsOK'
  OBVIOUS
<1>1. ASSUME record' = record, audits' = audits, wanted' = wanted, raced' = raced,
             job' = job, script' = script
      PROVE  EditsOK'
  <2>1. \A w : Working(w)' = Working(w)
    BY <1>1 DEF Working, Active
  <2>2. \A w \in Workflows \ raced : OnTrack(w)'
    BY <1>1, <2>1, UntouchedOnTrack DEF EditsOK
  <2> QED BY <1>1, <2>2 DEF EditsOK, WantedOK, Unaudited
<1>2. ASSUME serviceVars' = serviceVars, script' = script PROVE EditsOK'
  BY <1>1, <1>2 DEF serviceVars
<1>3. ASSUME NEW c \in Threads, Client(c) PROVE EditsOK'
  BY <1>2, <1>3 DEF Client, Connect, Send, HangUp, poolVars
<1>4. ASSUME NEW c \in Threads, Dispatch(c) PROVE EditsOK'
  <2>1. script' = script
    BY <1>4 DEF Dispatch, poolVars
  <2> QED BY <1>2, <1>4, <2>1, DispatchKeepsEdits
<1>5. ASSUME NEW c \in Threads, Serve(c) PROVE EditsOK'
  BY <1>5, ServeKeepsEdits DEF Serve, serverVars, poolVars
<1>6. ASSUME NEW c \in Threads,
             \/ AcceptLoop(c) \/ HandleConnection(c) \/ RegisterSocket(c) \/ Handshake(c)
             \/ ReadFails(c) \/ Reply(c) \/ Close(c) \/ TlsShutdown(c)
             \/ StreamOpen(c) \/ StreamDashboard(c) \/ StreamLoop(c) \/ StreamUpdate(c)
             \/ StreamKeepalive(c) \/ StreamPush(c) \/ StreamEnd(c)
      PROVE  EditsOK'
  BY <1>2, <1>6 DEF AcceptLoop, HandleConnection, RegisterSocket, Handshake, ReadFails, Reply,
                    Close, TlsShutdown, StreamOpen, StreamDashboard, StreamLoop, StreamUpdate,
                    StreamKeepalive, StreamPush, StreamEnd, poolVars
<1>7. ASSUME NEW c \in Threads, Server(c) PROVE EditsOK'
  BY <1>4, <1>5, <1>6, <1>7 DEF Server, HandlerStep
<1>8. ASSUME StartHttp \/ StartGrpc \/ StopRequested \/ Stopping PROVE EditsOK'
  <2>1. CASE StopFeed
    BY <1>1, <2>1 DEF StopFeed, serverVars, poolVars
  <2>2. CASE ~StopFeed
    BY <1>2, <1>8, <2>2 DEF StartHttp, StartGrpc, StopRequested, Stopping, StopGrpc, StopHttp,
         CloseAcceptor, StopPool, CloseActiveSockets, JoinPool, StopExecutor, serverVars, poolVars
  <2> QED BY <2>1, <2>2
<1>9. CASE UNCHANGED vars
  BY <1>2, <1>9 DEF vars, serverVars, poolVars
<1> QED BY <1>3, <1>7, <1>8, <1>9 DEF Next

LEMMA EditsAreExact == EditsOK => QuietRecordIsExact
<1> SUFFICES ASSUME EditsOK, NEW w \in Workflows \ raced,
                    \A h \in Threads : Active(h) => job[h].wf # w
             PROVE  IF record[w] = NoRecord THEN wanted[w] = NoRecord
                    ELSE /\ wanted[w] # NoRecord
                         /\ record[w].tasks = wanted[w].tasks
                         /\ record[w].audits = wanted[w].audits
                         /\ DOMAIN audits[w] = 1..record[w].audits
  BY DEF QuietRecordIsExact
<1>1. Working(w) = {}
  BY DEF Working
<1>2. Alike(record[w], wanted[w]) /\ DOMAIN audits[w] = 1..Counted(record[w])
  BY <1>1 DEF EditsOK, OnTrack
<1> QED BY <1>2 DEF Alike, Counted

(***************************************************************************)
(* Edits of a workflow that do not overlap leave the record and the audit  *)
(* rows they asked for, whatever other threads, streams and the shutdown   *)
(* do between their calls: routing takes each request of the console and   *)
(* of the runtime client for what it asks, and append_audit_entry numbers  *)
(* the rows without gap or repetition.  For loads of these clients         *)
(* (GenuineLoads) in which no workflow is both audited and submitted as a  *)
(* new one (SubmittedUnaudited): such a submission starts the counter      *)
(* again and leaves the rows.                                              *)
(***************************************************************************)
THEOREM QuietRecordsAreExact ==
    ASSUME GenuineLoads, SubmittedUnaudited
    PROVE  Spec => []QuietRecordIsExact
<1>1. Init => Types /\ EditsOK
  BY InitTypes, InitEdits
<1>2. Types /\ EditsOK /\ [Next]_vars => (Types /\ EditsOK)'
  BY NextTypes, NextEdits
<1>3. Types /\ EditsOK => QuietRecordIsExact
  BY EditsAreExact
<1> QED BY <1>1, <1>2, <1>3, PTL DEF Spec
=============================================================================
