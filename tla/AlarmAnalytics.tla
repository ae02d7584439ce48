---------------------------- MODULE AlarmAnalytics ----------------------------
(***************************************************************************)
(* The session analytics (core/analytics.cc) and the service that feeds    *)
(* them from the engine and builds reports on a worker thread              *)
(* (services/analytics.cc).                                                *)
(*                                                                         *)
(* A row is one channel instance: it keeps running totals and the state    *)
(* since its last transition.  Transitions are kept as records, of which   *)
(* the oldest are dropped by age and by number; what a report may still    *)
(* claim about is the coverage.  Rows of removed channels are dropped      *)
(* later, which renumbers the others.                                      *)
(*                                                                         *)
(* Severities are 0 and above; a suppression is one flag.  Of the samples  *)
(* of acknowledgement times their number is kept.                          *)
(***************************************************************************)
EXTENDS Places, Sequences, FiniteSetsExt, SequencesExt

CONSTANTS
  Identities,       \* channel identities of all configurations
  Day,              \* AnalyticsDay, in ticks
  MaximumRecords, MaximumRetired,
  ClockLimit,       \* ticks between two looks at the clock that are not a gap
  Ranges,           \* ranges a report is asked for, 0 is the session
  Filters,          \* suppression filters of a report
  RequestGap,       \* ticks between two requests for a report
  MaxTime,
  Budgets           \* scopes of a behaviour: its configurations, records
                    \* [count, excluded], whether their files differ,
                    \* and bounds of what happens

VARIABLES
  now,        \* monotonic clock
  stepped,    \* the wall clock was set since the service last looked
  live,       \* what the engine knows of a channel
  document,   \* the configuration of the engine
  data,       \* AlarmAnalytics: rows, their index, records, coverage, generation
  lastMono,   \* last look at the clock
  work,       \* the worker: busy, its snapshot, its result
  shown,      \* what this step hands to the dashboard
  truth,      \* what happened, as far as it was watched
  budget      \* what is left of the bounds

vars == <<now, stepped, live, document, data, lastMono, work, shown, truth, budget>>

Stats == [activations |-> 0, active |-> 0, observed |-> 0, acks |-> 0, gaps |-> 0, incomplete |-> 0]

(* A channel before its first event, and one without an alarm.             *)
Unknown == [initialized |-> FALSE, available |-> FALSE, severity |-> 4, unack |-> 0, suppressed |-> FALSE]
Quiet   == [initialized |-> TRUE, available |-> TRUE, severity |-> 0, unack |-> 0, suppressed |-> FALSE]

NewRow(key, id, ambiguous, t) ==
  [key |-> key, identity |-> id, removed |-> FALSE, ambiguous |-> ambiguous,
   available |-> FALSE, initialized |-> FALSE, severity |-> 0, unack |-> 0,
   suppressed |-> FALSE, last |-> t, ackUnknown |-> TRUE, retiredAt |-> 0,
   totals |-> [f \in BOOLEAN |-> Stats]]

(* reset *)
Blank(generation, keys, t) ==
  [generation |-> generation, started |-> t, coverage |-> t, rows |-> << >>, records |-> << >>,
   index |-> [id \in Identities |-> 0], expiry |-> 0, truncated |-> FALSE, keys |-> keys]

-----------------------------------------------------------------------------
Idle == [busy |-> FALSE, making |-> {}, result |-> {}, last |-> -RequestGap]
NoReport == {}
Queries == [range : Ranges, filter : Filters]
-----------------------------------------------------------------------------
(* What a stretch of time and what a point add to statistics.              *)

Selected(suppressed, filter) ==
  \/ filter = 0
  \/ filter = 1 /\ ~suppressed
  \/ filter = 2 /\ suppressed

Interval(s, severity, from, to) ==
  LET duration == Max({0, to - from})
  IN [s EXCEPT !.observed = @ + duration,
               !.active = IF severity > 0 THEN @ + duration ELSE @]

One(b) == IF b THEN 1 ELSE 0

Point(s, r) ==
  [s EXCEPT !.activations = @ + One(r.activation), !.acks = @ + One(r.ack),
            !.gaps = @ + One(r.gap), !.incomplete = @ + One(r.incomplete)]

Added(a, b) == [k \in DOMAIN Stats |-> a[k] + b[k]]
-----------------------------------------------------------------------------
(* trimRecords: a dropped record takes its time out of the coverage.       *)
Cutoff(d, t) == Max({d.started, t - Day})

Stale(d, t, dropped) ==
  /\ dropped < Len(d.records)
  /\ \/ d.records[dropped + 1].time < Cutoff(d, t)
     \/ Len(d.records) - dropped > MaximumRecords

(* A bug: the coverage starts with the record that was dropped.            *)
TrimRecordsInclusive(d, t) ==
  LET dropped == Min({k \in 0 .. Len(d.records) : ~Stale(d, t, k)})
      past    == {d.records[k].time : k \in 1 .. dropped}
  IN [d EXCEPT !.records = SubSeq(@, dropped + 1, Len(@)),
               !.coverage = Max({@, Cutoff(d, t)} \cup past)]

TrimRecords(d, t) ==
  LET dropped == Min({k \in 0 .. Len(d.records) : ~Stale(d, t, k)})
      past    == {d.records[k].time + 1 : k \in 1 .. dropped}
  IN [d EXCEPT !.records = SubSeq(@, dropped + 1, Len(@)),
               !.coverage = Max({@, Cutoff(d, t)} \cup past)]

(* append *)
Appended(d, i, r) ==
  LET row    == d.rows[i]
      before == IF r.priorAvailable
                THEN [row.totals EXCEPT ![r.priorSuppressed] =
                        Interval(@, r.priorSeverity, r.from, r.time)]
                ELSE row.totals
  IN TrimRecords([d EXCEPT !.rows[i].totals = [before EXCEPT ![r.suppressed] = Point(@, r)],
                           !.records = Append(@, [r EXCEPT !.channel = i])],
                 r.time)

(* invalidate: time up to t is counted, what follows is not observed.      *)
Invalidate(d, i, t) ==
  LET row == d.rows[i] IN
  IF ~row.available THEN d ELSE
    [Appended(d, i, [channel |-> i, from |-> row.last, time |-> t,
                    priorAvailable |-> TRUE, priorSeverity |-> row.severity,
                    priorSuppressed |-> row.suppressed, suppressed |-> row.suppressed,
                    activation |-> FALSE, ack |-> FALSE, gap |-> TRUE, incomplete |-> row.unack > 0])
     EXCEPT !.rows[i].available = FALSE, !.rows[i].ackUnknown = TRUE, !.rows[i].last = t]

(* gap *)
Gap(d, t) ==
  [FoldLeftDomain(LAMBDA e, i : Invalidate(e, i, t), d, d.rows) EXCEPT !.generation = @ + 1]

(* compactChannels: the removed rows that are kept are the last to have    *)
(* retired; of those that retired together any may be.                     *)
Retired(d) == {i \in DOMAIN d.rows : d.rows[i].removed}
Expired(d, i, t) == d.rows[i].retiredAt <= t - Day

Retained(d, t) ==
  LET young == {i \in Retired(d) : ~Expired(d, i, t)}
  IN {kept \in SUBSET young :
        /\ Cardinality(kept) = Min({MaximumRetired, Cardinality(young)})
        /\ \A i \in kept, j \in young \ kept : d.rows[i].retiredAt >= d.rows[j].retiredAt}

Dropped(d, kept) == Retired(d) \ kept

Staying(d, kept) == DOMAIN d.rows \ Dropped(d, kept)

Place(d, kept, i) == IF i \in Staying(d, kept) THEN Rank(Staying(d, kept), i) ELSE 0

Compact(d, kept) ==
  LET compacted == [d EXCEPT !.expiry = IF kept = {} THEN 0 ELSE Min({d.rows[i].retiredAt + Day : i \in kept})]
      records   == Only(d.records, {k \in DOMAIN d.records : d.records[k].channel \notin Dropped(d, kept)})
  IN IF Dropped(d, kept) = {} THEN compacted ELSE
     [compacted EXCEPT
        !.rows = Only(@, Staying(d, kept)),
        !.records = [k \in DOMAIN records |-> [records[k] EXCEPT !.channel = Place(d, kept, @)]],
        !.index = [id \in Identities |-> Place(d, kept, @[id])],
        !.truncated = TRUE,
        !.generation = @ + 1]
-----------------------------------------------------------------------------
(* reconcile: the channels of a new document.  A channel whose identity    *)
(* became, or ceased to be, shared by two nodes is another instance.       *)
Retire(d, t) ==
  LET at(row) == IF row.removed THEN row.retiredAt ELSE t
  IN [d EXCEPT !.rows = [i \in DOMAIN @ |->
        [@[i] EXCEPT !.retiredAt = at(d.rows[i]), !.removed = TRUE]]]

Admit(d, id, ambiguous, u, t) ==
  LET old  == d.index[id]
      same == old # 0 /\ d.rows[old].ambiguous = ambiguous
      e    == IF same THEN d
              ELSE [d EXCEPT !.rows = Append(@, NewRow(d.keys, id, ambiguous, t)),
                             !.index[id] = Len(d.rows) + 1,
                             !.keys = @ + 1]
  IN [e EXCEPT !.rows[e.index[id]] =
        [@ EXCEPT !.removed = FALSE, !.available = FALSE, !.initialized = FALSE,
                  !.suppressed = u.suppressed, !.ackUnknown = TRUE]]

Included(config) == {id \in Identities : config.count[id] > 0 /\ id \notin config.excluded}

Admitted(d, config, states, t) ==
  FoldSet(LAMBDA id, e : Admit(e, id, config.count[id] # 1, states[id], t),
          Retire(Gap(d, t), t), Included(config))

(* observe                                                                 *)
Causes == {"Processed", "Acknowledgement", "Suppression"}

(* A bug: a disconnection does not count.                                  *)
EndsByValue(row, u) == row.available /\ row.unack > 0 /\ u.unack = 0

(* What was unacknowledged is not any more, or no longer known.            *)
Ends(row, u) == row.available /\ row.unack > 0 /\ (~u.available \/ u.unack = 0)

Observed(d, i, u, cause, t) ==
  LET row       == d.rows[i]
      both      == row.available /\ u.available
      changed   == \/ row.available # u.available \/ row.severity # u.severity
                   \/ row.unack # u.unack \/ row.suppressed # u.suppressed \/ ~row.initialized
      ends      == Ends(row, u)
      measured  == cause = "Acknowledgement" /\ both /\ ~row.ackUnknown
      record    == [channel |-> i, from |-> row.last, time |-> t,
                    priorAvailable |-> row.available, priorSeverity |-> row.severity,
                    priorSuppressed |-> row.suppressed, suppressed |-> u.suppressed,
                    activation |-> both /\ row.severity = 0 /\ u.severity > 0 /\ cause # "Suppression",
                    ack |-> ends /\ measured, incomplete |-> ends /\ ~measured,
                    gap |-> u.initialized /\ ~u.available /\ (row.available \/ ~row.initialized)]
      unknown   == IF ~u.available THEN row.ackUnknown
                   ELSE IF ~row.available THEN TRUE
                   ELSE IF row.unack = 0 /\ u.unack > 0 THEN cause = "Suppression"
                   ELSE row.ackUnknown
  IN IF ~changed THEN d ELSE
     [Appended(d, i, record) EXCEPT !.rows[i] =
        [@ EXCEPT !.available = u.available, !.initialized = u.initialized,
                  !.severity = u.severity, !.unack = u.unack,
                  !.suppressed = u.suppressed, !.last = t, !.ackUnknown = unknown]]

Watches(d, id) ==
  d.index[id] # 0 /\ ~d.rows[d.index[id]].removed /\ ~d.rows[d.index[id]].ambiguous

Observe(d, id, u, cause, t) ==
  IF Watches(d, id) THEN Observed(d, d.index[id], u, cause, t) ELSE d

(* What the engine knows of the channels of a configuration is observed.   *)
ObserveAll(d, config, states, cause, t) ==
  FoldSet(LAMBDA id, e : Observe(e, id, states[id], cause, t), d, Included(config))

(* checkClock: what passed since the last look was not watched when the    *)
(* machine slept or the wall clock was set.                                *)
Interrupted == now - lastMono > ClockLimit \/ stepped

Checked == IF Interrupted THEN Gap(data, lastMono) ELSE data
-----------------------------------------------------------------------------
(* query: the statistics of the rows over a snapshot.  A range starts at   *)
(* the coverage when that is later.                                        *)
From(d, q, t) == IF q.range = 0 THEN d.started ELSE Max({d.started, t - q.range})
Coverage(d, q, t) == Max({From(d, q, t), d.coverage})

Standing(d, q, t, i) ==
  LET row == d.rows[i] IN
  IF row.available /\ Selected(row.suppressed, q.filter)
  THEN Interval(Stats, row.severity,
                Max({row.last, IF q.range = 0 THEN d.started ELSE Coverage(d, q, t)}), t)
  ELSE Stats

Session(d, q, i) ==
  Added(IF q.filter = 2 THEN Stats ELSE d.rows[i].totals[FALSE],
        IF q.filter = 1 THEN Stats ELSE d.rows[i].totals[TRUE])

OfRange(d, q, t, s, r) ==
  LET span == IF r.priorAvailable /\ Selected(r.priorSuppressed, q.filter)
              THEN Interval(s, r.priorSeverity, Max({r.from, Coverage(d, q, t)}), Min({r.time, t}))
              ELSE s
  IN IF r.time \in Coverage(d, q, t) .. t /\ Selected(r.suppressed, q.filter)
     THEN Point(span, r) ELSE span

Statistics(d, q, t, i) ==
  IF q.range = 0 THEN Added(Session(d, q, i), Standing(d, q, t, i))
  ELSE FoldLeft(LAMBDA s, r : OfRange(d, q, t, s, r), Standing(d, q, t, i),
                SelectSeq(d.records, LAMBDA r : r.channel = i))
-----------------------------------------------------------------------------
(* The first events have come in without an alarm.                         *)
Init ==
  /\ budget \in Budgets
  /\ now = 0 /\ lastMono = 0 /\ stepped = FALSE
  /\ live = [id \in Identities |-> Quiet]
  /\ document \in budget.configurations
  /\ data = ObserveAll(Admitted(Blank(1, 1, 0), document, live, 0), document, live, "Processed", 0)
  /\ work = Idle /\ shown = NoReport
  /\ truth = [seen |-> {}, rises |-> << >>, latches |-> << >>]

Spend(what) == budget[what] > 0 /\ budget' = [budget EXCEPT ![what] = @ - 1]

(* Ticks that no analytics may claim once they turn out not to be watched. *)
Forgotten == IF Interrupted THEN {s \in truth.seen : s.tick >= lastMono} ELSE {}

Watching(d, id) == Watches(d, id) /\ d.rows[d.index[id]].available

(* Time passes, without a look at the clock while the event loop is held   *)
(* up; a channel that is watched is in its state meanwhile.                *)
Advance ==
  /\ now < MaxTime
  /\ now' = now + 1
  /\ truth' = [truth EXCEPT !.seen = @ \cup
       {[key |-> data.rows[data.index[id]].key, tick |-> now, severity |-> live[id].severity,
         suppressed |-> live[id].suppressed] : id \in {id \in Identities : Watching(data, id)}}]
  /\ UNCHANGED <<stepped, live, document, data, lastMono, work, budget>> /\ shown' = NoReport

SetWallClock ==
  /\ Spend("steps")
  /\ stepped' = TRUE
  /\ UNCHANGED <<now, live, document, data, lastMono, work, truth>> /\ shown' = NoReport

(* What happened to a channel, for the properties.                         *)
Heard(d, id, v, u, cause) ==
  LET row  == d.rows[d.index[id]]
      rise == /\ row.available /\ u.available /\ v.severity = 0 /\ u.severity > 0
              /\ cause = "Processed"
      latch == u.available /\ u.unack > 0 /\ ~(row.available /\ v.unack > 0)
  IN [seen    |-> truth.seen \ Forgotten,
      rises   |-> IF rise /\ Watches(d, id)
                  THEN Append(truth.rises, [key |-> row.key, time |-> now, suppressed |-> u.suppressed])
                  ELSE truth.rises,
      latches |-> IF latch /\ Watches(d, id) THEN Append(truth.latches, row.key) ELSE truth.latches]

(* The callback of the engine, for a channel that is not left out.         *)
Change(id, u, cause) ==
  /\ document.count[id] > 0 /\ u # live[id]
  /\ Spend("changes")
  /\ live' = [live EXCEPT ![id] = u]
  /\ IF id \in document.excluded THEN UNCHANGED <<data, lastMono, stepped, truth>>
     ELSE /\ data' = Observe(Checked, id, u, cause, now)
          /\ truth' = IF Checked.index[id] = 0 THEN [truth EXCEPT !.seen = @ \ Forgotten]
                      ELSE Heard(Checked, id, live[id], u, cause)
          /\ lastMono' = now /\ stepped' = FALSE
  /\ UNCHANGED <<now, document, work>> /\ shown' = NoReport

ProcessEvent(id) ==
  \E s \in {0, 2} : LET v == live[id] IN
    Change(id, [v EXCEPT !.initialized = TRUE, !.available = TRUE, !.severity = s,
                         !.unack = IF s > 0 /\ (v.severity = 0 \/ ~v.initialized) THEN 1 ELSE @],
           "Processed")

Disconnect(id) ==
  Change(id, [live[id] EXCEPT !.initialized = TRUE, !.available = FALSE, !.severity = 4, !.unack = 1],
         "Processed")

Acknowledge(id) ==
  /\ live[id].unack > 0
  /\ Change(id, [live[id] EXCEPT !.unack = 0], "Acknowledgement")

(* A shelf leaves the alarm as it is, Disable hides it, and Enable shows   *)
(* the alarm that was cached.                                              *)
Suppress(id) ==
  LET v == live[id] IN
  \E u \in {v, [v EXCEPT !.severity = 0, !.unack = 0]} :
    /\ ~v.suppressed /\ v.available
    /\ Change(id, [u EXCEPT !.suppressed = TRUE], "Suppression")

Unsuppress(id) ==
  LET v == live[id] IN
  \E u \in {v, [v EXCEPT !.severity = 2, !.unack = 1]} :
    /\ v.suppressed /\ v.available
    /\ Change(id, [u EXCEPT !.suppressed = FALSE], "Suppression")

(* attach: another engine, for the same file or for another one.           *)
Attach(config, another) ==
  LET left == Gap(data, now)
      d    == IF another THEN Blank(left.generation + 1, left.keys, now) ELSE left
      unheard == [id \in Identities |-> Unknown]
      e    == Admitted(d, config, unheard, now)
  IN /\ Spend("attachments")
     /\ document' = config /\ live' = unheard
     /\ \E kept \in Retained(e, now) : data' = TrimRecords(Compact(e, kept), now)
     /\ lastMono' = now /\ stepped' = FALSE
     /\ UNCHANGED <<now, work, truth>> /\ shown' = NoReport

(* reset of the operator: what the engine knows is observed anew.          *)
Reset ==
  LET d == Admitted(Blank(data.generation + 1, data.keys, now), document, live, now)
      e == ObserveAll(d, document, live, "Suppression", now)
      lit == {id \in Included(document) : Watching(e, id) /\ live[id].unack > 0}
  IN /\ Spend("resets")
     /\ data' = e
     /\ truth' = [truth EXCEPT !.latches = @ \o SetToSeq({e.rows[e.index[id]].key : id \in lit})]
     /\ work' = [work EXCEPT !.last = -RequestGap]
     /\ lastMono' = now /\ stepped' = FALSE
     /\ UNCHANGED <<now, live, document>> /\ shown' = NoReport

(* request: the worker has a copy, of which its report is a function.      *)
Request ==
  /\ ~work.busy /\ now - work.last >= RequestGap
  /\ Spend("requests")
  /\ work' = [work EXCEPT !.busy = TRUE, !.last = now,
                 !.making = {[data |-> data, at |-> now, heard |-> Len(truth.rises)]}]
  /\ UNCHANGED <<now, stepped, live, document, data, lastMono, truth>> /\ shown' = NoReport

(* The worker stores its result and is no longer busy; in between a poll   *)
(* only leaves its timer fast.                                             *)
Store ==
  /\ work.busy
  /\ work' = [work EXCEPT !.busy = FALSE, !.result = work.making, !.making = {}]
  /\ UNCHANGED <<now, stepped, live, document, data, lastMono, truth, budget>> /\ shown' = NoReport

(* poll: retention, and the report unless what it tells about has changed. *)
Poll ==
  LET d == TrimRecords(Checked, now)
      expires == d.expiry # 0 /\ now >= d.expiry
  IN /\ \E kept \in IF expires THEN Retained(d, now) ELSE {Retired(d)} :
          data' = IF expires THEN Compact(d, kept) ELSE d
     /\ truth' = [truth EXCEPT !.seen = @ \ Forgotten]
     /\ lastMono' = now /\ stepped' = FALSE
     /\ work' = [work EXCEPT !.result = {}]
     /\ shown' = IF \E r \in work.result : r.data.generation = data'.generation
                 THEN work.result ELSE NoReport
     /\ UNCHANGED <<now, live, document, budget>>

Next ==
  \/ Advance \/ SetWallClock
  \/ \E id \in Identities :
       ProcessEvent(id) \/ Disconnect(id) \/ Acknowledge(id) \/ Suppress(id) \/ Unsuppress(id)
  \/ \E config \in budget.configurations, another \in budget.others : Attach(config, another)
  \/ Reset
  \/ Request \/ Store \/ Poll

Spec == Init /\ [][Next]_vars
-----------------------------------------------------------------------------
(* A report that reached the dashboard tells, for every channel instance,  *)
(* how long it was watched and in alarm, and how often it became one, over *)
(* the time it says it covers: what was trimmed is out of that time, what  *)
(* was retained is counted once on either side of its edges, renumbered    *)
(* rows keep their own records.  The time of a stall that was detected and *)
(* before a reload is not watched; a stall that a reload of the same       *)
(* configuration follows at once is (StallsInterrupt).                     *)
Reference(key, q, from, to, heard) ==
  LET start   == IF q.range = 0 THEN 0 ELSE from
      watched == {s \in truth.seen : /\ s.key = key /\ s.tick \in start .. to - 1
                                     /\ Selected(s.suppressed, q.filter)}
      risen   == {k \in 1 .. heard : LET r == truth.rises[k] IN
                    r.key = key /\ r.time \in start .. to /\ Selected(r.suppressed, q.filter)}
  IN <<Cardinality(watched), Cardinality({s \in watched : s.severity > 0}), Cardinality(risen)>>

ReportsExact ==
  \A r \in shown, q \in Queries : \A i \in DOMAIN r.data.rows :
    LET stats == Statistics(r.data, q, r.at, i)
    IN <<stats.observed, stats.active, stats.activations>>
         = Reference(r.data.rows[i].key, q, Coverage(r.data, q, r.at), r.at, r.heard)

(* Every alarm that was watched becoming unacknowledged ended in a sample  *)
(* of the acknowledgement times or in an incomplete one, or is still       *)
(* outstanding: a disconnection, a gap, a suppression or a reload ends it  *)
(* once, and a channel that comes back starts another.                     *)
EpisodesAccounted ==
  \A i \in DOMAIN data.rows : LET row == data.rows[i] IN
    Cardinality({k \in DOMAIN truth.latches : truth.latches[k] = row.key})
      = Added(row.totals[TRUE], row.totals[FALSE]).acks
          + Added(row.totals[TRUE], row.totals[FALSE]).incomplete
          + One(row.available /\ row.unack > 0)

(* Not so: a reload of the same configuration right after a stall counts   *)
(* the stall as watched, since attach takes the time without a look at     *)
(* what passed.                                                            *)
StallsInterrupt ==
  [][Interrupted /\ lastMono' = now =>
       \A s \in truth'.seen, i \in DOMAIN data'.rows :
         data'.rows[i].key = s.key => s.tick < lastMono \/ s.tick >= now]_vars
=============================================================================
