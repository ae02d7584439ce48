-------------------------- MODULE NotificationPolicy --------------------------
(***************************************************************************)
(* The notification policy of QtALH (class NotificationPolicy,             *)
(* qtalh/core/notifications.cc) as functions on the policy's state.  A     *)
(* subscription ("rule") follows alarm episodes of the channels it covers: *)
(* each stage is announced once per episode to each of its destinations,   *)
(* and an optional resolution message ends the episode.                    *)
(*                                                                         *)
(* Message texts, the wildcard of a rule and the size limit of an envelope *)
(* in bytes are left out; expired deadlines are kept, for they are only    *)
(* compared with the clock.                                                *)
(***************************************************************************)
EXTENDS Places, SequencesExt

CONSTANTS
  Channels,       \* channel identities
  RuleIds, StageIds, DestinationIds,
  Files,          \* configuration files
  Rules,          \* the subscriptions that settings may hold, see RuleType
  Destinations,   \* the destinations they may hold, [id, version]
  GroupOrder,     \* every <<rule id, stage id, destination id>> in the order of its map key
  MaxAlarms,      \* alarms in one envelope (100)
  BatchDelay,     \* collection time of a group of alarms (10 s)
  PacingDelay,    \* time between two attempts at a destination (10 s)
  MaxEpisodes,    \* bound on the episodes of a behaviour
  MaxNow          \* bound on the monotonic clock

Resolution == "resolution"   \* the stage of a resolution message

Update == [initialized : BOOLEAN, available : BOOLEAN, suppressed : BOOLEAN,
           communicationError : BOOLEAN, unack : 0..4]
Unknown == [initialized |-> FALSE, available |-> FALSE, suppressed |-> FALSE,
            communicationError |-> FALSE, unack |-> 0]

Token   == (StageIds \X DestinationIds)
Key     == RuleIds \X (StageIds \cup {Resolution}) \X DestinationIds
Episode == 1..MaxEpisodes

ASSUME PolicyAssumption ==
  /\ Resolution \notin StageIds
  /\ IsFiniteSet(Channels)
  /\ RuleIds # {} /\ StageIds # {} /\ Files # {}
  /\ \A r \in Rules : /\ r.id \in RuleIds /\ r.configuration \in Files
                      /\ r.scope \subseteq Channels
                      /\ r.minimum \in 1..4 /\ r.cooldown \in Nat
  /\ GroupOrder \in Seq(Key) /\ ToSet(GroupOrder) = Key
  /\ \A i, j \in DOMAIN GroupOrder : GroupOrder[i] = GroupOrder[j] => i = j
  /\ MaxAlarms \in Nat \ {0} /\ BatchDelay \in Nat \ {0} /\ PacingDelay \in Nat \ {0}
  /\ MaxEpisodes \in Nat /\ MaxNow \in Nat

(* The limits validateNotifications sets on the stages of a rule.          *)
ValidRule(r) ==
  /\ r.stages # <<>>
  /\ \A i, j \in 1..Len(r.stages) :
       i < j => /\ r.stages[i].delay < r.stages[j].delay
                /\ r.stages[i].id # r.stages[j].id
  /\ \A i \in 1..Len(r.stages) : r.stages[i].destinations # {}

(* validateNotifications: unique ids, and every destination is known.      *)
ValidSettings(s) ==
  /\ \A r, q \in s.rules : r.id = q.id => r = q
  /\ \A d, e \in s.destinations : d.id = e.id => d = e
  /\ \A r \in s.rules :
       /\ ValidRule(r)
       /\ \A i \in 1..Len(r.stages) :
            r.stages[i].destinations \subseteq {d.id : d \in s.destinations}

NotificationSettings ==
  {s \in [rules : SUBSET Rules, destinations : SUBSET Destinations] :
     IsFiniteSet(s.rules) /\ ValidSettings(s)}

NoSettings == [rules |-> {}, destinations |-> {}]

EpisodeRecord ==
  [rule : RuleIds, channel : Channels, state : Update, started : Nat,
   active : BOOLEAN, resolved : BOOLEAN, waiting : BOOLEAN,
   queued : SUBSET Token, done : SUBSET Token, accepted : SUBSET DestinationIds,
   resolutionQueued : SUBSET DestinationIds, resolutionDone : SUBSET DestinationIds]

Envelope ==
  [rule : RuleIds, stage : StageIds \cup {Resolution}, destination : DestinationIds,
   alarms : SUBSET [episode : Episode, channel : Channels, state : Update],
   attempts : Nat, ready : Nat, test : BOOLEAN]

IsPolicy(p) ==
  /\ p.enabled \in BOOLEAN /\ p.throttled \in BOOLEAN
  /\ p.configuration \in Files
  /\ p.settings \in NotificationSettings
  /\ p.known \subseteq Channels /\ p.channels \in [Channels -> Update]
  /\ p.count \in 0..MaxEpisodes
  /\ DOMAIN p.episodes \subseteq 1..p.count
  /\ \A id \in DOMAIN p.episodes : p.episodes[id] \in EpisodeRecord
  /\ DOMAIN p.current \subseteq RuleIds \X Channels
  /\ \A c \in Channels : p.resolvedEnded[c] \subseteq DOMAIN p.episodes
  /\ p.cooldown \in [RuleIds \X Channels \X Token -> Nat]
  /\ p.batch \in [Key -> Nat] /\ p.next \in [DestinationIds -> Nat]
  /\ \A i \in 1..Len(p.queue) : p.queue[i] \in Envelope

InitialPolicy ==
  [enabled |-> FALSE, configuration |-> CHOOSE f \in Files : TRUE, settings |-> NoSettings, known |-> {},
   channels |-> [c \in Channels |-> Unknown], episodes |-> <<>>, count |-> 0,
   current |-> <<>>, resolvedEnded |-> [c \in Channels |-> {}],
   cooldown |-> [k \in RuleIds \X Channels \X Token |-> 0],
   batch |-> [k \in Key |-> 0], next |-> [d \in DestinationIds |-> 0],
   queue |-> <<>>, throttled |-> FALSE]

With(f, x, v) == [y \in DOMAIN f \cup {x} |-> IF y = x THEN v ELSE f[y]]

Matching(p, c) ==
  {r \in p.settings.rules : r.enabled /\ r.configuration = p.configuration /\ c \in r.scope}
HasRule(p, id) == \E r \in p.settings.rules : r.id = id
RuleOf(p, id)  == CHOOSE r \in p.settings.rules : r.id = id
-----------------------------------------------------------------------------
(***************************************************************************)
(* Episodes.                                                               *)
(***************************************************************************)

Ended(e, resolved) == [e EXCEPT !.active = FALSE, !.resolved = resolved]
Unresolved(e)      == [e EXCEPT !.resolved = FALSE]

(* A bug: an ended episode cannot be found by its channel.                 *)
EndUnnoted(p, id, resolved) ==
  LET e == p.episodes[id]
  IN  [p EXCEPT
         !.episodes[id] = Ended(e, resolved),
         !.current = Restrict(@, DOMAIN @ \ {<<e.rule, e.channel>>})]

(* The end of an episode; only one that is cleared or acknowledged is      *)
(* resolved, and a later suppression of its channel can find it.           *)
End(p, id, resolved) ==
  LET e == p.episodes[id]
  IN  [p EXCEPT
         !.episodes[id] = Ended(e, resolved),
         !.resolvedEnded[e.channel] = IF resolved THEN @ \cup {id} ELSE @,
         !.current = Restrict(@, DOMAIN @ \ {<<e.rule, e.channel>>})]

Forget(p, ids) ==
  [p EXCEPT !.episodes = Restrict(@, DOMAIN @ \ ids),
            !.resolvedEnded = [c \in Channels |-> @[c] \ ids]]

Eligible(r, u) == u.initialized /\ ~u.suppressed /\ u.unack >= r.minimum

(* The channel cannot be observed: its episode keeps its clock but waits.  *)
Unobservable(u) ==
  \/ ~u.initialized
  \/ ~u.available /\ ~u.suppressed /\ (u.unack = 0 \/ u.communicationError)

Started(p, r, c, u, now) ==
  LET id == p.count + 1
      e  == [rule |-> r.id, channel |-> c, state |-> u, started |-> now,
             active |-> TRUE, resolved |-> FALSE, waiting |-> FALSE,
             queued |-> {}, done |-> {}, accepted |-> {},
             resolutionQueued |-> {}, resolutionDone |-> {}]
  IN  [p EXCEPT !.episodes = With(@, id, e), !.count = id,
                !.current = With(@, <<r.id, c>>, id)]

(* One rule sees an update of one of its channels.                         *)
Followed(p, r, c, u, now) ==
  LET key == <<r.id, c>>
  IN  IF key \in DOMAIN p.current
      THEN LET id   == p.current[key]
               e    == p.episodes[id]
               seen == [p EXCEPT !.episodes[id] = [e EXCEPT !.state = u, !.waiting = Unobservable(u)]]
           IN  IF Unobservable(u) \/ Eligible(r, u) THEN seen
               ELSE End(seen, id, u.available /\ ~u.suppressed /\ u.unack = 0)
      ELSE IF Eligible(r, u) /\ ~u.communicationError THEN Started(p, r, c, u, now)
      ELSE p

(* A suppression that arrives cancels the resolutions of ended episodes.   *)
Suppressing(p, c, u) ==
  IF u.suppressed /\ ~p.channels[c].suppressed
  THEN [p EXCEPT
          !.episodes = [id \in DOMAIN @ |->
             IF id \in p.resolvedEnded[c] /\ ~@[id].active THEN Unresolved(@[id]) ELSE @[id]],
          !.resolvedEnded[c] = {}]
  ELSE p

Observed(p, c, u, now) ==
  LET noted == [Suppressing(p, c, u) EXCEPT !.channels[c] = u, !.known = @ \cup {c}]
  IN  IF ~p.enabled THEN noted
      ELSE FoldSet(LAMBDA r, q : Followed(q, r, c, u, now), noted, Matching(p, c))

(* Several channels are observed, in any order.                            *)
ObservedAll(p, all, state, now) == FoldSet(LAMBDA c, q : Observed(q, c, state[c], now), p, all)

Enable(p, on) ==
  IF on THEN [p EXCEPT !.enabled = TRUE]
  ELSE [p EXCEPT !.enabled = FALSE, !.episodes = <<>>, !.current = <<>>,
                 !.resolvedEnded = [c \in Channels |-> {}], !.queue = <<>>,
                 !.throttled = FALSE, !.batch = [k \in Key |-> 0]]

(* What a rule says, its destinations included.                            *)
Signature(r, s) ==
  <<r, {d \in s.destinations : \E i \in 1..Len(r.stages) : d.id \in r.stages[i].destinations}>>

(* The ids of the rules that an edit leaves alone.                         *)
Unchanged(p, s, file) ==
  {r.id : r \in {x \in s.rules \cap p.settings.rules :
                   file = p.configuration /\ Signature(x, s) = Signature(x, p.settings)}}

(* A bug: an edit forgets the repeat suppression.                          *)
ConfigureAfresh(p, s, file) ==
  LET keep == Unchanged(p, s, file)
      q    == Forget(p, {id \in DOMAIN p.episodes : p.episodes[id].rule \notin keep})
  IN  [q EXCEPT
         !.current = Restrict(@, {k \in DOMAIN @ : @[k] \in DOMAIN q.episodes}),
         !.cooldown = [k \in DOMAIN @ |-> IF k[1] \in keep THEN @[k] ELSE 0],
         !.next = [d \in DestinationIds |-> IF \E x \in s.destinations : x.id = d THEN @[d] ELSE 0],
         !.settings = s, !.configuration = file,
         !.batch = [k \in Key |-> 0],
         !.queue = Only(@, {i \in DOMAIN @ : @[i].rule \in keep})]

(* Rules that did not change keep their episodes and envelopes; repeat     *)
(* suppression outlives every edit but the removal of the rule.            *)
Configure(p, s, file) ==
  LET keep == Unchanged(p, s, file)
      q    == Forget(p, {id \in DOMAIN p.episodes : p.episodes[id].rule \notin keep})
  IN  [q EXCEPT
         !.current = Restrict(@, {k \in DOMAIN @ : @[k] \in DOMAIN q.episodes}),
         !.cooldown = [k \in DOMAIN @ |-> IF \E r \in s.rules : r.id = k[1] THEN @[k] ELSE 0],
         !.next = [d \in DestinationIds |-> IF \E x \in s.destinations : x.id = d THEN @[d] ELSE 0],
         !.settings = s, !.configuration = file,
         !.batch = [k \in Key |-> 0],
         !.queue = Only(@, {i \in DOMAIN @ : @[i].rule \in keep})]

AwaitsFresh(e, state) == [e EXCEPT !.waiting = TRUE, !.state = state[e.channel]]

(* A reload: episodes of missing channels end, the others wait for a       *)
(* fresh observation.  "all" gives the channels that are in the new        *)
(* configuration exactly once.                                             *)
Reconciled(p, all, state) ==
  LET gone == {id \in DOMAIN p.episodes : p.episodes[id].channel \notin all}
      then(e) == IF e.active THEN AwaitsFresh(e, state) ELSE e
  IN  [p EXCEPT
         !.known = all,
         !.channels = [c \in Channels |-> IF c \in all THEN state[c] ELSE Unknown],
         !.cooldown = [k \in DOMAIN @ |-> IF k[2] \in all THEN @[k] ELSE 0],
         !.episodes = [id \in DOMAIN @ |-> IF id \in gone THEN Ended(@[id], FALSE) ELSE then(@[id])],
         !.current = Restrict(@, DOMAIN @ \ {<<p.episodes[id].rule, p.episodes[id].channel>> : id \in gone})]
-----------------------------------------------------------------------------
(***************************************************************************)
(* Queue.                                                                  *)
(***************************************************************************)

(* Episodes with nothing left to announce or to resolve are dropped.       *)
Collected(p) ==
  LET resolves(e) == /\ e.resolved /\ HasRule(p, e.rule) /\ RuleOf(p, e.rule).resolution
                     /\ e.accepted \ e.resolutionDone # {}
  IN  Forget(p, {id \in DOMAIN p.episodes :
        LET e == p.episodes[id]
        IN  ~e.active /\ e.queued = {} /\ e.resolutionQueued = {} /\ ~resolves(e)})

(* A bug: what is queued already is due again.                             *)
DueStagesAgain(p, e, now) ==
  LET r == RuleOf(p, e.rule)
  IN  {t \in Token \ e.done :
         /\ p.cooldown[<<r.id, e.channel, t>>] <= now
         /\ \E i \in 1..Len(r.stages) :
              /\ r.stages[i].id = t[1] /\ t[2] \in r.stages[i].destinations
              /\ now - e.started >= r.stages[i].delay}

(* The stages and destinations an episode has to be announced to now.      *)
DueStages(p, e, now) ==
  LET r == RuleOf(p, e.rule)
  IN  {t \in Token \ (e.done \cup e.queued) :
         /\ p.cooldown[<<r.id, e.channel, t>>] <= now
         /\ \E i \in 1..Len(r.stages) :
              /\ r.stages[i].id = t[1] /\ t[2] \in r.stages[i].destinations
              /\ now - e.started >= r.stages[i].delay}

DueResolutions(p, e) ==
  IF /\ ~e.active /\ e.resolved /\ RuleOf(p, e.rule).resolution /\ e.channel \in p.known
     /\ p.channels[e.channel].initialized /\ ~p.channels[e.channel].suppressed
  THEN {<<Resolution, d>> : d \in e.accepted \ (e.resolutionDone \cup e.resolutionQueued)}
  ELSE {}

Wanted(p, e, now) ==
  IF ~HasRule(p, e.rule) THEN {}
  ELSE IF e.active THEN (IF e.waiting THEN {} ELSE DueStages(p, e, now))
  ELSE DueResolutions(p, e)

EnvelopeOf(p, key, ids) ==
  [rule |-> key[1], stage |-> key[2], destination |-> key[3],
   alarms |-> {[episode |-> id, channel |-> p.episodes[id].channel,
                state |-> p.episodes[id].state] : id \in ids},
   attempts |-> 0, ready |-> 0, test |-> FALSE]

Marked(e, key) ==
  IF key[2] = Resolution THEN [e EXCEPT !.resolutionQueued = @ \cup {key[3]}]
  ELSE [e EXCEPT !.queued = @ \cup {<<key[2], key[3]>>}]

(* The alarms of one group are split over envelopes as long as the queue   *)
(* has room; the rest stays due.                                           *)
Enqueued(p, key, alarms, limit) ==
  LET fit   == IF limit > Len(p.queue) THEN (limit - Len(p.queue)) * MaxAlarms ELSE 0
      taken == SubSeq(alarms, 1, IF fit < Len(alarms) THEN fit ELSE Len(alarms))
      parts == (Len(taken) + MaxAlarms - 1) \div MaxAlarms
      part(i) == {taken[j] : j \in {k \in 1..Len(taken) : (k - 1) \div MaxAlarms = i - 1}}
  IN  [p EXCEPT
         !.queue = @ \o [i \in 1..parts |-> EnvelopeOf(p, key, part(i))],
         !.episodes = [id \in DOMAIN @ |->
            IF id \in ToSet(taken) THEN Marked(@[id], key) ELSE @[id]],
         !.throttled = @ \/ Len(taken) < Len(alarms)]

(* One group of due alarms: collected for a while, then queued.            *)
Grouped(p, key, order, limit, now, wanted) ==
  LET due(id) == <<key[2], key[3]>> \in wanted[id] /\ p.episodes[id].rule = key[1]
      alarms == Only(order, {i \in DOMAIN order : due(order[i])})
      until  == IF p.batch[key] = 0 THEN now + BatchDelay ELSE p.batch[key]
  IN  IF alarms = <<>> THEN [p EXCEPT !.batch[key] = 0]
      ELSE IF now < until THEN [p EXCEPT !.batch[key] = until]
      ELSE Enqueued([p EXCEPT !.batch[key] = until], key, alarms, limit)

(* A resolution is not due while its channel is suppressed.                *)
Cancelling(p) ==
  [p EXCEPT
     !.throttled = FALSE,
     !.episodes = [id \in DOMAIN @ |->
        IF ~@[id].active /\ p.channels[@[id].channel].suppressed THEN Unresolved(@[id]) ELSE @[id]]]

(* tick: "order" is the arbitrary order of the episodes in their hash.     *)
Ticked(p, order, limit, now) ==
  IF ~p.enabled THEN p
  ELSE LET q == Cancelling(p)
           wanted == [id \in DOMAIN q.episodes |-> Wanted(q, q.episodes[id], now)]
       IN  Collected(FoldLeft(LAMBDA acc, key : Grouped(acc, key, order, limit, now, wanted),
                              q, GroupOrder))

(* The alarms of an envelope that are still worth sending.                 *)
StillValid(p, env, a) ==
  /\ a.episode \in DOMAIN p.episodes
  /\ LET e == p.episodes[a.episode]
     IN  IF env.stage = Resolution
         THEN /\ ~e.active /\ e.resolved /\ env.destination \in e.accepted
              /\ e.channel \in p.known /\ ~p.channels[e.channel].suppressed
         ELSE e.active

(* What the envelopes hold for an episode without being valid for it.      *)
Stale(p, envs, id) ==
  {<<env.stage, env.destination>> :
     env \in {x \in envs : ~x.test /\ \E a \in x.alarms : a.episode = id /\ ~StillValid(p, x, a)}}

Released(e, tokens) ==
  [e EXCEPT !.queued = @ \ tokens,
            !.resolutionQueued = {d \in @ : <<Resolution, d>> \notin tokens}]

(* revalidate: stale alarms leave their envelopes and release their        *)
(* entries; whether an alarm is stale does not depend on entries.          *)
RevalidatedPolicy(p, envs) ==
  IF ~p.enabled THEN p
  ELSE [p EXCEPT !.episodes = [id \in DOMAIN @ |-> Released(@[id], Stale(p, envs, id))]]

Revalidated(p, env) ==
  IF env.test \/ ~p.enabled THEN env
  ELSE [env EXCEPT !.alarms =
          {[a EXCEPT !.state = p.episodes[a.episode].state] :
             a \in {x \in env.alarms : StillValid(p, env, x)}}]

WorthSending(p, env) == env.test \/ (p.enabled /\ Revalidated(p, env).alarms # {})

(* A bug: an envelope goes out although a channel has to be seen first.    *)
SettledAlways(p, env) == TRUE

(* Every channel of the envelope has been observed since the last reload.  *)
Settled(p, env) ==
  \A a \in env.alarms :
    /\ a.channel \in p.known /\ p.channels[a.channel].initialized
    /\ env.stage # Resolution => (a.episode \in DOMAIN p.episodes => ~p.episodes[a.episode].waiting)

Takeable(p, i, now) ==
  LET env == p.queue[i]
  IN  /\ WorthSending(p, env) /\ env.ready <= now /\ p.next[env.destination] <= now
      /\ Settled(p, Revalidated(p, env))

FirstTakeable(p, now) ==
  LET is == {i \in 1..Len(p.queue) : Takeable(p, i, now)}
  IN  IF is = {} THEN 0 ELSE Min(is)

(* take: the queue is revalidated up to the envelope that is taken.        *)
AfterTake(p, now) ==
  LET first == FirstTakeable(p, now)
      last  == IF first = 0 THEN Len(p.queue) ELSE first
      seen  == [i \in DOMAIN p.queue |-> IF i <= last THEN Revalidated(p, p.queue[i]) ELSE p.queue[i]]
      kept  == {i \in DOMAIN p.queue : i # first /\ (i <= last => WorthSending(p, p.queue[i]))}
  IN  [RevalidatedPolicy(p, {p.queue[i] : i \in 1..last}) EXCEPT !.queue = Only(seen, kept)]

TakenEnvelope(p, now) == Revalidated(p, p.queue[FirstTakeable(p, now)])

(* attempted: the destination is paced, and the first attempt at an alarm  *)
(* starts its repeat suppression.                                          *)
Attempted(p, env, now) ==
  LET paced == [p EXCEPT !.next[env.destination] = now + PacingDelay]
  IN  IF env.attempts > 1 \/ env.stage = Resolution \/ env.test \/ ~HasRule(p, env.rule) THEN paced
      ELSE [paced EXCEPT !.cooldown = [k \in DOMAIN @ |->
              IF /\ k[1] = env.rule /\ k[3] = <<env.stage, env.destination>>
                 /\ \E a \in env.alarms : a.channel = k[2]
              THEN now + RuleOf(p, env.rule).cooldown ELSE @[k]]]

Done(e, env, accepted) ==
  IF env.stage = Resolution
  THEN [e EXCEPT !.resolutionQueued = @ \ {env.destination},
                 !.resolutionDone = @ \cup {env.destination}]
  ELSE [e EXCEPT !.queued = @ \ {<<env.stage, env.destination>>},
                 !.done = @ \cup {<<env.stage, env.destination>>},
                 !.accepted = IF accepted THEN @ \cup {env.destination} ELSE @]

Completed(p, env, accepted) ==
  Collected([p EXCEPT !.episodes = [id \in DOMAIN @ |->
    IF ~env.test /\ \E a \in env.alarms : a.episode = id THEN Done(@[id], env, accepted) ELSE @[id]]])

Retried(p, env) == [p EXCEPT !.queue = Append(@, env)]
=============================================================================
