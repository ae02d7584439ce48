------------------------- MODULE NotificationService -------------------------
(***************************************************************************)
(* Delivery of notifications (class NotificationService,                   *)
(* qtalh/services/notifications.cc): the service observes the engine for   *)
(* the policy, and a pump timer submits due envelopes to mailers and       *)
(* webhooks, a few at a time.                                              *)
(*                                                                         *)
(* Everything runs on the GUI thread.  A pump is one call: "pumping" holds *)
(* off every other action until it has returned.                           *)
(***************************************************************************)
EXTENDS NotificationPolicy

CONSTANTS
  Mailers,           \* destinations reached by a mail program, the others are webhooks
  MaxInFlight,       \* simultaneous attempts (4)
  QueueLimit,        \* queued envelopes (1000)
  RetryFirst, RetryLater,   \* delay after the first and later failures (30 s, 120 s)
  RetryAfters,       \* values of a Retry-After header, cut at ten minutes
  Attempts,          \* attempts at one envelope (3)
  (* inputs *)
  Updates,           \* what a channel may look like
  Reloaded,          \* what it may look like in a new engine
  SettingsChoices,   \* settings that may be applied
  FileSettings,      \* settings with the subscriptions of a reloaded file
  ReloadFiles,       \* the files of reloads
  Trees,             \* for a reload, the channels that are in the tree once
  Tests, Pauses,     \* test messages, pausing
  Prompt,            \* time waits for the pump and the transports
  LastChange         \* after this time the channels and the settings rest

ASSUME ServiceAssumption ==
  /\ Mailers \subseteq DestinationIds
  /\ MaxInFlight \in Nat \ {0} /\ QueueLimit \in Nat /\ Attempts \in Nat \ {0}
  /\ RetryFirst \in Nat /\ RetryLater \in Nat /\ RetryAfters \subseteq Nat
  /\ Updates \subseteq Update /\ Reloaded \subseteq Update
  /\ SettingsChoices \cup FileSettings \subseteq NotificationSettings
  /\ ReloadFiles \subseteq Files
  /\ \A t \in Trees : t \subseteq Channels
  /\ Tests \in BOOLEAN /\ Pauses \in BOOLEAN /\ Prompt \in BOOLEAN

VARIABLES
  policy,
  live,         \* the channels as the engine shows them, channelUpdate()
  attached,     \* an engine is attached
  unique,       \* the identities that name one channel
  deliveries,   \* running mailers and requests
  inFlight,     \* attempts that were not finished
  timerActive,  \* the pump timer runs
  pumping,      \* the rest of a pump call
  now,
  told,         \* history: <<episode, destination>> that accepted an alarm
  hushed,       \* history: episodes that ended and were suppressed since
  quiet         \* history: until when the repeat suppression of a rule silences a channel

history == <<told, hushed, quiet>>
vars == <<policy, live, attached, unique, deliveries, inFlight, timerActive, pumping, now, history>>

Delivery == [envelope : Envelope, done : BOOLEAN]

Init ==
  /\ policy \in {Configure(InitialPolicy, s, InitialPolicy.configuration) : s \in SettingsChoices}
  /\ live = [c \in Channels |-> Unknown]
  /\ attached = FALSE /\ unique = {}
  /\ deliveries = <<>> /\ inFlight = 0
  /\ timerActive = FALSE /\ pumping = FALSE
  /\ now = 0
  /\ told = {} /\ hushed = {}
  /\ quiet = [k \in RuleIds \X Channels \X Token |-> 0]

InFlight == {i \in 1..Len(deliveries) : ~deliveries[i].done}
Idle == ~pumping
Resting == now > LastChange
Observing(p) == attached /\ p.enabled

(* Every unique channel is shown to the policy.                            *)
ObserveAll(p) == ObservedAll(p, IF attached THEN unique ELSE {}, live, now)
-----------------------------------------------------------------------------
(***************************************************************************)
(* Attempts.                                                               *)
(***************************************************************************)

(* finish: a failed attempt is queued again unless it is final or nothing  *)
(* of it is worth sending any more.                                        *)
Finished(p, env, accepted, retryable, retryAfter) ==
  LET again == ~accepted /\ retryable /\ env.attempts < Attempts /\ ~env.test
      fresh == Revalidated(p, env)
      q     == IF again THEN RevalidatedPolicy(p, {env}) ELSE p
      delay == IF env.attempts = 1 THEN RetryFirst ELSE RetryLater
  IN  IF again /\ WorthSending(p, env)
      THEN Retried(q, [fresh EXCEPT !.ready = now + Max({delay, retryAfter})])
      ELSE Completed(q, IF again THEN fresh ELSE env, accepted)

(* dispatch: the attempt starts, or it fails at once because the           *)
(* destination is gone or its headers or URL cannot be used.               *)
Dispatch(p, envelope) ==
  LET env == [envelope EXCEPT !.attempts = @ + 1]
      q   == Attempted(p, env, now)
  IN  /\ timerActive' = TRUE
      /\ \/ /\ \E d \in q.settings.destinations : d.id = env.destination
            /\ policy' = q
            /\ deliveries' = Append(deliveries, [envelope |-> env, done |-> FALSE])
            /\ inFlight' = inFlight + 1
         \/ /\ \/ env.destination \notin Mailers
               \/ ~\E d \in q.settings.destinations : d.id = env.destination
            /\ policy' = Finished(q, env, FALSE, FALSE, 0)
            /\ UNCHANGED <<deliveries, inFlight>>

(* The channels an envelope speaks of, with its rule, stage and            *)
(* destination.                                                            *)
Keys(env) ==
  IF env.test \/ env.stage = Resolution THEN {}
  ELSE {<<env.rule, a.channel, <<env.stage, env.destination>>>> : a \in env.alarms}

(* The episodes an alarm envelope tells its destination about.             *)
Names(env) ==
  IF env.test \/ env.stage = Resolution THEN {}
  ELSE {<<a.episode, env.destination>> : a \in env.alarms}

(* The callbacks of a mailer or a request end its attempt once.            *)
Finish(i, accepted, retryable, retryAfter) ==
  /\ ~deliveries[i].done
  /\ policy' = Finished(policy, deliveries[i].envelope, accepted, retryable, retryAfter)
  /\ inFlight' = inFlight - 1
  /\ timerActive' = TRUE
  /\ told' = IF accepted THEN told \cup Names(deliveries[i].envelope) ELSE told

RemoveDelivery(i) == deliveries' = Only(deliveries, DOMAIN deliveries \ {i})

(* A bug: the exit of a mailer killed by the time-out counts again.        *)
MailerEndsAgain(i) ==
  /\ deliveries[i].envelope.destination \in Mailers
  /\ RemoveDelivery(i)
  /\ policy' = Finished(policy, deliveries[i].envelope, FALSE, FALSE, 0)
  /\ inFlight' = inFlight - 1
  /\ timerActive' = TRUE
  /\ UNCHANGED told

(* The mailer exits: 0 submitted, 75 to be tried again, or anything else   *)
(* or a crash; or it could not be started.                                 *)
MailerEnds(i) ==
  /\ deliveries[i].envelope.destination \in Mailers
  /\ RemoveDelivery(i)
  /\ IF deliveries[i].done THEN UNCHANGED <<policy, inFlight, timerActive, told>>
     ELSE \E outcome \in {<<TRUE, FALSE>>, <<FALSE, TRUE>>, <<FALSE, FALSE>>} :
            Finish(i, outcome[1], outcome[2], 0)

(* The time-out kills the mailer, whose exit arrives later.                *)
MailerTimesOut(i) ==
  /\ deliveries[i].envelope.destination \in Mailers
  /\ Finish(i, FALSE, FALSE, 0)
  /\ deliveries' = [deliveries EXCEPT ![i].done = TRUE]

(* The request ends: accepted, refused for good, or to be tried again      *)
(* after a network failure, the time-out or a server error.                *)
WebhookEnds(i) ==
  /\ deliveries[i].envelope.destination \notin Mailers
  /\ RemoveDelivery(i)
  /\ \/ Finish(i, TRUE, FALSE, 0)
     \/ Finish(i, FALSE, FALSE, 0)
     \/ \E after \in RetryAfters : Finish(i, FALSE, TRUE, after)

TransportEnds ==
  /\ Idle
  /\ \E i \in 1..Len(deliveries) : MailerEnds(i) \/ MailerTimesOut(i) \/ WebhookEnds(i)
  /\ UNCHANGED <<live, attached, unique, pumping, now, hushed, quiet>>
-----------------------------------------------------------------------------
(* A bug: the pump stops although alarms may become due.                   *)
NothingToPumpNow == ~attached \/ (inFlight = 0 /\ policy.queue = <<>>)

(***************************************************************************)
(* The pump, every 250 ms.                                                 *)
(***************************************************************************)
NothingToPump == ~attached \/ (~policy.enabled /\ inFlight = 0 /\ policy.queue = <<>>)

StopPump ==
  /\ Idle /\ timerActive /\ NothingToPump
  /\ timerActive' = FALSE
  /\ UNCHANGED <<policy, live, attached, unique, deliveries, inFlight, pumping, now, history>>

Pump ==
  /\ Idle /\ timerActive /\ ~NothingToPump /\ inFlight < MaxInFlight
  /\ \E order \in SetToSeqs(DOMAIN policy.episodes) :
       policy' = Ticked(policy, order, QueueLimit - inFlight, now)
  /\ pumping' = TRUE
  /\ UNCHANGED <<live, attached, unique, deliveries, inFlight, timerActive, now, history>>

TakeNext ==
  /\ pumping
  /\ LET q == AfterTake(policy, now)
     IN  IF inFlight < MaxInFlight /\ FirstTakeable(policy, now) # 0
         THEN LET env == TakenEnvelope(policy, now)
              IN  /\ Dispatch(q, env)
                  /\ quiet' = [k \in DOMAIN quiet |->
                       IF env.attempts = 0 /\ k \in Keys(env)
                       THEN now + RuleOf(policy, env.rule).cooldown ELSE quiet[k]]
                  /\ UNCHANGED pumping
         ELSE /\ policy' = IF inFlight < MaxInFlight THEN q ELSE policy
              /\ pumping' = FALSE
              /\ UNCHANGED <<deliveries, inFlight, timerActive, quiet>>
  /\ UNCHANGED <<live, attached, unique, now, told, hushed>>

TestEnvelope(d) ==
  [rule |-> CHOOSE r \in RuleIds : TRUE, stage |-> CHOOSE s \in StageIds : TRUE,
   destination |-> d, alarms |-> {}, attempts |-> 0, ready |-> 0, test |-> TRUE]

SendTest(d) ==
  /\ Idle /\ Tests /\ ~Resting
  /\ inFlight < MaxInFlight /\ policy.next[d] <= now
  /\ Dispatch(policy, TestEnvelope(d))
  /\ UNCHANGED <<live, attached, unique, pumping, now, history>>
-----------------------------------------------------------------------------
(***************************************************************************)
(* The engine and the operator.                                            *)
(***************************************************************************)
(* The ended episodes whose channel is suppressed now.                     *)
NewlyHushed ==
  {id \in DOMAIN policy'.episodes :
     LET e == policy'.episodes[id]
     IN  ~e.active /\ e.channel \in policy'.known /\ policy'.channels[e.channel].suppressed}

ChannelChanges(c, u) ==
  /\ Idle /\ ~Resting /\ attached /\ u # live[c]
  /\ live' = [live EXCEPT ![c] = u]
  /\ policy' = IF Observing(policy) /\ c \in unique THEN Observed(policy, c, u, now) ELSE policy
  /\ policy'.count <= MaxEpisodes
  /\ hushed' = hushed \cup NewlyHushed
  /\ UNCHANGED <<attached, unique, deliveries, inFlight, timerActive, pumping, now, told, quiet>>

SwitchOn ==
  /\ Idle
  /\ policy' = ObserveAll(Enable(policy, TRUE))
  /\ policy'.count <= MaxEpisodes
  /\ timerActive' = TRUE
  /\ UNCHANGED <<live, attached, unique, deliveries, inFlight, pumping, now, history>>

Pause ==
  /\ Idle /\ Pauses
  /\ policy' = Enable(policy, FALSE)
  /\ timerActive' = TRUE
  /\ UNCHANGED <<live, attached, unique, deliveries, inFlight, pumping, now, history>>

(* A removed rule and a channel that left the tree are forgotten.          *)
Remembered == [k \in DOMAIN quiet |->
                 IF HasRule(policy', k[1]) /\ k[2] \in policy'.known THEN quiet[k] ELSE 0]

Apply(s) ==
  /\ Idle /\ ~Resting /\ s # policy.settings
  /\ policy' = ObserveAll(Configure(policy, s, policy.configuration))
  /\ policy'.count <= MaxEpisodes
  /\ timerActive' = TRUE
  /\ quiet' = Remembered
  /\ UNCHANGED <<live, attached, unique, deliveries, inFlight, pumping, now, told, hushed>>

(* A new engine at the start or after a reload.  Another resolved file     *)
(* pauses the runtime.  The file's own subscriptions are put in force      *)
(* after the channels of the new engine are known.                         *)
Attach ==
  /\ Idle
  /\ attached => ~Resting
  /\ \E t \in Trees, fresh \in [Channels -> Reloaded], file \in ReloadFiles, s \in FileSettings \cup {policy.settings} :
       LET p == IF file = policy.configuration THEN policy ELSE Enable(policy, FALSE)
           q == Reconciled(Configure(p, p.settings, file), t, fresh)
       IN  /\ policy' = IF s \in FileSettings
                        THEN ObservedAll(Configure(q, s, file), t, fresh, now)
                        ELSE q
           /\ live' = fresh
           /\ unique' = t
  /\ policy'.count <= MaxEpisodes
  /\ hushed' = hushed \cup NewlyHushed
  /\ attached' = TRUE
  /\ timerActive' = TRUE
  /\ quiet' = Remembered
  /\ UNCHANGED <<deliveries, inFlight, pumping, now, told>>

(* The pump runs forty times in a unit of time and an attempt is given up  *)
(* after three: with Prompt, time passes when neither has work.            *)
Rested ==
  /\ InFlight = {}
  /\ timerActive /\ ~NothingToPump =>
       /\ FirstTakeable(policy, now) = 0
       /\ \A order \in SetToSeqs(DOMAIN policy.episodes) :
            Ticked(policy, order, QueueLimit - inFlight, now) = policy

TimePasses ==
  /\ Idle /\ now < MaxNow
  /\ Prompt => Rested
  /\ now' = now + 1
  /\ UNCHANGED <<policy, live, attached, unique, deliveries, inFlight, timerActive, pumping, history>>

Next ==
  \/ \E c \in Channels, u \in Updates : ChannelChanges(c, u)
  \/ SwitchOn \/ Pause \/ Attach
  \/ \E s \in SettingsChoices : Apply(s)
  \/ \E d \in DestinationIds : SendTest(d)
  \/ Pump \/ StopPump \/ TakeNext \/ TransportEnds
  \/ TimePasses

Spec == Init /\ [][Next]_vars

(* The event loop serves the timers and the callbacks; clocks run.         *)
Fairness ==
  /\ WF_vars(TakeNext)
  /\ SF_vars(Pump)
  /\ SF_vars(TransportEnds)
  /\ SF_vars(TimePasses)

FairSpec == Spec /\ Fairness
-----------------------------------------------------------------------------
(***************************************************************************)
(* Properties.                                                             *)
(***************************************************************************)
TypeOK ==
  /\ IsPolicy(policy)
  /\ live \in [Channels -> Update]
  /\ unique \subseteq Channels
  /\ \A i \in 1..Len(deliveries) : deliveries[i] \in Delivery
  /\ inFlight \in Nat
  /\ attached \in BOOLEAN /\ timerActive \in BOOLEAN /\ pumping \in BOOLEAN
  /\ now \in 0..MaxNow

Announces(env, id, t) ==
  ~env.test /\ <<env.stage, env.destination>> = t /\ \E a \in env.alarms : a.episode = id

MarkedTokens(e) == e.queued \cup {<<Resolution, d>> : d \in e.resolutionQueued}

(* OneEnvelope: what an episode notes as queued is exactly one envelope,   *)
(* waiting or submitted; whatever revalidation, retries, edits and reloads *)
(* do, no stage is sent twice and none is lost.                            *)
OneEnvelope ==
  \A id \in DOMAIN policy.episodes :
    \A t \in Token \cup ({Resolution} \X DestinationIds) :
      Cardinality({i \in 1..Len(policy.queue) : Announces(policy.queue[i], id, t)})
      + Cardinality({i \in InFlight : Announces(deliveries[i].envelope, id, t)})
      = IF t \in MarkedTokens(policy.episodes[id]) THEN 1 ELSE 0

(* SlotsExact: every attempt gives its slot back once; a slot lost to a    *)
(* callback that never counts, or counts twice, would end all delivery or  *)
(* its limit.                                                              *)
SlotsExact == inFlight = Cardinality(InFlight) /\ inFlight <= MaxInFlight

(* QueueBounded: the limit holds although retries bypass the check.        *)
QueueBounded ==
  Len(policy.queue) + Cardinality({i \in InFlight : ~deliveries[i].envelope.test}) <= QueueLimit

(* AttemptsBounded: an envelope that waits has an attempt left.            *)
AttemptsBounded ==
  /\ \A i \in 1..Len(policy.queue) : policy.queue[i].attempts < Attempts
  /\ \A i \in 1..Len(deliveries) : deliveries[i].envelope.attempts \in 1..Attempts

(* DeliveryBounded: delivery keeps going and keeps its limits, through     *)
(* attempts that end twice, pauses, reloads and tests.                     *)
DeliveryBounded == TypeOK /\ SlotsExact /\ QueueBounded /\ AttemptsBounded

Submitted(env) == deliveries' = Append(deliveries, [envelope |-> env, done |-> FALSE])

SubmitsOnly(P(_)) ==
  Len(deliveries') > Len(deliveries) => P(Last(deliveries').envelope)

(* OnlyLiveAlarmsSent: no attempt, and no retry, tells of an alarm that    *)
(* was acknowledged, cleared, shelved or masked, or not observed since the *)
(* reload.                                                                 *)
OnlyLiveAlarmsSent ==
  [][SubmitsOnly(LAMBDA env :
       \A a \in env.alarms :
         /\ live[a.channel].initialized /\ ~live[a.channel].suppressed
         /\ env.stage # Resolution => live[a.channel].unack >= RuleOf(policy, env.rule).minimum)]_vars

(* ResolutionsFollowAlarms: a resolution goes only to a destination that   *)
(* accepted an alarm of the episode.                                       *)
ResolutionsFollowAlarms ==
  [][SubmitsOnly(LAMBDA env :
       env.stage = Resolution => \A a \in env.alarms : <<a.episode, env.destination>> \in told)]_vars

(* SuppressionCancelsResolutions: no resolution is sent for an episode     *)
(* whose channel was suppressed after the end.                             *)
SuppressionCancelsResolutions ==
  [][SubmitsOnly(LAMBDA env :
       env.stage = Resolution => \A a \in env.alarms : a.episode \notin hushed)]_vars

(* ResolutionsDue: a resolution tells of the end of an alarm that its      *)
(* destination was told of, and that nobody suppressed since.              *)
ResolutionsDue == ResolutionsFollowAlarms /\ SuppressionCancelsResolutions

(* RepeatsSuppressed: after an attempt at an alarm of a channel the next   *)
(* episode of the channel is not announced to the same destination before  *)
(* the rule's repeat suppression is over, through pauses, edits, reloads   *)
(* and retries.                                                            *)
RepeatsSuppressed ==
  [][SubmitsOnly(LAMBDA env :
       env.attempts = 1 => \A k \in Keys(env) : quiet[k] <= now)]_vars

Owed(id, t) ==
  /\ attached /\ policy.enabled
  /\ id \in DOMAIN policy.episodes
  /\ LET e == policy.episodes[id]
     IN  /\ e.active /\ ~e.waiting /\ t \notin e.done
         /\ HasRule(policy, e.rule)
         /\ \E i \in 1..Len(RuleOf(policy, e.rule).stages) :
              /\ RuleOf(policy, e.rule).stages[i].id = t[1]
              /\ t[2] \in RuleOf(policy, e.rule).stages[i].destinations
  /\ \A c \in Channels : live[c].initialized

(* AlarmsAnnounced: an alarm that lasts is announced by every stage of its *)
(* rule, or given up after its attempts.                                   *)
AlarmsAnnounced ==
  \A id \in Episode, t \in Token : Owed(id, t) /\ ~Resting ~> ~Owed(id, t)
=============================================================================
