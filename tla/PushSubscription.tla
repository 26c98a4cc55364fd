-------------------------- MODULE PushSubscription --------------------------
(***************************************************************************)
(* The life of a subscription in the subscriber service                    *)
(* (internal/services/subscriber): Subscribe, Unsubscribe, the worker that *)
(* polls a topic for a push subscription, and the cleanup pass.            *)
(*                                                                         *)
(* The registry service.subscriptions is the only state under a lock. What *)
(* it points to, an activeSubscription with its context, its channel and   *)
(* its worker, is shared by the calls in progress, the worker and the      *)
(* cleanup pass, so every step between two critical sections is an action. *)
(*                                                                         *)
(* Abstractions: a message either passes the filter and is not expired     *)
(* (it is in Matching) or not; the read of the topic is one step. A read   *)
(* that fails changes nothing and is no step; fairness below says that the *)
(* worker's reads do not fail for ever.                                    *)
(***************************************************************************)
EXTENDS Naturals, Sequences

CONSTANTS
  Subs,      \* subscription ids, as uuid.New() returns them
  NoSub,     \* no subscription
  Push,      \* those of type push; the others are pull subscriptions
  Grouped,   \* those push subscriptions that name a consumer group
  Calls,     \* Subscribe and Unsubscribe calls that may be in progress at once
  Messages,
  Topic,     \* the messages of the topic, oldest first
  Matching,  \* the messages that pass the filter and have not expired
  Window,    \* how many messages the worker reads: 10
  Capacity,  \* of the message channel: 100
  MaxRestarts \* bound: how often the process is started again

ASSUME SubsAssumption ==
  /\ Grouped \subseteq Push
  /\ Push \subseteq Subs
  /\ NoSub \notin Subs
ASSUME ChannelAssumption ==
  /\ Topic \in Seq(Messages)
  /\ Window \in Nat
  /\ Capacity \in Nat \ {0}

VARIABLES
  repo,        \* the record subscription:<id> in Redis
  registered,  \* service.subscriptions, under subsMutex
  sub,         \* the activeSubscription of each id
  call,        \* the next step of each call, and the id it is about
  expired,     \* inactiveSubscriptions of the cleanup pass, not yet cancelled
  panic,       \* how the process died, if it did
  orphans,     \* history: what a failure, the cleanup pass or a restart left active
  restarts     \* counter of the bound

vars == <<repo, registered, sub, call, expired, panic, orphans, restarts>>
-----------------------------------------------------------------------------
RepoStates == {"absent", "active", "inactive"}
WorkerStates == {"none", "waiting", "blocked", "delivering", "stopped"}

\* subscription.Active, the context, the channel, the worker and the messages
\* it has read and not yet delivered.
ActiveSubscription ==
  [active : BOOLEAN, cancelled : BOOLEAN, closed : BOOLEAN,
   queue : Seq(Messages), worker : WorkerStates, batch : Seq(Messages)]

NoSubscription ==
  [active |-> FALSE, cancelled |-> FALSE, closed |-> FALSE,
   queue |-> <<>>, worker |-> "none", batch |-> <<>>]

CallSteps ==
  {"idle", "start", "register", "cancel", "close", "deactivate", "update"}

TypeOK ==
  /\ repo \in [Subs -> RepoStates]
  /\ registered \subseteq Subs
  /\ sub \in [Subs -> ActiveSubscription]
  /\ call \in [Calls -> [step : CallSteps, id : Subs \cup {NoSub}]]
  /\ expired \subseteq Subs
  /\ panic \in {"none", "send on closed channel", "close of closed channel"}
  /\ orphans \subseteq Subs
  /\ restarts \in Nat

Init ==
  /\ repo = [s \in Subs |-> "absent"]
  /\ registered = {}
  /\ sub = [s \in Subs |-> NoSubscription]
  /\ call = [k \in Calls |-> [step |-> "idle", id |-> NoSub]]
  /\ expired = {}
  /\ panic = "none"
  /\ orphans = {}
  /\ restarts = 0

Up == panic = "none"
-----------------------------------------------------------------------------
(* Subscribe.                                                              *)

At(k, step) == Up /\ call[k].step = step
Proceed(k, step) == call' = [call EXCEPT ![k].step = step]
Return(k) == call' = [call EXCEPT ![k] = [step |-> "idle", id |-> NoSub]]

\* Mutant: registered before its worker is started.
CreateRegisters(k, s) ==
  /\ At(k, "idle")
  /\ repo[s] = "absent"
  /\ repo' = [repo EXCEPT ![s] = "active"]
  /\ call' = [call EXCEPT ![k] = [step |-> "start", id |-> s]]
  /\ registered' = registered \cup {s}
  /\ UNCHANGED <<sub, expired, panic, orphans, restarts>>

\* SubscriptionRepository.Create is a SET followed by one or two SADDs: when it
\* fails after the SET the record stays, and Subscribe returns the error.
CreateSubscription(k, s) ==
  /\ At(k, "idle")
  /\ repo[s] = "absent"
  /\ repo' = [repo EXCEPT ![s] = "active"]
  /\ \/ /\ call' = [call EXCEPT ![k] = [step |-> "start", id |-> s]]
        /\ UNCHANGED orphans
     \/ /\ orphans' = orphans \cup {s}
        /\ UNCHANGED call
  /\ UNCHANGED <<registered, sub, expired, panic, restarts>>

\* The worker runs before the subscription is registered.
StartWorker(k) ==
  /\ At(k, "start")
  /\ sub' = [sub EXCEPT ![call[k].id].active = TRUE,
                        ![call[k].id].worker = IF call[k].id \in Push THEN "waiting"
                                                                      ELSE "none"]
  /\ Proceed(k, "register")
  /\ UNCHANGED <<repo, registered, expired, panic, orphans, restarts>>

Register(k) ==
  /\ At(k, "register")
  /\ registered' = registered \cup {call[k].id}
  /\ Return(k)
  /\ UNCHANGED <<repo, sub, expired, panic, orphans, restarts>>
-----------------------------------------------------------------------------
(* Unsubscribe.                                                            *)

\* Mutant: the lookup leaves the subscription in the registry.
LookUpOnly(k, s) ==
  /\ At(k, "idle")
  /\ s \in registered
  /\ call' = [call EXCEPT ![k] = [step |-> "cancel", id |-> s]]
  /\ UNCHANGED <<repo, registered, sub, expired, panic, orphans, restarts>>

\* Lookup and delete are one critical section; every other call gets "not
\* found".
TakeSubscription(k, s) ==
  /\ At(k, "idle")
  /\ s \in registered
  /\ registered' = registered \ {s}
  /\ call' = [call EXCEPT ![k] = [step |-> "cancel", id |-> s]]
  /\ UNCHANGED <<repo, sub, expired, panic, orphans, restarts>>

\* Mutant: the channel is not closed.
CancelWorkerOnly(k) ==
  /\ At(k, "cancel")
  /\ sub' = IF call[k].id \in Push
              THEN [sub EXCEPT ![call[k].id].cancelled = TRUE]
              ELSE sub
  /\ Proceed(k, "deactivate")
  /\ UNCHANGED <<repo, registered, expired, panic, orphans, restarts>>

CancelWorker(k) ==
  /\ At(k, "cancel")
  /\ sub' = IF call[k].id \in Push
              THEN [sub EXCEPT ![call[k].id].cancelled = TRUE]
              ELSE sub
  /\ Proceed(k, "close")
  /\ UNCHANGED <<repo, registered, expired, panic, orphans, restarts>>

\* Mutant: nothing to close, nothing more to do.
CloseReturns(k) ==
  /\ At(k, "close")
  /\ sub' = IF call[k].id \in Push
              THEN [sub EXCEPT ![call[k].id].closed = TRUE]
              ELSE sub
  /\ IF call[k].id \in Push THEN Proceed(k, "deactivate") ELSE Return(k)
  /\ UNCHANGED <<repo, registered, expired, panic, orphans, restarts>>

CloseChannel(k) ==
  /\ At(k, "close")
  /\ \/ /\ call[k].id \in Push
        /\ sub[call[k].id].closed
        /\ panic' = "close of closed channel"
        /\ UNCHANGED <<sub, call>>
     \/ /\ ~sub[call[k].id].closed
        /\ sub' = IF call[k].id \in Push
                    THEN [sub EXCEPT ![call[k].id].closed = TRUE]
                    ELSE sub
        /\ Proceed(k, "deactivate")
        /\ UNCHANGED panic
  /\ UNCHANGED <<repo, registered, expired, orphans, restarts>>

Deactivate(k) ==
  /\ At(k, "deactivate")
  /\ sub' = [sub EXCEPT ![call[k].id].active = FALSE]
  /\ Proceed(k, "update")
  /\ UNCHANGED <<repo, registered, expired, panic, orphans, restarts>>

\* Mutant: the record is deleted.
UpdateDeletes(k) ==
  /\ At(k, "update")
  /\ repo' = [s \in Subs \ {call[k].id} |-> repo[s]]
  /\ Return(k)
  /\ UNCHANGED <<registered, sub, expired, panic, orphans, restarts>>

\* An error of the repository is only logged.
UpdateSubscription(k) ==
  /\ At(k, "update")
  /\ \/ /\ repo' = [repo EXCEPT ![call[k].id] = "inactive"]
        /\ UNCHANGED orphans
     \/ /\ orphans' = orphans \cup {call[k].id}
        /\ UNCHANGED repo
  /\ Return(k)
  /\ UNCHANGED <<registered, sub, expired, panic, restarts>>
-----------------------------------------------------------------------------
(* The cleanup pass.                                                       *)

\* Any subscription may have had no delivery for an hour.
RemoveInactive ==
  /\ Up
  /\ expired = {}
  /\ \E S \in SUBSET registered :
       /\ registered' = registered \ S
       /\ expired' = S
       /\ orphans' = orphans \cup S
  /\ UNCHANGED <<repo, sub, call, panic, restarts>>

\* The worker to cancel is looked up in the registry, after the deletion and
\* without its lock. A request that writes the map at that moment may end the
\* process (Go's fatal concurrent map read and map write): that outcome is Restart.
CancelInactive(s) ==
  /\ Up
  /\ s \in expired
  /\ expired' = expired \ {s}
  /\ sub' = IF s \in registered \cap Push
              THEN [sub EXCEPT ![s].cancelled = TRUE]
              ELSE sub
  /\ UNCHANGED <<repo, registered, call, panic, orphans, restarts>>
-----------------------------------------------------------------------------
(* The worker of a push subscription.                                      *)

Working(s, state) == Up /\ sub[s].worker = state

Move(s, next) ==
  /\ sub' = [sub EXCEPT ![s] = next]
  /\ UNCHANGED <<repo, registered, call, expired, panic, orphans, restarts>>

\* Mutant: "break" leaves the select and not the loop.
StopBreaks(s) ==
  /\ Working(s, "waiting")
  /\ sub[s].cancelled
  /\ Move(s, [sub[s] EXCEPT !.worker = "waiting"])

StopWorker(s) ==
  /\ Working(s, "waiting")
  /\ sub[s].cancelled
  /\ Move(s, [sub[s] EXCEPT !.worker = "stopped"])

\* The oldest messages of the topic, whatever has been delivered before. With
\* the context cancelled the read fails.
FetchMessages(s) ==
  /\ Working(s, "waiting")
  /\ s \notin Grouped
  /\ sub[s].active
  /\ ~sub[s].cancelled
  /\ Move(s, [sub[s] EXCEPT
                !.worker = "delivering",
                !.batch = SubSeq(Topic, 1, IF Window < Len(Topic) THEN Window
                                                                 ELSE Len(Topic))])

\* XREADGROUP with Block 0 waits for ever for a stream that nothing writes to.
FetchForGroup(s) ==
  /\ Working(s, "waiting")
  /\ s \in Grouped
  /\ sub[s].active
  /\ ~sub[s].cancelled
  /\ Move(s, [sub[s] EXCEPT !.worker = "blocked"])

\* The Redis connection breaks: the read fails.
ConnectionLost(s) ==
  /\ Working(s, "blocked")
  /\ Move(s, [sub[s] EXCEPT !.worker = "waiting"])

Offered(s) == Head(sub[s].batch)
Delivering(s) == Working(s, "delivering") /\ sub[s].batch # <<>>
Passes(s) == Delivering(s) /\ Offered(s) \in Matching

\* Mutant: the filter is applied the wrong way round.
FilterInverted(s) ==
  /\ Delivering(s)
  /\ Offered(s) \in Matching
  /\ Move(s, [sub[s] EXCEPT !.batch = Tail(@)])

FilterMessage(s) ==
  /\ Delivering(s)
  /\ Offered(s) \notin Matching
  /\ Move(s, [sub[s] EXCEPT !.batch = Tail(@)])

\* The select of the delivery. A cancelled context is always ready, a send is
\* ready when there is room, and also when the channel is closed: it panics.
SendMessage(s) ==
  /\ Passes(s)
  /\ ~sub[s].closed
  /\ Len(sub[s].queue) < Capacity
  /\ Move(s, [sub[s] EXCEPT !.queue = Append(@, Offered(s)), !.batch = Tail(@)])

SendOnClosed(s) ==
  /\ Passes(s)
  /\ sub[s].closed
  /\ panic' = "send on closed channel"
  /\ UNCHANGED <<repo, registered, sub, call, expired, orphans, restarts>>

SkipWhenFull(s) ==
  /\ Passes(s)
  /\ ~sub[s].closed
  /\ ~sub[s].cancelled
  /\ Len(sub[s].queue) = Capacity
  /\ Move(s, [sub[s] EXCEPT !.batch = Tail(@)])

AbandonBatch(s) ==
  /\ Passes(s)
  /\ sub[s].cancelled
  /\ Move(s, [sub[s] EXCEPT !.worker = "waiting", !.batch = <<>>])

FinishBatch(s) ==
  /\ Working(s, "delivering")
  /\ sub[s].batch = <<>>
  /\ Move(s, [sub[s] EXCEPT !.worker = "waiting"])

\* Whoever holds SubscribeResponse.MessageChan; a closed channel is drained.
Receive(s) ==
  /\ Up
  /\ sub[s].queue # <<>>
  /\ Move(s, [sub[s] EXCEPT !.queue = Tail(@)])
-----------------------------------------------------------------------------
\* The process ends, after a panic or at any time, and is started again: the
\* registry starts empty, and nothing reads the subscriptions back from Redis.
Restart ==
  /\ restarts < MaxRestarts
  /\ restarts' = restarts + 1
  /\ registered' = {}
  /\ sub' = [s \in Subs |-> NoSubscription]
  /\ call' = [k \in Calls |-> [step |-> "idle", id |-> NoSub]]
  /\ expired' = {}
  /\ panic' = "none"
  /\ orphans' = orphans \cup {s \in Subs : repo[s] = "active"}
  /\ UNCHANGED repo
-----------------------------------------------------------------------------
CallStep(k) ==
  \/ StartWorker(k)
  \/ Register(k)
  \/ CancelWorker(k)
  \/ CloseChannel(k)
  \/ Deactivate(k)
  \/ UpdateSubscription(k)

WorkerStep(s) ==
  \/ StopWorker(s)
  \/ FetchMessages(s)
  \/ FetchForGroup(s)
  \/ FilterMessage(s)
  \/ SendMessage(s)
  \/ SendOnClosed(s)
  \/ SkipWhenFull(s)
  \/ AbandonBatch(s)
  \/ FinishBatch(s)

\* POST /v1/subscriptions and DELETE /v1/subscriptions/<id>
AskSubscriber(k) ==
  \E s \in Subs : CreateSubscription(k, s) \/ TakeSubscription(k, s)

Next ==
  \/ \E k \in Calls : CallStep(k) \/ AskSubscriber(k)
  \/ RemoveInactive
  \/ \E s \in Subs : \/ CancelInactive(s)
                     \/ WorkerStep(s)
                     \/ ConnectionLost(s)
                     \/ Receive(s)
  \/ Restart

Spec == Init /\ [][Next]_vars

\* Goroutines run on and the 100 ms ticker keeps firing. Nobody has to call the
\* service, to read a channel, to break a connection or to start the process.
Fairness ==
  /\ \A k \in Calls : WF_vars(CallStep(k))
  /\ \A s \in Subs : WF_vars(WorkerStep(s))

FairSpec == Spec /\ Fairness
-----------------------------------------------------------------------------
(* Properties.                                                             *)

\* Whatever calls and cleanup passes race for a subscription, its channel is
\* closed once (Unsubscribe): a second close would end the process.
ChannelIsClosedOnce == panic # "close of closed channel"

\* A subscription in the registry can be relied on: Redis has it active, and if
\* it is a push subscription its worker runs on a live context and an open
\* channel. Subscribe, Unsubscribe and the cleanup pass share it by pointer.
Served(s) ==
  /\ sub[s].active
  /\ ~sub[s].cancelled
  /\ ~sub[s].closed
  /\ (sub[s].worker \in {"waiting", "blocked", "delivering"}) <=> (s \in Push)
RegisteredIsServed ==
  \A s \in registered : repo[s] = "active" /\ Served(s)

\* Redis says inactive only of a subscription whose context is cancelled and
\* whose channel is closed, or of one this process never served: Unsubscribe
\* writes the record last.
InactiveIsReleased ==
  \A s \in Subs \cap Push :
    repo[s] = "inactive" =>
      sub[s].worker = "none" \/ (sub[s].cancelled /\ sub[s].closed)

\* Redis has active only what the registry or a call in progress answers for,
\* but for what a failed command, the cleanup pass or a restart left: such a
\* record stays active, and nobody takes the subscription up again
\* (subscriber.go:279). Only by them is a worker left running (workers.go:288).
Held(s) == s \in registered \/ \E k \in Calls : call[k].id = s
Live(s) == sub[s].worker \notin {"none", "stopped"} /\ ~sub[s].cancelled
LeaksAreKnown ==
  \A s \in Subs :
    /\ s \in orphans <=> repo[s] = "active" /\ ~Held(s)
    /\ s \in Push /\ Live(s) => Held(s) \/ s \in orphans

\* A registered push subscription with something to deliver keeps its channel
\* supplied, whatever its reader does, until it is removed.
DeliveryGoesOn ==
  \A s \in Push \ Grouped :
    (s \in registered) ~> (sub[s].queue # <<>> \/ s \notin registered \/ ~Up)

\* A worker whose context is cancelled ends (subscriptionWorker), from wherever
\* it is in its batch; one of a consumer group may be blocked in its read.
CancelledWorkerStops ==
  \A s \in Push \ Grouped :
    sub[s].cancelled ~> (sub[s].worker \in {"none", "stopped"} \/ ~Up)

\* "Unsubscribe stops consuming and removes the subscription" (subscriber.go:23).
UnsubscribeIsSafe == panic # "send on closed channel"
=============================================================================
