----------------------- MODULE PushSubscriptionProofs -----------------------
(***************************************************************************)
(* Proofs about PushSubscription, for any number of subscriptions, calls   *)
(* and messages and any capacity.                                          *)
(*                                                                         *)
(* Argument. A subscription is at every moment in the hands of at most one *)
(* of these: the Subscribe call that creates it, the registry, the cleanup *)
(* pass, the Unsubscribe call that took it out. The registry hands it over *)
(* under the lock, so nobody else can end what the holder relies on; the   *)
(* worker changes its own state only. CallOK says what the holder knows at *)
(* each of its steps.                                                      *)
(***************************************************************************)
EXTENDS PushSubscription, SequenceTheorems, TLAPS

Running == {"waiting", "blocked", "delivering"}

Open(s) == ~sub[s].cancelled /\ ~sub[s].closed

Released(s) == s \in Push => sub[s].cancelled /\ sub[s].closed

\* This process has not served s.
Unserved(s) == Open(s) /\ sub[s].worker = "none"

\* What call k knows of its subscription.
CallOK(k) ==
  LET s == call[k].id
  IN  call[k].step # "idle" =>
        /\ s \in Subs
        /\ s \notin registered
        /\ repo[s] = "active"
        /\ call[k].step = "start" => Open(s) /\ s \notin expired
        /\ call[k].step = "register" => Served(s) /\ s \notin expired
        /\ call[k].step \in {"cancel", "close"} => ~sub[s].closed
        /\ call[k].step = "close" /\ s \in Push => sub[s].cancelled
        /\ call[k].step \in {"deactivate", "update"} => Released(s)

CallsApart ==
  \A k, l \in Calls :
    call[k].step # "idle" /\ call[l].step # "idle" /\ call[k].id = call[l].id => k = l

SubscriptionOK(s) ==
  /\ s \in registered => repo[s] = "active" /\ Served(s) /\ s \notin expired
  /\ repo[s] = "absent" => Open(s) /\ s \notin expired
  /\ repo[s] = "inactive" => Unserved(s) \/ Released(s)

\* The inductive invariant.
IInv ==
  /\ TypeOK
  /\ ChannelIsClosedOnce
  /\ CallsApart
  /\ \A k \in Calls : CallOK(k)
  /\ \A s \in Subs : SubscriptionOK(s)

LEMMA InitIInv == Init => IInv
  BY SubsAssumption, EmptySeq
     DEF Init, IInv, TypeOK, RepoStates, ActiveSubscription, NoSubscription,
         WorkerStates, CallSteps, ChannelIsClosedOnce, CallsApart, CallOK,
         SubscriptionOK, Open, Released, Served, Unserved
-----------------------------------------------------------------------------
(* Steps that leave the flags of a subscription alone.                     *)

\* A step of the worker or the reader: Served is untouched, because a worker
\* stops only when it is cancelled.
LEMMA MoveKeeps ==
  ASSUME IInv, NEW s \in Subs, NEW next \in ActiveSubscription, Move(s, next),
         next.active = sub[s].active,
         next.cancelled = sub[s].cancelled,
         next.closed = sub[s].closed,
         \/ sub[s].cancelled
         \/ next.worker \in Running <=> sub[s].worker \in Running,
         sub[s].worker = "none" => next.worker = "none"
  PROVE  IInv'
<1> USE DEF Move
<1>1. TypeOK'
  BY DEF IInv, TypeOK
<1>2. \A t \in Subs : /\ Open(t)' <=> Open(t)
                      /\ Released(t)' <=> Released(t)
                      /\ sub'[t].closed = sub[t].closed
                      /\ sub'[t].cancelled = sub[t].cancelled
                      /\ Served(t) => Served(t)'
                      /\ Unserved(t) => Unserved(t)'
  BY DEF IInv, TypeOK, Open, Released, Served, Unserved, Running
<1>3. ChannelIsClosedOnce' /\ CallsApart'
  BY DEF IInv, ChannelIsClosedOnce, CallsApart
<1>4. ASSUME NEW k \in Calls PROVE CallOK(k)'
  <2>1. CallOK(k)
    BY DEF IInv
  <2>2. call[k].step = "idle" \/ call[k].id \in Subs
    BY <2>1 DEF CallOK
  <2> QED BY <1>2, <2>1, <2>2 DEF CallOK
<1>5. ASSUME NEW t \in Subs PROVE SubscriptionOK(t)'
  BY <1>2 DEF IInv, SubscriptionOK
<1> QED BY <1>1, <1>3, <1>4, <1>5 DEF IInv
LEMMA WorkerKeeps ==
  ASSUME IInv, NEW s \in Subs,
         WorkerStep(s) \/ ConnectionLost(s) \/ Receive(s)
  PROVE  IInv'
<1> DEFINE m == IF Window < Len(Topic) THEN Window ELSE Len(Topic)
<1>1. sub[s] \in ActiveSubscription
  BY DEF IInv, TypeOK
<1>2. /\ sub[s].queue \in Seq(Messages)
      /\ sub[s].batch \in Seq(Messages)
  BY <1>1 DEF ActiveSubscription
<1>3. CASE StopWorker(s)
  <2>1. [sub[s] EXCEPT !.worker = "stopped"] \in ActiveSubscription
    BY <1>1 DEF ActiveSubscription, WorkerStates
  <2> QED BY <1>1, <1>3, <2>1, MoveKeeps DEF StopWorker, Working, ActiveSubscription
<1>4. CASE FetchMessages(s)
  <2>1. SubSeq(Topic, 1, m) \in Seq(Messages)
    <3>1. m \in Nat /\ m <= Len(Topic)
      BY ChannelAssumption, LenProperties
    <3>2. \A i \in 1 .. m : Topic[i] \in Messages
      BY <3>1, ChannelAssumption, ElementOfSeq, LenProperties
    <3> QED BY <3>1, <3>2, SubSeqProperties
  <2>2. [sub[s] EXCEPT !.worker = "delivering", !.batch = SubSeq(Topic, 1, m)]
          \in ActiveSubscription
    BY <1>1, <2>1 DEF ActiveSubscription, WorkerStates
  <2> QED BY <1>1, <1>4, <2>2, MoveKeeps
          DEF FetchMessages, Working, ActiveSubscription, Running
<1>5. CASE FetchForGroup(s)
  <2>1. [sub[s] EXCEPT !.worker = "blocked"] \in ActiveSubscription
    BY <1>1 DEF ActiveSubscription, WorkerStates
  <2> QED BY <1>1, <1>5, <2>1, MoveKeeps
          DEF FetchForGroup, Working, ActiveSubscription, Running
<1>6. CASE FilterMessage(s) \/ SkipWhenFull(s)
  <2>1. Delivering(s) /\ Move(s, [sub[s] EXCEPT !.batch = Tail(@)])
    BY <1>6 DEF FilterMessage, SkipWhenFull, Passes
  <2>2. [sub[s] EXCEPT !.batch = Tail(@)] \in ActiveSubscription
    BY <1>1, <1>2, <2>1, HeadTailProperties DEF Delivering, ActiveSubscription
  <2> QED BY <1>1, <2>1, <2>2, MoveKeeps DEF ActiveSubscription
<1>7. CASE SendMessage(s)
  <2>1. Offered(s) \in Messages /\ Tail(sub[s].batch) \in Seq(Messages)
    BY <1>2, <1>7, HeadTailProperties DEF SendMessage, Passes, Delivering, Offered
  <2>2. Append(sub[s].queue, Offered(s)) \in Seq(Messages)
    BY <1>2, <2>1, AppendProperties
  <2>3. [sub[s] EXCEPT !.queue = Append(@, Offered(s)), !.batch = Tail(@)]
          \in ActiveSubscription
    BY <1>1, <2>1, <2>2 DEF ActiveSubscription
  <2> QED BY <1>1, <1>7, <2>3, MoveKeeps DEF SendMessage, ActiveSubscription
<1>8. CASE SendOnClosed(s)
  <2>1. /\ UNCHANGED <<repo, registered, sub, call, expired, orphans, restarts>>
        /\ panic' = "send on closed channel"
    BY <1>8 DEF SendOnClosed
  <2>2. \A k \in Calls : CallOK(k)'
    BY <2>1 DEF IInv, CallOK, Open, Served, Released
  <2>3. \A t \in Subs : SubscriptionOK(t)'
    BY <2>1 DEF IInv, SubscriptionOK, Open, Served, Released, Unserved
  <2> QED BY <2>1, <2>2, <2>3 DEF IInv, TypeOK, ChannelIsClosedOnce, CallsApart
<1>9. CASE AbandonBatch(s)
  <2>1. [sub[s] EXCEPT !.worker = "waiting", !.batch = <<>>] \in ActiveSubscription
    BY <1>1, EmptySeq DEF ActiveSubscription, WorkerStates
  <2> QED BY <1>1, <1>9, <2>1, MoveKeeps
          DEF AbandonBatch, Passes, Delivering, Working, ActiveSubscription
<1>10. CASE FinishBatch(s)
  <2>1. [sub[s] EXCEPT !.worker = "waiting"] \in ActiveSubscription
    BY <1>1 DEF ActiveSubscription, WorkerStates
  <2> QED BY <1>1, <1>10, <2>1, MoveKeeps
          DEF FinishBatch, Working, ActiveSubscription, Running
<1>11. CASE ConnectionLost(s)
  <2>1. [sub[s] EXCEPT !.worker = "waiting"] \in ActiveSubscription
    BY <1>1 DEF ActiveSubscription, WorkerStates
  <2> QED BY <1>1, <1>11, <2>1, MoveKeeps
          DEF ConnectionLost, Working, ActiveSubscription, Running
<1>12. CASE Receive(s)
  <2>1. [sub[s] EXCEPT !.queue = Tail(@)] \in ActiveSubscription
    BY <1>1, <1>2, <1>12, HeadTailProperties DEF Receive, ActiveSubscription
  <2> QED BY <1>1, <1>12, <2>1, MoveKeeps DEF Receive, ActiveSubscription
<1> QED BY <1>3, <1>4, <1>5, <1>6, <1>7, <1>8, <1>9, <1>10, <1>11, <1>12 DEF WorkerStep
-----------------------------------------------------------------------------
(* Subscribe and Unsubscribe.                                              *)

LEMMA CreateKeeps ==
  ASSUME IInv, NEW k \in Calls, NEW s \in Subs, CreateSubscription(k, s)
  PROVE  IInv'
<1> USE DEF CreateSubscription, At
<1>1. TypeOK' /\ ChannelIsClosedOnce'
  <2>1. [step |-> "start", id |-> s] \in [step : CallSteps, id : Subs \cup {NoSub}]
    BY DEF CallSteps
  <2>2. "active" \in RepoStates
    BY DEF RepoStates
  <2> QED BY <2>1, <2>2 DEF IInv, TypeOK, ChannelIsClosedOnce
<1>2. SubscriptionOK(s) /\ s \notin registered
  BY DEF IInv, SubscriptionOK
<1>3. \A l \in Calls : call[l].step # "idle" => call[l].id # s
  BY DEF IInv, CallOK
<1>a. /\ repo'[s] = "active"
      /\ \A l \in Calls :
           \/ call'[l] = call[l]
           \/ l = k /\ call'[l] = [step |-> "start", id |-> s]
  BY DEF IInv, TypeOK
<1>4. CallsApart'
  <2> SUFFICES ASSUME NEW l \in Calls, NEW m \in Calls, l # m,
                      call'[l].step # "idle", call'[m].step # "idle"
               PROVE  call'[l].id # call'[m].id
    BY DEF CallsApart
  <2>1. CASE call'[l] = call[l] /\ call'[m] = call[m]
    BY <2>1 DEF IInv, CallsApart
  <2>2. CASE call'[l] = call[l] /\ call'[m] = [step |-> "start", id |-> s]
    BY <1>3, <2>2
  <2>3. CASE call'[m] = call[m] /\ call'[l] = [step |-> "start", id |-> s]
    BY <1>3, <2>3
  <2> QED BY <1>a, <2>1, <2>2, <2>3
<1>5. ASSUME NEW l \in Calls PROVE CallOK(l)'
  <2>1. CallOK(l) /\ call[l] \in [step : CallSteps, id : Subs \cup {NoSub}]
    BY DEF IInv, TypeOK
  <2>2. CASE call'[l] = call[l]
    BY <1>3, <2>1, <2>2 DEF IInv, TypeOK, CallOK, Open, Served, Released
  <2>3. CASE l = k /\ call'[k] = [step |-> "start", id |-> s]
    <3>1. Open(s)' /\ s \notin expired' /\ s \notin registered'
      BY <1>2 DEF Open, SubscriptionOK
    <3> QED BY <1>a, <2>3, <3>1 DEF CallOK
  <2> QED BY <1>a, <2>2, <2>3
<1>6. ASSUME NEW t \in Subs PROVE SubscriptionOK(t)'
  BY <1>2 DEF IInv, TypeOK, SubscriptionOK, Open, Served, Released, Unserved
<1> QED BY <1>1, <1>4, <1>5, <1>6 DEF IInv

LEMMA TakeKeeps ==
  ASSUME IInv, NEW k \in Calls, NEW s \in Subs, TakeSubscription(k, s)
  PROVE  IInv'
<1> USE DEF TakeSubscription, At
<1>1. TypeOK' /\ ChannelIsClosedOnce'
  BY DEF IInv, TypeOK, CallSteps, ChannelIsClosedOnce
<1>2. SubscriptionOK(s) /\ s \in registered
  BY DEF IInv
<1>3. \A l \in Calls : call[l].step # "idle" => call[l].id # s
  BY <1>2 DEF IInv, CallOK
<1>4. CallsApart'
  BY <1>3 DEF IInv, TypeOK, CallsApart
<1>5. ASSUME NEW l \in Calls PROVE CallOK(l)'
  <2>1. CallOK(l) /\ call[l] \in [step : CallSteps, id : Subs \cup {NoSub}]
    BY DEF IInv, TypeOK
  <2>2. CASE call'[l] = call[l]
    BY <2>1, <2>2 DEF CallOK, Open, Served, Released
  <2>3. CASE l = k /\ call'[k] = [step |-> "cancel", id |-> s]
    BY <1>2, <2>3 DEF CallOK, Served, SubscriptionOK
  <2> QED BY <2>2, <2>3 DEF IInv, TypeOK
<1>6. ASSUME NEW t \in Subs PROVE SubscriptionOK(t)'
  BY DEF IInv, SubscriptionOK, Open, Served, Released, Unserved
<1> QED BY <1>1, <1>4, <1>5, <1>6 DEF IInv

\* A step of call k that changes nothing but its subscription.
LEMMA OthersKeep ==
  ASSUME IInv, NEW k \in Calls, call[k].step # "idle",
         NEW s \in Subs, s = call[k].id,
         TypeOK', ChannelIsClosedOnce',
         call'[k].step # "idle" => call'[k].id = s,
         \A l \in Calls : l # k => call'[l] = call[l],
         \A t \in Subs : t # s =>
           /\ repo'[t] = repo[t]
           /\ sub'[t] = sub[t]
           /\ t \in registered' <=> t \in registered,
         UNCHANGED expired,
         CallOK(k)', SubscriptionOK(s)'
  PROVE  IInv'
<1>0. ASSUME NEW l \in Calls, l # k
      PROVE  /\ CallOK(l) /\ call'[l] = call[l]
             /\ call[l].step # "idle" => call[l].id \in Subs /\ call[l].id # s
  BY <1>0 DEF IInv, CallsApart, CallOK
<1>1. CallsApart'
  <2> SUFFICES ASSUME NEW l \in Calls, NEW m \in Calls, l # m,
                      call'[l].step # "idle", call'[m].step # "idle"
               PROVE  call'[l].id # call'[m].id
    BY DEF CallsApart
  <2>1. CASE l = k \/ m = k
    BY <1>0, <2>1
  <2>2. CASE l # k /\ m # k
    BY <1>0, <2>2 DEF IInv, CallsApart
  <2> QED BY <2>1, <2>2
<1>2. ASSUME NEW l \in Calls, l # k PROVE CallOK(l)'
  <2>1. CASE call[l].step = "idle"
    BY <1>0, <1>2, <2>1 DEF CallOK
  <2>2. CASE call[l].step # "idle"
    <3> DEFINE u == call[l].id
    <3>1. /\ repo'[u] = repo[u] /\ sub'[u] = sub[u] /\ (u \in registered' <=> u \in registered)
      BY <1>0, <1>2, <2>2
    <3> QED BY <1>0, <1>2, <3>1 DEF CallOK, Open, Served, Released
  <2> QED BY <2>1, <2>2
<1>3. ASSUME NEW t \in Subs, t # s PROVE SubscriptionOK(t)'
  BY <1>3 DEF IInv, SubscriptionOK, Open, Served, Released, Unserved
<1> QED BY <1>1, <1>2, <1>3 DEF IInv

LEMMA CallStepKeeps ==
  ASSUME IInv, NEW k \in Calls, CallStep(k)
  PROVE  IInv'
<1>0. call[k].step # "idle"
  BY DEF CallStep, StartWorker, Register, CancelWorker, CloseChannel, Deactivate,
         UpdateSubscription, At
<1>a. PICK s \in Subs : s = call[k].id
  BY <1>0 DEF IInv, CallOK
<1>1. CallOK(k) /\ s = call[k].id /\ SubscriptionOK(s)
  BY <1>a DEF IInv
<1>2. sub \in [Subs -> ActiveSubscription] /\ repo \in [Subs -> RepoStates]
  BY DEF IInv, TypeOK
<1>3. call \in [Calls -> [step : CallSteps, id : Subs \cup {NoSub}]]
  BY DEF IInv, TypeOK
<1>4. ASSUME \/ Return(k)
             \/ \E step \in CallSteps : Proceed(k, step)
      PROVE  /\ call' \in [Calls -> [step : CallSteps, id : Subs \cup {NoSub}]]
             /\ call'[k].step # "idle" => call'[k].id = s
             /\ \A l \in Calls : l # k => call'[l] = call[l]
  <2>1. CASE Return(k)
    <3>1. [step |-> "idle", id |-> NoSub] \in [step : CallSteps, id : Subs \cup {NoSub}]
      BY DEF CallSteps
    <3> QED BY <1>3, <2>1, <3>1 DEF Return
  <2>2. ASSUME NEW step \in CallSteps, Proceed(k, step)
        PROVE  /\ call' \in [Calls -> [step : CallSteps, id : Subs \cup {NoSub}]]
               /\ call'[k].id = s
               /\ \A l \in Calls : l # k => call'[l] = call[l]
    <3>1. call[k] \in [step : CallSteps, id : Subs \cup {NoSub}]
      BY <1>3
    <3>2. /\ [call[k] EXCEPT !.step = step] \in [step : CallSteps, id : Subs \cup {NoSub}]
          /\ [call[k] EXCEPT !.step = step].id = s
      BY <1>1, <3>1
    <3>3. call' = [call EXCEPT ![k] = [call[k] EXCEPT !.step = step]]
      BY <1>3, <2>2 DEF Proceed
    <3> QED BY <1>3, <3>2, <3>3
  <2> QED BY <1>4, <2>1, <2>2
<1>5. CASE StartWorker(k)
  <2> USE <1>5 DEF StartWorker, At
  <2>1. "register" \in CallSteps
    BY DEF CallSteps
  <2>2. sub' \in [Subs -> ActiveSubscription]
    <3>1. sub' = [sub EXCEPT ![s] =
                    [@ EXCEPT !.active = TRUE,
                              !.worker = IF s \in Push THEN "waiting" ELSE "none"]]
      BY <1>1
    <3>2. {"waiting", "none"} \subseteq WorkerStates
      BY DEF WorkerStates
    <3>3. sub[s] \in ActiveSubscription
      BY <1>2
    <3>4. [sub[s] EXCEPT !.active = TRUE,
                         !.worker = IF s \in Push THEN "waiting" ELSE "none"]
            \in ActiveSubscription
      BY <3>2, <3>3 DEF ActiveSubscription
    <3> QED BY <1>2, <3>1, <3>4
  <2>3. Served(s)'
    BY <1>1, <1>2 DEF CallOK, Open, Served, ActiveSubscription
  <2>4. CallOK(k)'
    BY <1>1, <1>3, <2>3 DEF CallOK, Proceed, Served
  <2>5. SubscriptionOK(s)'
    BY <1>1 DEF CallOK, SubscriptionOK
  <2>6. TypeOK' /\ ChannelIsClosedOnce'
    BY <1>4, <2>1, <2>2 DEF IInv, TypeOK, ChannelIsClosedOnce
  <2> QED BY <1>0, <1>1, <1>2, <1>4, <2>1, <2>4, <2>5, <2>6, OthersKeep
<1>6. CASE Register(k)
  <2> USE <1>6 DEF Register, At
  <2>1. CallOK(k)'
    BY <1>3 DEF CallOK, Return
  <2>2. SubscriptionOK(s)'
    BY <1>1 DEF CallOK, SubscriptionOK, Served
  <2>3. TypeOK' /\ ChannelIsClosedOnce'
    BY <1>1, <1>4 DEF IInv, TypeOK, ChannelIsClosedOnce
  <2> QED BY <1>0, <1>1, <1>4, <2>1, <2>2, <2>3, OthersKeep
<1>7. CASE CancelWorker(k)
  <2> USE <1>7 DEF CancelWorker, At
  <2>1. "close" \in CallSteps
    BY DEF CallSteps
  <2>2. sub' \in [Subs -> ActiveSubscription]
    <3>1. [sub[s] EXCEPT !.cancelled = TRUE] \in ActiveSubscription
      BY <1>2 DEF ActiveSubscription
    <3> QED BY <1>1, <1>2, <3>1
  <2>3. /\ sub'[s].closed = sub[s].closed
        /\ s \in Push => sub'[s].cancelled
    BY <1>1, <1>2 DEF ActiveSubscription
  <2>4. CallOK(k)'
    BY <1>1, <1>3, <2>3 DEF CallOK, Proceed
  <2>5. SubscriptionOK(s)'
    BY <1>1 DEF CallOK, SubscriptionOK
  <2>6. TypeOK' /\ ChannelIsClosedOnce'
    BY <1>4, <2>1, <2>2 DEF IInv, TypeOK, ChannelIsClosedOnce
  <2> QED BY <1>0, <1>1, <1>2, <1>4, <2>1, <2>4, <2>5, <2>6, OthersKeep
<1>8. CASE CloseChannel(k)
  <2> USE <1>8 DEF CloseChannel, At
  <2>1. /\ ~sub[s].closed
        /\ sub' = IF s \in Push THEN [sub EXCEPT ![s].closed = TRUE] ELSE sub
        /\ Proceed(k, "deactivate")
        /\ UNCHANGED <<panic, repo, registered, expired>>
    BY <1>1 DEF CallOK
  <2>2. "deactivate" \in CallSteps
    BY DEF CallSteps
  <2>3. sub' \in [Subs -> ActiveSubscription]
    <3>1. [sub[s] EXCEPT !.closed = TRUE] \in ActiveSubscription
      BY <1>2 DEF ActiveSubscription
    <3> QED BY <1>2, <2>1, <3>1
  <2>4. Released(s)'
    BY <1>1, <1>2, <2>1 DEF CallOK, Released, ActiveSubscription
  <2>5. CallOK(k)'
    BY <1>1, <1>3, <2>1, <2>4 DEF CallOK, Proceed, Released
  <2>6. SubscriptionOK(s)'
    BY <1>1, <2>1 DEF CallOK, SubscriptionOK
  <2>7. TypeOK' /\ ChannelIsClosedOnce'
    BY <1>4, <2>1, <2>2, <2>3 DEF IInv, TypeOK, ChannelIsClosedOnce
  <2> QED BY <1>0, <1>1, <1>2, <1>4, <2>1, <2>2, <2>5, <2>6, <2>7, OthersKeep
<1>9. CASE Deactivate(k)
  <2> USE <1>9 DEF Deactivate, At
  <2>1. "update" \in CallSteps
    BY DEF CallSteps
  <2>2. sub' \in [Subs -> ActiveSubscription]
    BY <1>1, <1>2 DEF ActiveSubscription
  <2>3. Released(s)'
    BY <1>1, <1>2 DEF CallOK, Released
  <2>4. CallOK(k)'
    BY <1>1, <1>3, <2>3 DEF CallOK, Proceed, Released
  <2>5. SubscriptionOK(s)'
    BY <1>1 DEF CallOK, SubscriptionOK
  <2>6. TypeOK' /\ ChannelIsClosedOnce'
    BY <1>4, <2>1, <2>2 DEF IInv, TypeOK, ChannelIsClosedOnce
  <2> QED BY <1>0, <1>1, <1>2, <1>4, <2>1, <2>4, <2>5, <2>6, OthersKeep
<1>10. CASE UpdateSubscription(k)
  <2> USE <1>10 DEF UpdateSubscription, At
  <2>1. repo' \in [Subs -> RepoStates]
    BY <1>1, <1>2 DEF RepoStates
  <2>2. CallOK(k)'
    BY <1>3 DEF CallOK, Return
  <2>3. SubscriptionOK(s)'
    BY <1>1, <1>2 DEF CallOK, SubscriptionOK, Released, Unserved
  <2>4. TypeOK' /\ ChannelIsClosedOnce'
    BY <1>1, <1>4, <2>1 DEF IInv, TypeOK, ChannelIsClosedOnce
  <2> QED BY <1>0, <1>1, <1>2, <1>4, <2>2, <2>3, <2>4, OthersKeep
<1> QED BY <1>5, <1>6, <1>7, <1>8, <1>9, <1>10 DEF CallStep
-----------------------------------------------------------------------------
(* The cleanup pass.                                                       *)

LEMMA CleanupKeeps ==
  ASSUME IInv, RemoveInactive \/ \E s \in Subs : CancelInactive(s)
  PROVE  IInv'
<1>1. CASE RemoveInactive
  <2> USE <1>1 DEF RemoveInactive
  <2>1. TypeOK' /\ ChannelIsClosedOnce' /\ CallsApart'
    BY DEF IInv, TypeOK, ChannelIsClosedOnce, CallsApart
  <2>2. registered' \cup expired' = registered /\ registered' \cap expired' = {}
    OBVIOUS
  <2>3. ASSUME NEW k \in Calls PROVE CallOK(k)'
    <3>1. CallOK(k)
      BY DEF IInv
    <3> QED BY <2>2, <3>1 DEF CallOK, Open, Served, Released
  <2>4. ASSUME NEW s \in Subs PROVE SubscriptionOK(s)'
    <3>1. SubscriptionOK(s)
      BY DEF IInv
    <3> QED BY <2>2, <3>1 DEF SubscriptionOK, Open, Served, Released, Unserved
  <2> QED BY <2>1, <2>3, <2>4 DEF IInv
<1>2. ASSUME NEW s \in Subs, CancelInactive(s) PROVE IInv'
  <2> USE <1>2 DEF CancelInactive
  <2>1. s \notin registered
    BY DEF IInv, SubscriptionOK
  <2>2. sub' = sub
    BY <2>1 DEF IInv, TypeOK, ActiveSubscription
  <2>3. TypeOK' /\ ChannelIsClosedOnce' /\ CallsApart'
    BY <2>2 DEF IInv, TypeOK, ChannelIsClosedOnce, CallsApart
  <2>4. \A k \in Calls : CallOK(k)'
    BY <2>2 DEF IInv, CallOK, Open, Served, Released
  <2>5. \A t \in Subs : SubscriptionOK(t)'
    BY <2>2 DEF IInv, SubscriptionOK, Open, Served, Released, Unserved
  <2> QED BY <2>3, <2>4, <2>5 DEF IInv
<1> QED BY <1>1, <1>2
-----------------------------------------------------------------------------
LEMMA RestartKeeps ==
  ASSUME IInv, Restart
  PROVE  IInv'
<1> USE DEF Restart
<1>1. \A s \in Subs : sub'[s] = NoSubscription
  OBVIOUS
<1>2. TypeOK'
  <2>1. NoSubscription \in ActiveSubscription
    BY EmptySeq DEF NoSubscription, ActiveSubscription, WorkerStates
  <2>2. sub' \in [Subs -> ActiveSubscription]
    BY <2>1
  <2>3. call' \in [Calls -> [step : CallSteps, id : Subs \cup {NoSub}]]
    BY DEF CallSteps
  <2>4. restarts' \in Nat
    <3>1. restarts \in Nat
      BY DEF IInv, TypeOK
    <3>2. restarts + 1 \in Nat
      BY <3>1
    <3> QED BY <3>2
  <2>5. orphans' \subseteq Subs
    <3>1. orphans \subseteq Subs
      BY DEF IInv, TypeOK
    <3> QED BY <3>1
  <2> QED BY <2>2, <2>3, <2>4, <2>5 DEF IInv, TypeOK
<1>3. CallsApart' /\ \A k \in Calls : CallOK(k)'
  BY DEF CallsApart, CallOK
<1>4. ASSUME NEW s \in Subs PROVE SubscriptionOK(s)'
  BY <1>1 DEF SubscriptionOK, Open, Unserved, NoSubscription
<1> QED BY <1>2, <1>3, <1>4 DEF IInv, ChannelIsClosedOnce
-----------------------------------------------------------------------------
LEMMA NextIInv == IInv /\ [Next]_vars => IInv'
<1>1. ASSUME IInv, Next PROVE IInv'
  BY <1>1, CallStepKeeps, CreateKeeps, TakeKeeps, CleanupKeeps, WorkerKeeps, RestartKeeps
     DEF Next, AskSubscriber
<1>2. ASSUME IInv, UNCHANGED vars PROVE IInv'
  BY <1>2 DEF vars, IInv, TypeOK, ChannelIsClosedOnce, CallsApart, CallOK,
              SubscriptionOK, Open, Served, Released, Unserved
<1> QED BY <1>1, <1>2

\* The invariant holds in every reachable state.
THEOREM Invariant == Spec => []IInv
  BY InitIInv, NextIInv, PTL DEF Spec

\* Type correctness of the subscriber service's push side.
THEOREM TypeCorrect == Spec => []TypeOK
<1>1. IInv => TypeOK
  BY DEF IInv
<1> QED BY <1>1, Invariant, PTL

\* However many Unsubscribe calls and cleanup passes race, a message channel is
\* closed once.
THEOREM ClosedOnce == Spec => []ChannelIsClosedOnce
<1>1. IInv => ChannelIsClosedOnce
  BY DEF IInv
<1> QED BY <1>1, Invariant, PTL

\* Whatever is in service.subscriptions is active, and served if it is push.
THEOREM RegisteredServed == Spec => []RegisteredIsServed
<1>1. IInv => RegisteredIsServed
  BY DEF IInv, TypeOK, RegisteredIsServed, SubscriptionOK
<1> QED BY <1>1, Invariant, PTL

\* Redis has a push subscription inactive only once its worker is cancelled and
\* its channel closed.
THEOREM InactiveReleased == Spec => []InactiveIsReleased
<1>1. IInv => InactiveIsReleased
  BY DEF IInv, InactiveIsReleased, SubscriptionOK, Released, Unserved
<1> QED BY <1>1, Invariant, PTL
-----------------------------------------------------------------------------
(* What is left active.                                                    *)

CallsNamed == \A k \in Calls : call[k].step = "idle" => call[k].id = NoSub

LeakInv == CallsNamed /\ LeaksAreKnown

\* A step that changes neither Redis nor who answers for a subscription.
LEMMA LeaksFrame ==
  ASSUME LeakInv, CallsNamed', UNCHANGED <<repo, orphans>>,
         \A s \in Subs : /\ Held(s)' <=> Held(s)
                         /\ s \in Push /\ Live(s)' => Live(s) \/ Held(s)
  PROVE  LeakInv'
BY DEF LeakInv, LeaksAreKnown

LEMMA WorkerLeaks ==
  ASSUME IInv, LeakInv, NEW s \in Subs,
         WorkerStep(s) \/ ConnectionLost(s) \/ Receive(s)
  PROVE  LeakInv'
<1>1. UNCHANGED <<repo, registered, call, orphans>>
  BY DEF WorkerStep, StopWorker, FetchMessages, FetchForGroup, FilterMessage, SendMessage,
         SendOnClosed, SkipWhenFull, AbandonBatch, FinishBatch, ConnectionLost, Receive, Move
<1>3. CallsNamed' /\ \A t \in Subs : Held(t)' <=> Held(t)
  BY <1>1 DEF LeakInv, CallsNamed, Held
<1>4. ASSUME NEW t \in Subs, Live(t)' PROVE Live(t)
  <2>1. sub[s] \in ActiveSubscription /\ sub' \in [Subs -> ActiveSubscription]
    BY WorkerKeeps DEF IInv, TypeOK
  <2> DEFINE Goal == /\ \A u \in Subs : u # s => sub'[u] = sub[u]
                     /\ sub'[s].cancelled = sub[s].cancelled
                     /\ sub[s].worker \in {"none", "stopped"} =>
                          sub'[s].worker \in {"none", "stopped"}
  <2>2. Goal
    <3>1. CASE SendOnClosed(s)
      BY <3>1 DEF SendOnClosed
    <3>2. ASSUME NEW next, Move(s, next), next.cancelled = sub[s].cancelled,
                 \/ sub[s].worker \notin {"none", "stopped"}
                 \/ next.worker = sub[s].worker
          PROVE  Goal
      BY <2>1, <3>2 DEF Move, IInv, TypeOK
    <3>3. CASE FilterMessage(s) \/ SkipWhenFull(s) \/ Receive(s)
      <4>1. \/ Move(s, [sub[s] EXCEPT !.batch = Tail(@)])
            \/ Move(s, [sub[s] EXCEPT !.queue = Tail(@)])
        BY <3>3 DEF FilterMessage, SkipWhenFull, Receive
      <4>2. /\ [sub[s] EXCEPT !.batch = Tail(@)].cancelled = sub[s].cancelled
            /\ [sub[s] EXCEPT !.batch = Tail(@)].worker = sub[s].worker
            /\ [sub[s] EXCEPT !.queue = Tail(@)].cancelled = sub[s].cancelled
            /\ [sub[s] EXCEPT !.queue = Tail(@)].worker = sub[s].worker
        BY <2>1 DEF ActiveSubscription
      <4> QED BY <3>2, <4>1, <4>2
    <3>4. CASE SendMessage(s)
      BY <2>1, <3>2, <3>4 DEF SendMessage, ActiveSubscription
    <3>5. CASE StopWorker(s) \/ FetchMessages(s) \/ FetchForGroup(s)
      BY <2>1, <3>2, <3>5 DEF StopWorker, FetchMessages, FetchForGroup, Working,
         ActiveSubscription
    <3>6. CASE FinishBatch(s) \/ ConnectionLost(s)
      BY <2>1, <3>2, <3>6 DEF FinishBatch, ConnectionLost, Working, ActiveSubscription
    <3>7. CASE AbandonBatch(s)
      BY <2>1, <3>2, <3>7 DEF AbandonBatch, Passes, Delivering, Working, ActiveSubscription
    <3> QED BY <3>1, <3>3, <3>4, <3>5, <3>6, <3>7 DEF WorkerStep
  <2> QED BY <1>4, <2>2 DEF Live
<1> QED BY <1>1, <1>3, <1>4, LeaksFrame

\* The subscription a call works on, and what the steps of the call leave.
LEMMA CallLeaks ==
  ASSUME IInv, IInv', LeakInv, NEW k \in Calls, CallStep(k)
  PROVE  LeakInv'
<1>0. call[k].step # "idle"
  BY DEF CallStep, StartWorker, Register, CancelWorker, CloseChannel, Deactivate,
         UpdateSubscription, At
<1>1. PICK s \in Subs : s = call[k].id
  BY <1>0 DEF IInv, CallOK
<1>2. /\ CallOK(k) /\ SubscriptionOK(s) /\ s \notin registered /\ repo[s] = "active"
      /\ Held(s) /\ s \notin orphans
  BY <1>0, <1>1 DEF IInv, CallOK, Held, LeakInv, LeaksAreKnown
<1>3. /\ sub \in [Subs -> ActiveSubscription] /\ repo \in [Subs -> RepoStates]
      /\ call \in [Calls -> [step : CallSteps, id : Subs \cup {NoSub}]]
  BY DEF IInv, TypeOK
<1>4. ASSUME NEW l \in Calls, l # k PROVE call[l].id # s
  <2>1. CASE call[l].step = "idle"
    BY <2>1, SubsAssumption DEF LeakInv, CallsNamed
  <2>2. CASE call[l].step # "idle"
    BY <1>0, <1>1, <1>4, <2>2 DEF IInv, CallsApart
  <2> QED BY <2>1, <2>2
<1>5. ASSUME NEW step \in CallSteps, step # "idle", Proceed(k, step), UNCHANGED registered
      PROVE  CallsNamed' /\ \A t \in Subs : Held(t)' <=> Held(t)
  <2>1. \A l \in Calls : /\ call'[l].id = call[l].id
                         /\ call'[l].step = IF l = k THEN step ELSE call[l].step
    BY <1>3, <1>5 DEF Proceed
  <2> QED BY <1>5, <2>1 DEF LeakInv, CallsNamed, Held
<1>6. ASSUME Return(k)
      PROVE  /\ CallsNamed'
             /\ \A t \in Subs : (\E l \in Calls : call'[l].id = t)
                                <=> t # s /\ \E l \in Calls : call[l].id = t
  <2>1. \A l \in Calls :
          call'[l] = IF l = k THEN [step |-> "idle", id |-> NoSub] ELSE call[l]
    BY <1>3, <1>6 DEF Return
  <2>2. CallsNamed'
    BY <2>1 DEF LeakInv, CallsNamed
  <2>3. ASSUME NEW t \in Subs
        PROVE  (\E l \in Calls : call'[l].id = t)
                 <=> t # s /\ \E l \in Calls : call[l].id = t
    <3>1. \A l \in Calls : call'[l].id = t <=> l # k /\ call[l].id = t
      BY <2>1, SubsAssumption
    <3> QED BY <1>1, <1>4, <3>1
  <2> QED BY <2>2, <2>3
<1>7. CASE StartWorker(k)
  <2> USE <1>7 DEF StartWorker, At
  <2>1. \A t \in Subs : t # s => sub'[t] = sub[t]
    BY <1>1, <1>3
  <2>2. \A t \in Subs : Live(t)' => Live(t) \/ Held(t)
    BY <1>2, <2>1 DEF Live
  <2>3. "register" \in CallSteps
    BY DEF CallSteps
  <2> QED BY <1>5, <2>2, <2>3, LeaksFrame
<1>8. CASE Register(k)
  <2> USE <1>8 DEF Register, At
  <2>1. \A t \in Subs : Held(t)' <=> Held(t)
    BY <1>1, <1>2, <1>6 DEF Held
  <2> QED BY <1>6, <2>1, LeaksFrame DEF Live
<1>9. CASE CancelWorker(k) \/ CloseChannel(k) \/ Deactivate(k)
  <2>1. /\ UNCHANGED <<repo, registered, orphans>>
        /\ \E step \in CallSteps : step # "idle" /\ Proceed(k, step)
    BY <1>1, <1>2, <1>9 DEF CancelWorker, CloseChannel, Deactivate, At, CallSteps, CallOK
  <2>2. \A t \in Subs : /\ sub'[t].worker = sub[t].worker
                        /\ sub[t].cancelled => sub'[t].cancelled
    <3>1. CASE CancelWorker(k)
      BY <1>1, <1>3, <3>1 DEF CancelWorker, ActiveSubscription
    <3>2. CASE CloseChannel(k)
      <4>1. sub' = sub \/ sub' = [sub EXCEPT ![s].closed = TRUE]
        BY <1>1, <3>2 DEF CloseChannel
      <4>2. CASE sub' = sub
        BY <4>2
      <4>3. CASE sub' = [sub EXCEPT ![s].closed = TRUE]
        <5>1. sub[s] \in ActiveSubscription
          BY <1>3
        <5>2. /\ [sub[s] EXCEPT !.closed = TRUE].worker = sub[s].worker
              /\ [sub[s] EXCEPT !.closed = TRUE].cancelled = sub[s].cancelled
          BY <5>1 DEF ActiveSubscription
        <5>3. sub' = [sub EXCEPT ![s] = [sub[s] EXCEPT !.closed = TRUE]]
          BY <4>3
        <5> QED BY <1>3, <5>2, <5>3
      <4> QED BY <4>1, <4>2, <4>3
    <3>3. CASE Deactivate(k)
      BY <1>1, <1>3, <3>3 DEF Deactivate, ActiveSubscription
    <3> QED BY <1>9, <3>1, <3>2, <3>3
  <2>3. \A t \in Subs : Live(t)' => Live(t)
    BY <2>2 DEF Live
  <2>4. CallsNamed' /\ \A t \in Subs : Held(t)' <=> Held(t)
    BY <1>5, <2>1
  <2> QED BY <2>1, <2>3, <2>4, LeaksFrame
<1>10. CASE UpdateSubscription(k)
  <2> USE <1>10 DEF UpdateSubscription, At
  <2>0. \A t \in Subs : Held(t)' <=> t # s /\ Held(t)
    BY <1>2, <1>6 DEF Held
  <2>1. \A t \in Subs : /\ Held(t)' <=> (t # s /\ Held(t))
                        /\ Live(t)' <=> Live(t)
    BY <2>0 DEF Live
  <2>2. ~Live(s) \/ s \notin Push
    BY <1>0, <1>1, <1>2 DEF CallOK, Released, Live
  <2>3. ASSUME NEW t \in Subs, t # s
        PROVE  repo'[t] = repo[t] /\ (t \in orphans' <=> t \in orphans)
    BY <1>1, <1>3, <2>3
  <2>4. s \in orphans' <=> repo'[s] = "active"
    BY <1>1, <1>2, <1>3
  <2>5. s \in Push => ~Live(s)'
    BY <2>1, <2>2
  <2>6. ASSUME NEW t \in Subs
        PROVE  /\ t \in orphans' <=> repo'[t] = "active" /\ ~Held(t)'
               /\ t \in Push /\ Live(t)' => Held(t)' \/ t \in orphans'
    <3>1. CASE t = s
      BY <2>1, <2>4, <2>5, <3>1
    <3>2. CASE t # s
      BY <2>1, <2>3, <3>2 DEF LeakInv, LeaksAreKnown
    <3> QED BY <3>1, <3>2
  <2> QED BY <1>6, <2>6 DEF LeakInv, LeaksAreKnown
<1> QED BY <1>7, <1>8, <1>9, <1>10 DEF CallStep

LEMMA LeaksStep ==
  ASSUME IInv, IInv', LeakInv, Next
  PROVE  LeakInv'
<1>1. ASSUME NEW k \in Calls, NEW s \in Subs, CreateSubscription(k, s) PROVE LeakInv'
  <2> USE <1>1 DEF CreateSubscription, At
  <2>1. s \notin registered /\ \A l \in Calls : call[l].id # s
    BY SubsAssumption DEF IInv, SubscriptionOK, CallOK, LeakInv, CallsNamed
  <2>2. \A t \in Subs : t # s => repo'[t] = repo[t]
    BY DEF IInv, TypeOK
  <2>3. repo'[s] = "active" /\ s \notin orphans
    BY DEF IInv, TypeOK, LeakInv, LeaksAreKnown
  <2>4. call[k].id # s /\ call[k].id \notin Subs
    BY <2>1, SubsAssumption DEF LeakInv, CallsNamed
  <2>5. CASE UNCHANGED call /\ orphans' = orphans \cup {s}
    BY <2>1, <2>2, <2>3, <2>5 DEF LeakInv, CallsNamed, LeaksAreKnown, Held, Live
  <2>6. CASE UNCHANGED orphans /\ call' = [call EXCEPT ![k] = [step |-> "start", id |-> s]]
    <3>1. \A l \in Calls : call'[l] = IF l = k THEN [step |-> "start", id |-> s] ELSE call[l]
      BY <2>6 DEF IInv, TypeOK
    <3>2. \A t \in Subs : Held(t)' <=> t = s \/ Held(t)
      BY <2>1, <2>4, <3>1 DEF Held
    <3> QED BY <2>2, <2>3, <2>6, <3>1, <3>2 DEF LeakInv, CallsNamed, LeaksAreKnown, Live
  <2> QED BY <2>5, <2>6
<1>2. ASSUME NEW k \in Calls, NEW s \in Subs, TakeSubscription(k, s) PROVE LeakInv'
  <2> USE <1>2 DEF TakeSubscription, At
  <2>1. call[k].id \notin Subs
    BY SubsAssumption DEF LeakInv, CallsNamed
  <2>2. \A l \in Calls : call'[l] = IF l = k THEN [step |-> "cancel", id |-> s] ELSE call[l]
    BY DEF IInv, TypeOK
  <2>3. \A t \in Subs : Held(t)' <=> Held(t)
    BY <2>1, <2>2 DEF Held
  <2>4. CallsNamed'
    BY <2>2 DEF LeakInv, CallsNamed
  <2> QED BY <2>3, <2>4, LeaksFrame DEF Live
<1>3. CASE RemoveInactive
  <2> USE <1>3 DEF RemoveInactive
  <2>1. PICK S \in SUBSET registered :
          registered' = registered \ S /\ orphans' = orphans \cup S
    OBVIOUS
  <2>2. \A s \in S : s \in Subs /\ repo[s] = "active" /\ \A k \in Calls : call[k].id # s
    <3> SUFFICES ASSUME NEW s \in S
                 PROVE  s \in Subs /\ repo[s] = "active" /\ \A k \in Calls : call[k].id # s
      OBVIOUS
    <3>1. s \in registered /\ s \in Subs
      BY DEF IInv, TypeOK
    <3>2. repo[s] = "active"
      BY <3>1 DEF IInv, SubscriptionOK
    <3>3. ASSUME NEW k \in Calls PROVE call[k].id # s
      BY <3>1, SubsAssumption DEF IInv, CallOK, LeakInv, CallsNamed
    <3> QED BY <3>1, <3>2, <3>3
  <2>3. \A t \in Subs : Held(t)' <=> t \notin S /\ Held(t)
    BY <2>1, <2>2 DEF Held
  <2>4. CallsNamed'
    BY DEF LeakInv, CallsNamed
  <2>5. LeaksAreKnown'
    BY <2>1, <2>2, <2>3 DEF LeakInv, LeaksAreKnown, Live
  <2> QED BY <2>4, <2>5 DEF LeakInv
<1>4. ASSUME NEW s \in Subs, CancelInactive(s) PROVE LeakInv'
  <2> USE <1>4 DEF CancelInactive
  <2>1. UNCHANGED <<repo, registered, call, orphans>>
    OBVIOUS
  <2>2. sub' = sub
    BY DEF IInv, SubscriptionOK
  <2> QED BY <2>1, <2>2 DEF LeakInv, CallsNamed, LeaksAreKnown, Held, Live
<1>5. CASE Restart
  <2> USE <1>5 DEF Restart
  <2>1. \A s \in Subs : ~Held(s)' /\ ~Live(s)'
    BY SubsAssumption DEF Held, Live, NoSubscription
  <2>2. \A s \in Subs : s \in orphans' <=> repo[s] = "active"
    BY DEF LeakInv, LeaksAreKnown
  <2>3. CallsNamed'
    BY DEF CallsNamed
  <2> QED BY <2>1, <2>2, <2>3 DEF LeakInv, LeaksAreKnown
<1> QED BY <1>1, <1>2, <1>3, <1>4, <1>5, CallLeaks, WorkerLeaks DEF Next, AskSubscriber

LEMMA LeakInvariant == Spec => []LeakInv
<1>1. Init => LeakInv
  BY SubsAssumption DEF Init, LeakInv, CallsNamed, LeaksAreKnown, Held, Live, NoSubscription
<1>2. IInv /\ IInv' /\ LeakInv /\ [Next]_vars => LeakInv'
  <2>1. ASSUME LeakInv, UNCHANGED vars PROVE LeakInv'
    BY <2>1 DEF vars, LeakInv, CallsNamed, LeaksAreKnown, Held, Live
  <2> QED BY <2>1, LeaksStep
<1> QED BY <1>1, <1>2, Invariant, PTL DEF Spec

\* What Redis has active and nobody answers for was left by a failed command,
\* the cleanup pass or a restart, and only then may a worker be left running.
THEOREM LeaksKnown == Spec => []LeaksAreKnown
<1>1. LeakInv => LeaksAreKnown
  BY DEF LeakInv
<1> QED BY <1>1, LeakInvariant, PTL

\* A record that was left active stays so, and neither the registry nor a call
\* ever answers for it again.
LeakIsKept ==
  \A s \in orphans : s \in orphans' /\ repo'[s] = "active" /\ ~Held(s)'
LeaksAreForGood == [][LeakIsKept]_vars

\* Nothing repairs a leak: no failed command, cleanup pass or restart is ever
\* made good by a later call, by the worker or by the start of the process.
THEOREM LeaksStay == Spec => LeaksAreForGood
<1>1. LeakInv' /\ IInv /\ [Next]_vars => [LeakIsKept]_vars
  <2> SUFFICES ASSUME LeakInv', IInv, Next PROVE LeakIsKept
    OBVIOUS
  <2>1. orphans \subseteq orphans'
    <3>1. ASSUME NEW s \in Subs,
                 CancelInactive(s) \/ WorkerStep(s) \/ ConnectionLost(s) \/ Receive(s)
          PROVE  UNCHANGED orphans
      BY <3>1 DEF CancelInactive, WorkerStep, StopWorker, FetchMessages, FetchForGroup,
         FilterMessage, SendMessage, SendOnClosed, SkipWhenFull, AbandonBatch, FinishBatch,
         ConnectionLost, Receive, Move
    <3>2. ASSUME NEW k \in Calls, CallStep(k) \/ AskSubscriber(k)
          PROVE  orphans \subseteq orphans'
      BY <3>2 DEF CallStep, StartWorker, Register, CancelWorker, CloseChannel, Deactivate,
         UpdateSubscription, AskSubscriber, CreateSubscription, TakeSubscription
    <3>3. CASE RemoveInactive \/ Restart
      BY <3>3 DEF RemoveInactive, Restart
    <3> QED BY <3>1, <3>2, <3>3 DEF Next
  <2>2. \A s \in orphans : s \in Subs
    BY DEF IInv, TypeOK
  <2> QED BY <2>1, <2>2 DEF LeakInv, LeaksAreKnown, LeakIsKept
<1> QED BY <1>1, Invariant, LeakInvariant, PTL DEF Spec, LeaksAreForGood
=============================================================================
