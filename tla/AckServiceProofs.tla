-------------------------- MODULE AckServiceProofs --------------------------
(***************************************************************************)
(* Proofs about AckService, for any number of messages, goroutines,        *)
(* requests and faults and any configuration.                              *)
(*                                                                         *)
(* Argument. Records are overwritten blindly, so what protects a dead      *)
(* letter is not a lock but that whoever writes a record carries a         *)
(* snapshot whose lineage headers agree with the stored record. RecordOK   *)
(* says what a record may look like, in Redis or in a snapshot; it is      *)
(* stable because stored messages and their origins only grow (Grows). So  *)
(* a snapshot stays harmless however stale it is, and every step of the    *)
(* system either leaves the store alone or is a SafeWrite.                 *)
(***************************************************************************)
EXTENDS AckService, TLAPS

Stored(s, i) == s[i].status # "absent"

\* What any record of message i, stored in s or carried, satisfies.
RecordOK(s, i, m) ==
  /\ m \in Message
  /\ m.status # "absent"
  /\ m.origin # NoId => Stored(s, m.origin)
  /\ m.source # NoId => s[m.source].origin # NoId
  /\ m.status = "DLQ" /\ m.origin = NoId => \E d \in Ids : s[d].origin = i

\* A snapshot of message i agrees with the store on what is never rewritten.
SnapshotOK(s, i, m) ==
  m.status # "absent" => /\ RecordOK(s, i, m)
                         /\ Stored(s, i)
                         /\ m.origin = s[i].origin

StoreOK(s) ==
  /\ s \in [Ids -> Message]
  /\ \A i \in Ids :
       \/ s[i] = NoMessage
       \/ /\ RecordOK(s, i, s[i])
          /\ s[i].status = "Pending" => s[i].consumer = NoConsumer

WorkOK(s, w) ==
  /\ w \in Work
  /\ \A i \in Ids : SnapshotOK(s, i, w.batch[i])
  /\ w.step # "idle" => w.id \in Ids /\ w.batch[w.id].status # "absent"
  /\ w.step = "deliver" => w.batch[w.id].status = "Delivered"
  /\ w.step \in {"copyBack", "markBack"} =>
       w.batch[w.id].origin # NoId /\ w.batch[w.id].status = "DLQ"
  /\ w.step = "close" => \E d \in Ids : s[d].origin = w.id

\* The inductive invariant.
IInv ==
  /\ TypeOK
  /\ StoreOK(store)
  /\ \A h \in Handlers : WorkOK(store, work[h])

Grows(s, t) ==
  \A i \in Ids : Stored(s, i) => Stored(t, i) /\ t[i].origin = s[i].origin

\* A record m that may be written to message i.
Writable(s, i, m) ==
  /\ RecordOK(s, i, m)
  /\ m.status = "Pending" => m.consumer = NoConsumer
  /\ Stored(s, i) => m.origin = s[i].origin

SafeWrite ==
  \E i \in Ids, m \in Message : /\ Writable(store, i, m)
                                /\ store' = [store EXCEPT ![i] = m]
-----------------------------------------------------------------------------
(* Facts about records.                                                    *)

\* The empty record is a record that stands for no message and no letter.
LEMMA NoMessageIsEmpty ==
  /\ NoMessage \in Message
  /\ NoMessage.status = "absent"
  /\ NoMessage.origin = NoId
BY DEF NoMessage, Message, Topics, Statuses, NoConsumer

\* In a store that is OK, a record with an origin belongs to a stored message.
LEMMA LettersAreStored ==
  ASSUME NEW s, StoreOK(s), NEW i \in Ids, s[i].origin # NoId
  PROVE  Stored(s, i)
BY NoMessageIsEmpty DEF StoreOK, RecordOK, Stored

\* RecordOK is stable: a record fit to be written stays fit while the store
\* grows, which is why a stale snapshot does no harm.
LEMMA RecordIsStable ==
  ASSUME NEW s, NEW t, StoreOK(s), Grows(s, t),
         NEW i \in Ids, NEW m, RecordOK(s, i, m)
  PROVE  RecordOK(t, i, m)
<1>1. m.origin \in Ids \cup {NoId} /\ m.source \in Ids \cup {NoId}
  BY DEF RecordOK, Message
<1>2. m.origin # NoId => Stored(t, m.origin)
  BY <1>1 DEF RecordOK, Grows
<1>3. ASSUME m.source # NoId PROVE t[m.source].origin # NoId
  BY <1>1, <1>3, LettersAreStored DEF RecordOK, Grows
<1>4. ASSUME NEW d \in Ids, s[d].origin = i PROVE t[d].origin = i
  BY <1>4, IdsAssumption, LettersAreStored DEF Grows
<1> QED
  BY <1>2, <1>3, <1>4 DEF RecordOK

\* So do snapshots and the work of a goroutine.
LEMMA WorkIsStable ==
  ASSUME NEW s, NEW t, StoreOK(s), Grows(s, t), NEW w, WorkOK(s, w)
  PROVE  WorkOK(t, w)
<1>1. ASSUME NEW i \in Ids PROVE SnapshotOK(t, i, w.batch[i])
  BY <1>1, RecordIsStable DEF WorkOK, SnapshotOK, Grows
<1>2. w.step = "close" => \E d \in Ids : t[d].origin = w.id
  <2> SUFFICES ASSUME w.step = "close" PROVE \E d \in Ids : t[d].origin = w.id
    OBVIOUS
  <2>1. PICK d \in Ids : s[d].origin = w.id
    BY DEF WorkOK
  <2>2. w.id \in Ids
    BY DEF WorkOK
  <2>3. t[d].origin = w.id
    BY <2>1, <2>2, IdsAssumption, LettersAreStored DEF Grows
  <2> QED BY <2>3
<1> QED
  BY <1>1, <1>2 DEF WorkOK

\* A write of a writable record keeps the store OK and lets it grow.
LEMMA WriteKeepsStore ==
  ASSUME NEW s, NEW t, StoreOK(s), NEW i \in Ids, NEW m, Writable(s, i, m),
         t = [s EXCEPT ![i] = m]
  PROVE  StoreOK(t) /\ Grows(s, t)
<1>1. m \in Message /\ m.status # "absent"
  BY DEF Writable, RecordOK
<1>2. /\ t \in [Ids -> Message]
      /\ t[i] = m
      /\ \A j \in Ids : j # i => t[j] = s[j]
  BY <1>1 DEF StoreOK
<1>3. Grows(s, t)
  BY <1>1, <1>2 DEF Grows, Stored, Writable
<1>4. RecordOK(t, i, m)
  BY <1>3, RecordIsStable DEF Writable
<1>5. ASSUME NEW j \in Ids, s[j] # NoMessage PROVE RecordOK(t, j, s[j])
  BY <1>3, <1>5, RecordIsStable DEF StoreOK
<1>6. ASSUME NEW j \in Ids
      PROVE  \/ t[j] = NoMessage
             \/ /\ RecordOK(t, j, t[j])
                /\ t[j].status = "Pending" => t[j].consumer = NoConsumer
  <2>1. CASE j = i
    BY <2>1, <1>2, <1>4 DEF Writable
  <2>2. CASE j # i
    BY <2>2, <1>2, <1>5 DEF StoreOK
  <2> QED BY <2>1, <2>2
<1> QED
  BY <1>2, <1>3, <1>6 DEF StoreOK

\* What a step does to the store, it does to everything that rests on it.
LEMMA SafeWriteKeeps ==
  ASSUME IInv, SafeWrite \/ UNCHANGED store
  PROVE  /\ StoreOK(store')
         /\ Grows(store, store')
         /\ \A h \in Handlers : WorkOK(store', work[h])
<1>1. StoreOK(store)
  BY DEF IInv
<1>2. StoreOK(store') /\ Grows(store, store')
  <2>1. CASE SafeWrite
    BY <1>1, <2>1, WriteKeepsStore DEF SafeWrite
  <2>2. CASE UNCHANGED store
    BY <1>1, <2>2 DEF Grows
  <2> QED BY <2>1, <2>2
<1>3. \A h \in Handlers : WorkOK(store', work[h])
  BY <1>1, <1>2, WorkIsStable DEF IInv
<1> QED BY <1>2, <1>3
-----------------------------------------------------------------------------
(* Facts about the work of a goroutine.                                    *)

\* What a worker or a request turns to when it takes a message up.
FirstSteps == {"ackStore", "ackSet", "nackSet", "requeue", "letter", "fail", "reset"}

\* The decisions of the retry and DLQ policy lead to one of the first steps.
LEMMA DecisionsAreFirstSteps ==
  ASSUME NEW m, NEW retry, NEW kind
  PROVE  Disposition(m, retry) \in FirstSteps /\ TakeUp(kind, m) \in FirstSteps
BY DEF Disposition, TakeUp, FirstSteps

\* A goroutine that starts or goes on with a message of a sound batch is sound.
LEMMA FirstStepIsOK ==
  ASSUME NEW s, NEW b \in [Ids -> Message], \A i \in Ids : SnapshotOK(s, i, b[i]),
         NEW j \in Ids, b[j].status # "absent", NEW kind \in Kinds,
         NEW step \in FirstSteps
  PROVE  WorkOK(s, [step |-> step, kind |-> kind, id |-> j, batch |-> b])
BY DEF WorkOK, Work, FirstSteps, Steps

\* The idle goroutine carries nothing.
LEMMA IdleIsOK == ASSUME NEW s PROVE WorkOK(s, Idle)
BY NoMessageIsEmpty DEF WorkOK, Work, Idle, NoBatch, SnapshotOK, Steps, Kinds

\* Whatever a goroutine does next, the others are not affected.
LEMMA OneGoroutine ==
  ASSUME IInv, \A k \in Handlers : WorkOK(store', work[k]),
         NEW h \in Handlers, NEW w, WorkOK(store', w), work' = [work EXCEPT ![h] = w]
  PROVE  \A k \in Handlers : WorkOK(store', work'[k])
BY DEF IInv, TypeOK

\* The goroutines stay sound when one is through with its message.
LEMMA DoneIsOK ==
  ASSUME IInv, \A k \in Handlers : WorkOK(store', work[k]),
         NEW h \in Handlers, work[h].step # "idle", Done(h)
  PROVE  \A k \in Handlers : WorkOK(store', work'[k])
<1> DEFINE rest == [work[h].batch EXCEPT ![work[h].id] = NoMessage]
           next(i) == [step |-> TakeUp(work[h].kind, rest[i]),
                       kind |-> work[h].kind, id |-> i, batch |-> rest]
<1>1. /\ WorkOK(store', work[h])
      /\ work[h].batch \in [Ids -> Message]
      /\ work[h].kind \in Kinds
      /\ work[h].id \in Ids
  BY DEF WorkOK, Work
<1>2. rest \in [Ids -> Message]
  BY <1>1, NoMessageIsEmpty
<1>3. ASSUME NEW i \in Ids PROVE SnapshotOK(store', i, rest[i])
  BY <1>1, <1>3, NoMessageIsEmpty DEF WorkOK, SnapshotOK
<1>4. ASSUME NEW i \in Ids, rest[i].status # "absent" PROVE WorkOK(store', next(i))
  <2>1. TakeUp(work[h].kind, rest[i]) \in FirstSteps
    BY DecisionsAreFirstSteps
  <2> HIDE DEF rest
  <2> QED BY <1>1, <1>2, <1>3, <1>4, <2>1, FirstStepIsOK
<1>5. CASE work' = [work EXCEPT ![h] = Idle]
  BY <1>5, IdleIsOK, OneGoroutine
<1>6. CASE \E i \in Ids : rest[i].status # "absent" /\ work' = [work EXCEPT ![h] = next(i)]
  <2>1. PICK i \in Ids : rest[i].status # "absent" /\ work' = [work EXCEPT ![h] = next(i)]
    BY <1>6
  <2> HIDE DEF next, rest
  <2> QED BY <1>4, <2>1, OneGoroutine
<1> QED
  BY <1>5, <1>6 DEF Done

\* They stay sound when one continues with a sound record, unless its next step
\* asks for more.
LEMMA ContinueIsOK ==
  ASSUME IInv, \A k \in Handlers : WorkOK(store', work[k]),
         NEW h \in Handlers, work[h].step # "idle",
         NEW m, m.status # "absent", SnapshotOK(store', work[h].id, m),
         NEW step \in Steps, step # "deliver", Continue(h, m, step),
         step = "close" => \E d \in Ids : store'[d].origin = work[h].id,
         step \in {"copyBack", "markBack"} => m.origin # NoId /\ m.status = "DLQ"
  PROVE  \A k \in Handlers : WorkOK(store', work'[k])
<1> DEFINE b == [work[h].batch EXCEPT ![work[h].id] = m]
           w == [step |-> step, kind |-> work[h].kind, id |-> work[h].id, batch |-> b]
<1>1. /\ WorkOK(store', work[h])
      /\ work[h].batch \in [Ids -> Message]
      /\ work[h].kind \in Kinds
      /\ work[h].id \in Ids
      /\ m \in Message
  BY DEF WorkOK, Work, SnapshotOK, RecordOK
<1>2. b \in [Ids -> Message] /\ b[work[h].id] = m
  BY <1>1
<1>3. ASSUME NEW i \in Ids PROVE SnapshotOK(store', i, b[i])
  BY <1>1, <1>3 DEF WorkOK
<1>4. work' = [work EXCEPT ![h] = w]
  BY DEF Continue
<1> HIDE DEF b
<1>5. WorkOK(store', w)
  BY <1>1, <1>2, <1>3 DEF WorkOK, Work
<1> HIDE DEF w
<1> QED BY <1>4, <1>5, OneGoroutine

\* A new request or a new batch is sound if its records are.
LEMMA BeginIsOK ==
  ASSUME IInv, NEW h \in Handlers, NEW kind, NEW id, NEW b, NEW step,
         Begin(h, kind, id, b, step),
         WorkOK(store, [step |-> step, kind |-> kind, id |-> id, batch |-> b])
  PROVE  UNCHANGED store /\ \A k \in Handlers : WorkOK(store', work'[k])
<1>1. UNCHANGED store
  BY DEF Begin
<1>2. \A k \in Handlers : WorkOK(store', work[k])
  BY <1>1 DEF IInv
<1> QED BY <1>1, <1>2, OneGoroutine DEF Begin
-----------------------------------------------------------------------------
(* Steps that read: they leave the store alone.                            *)

\* Reading a stored record gives a snapshot.
LEMMA ReadIsSnapshot ==
  ASSUME IInv, NEW i \in Ids, Exists(i)
  PROVE  SnapshotOK(store, i, store[i])
BY NoMessageIsEmpty DEF IInv, StoreOK, SnapshotOK, Exists, Stored

\* A request that carries a sound record is sound.
LEMMA RequestIsOK ==
  ASSUME IInv, NEW h \in Handlers, NEW id \in Ids, NEW m, NEW step,
         Request(h, id, m, step), m.status # "absent", SnapshotOK(store, id, m),
         \/ step \in FirstSteps
         \/ step = "deliver" /\ m.status = "Delivered"
         \/ step = "copyBack" /\ m.origin # NoId /\ m.status = "DLQ"
  PROVE  UNCHANGED store /\ \A k \in Handlers : WorkOK(store', work'[k])
<1> DEFINE b == [NoBatch EXCEPT ![id] = m]
<1>1. m \in Message
  BY DEF SnapshotOK, RecordOK
<1>2. b \in [Ids -> Message] /\ b[id] = m
  BY <1>1, NoMessageIsEmpty DEF NoBatch
<1>3. ASSUME NEW i \in Ids PROVE SnapshotOK(store, i, b[i])
  BY <1>3, NoMessageIsEmpty DEF NoBatch, SnapshotOK
<1>4. Begin(h, "call", id, b, step)
  BY DEF Request
<1> HIDE DEF b
<1>5. WorkOK(store, [step |-> step, kind |-> "call", id |-> id, batch |-> b])
  BY <1>2, <1>3 DEF WorkOK, Work, FirstSteps, Steps, Kinds
<1> QED BY <1>4, <1>5, BeginIsOK

\* Every request is sound.
LEMMA ArriveIsOK ==
  ASSUME IInv, NEW h \in Handlers, Arrive(h)
  PROVE  UNCHANGED store /\ \A k \in Handlers : WorkOK(store', work'[k])
<1>1. PICK id \in Ids :
        \/ \E b \in BOOLEAN : \/ ProcessAcknowledgment(h, id, b)
                              \/ ProcessNegativeAcknowledgment(h, id, b)
                              \/ RepositoryAcknowledge(h, id, b)
        \/ RequeueMessage(h, id)
        \/ MoveToDLQ(h, id)
        \/ ReprocessDLQMessage(h, id)
        \/ PushMessage(h, id)
        \/ PullMessage(h, id)
  BY DEF Arrive, AcknowledgeMessage
<1>2. Exists(id)
  BY <1>1 DEF ProcessAcknowledgment, ProcessNegativeAcknowledgment, RepositoryAcknowledge,
     RequeueMessage, MoveToDLQ, ReprocessDLQMessage, PushMessage, PullMessage, Request
<1>3. SnapshotOK(store, id, store[id]) /\ store[id].status # "absent"
  BY <1>2, ReadIsSnapshot DEF Exists
<1>4. CASE \E b \in BOOLEAN : ProcessAcknowledgment(h, id, b)
  BY <1>3, <1>4, RequestIsOK, DecisionsAreFirstSteps
     DEF ProcessAcknowledgment, FirstSteps
<1>5. CASE \E b \in BOOLEAN : ProcessNegativeAcknowledgment(h, id, b)
  BY <1>3, <1>5, RequestIsOK, DecisionsAreFirstSteps
     DEF ProcessNegativeAcknowledgment
<1>6. CASE \E b \in BOOLEAN : RepositoryAcknowledge(h, id, b)
  BY <1>3, <1>6, RequestIsOK DEF RepositoryAcknowledge, FirstSteps
<1>7. CASE RequeueMessage(h, id)
  BY <1>3, <1>7, RequestIsOK DEF RequeueMessage, FirstSteps
<1>8. CASE MoveToDLQ(h, id)
  BY <1>3, <1>8, RequestIsOK DEF MoveToDLQ, FirstSteps
<1>9. CASE ReprocessDLQMessage(h, id)
  BY <1>3, <1>9, RequestIsOK DEF ReprocessDLQMessage
<1>10. ASSUME NEW m, m = [store[id] EXCEPT !.status = "Delivered"]
       PROVE  m.status = "Delivered" /\ SnapshotOK(store, id, m)
  BY <1>3, <1>10 DEF SnapshotOK, RecordOK, Message, Statuses
<1>11. CASE PushMessage(h, id)
  BY <1>10, <1>11, RequestIsOK DEF PushMessage
<1>12. ASSUME NEW m, m = [store[id] EXCEPT !.status = "Delivered", !.consumer = requests + 1]
       PROVE  m.status = "Delivered" /\ SnapshotOK(store, id, m)
  <2>1. requests + 1 \in Nat
    BY DEF IInv, TypeOK
  <2>2. store[id] \in Message
    BY <1>3 DEF SnapshotOK, RecordOK
  <2>3. m \in Message /\ m.status = "Delivered"
    BY <1>12, <2>1, <2>2 DEF Message, Statuses
  <2>4. m.origin = store[id].origin /\ m.source = store[id].source
    BY <1>12, <2>2 DEF Message
  <2> QED BY <1>3, <2>3, <2>4 DEF SnapshotOK, RecordOK
<1>13. CASE PullMessage(h, id)
  BY <1>12, <1>13, RequestIsOK DEF PullMessage
<1> QED
  BY <1>1, <1>4, <1>5, <1>6, <1>7, <1>8, <1>9, <1>11, <1>13

\* A batch of stored records is sound.
LEMMA BatchIsOK ==
  ASSUME IInv, NEW S \in SUBSET {i \in Ids : Exists(i)}
  PROVE  /\ BatchOf(S) \in [Ids -> Message]
         /\ \A i \in Ids : SnapshotOK(store, i, BatchOf(S)[i])
         /\ \A i \in S : BatchOf(S)[i].status # "absent"
<1>1. BatchOf(S) \in [Ids -> Message]
  BY NoMessageIsEmpty DEF BatchOf, IInv, TypeOK
<1>2. ASSUME NEW i \in Ids PROVE SnapshotOK(store, i, BatchOf(S)[i])
  <2>1. CASE i \in S
    BY <2>1, ReadIsSnapshot DEF BatchOf
  <2>2. CASE i \notin S
    BY <2>2, NoMessageIsEmpty DEF BatchOf, SnapshotOK
  <2> QED BY <2>1, <2>2
<1>3. ASSUME NEW i \in S PROVE BatchOf(S)[i].status # "absent"
  BY DEF BatchOf, Exists
<1> QED BY <1>1, <1>2, <1>3

\* The background workers start sound.
LEMMA WorkersAreOK ==
  ASSUME IInv, NEW h \in Handlers, CheckExpiredAcknowledgments(h) \/ RetryWorker(h)
  PROVE  UNCHANGED store /\ \A k \in Handlers : WorkOK(store', work'[k])
<1>1. PICK kind \in Kinds, S \in SUBSET {i \in Ids : Exists(i)} :
        \E i \in S : Begin(h, kind, i, BatchOf(S), TakeUp(kind, store[i]))
  <2>1. CASE CheckExpiredAcknowledgments(h)
    <3>1. PICK S \in SUBSET {i \in Ids : store[i].status = "Delivered" /\ Sweepable(i)} :
            \E i \in S : Begin(h, "sweep", i, BatchOf(S), TakeUp("sweep", store[i]))
      BY <2>1 DEF CheckExpiredAcknowledgments
    <3>2. S \in SUBSET {i \in Ids : Exists(i)}
      BY DEF Exists
    <3> QED BY <3>1, <3>2 DEF Kinds
  <2>2. CASE RetryWorker(h)
    <3>1. PICK S \in SUBSET {i \in Ids : /\ store[i].status = "Failed"
                                        /\ store[i].retry >= MaxRetries
                                        /\ store[i].retryAt
                                        /\ Sweepable(i)} :
            \E i \in S : Begin(h, "retry", i, BatchOf(S), TakeUp("retry", store[i]))
      BY <2>2 DEF RetryWorker
    <3>2. S \in SUBSET {i \in Ids : Exists(i)}
      BY DEF Exists
    <3> QED BY <3>1, <3>2 DEF Kinds
  <2> QED BY <2>1, <2>2
<1>2. PICK i \in S : Begin(h, kind, i, BatchOf(S), TakeUp(kind, store[i]))
  BY <1>1
<1>3. TakeUp(kind, store[i]) \in FirstSteps
  BY DecisionsAreFirstSteps
<1>4. i \in Ids
  OBVIOUS
<1>5. WorkOK(store, [step |-> TakeUp(kind, store[i]), kind |-> kind, id |-> i,
                     batch |-> BatchOf(S)])
  BY <1>3, <1>4, BatchIsOK, FirstStepIsOK
<1> QED BY <1>2, <1>5, BeginIsOK
-----------------------------------------------------------------------------
(* Steps that write.                                                       *)

\* What a goroutine that is not idle knows of the record it holds.
LEMMA SnapshotFacts ==
  ASSUME IInv, NEW h \in Handlers, work[h].step # "idle"
  PROVE  /\ work[h].id \in Ids
         /\ Snapshot(h) \in Message
         /\ Snapshot(h).status # "absent"
         /\ RecordOK(store, work[h].id, Snapshot(h))
         /\ Stored(store, work[h].id)
         /\ Snapshot(h).origin = store[work[h].id].origin
BY DEF IInv, WorkOK, SnapshotOK, RecordOK, Snapshot

\* Rewriting the delivery fields of a snapshot is a safe write, unless it marks
\* a message dead that has no letter.
LEMMA RewriteIsSafe ==
  ASSUME IInv, NEW h \in Handlers, work[h].step # "idle", NEW m \in Message,
         m.status # "absent", m.origin = Snapshot(h).origin, m.source = Snapshot(h).source,
         m.status = "Pending" => m.consumer = NoConsumer,
         m.status = "DLQ" /\ m.origin = NoId => \E d \in Ids : store[d].origin = work[h].id,
         Store(work[h].id, m)
  PROVE  SafeWrite
BY SnapshotFacts DEF SafeWrite, Writable, RecordOK, Store

\* The snapshot a goroutine keeps is still sound after a safe write.
LEMMA SnapshotIsKept ==
  ASSUME IInv, SafeWrite \/ UNCHANGED store, NEW h \in Handlers, work[h].step # "idle"
  PROVE  SnapshotOK(store', work[h].id, Snapshot(h)) /\ Snapshot(h).status # "absent"
BY SnapshotFacts, SafeWriteKeeps DEF WorkOK, Snapshot

\* The rewriting steps: each ends or continues the work on one message with the
\* message's lineage as it was.
LEMMA RewritesAreOK ==
  ASSUME IInv, NEW h \in Handlers,
         \/ StoreAcknowledged(h) \/ StoreFailed(h) \/ AcknowledgeSet(h)
         \/ StoreRequeued(h) \/ StoreReset(h) \/ StoreDelivered(h)
  PROVE  SafeWrite /\ \A k \in Handlers : WorkOK(store', work'[k])
<1>1. work[h].step # "idle"
  BY DEF StoreAcknowledged, StoreFailed, AcknowledgeSet, StoreRequeued, StoreReset,
     StoreDelivered
<1> DEFINE m == Snapshot(h)
<1>2. m \in Message /\ m.status # "absent" /\ m.retry + 1 \in Nat
  <2>1. m \in Message /\ m.status # "absent"
    BY <1>1, SnapshotFacts
  <2>2. m.retry \in Nat
    BY <2>1 DEF Message
  <2> QED BY <2>1, <2>2
<1>3. CASE StoreAcknowledged(h)
  <2> DEFINE r == [m EXCEPT !.status = "Acknowledged"]
  <2>1. /\ r \in Message /\ r.status = "Acknowledged"
        /\ r.origin = m.origin /\ r.source = m.source
    BY <1>2 DEF Message, Statuses
  <2>2. Store(work[h].id, r) /\ Continue(h, m, "ackGet")
    BY <1>3 DEF StoreAcknowledged
  <2> HIDE DEF r
  <2>3. SafeWrite
    BY <1>1, <2>1, <2>2, RewriteIsSafe
  <2> QED BY <1>1, <2>2, <2>3, SafeWriteKeeps, SnapshotIsKept, ContinueIsOK DEF Steps
<1>4. CASE StoreFailed(h)
  <2> DEFINE r == [m EXCEPT !.status = "Failed", !.consumer = NoConsumer]
  <2>1. /\ r \in Message /\ r.status = "Failed"
        /\ r.origin = m.origin /\ r.source = m.source
    BY <1>2 DEF Message, Statuses, NoConsumer
  <2>2. Store(work[h].id, r) /\ Continue(h, m, "nackGet")
    BY <1>4 DEF StoreFailed
  <2> HIDE DEF r
  <2>3. SafeWrite
    BY <1>1, <2>1, <2>2, RewriteIsSafe
  <2> QED BY <1>1, <2>2, <2>3, SafeWriteKeeps, SnapshotIsKept, ContinueIsOK DEF Steps
<1>5. CASE AcknowledgeSet(h)
  <2>1. CASE work[h].step = "ackSet"
    <3> DEFINE r == [m EXCEPT !.status = "Acknowledged"]
    <3>1. /\ r \in Message /\ r.status = "Acknowledged"
          /\ r.origin = m.origin /\ r.source = m.source
      BY <1>2 DEF Message, Statuses
    <3>2. Store(work[h].id, r) /\ Done(h)
      BY <1>5, <2>1 DEF AcknowledgeSet
    <3> HIDE DEF r
    <3> QED BY <1>1, <3>1, <3>2, RewriteIsSafe, SafeWriteKeeps, DoneIsOK
  <2>2. CASE work[h].step = "nackSet"
    <3> DEFINE r == [m EXCEPT !.status = "Failed", !.retry = @ + 1]
    <3>1. /\ r \in Message /\ r.status = "Failed"
          /\ r.origin = m.origin /\ r.source = m.source
      BY <1>2 DEF Message, Statuses
    <3>2. Store(work[h].id, r) /\ Done(h)
      BY <1>5, <2>2 DEF AcknowledgeSet
    <3> HIDE DEF r
    <3> QED BY <1>1, <3>1, <3>2, RewriteIsSafe, SafeWriteKeeps, DoneIsOK
  <2> QED BY <1>5, <2>1, <2>2 DEF AcknowledgeSet
<1>6. CASE StoreRequeued(h)
  <2> DEFINE r == Requeued(m)
  <2>1. /\ r \in Message /\ r.status = "Pending" /\ r.consumer = NoConsumer
        /\ r.origin = m.origin /\ r.source = m.source
    BY <1>2 DEF Requeued, Message, Statuses, NoConsumer
  <2>2. Store(work[h].id, r) /\ Done(h)
    BY <1>6 DEF StoreRequeued
  <2> HIDE DEF r
  <2> QED BY <1>1, <2>1, <2>2, RewriteIsSafe, SafeWriteKeeps, DoneIsOK
<1>7. CASE StoreReset(h)
  <2> DEFINE r == [m EXCEPT !.status = "Pending", !.consumer = NoConsumer]
  <2>1. /\ r \in Message /\ r.status = "Pending" /\ r.consumer = NoConsumer
        /\ r.origin = m.origin /\ r.source = m.source
    BY <1>2 DEF Message, Statuses, NoConsumer
  <2>2. Store(work[h].id, r) /\ Done(h)
    BY <1>7 DEF StoreReset
  <2> HIDE DEF r
  <2> QED BY <1>1, <2>1, <2>2, RewriteIsSafe, SafeWriteKeeps, DoneIsOK
<1>8. CASE StoreDelivered(h)
  <2>1. m.status = "Delivered"
    BY <1>8 DEF StoreDelivered, IInv, WorkOK, Snapshot
  <2>2. Store(work[h].id, m) /\ Done(h)
    BY <1>8 DEF StoreDelivered
  <2> QED BY <1>1, <1>2, <2>1, <2>2, RewriteIsSafe, SafeWriteKeeps, DoneIsOK
<1> QED BY <1>3, <1>4, <1>5, <1>6, <1>7, <1>8

\* Storing a letter: it names a stored message, and the goroutine that goes on
\* to mark that message dead has a letter to show.
LEMMA StoreLetterIsOK ==
  ASSUME IInv, NEW h \in Handlers, StoreLetter(h)
  PROVE  SafeWrite /\ \A k \in Handlers : WorkOK(store', work'[k])
<1>1. work[h].step # "idle"
  BY DEF StoreLetter
<1> DEFINE m == Snapshot(h)
           r == Letter(m, work[h].id)
<1>2. PICK d \in Ids : ~Exists(d) /\ Store(d, r)
  BY DEF StoreLetter
<1>3. m \in Message /\ work[h].id \in Ids
  BY <1>1, SnapshotFacts
<1>4. /\ r \in Message /\ r.status = "DLQ"
      /\ r.origin = work[h].id /\ r.source = m.source
  BY <1>3 DEF Letter, Message, Statuses, Topics, NoConsumer
<1> HIDE DEF r
<1>5. Writable(store, d, r)
  BY <1>1, <1>2, <1>3, <1>4, SnapshotFacts, IdsAssumption
     DEF Writable, RecordOK, Exists, Stored
<1>6. SafeWrite
  BY <1>2, <1>4, <1>5 DEF SafeWrite, Store
<1>7. store'[d].origin = work[h].id
  BY <1>2, <1>4 DEF Store, IInv, TypeOK
<1> QED
  BY <1>1, <1>6, <1>7, SafeWriteKeeps, SnapshotIsKept, ContinueIsOK DEF StoreLetter, Steps

\* Marking a message dead after its letter was stored.
LEMMA StoreClosedIsOK ==
  ASSUME IInv, NEW h \in Handlers, StoreClosed(h)
  PROVE  SafeWrite /\ \A k \in Handlers : WorkOK(store', work'[k])
<1>1. work[h].step = "close"
  BY DEF StoreClosed
<1> DEFINE m == Snapshot(h)
           r == [m EXCEPT !.status = "DLQ", !.consumer = NoConsumer]
<1>2. m \in Message
  BY <1>1, SnapshotFacts
<1>3. /\ r \in Message /\ r.status = "DLQ"
      /\ r.origin = m.origin /\ r.source = m.source
  BY <1>2 DEF Message, Statuses, NoConsumer
<1>4. \E d \in Ids : store[d].origin = work[h].id
  BY <1>1 DEF IInv, WorkOK
<1>5. Store(work[h].id, r) /\ Done(h)
  BY DEF StoreClosed
<1> HIDE DEF r
<1> QED BY <1>1, <1>3, <1>4, <1>5, RewriteIsSafe, SafeWriteKeeps, DoneIsOK

\* Storing a reprocessed message: its source is the letter it was made of.
LEMMA StoreReprocessedIsOK ==
  ASSUME IInv, NEW h \in Handlers, StoreReprocessed(h)
  PROVE  SafeWrite /\ \A k \in Handlers : WorkOK(store', work'[k])
<1>1. work[h].step = "copyBack"
  BY DEF StoreReprocessed
<1> DEFINE m == Snapshot(h)
           r == Reprocessed(m, work[h].id)
           kept == [m EXCEPT !.reprocessed = TRUE]
<1>2. PICK d \in Ids : ~Exists(d) /\ Store(d, r)
  BY DEF StoreReprocessed
<1>3. m \in Message /\ work[h].id \in Ids
  BY <1>1, SnapshotFacts
<1>4. m.origin # NoId /\ m.status = "DLQ"
  BY <1>1 DEF IInv, WorkOK, Snapshot
<1>5. store[m.origin].topic \in Topics
  <2>1. m.origin \in Ids
    BY <1>3, <1>4 DEF Message
  <2> QED BY <2>1 DEF IInv, TypeOK, Message
<1>6. /\ r \in Message /\ r.status = "Pending" /\ r.consumer = NoConsumer
      /\ r.origin = NoId /\ r.source = work[h].id
  BY <1>3, <1>5, ConfigAssumption DEF Reprocessed, Message, Statuses, NoConsumer
<1>7. kept.status = "DLQ" /\ kept.origin = m.origin /\ kept.source = m.source /\ kept \in Message
  BY <1>3, <1>4 DEF Message
<1>8. Continue(h, kept, "markBack")
  BY DEF StoreReprocessed
<1> HIDE DEF r, kept
<1>9. Writable(store, d, r)
  BY <1>1, <1>2, <1>4, <1>6, SnapshotFacts DEF Writable, RecordOK, Exists, Stored
<1>10. SafeWrite
  BY <1>2, <1>6, <1>9 DEF SafeWrite, Store
<1>11. SnapshotOK(store', work[h].id, kept)
  BY <1>1, <1>4, <1>7, <1>10, SnapshotIsKept DEF SnapshotOK, RecordOK
<1> QED
  BY <1>1, <1>4, <1>7, <1>8, <1>10, <1>11, SafeWriteKeeps, ContinueIsOK DEF Steps

\* Marking a letter reprocessed.
LEMMA MarkReprocessedIsOK ==
  ASSUME IInv, NEW h \in Handlers, MarkReprocessed(h)
  PROVE  SafeWrite /\ \A k \in Handlers : WorkOK(store', work'[k])
<1>1. work[h].step = "markBack"
  BY DEF MarkReprocessed
<1>2. Snapshot(h).origin # NoId /\ Snapshot(h).status = "DLQ"
  BY <1>1 DEF IInv, WorkOK, Snapshot
<1>3. Store(work[h].id, Snapshot(h)) /\ Done(h)
  BY DEF MarkReprocessed
<1> QED BY <1>1, <1>2, <1>3, SnapshotFacts, RewriteIsSafe, SafeWriteKeeps, DoneIsOK

\* Reading the record again in MessageRepository.Acknowledge.
LEMMA AcknowledgeGetIsOK ==
  ASSUME IInv, NEW h \in Handlers, AcknowledgeGet(h)
  PROVE  UNCHANGED store /\ \A k \in Handlers : WorkOK(store', work'[k])
<1>1. work[h].step # "idle" /\ UNCHANGED store
  BY DEF AcknowledgeGet
<1>2. SnapshotOK(store', work[h].id, store[work[h].id]) /\ store[work[h].id].status # "absent"
  BY <1>1, SnapshotFacts, ReadIsSnapshot DEF Exists, Stored
<1>3. PICK step \in {"ackSet", "nackSet"} : Continue(h, store[work[h].id], step)
  BY DEF AcknowledgeGet
<1> QED BY <1>1, <1>2, <1>3, SafeWriteKeeps, ContinueIsOK DEF Steps
-----------------------------------------------------------------------------
(* The invariant and its consequences.                                     *)

\* Every step leaves the store alone or is a safe write, and leaves every
\* goroutine with sound snapshots.
LEMMA StepIsOK ==
  ASSUME IInv, Next
  PROVE  /\ SafeWrite \/ UNCHANGED store
         /\ \A k \in Handlers : WorkOK(store', work'[k])
<1>1. CASE \E h \in Handlers : Arrive(h)
  BY <1>1, ArriveIsOK
<1>2. CASE \E h \in Handlers : CheckExpiredAcknowledgments(h) \/ RetryWorker(h)
  BY <1>2, WorkersAreOK
<1>3. CASE \E h \in Handlers : RoundTrip(h)
  BY <1>3, RewritesAreOK, StoreLetterIsOK, StoreClosedIsOK, StoreReprocessedIsOK,
     MarkReprocessedIsOK, AcknowledgeGetIsOK DEF RoundTrip
<1>4. ASSUME NEW h \in Handlers, RedisError(h)
      PROVE  UNCHANGED store /\ \A k \in Handlers : WorkOK(store', work'[k])
  <2>1. work[h].step # "idle" /\ UNCHANGED store /\ Done(h)
    BY <1>4 DEF RedisError
  <2> QED BY <2>1, SafeWriteKeeps, DoneIsOK
<1>5. CASE Crash
  BY <1>5, IdleIsOK DEF Crash
<1> QED BY <1>1, <1>2, <1>3, <1>4, <1>5 DEF Next

\* A step changes the work of one goroutine, or a crash clears it all.
LEMMA WorkStaysAFunction ==
  ASSUME TypeOK, Next
  PROVE  work' = [k \in Handlers |-> work'[k]]
<1> DEFINE Updated == \E h \in Handlers : \E w : work' = [work EXCEPT ![h] = w]
<1>1. ASSUME NEW h \in Handlers, Done(h) PROVE Updated
  BY <1>1 DEF Done
<1>2. ASSUME NEW h \in Handlers, NEW m, NEW step, Continue(h, m, step) PROVE Updated
  BY <1>2 DEF Continue
<1>3. ASSUME NEW h \in Handlers, NEW kind, NEW id, NEW b, NEW step, Begin(h, kind, id, b, step)
      PROVE  Updated
  BY <1>3 DEF Begin
<1>4. ASSUME Updated PROVE work' = [k \in Handlers |-> work'[k]]
  BY <1>4 DEF TypeOK
<1> HIDE DEF Updated
<1>5. ASSUME NEW h \in Handlers, Arrive(h)
      PROVE  work' = [k \in Handlers |-> work'[k]]
  <2>1. \E kind, id, b, step : Begin(h, kind, id, b, step)
    BY <1>5 DEF Arrive, AcknowledgeMessage, Request, ProcessAcknowledgment,
       ProcessNegativeAcknowledgment, RepositoryAcknowledge, RequeueMessage, MoveToDLQ,
       ReprocessDLQMessage, PushMessage, PullMessage
  <2> QED BY <1>3, <1>4, <2>1
<1>6. CASE \E h \in Handlers : CheckExpiredAcknowledgments(h) \/ RetryWorker(h)
  BY <1>3, <1>4, <1>6 DEF CheckExpiredAcknowledgments, RetryWorker
<1>7. ASSUME NEW h \in Handlers, RoundTrip(h)
      PROVE  work' = [k \in Handlers |-> work'[k]]
  <2>1. CASE \/ AcknowledgeSet(h) \/ StoreRequeued(h) \/ StoreClosed(h) \/ StoreReset(h)
             \/ StoreDelivered(h) \/ MarkReprocessed(h)
    <3>1. Done(h)
      BY <2>1 DEF AcknowledgeSet, StoreRequeued, StoreClosed, StoreReset, StoreDelivered,
         MarkReprocessed
    <3> QED BY <1>1, <1>4, <3>1
  <2>2. CASE \/ StoreAcknowledged(h) \/ StoreFailed(h) \/ AcknowledgeGet(h)
             \/ StoreLetter(h) \/ StoreReprocessed(h)
    <3>1. \E m, step : Continue(h, m, step)
      BY <2>2 DEF StoreAcknowledged, StoreFailed, AcknowledgeGet, StoreLetter,
         StoreReprocessed
    <3> QED BY <1>2, <1>4, <3>1
  <2> QED BY <1>7, <2>1, <2>2 DEF RoundTrip
<1>8. CASE \E h \in Handlers : RedisError(h)
  BY <1>1, <1>4, <1>8 DEF RedisError
<1>9. CASE Crash
  BY <1>9 DEF Crash
<1> QED BY <1>5, <1>6, <1>7, <1>8, <1>9 DEF Next

\* The counters stay natural numbers.
LEMMA CountersStayNatural ==
  ASSUME TypeOK, Next
  PROVE  requests' \in Nat /\ faults' \in Nat
<1> USE DEF TypeOK
<1>1. ASSUME NEW h \in Handlers, Arrive(h)
      PROVE  requests' = requests + 1 /\ UNCHANGED faults
  <2>1. \E id, m, step : Request(h, id, m, step)
    BY <1>1 DEF Arrive, AcknowledgeMessage, ProcessAcknowledgment, ProcessNegativeAcknowledgment,
       RepositoryAcknowledge, RequeueMessage, MoveToDLQ, ReprocessDLQMessage, PushMessage,
       PullMessage
  <2> QED BY <2>1 DEF Request, Begin
<1>2. CASE \E h \in Handlers : CheckExpiredAcknowledgments(h) \/ RetryWorker(h)
  BY <1>2 DEF CheckExpiredAcknowledgments, RetryWorker, Begin
<1>3. CASE \E h \in Handlers : RoundTrip(h)
  BY <1>3 DEF RoundTrip, StoreAcknowledged, StoreFailed, AcknowledgeGet,
     AcknowledgeSet, StoreRequeued, StoreLetter, StoreClosed, StoreReset, StoreDelivered,
     StoreReprocessed, MarkReprocessed
<1>4. CASE \E h \in Handlers : RedisError(h)
  BY <1>4 DEF RedisError
<1>5. CASE Crash
  BY <1>5 DEF Crash
<1> QED BY <1>1, <1>2, <1>3, <1>4, <1>5 DEF Next

\* The invariant holds initially.
LEMMA InitInvariant == Init => IInv
<1> SUFFICES ASSUME Init PROVE IInv
  OBVIOUS
<1>1. store \in [Ids -> Message]
  <2>1. ASSUME NEW i \in Published
        PROVE  [NoMessage EXCEPT !.status = "Pending", !.limit = Limit[i]] \in Message
    BY ConfigAssumption DEF NoMessage, Message, Topics, Statuses, NoConsumer
  <2> QED BY <2>1, NoMessageIsEmpty DEF Init
<1>2. ASSUME NEW i \in Ids
      PROVE  \/ store[i] = NoMessage
             \/ /\ RecordOK(store, i, store[i])
                /\ store[i].status = "Pending" => store[i].consumer = NoConsumer
  <2>1. CASE i \in Published
    <3>1. store[i] \in Message
      BY <1>1
    <3>2. /\ store[i].status = "Pending" /\ store[i].consumer = NoConsumer
          /\ store[i].origin = NoId /\ store[i].source = NoId
      BY <2>1 DEF Init, NoMessage
    <3> QED BY <3>1, <3>2 DEF RecordOK
  <2>2. CASE i \notin Published
    BY <2>2 DEF Init
  <2> QED BY <2>1, <2>2
<1>3. ASSUME NEW h \in Handlers PROVE work[h] = Idle /\ WorkOK(store, work[h])
  BY <1>3, IdleIsOK DEF Init
<1>4. work \in [Handlers -> Work]
  BY <1>3 DEF Init, WorkOK
<1> QED BY <1>1, <1>2, <1>3, <1>4 DEF Init, IInv, StoreOK, TypeOK

\* Every step preserves it.
LEMMA NextInvariant == IInv /\ [Next]_vars => IInv'
<1>1. ASSUME IInv, Next PROVE IInv'
  <2>1. StoreOK(store') /\ \A k \in Handlers : WorkOK(store', work'[k])
    BY <1>1, StepIsOK, SafeWriteKeeps
  <2>2. work' \in [Handlers -> Work]
    BY <1>1, <2>1, WorkStaysAFunction DEF IInv, WorkOK
  <2>3. requests' \in Nat /\ faults' \in Nat
    BY <1>1, CountersStayNatural DEF IInv
  <2> QED BY <2>1, <2>2, <2>3 DEF IInv, TypeOK, StoreOK
<1>2. ASSUME IInv, UNCHANGED vars PROVE IInv'
  BY <1>2 DEF IInv, vars, TypeOK
<1> QED BY <1>1, <1>2

\* The invariant: whatever goroutines read and write between whose round trips,
\* crashes and Redis errors included.
THEOREM Invariant == Spec => []IInv
BY InitInvariant, NextInvariant, PTL DEF Spec

\* Type correctness of the service's state.
THEOREM TypeCorrect == Spec => []TypeOK
<1>1. IInv => TypeOK
  BY DEF IInv
<1> QED BY <1>1, Invariant, PTL

\* A pending message is assigned to no consumer.
THEOREM PendingUnassigned == Spec => []PendingIsUnassigned
<1>1. IInv => PendingIsUnassigned
  BY NoMessageIsEmpty DEF IInv, StoreOK, PendingIsUnassigned
<1> QED BY <1>1, Invariant, PTL

\* A message marked dead has a letter: moving it to the DLQ never loses it.
THEOREM DeadHasLetter == Spec => []DeadMessageHasLetter
<1>1. IInv => DeadMessageHasLetter
  BY NoMessageIsEmpty DEF IInv, StoreOK, RecordOK, DeadMessageHasLetter, LettersOf
<1> QED BY <1>1, Invariant, PTL

\* The lineage headers of every record lead to stored records.
THEOREM LineageKept == Spec => []LineageIsKept
<1>1. IInv => LineageIsKept
  BY NoMessageIsEmpty DEF IInv, StoreOK, RecordOK, LineageIsKept, Exists, Stored, NoMessage
<1> QED BY <1>1, Invariant, PTL
-----------------------------------------------------------------------------
(* What a stale write may do to a record.                                  *)

\* Only a round trip of a goroutine writes.
LEMMA StepThatWrites ==
  ASSUME Next, store' # store
  PROVE  \E h \in Handlers : RoundTrip(h)
<1>1. ASSUME NEW h \in Handlers, Arrive(h) PROVE store' = store
  BY <1>1 DEF Arrive, AcknowledgeMessage, ProcessAcknowledgment, ProcessNegativeAcknowledgment,
     RepositoryAcknowledge, RequeueMessage, MoveToDLQ, ReprocessDLQMessage, PushMessage,
     PullMessage, Request, Begin
<1>2. ASSUME NEW h \in Handlers, CheckExpiredAcknowledgments(h) \/ RetryWorker(h)
      PROVE  store' = store
  BY <1>2 DEF CheckExpiredAcknowledgments, RetryWorker, Begin
<1>3. ASSUME NEW h \in Handlers, RedisError(h) PROVE store' = store
  BY <1>3 DEF RedisError
<1>4. ASSUME Crash PROVE store' = store
  BY <1>4 DEF Crash
<1> QED BY <1>1, <1>2, <1>3, <1>4 DEF Next

\* A write of a record that counts no fewer attempts than the snapshot takes
\* attempts away only if the snapshot is stale.
LEMMA LosesByStaleness ==
  ASSUME IInv, NEW h \in Handlers, NEW m \in Message, work[h].id \in Ids,
         store' = [store EXCEPT ![work[h].id] = m], m.retry >= Snapshot(h).retry,
         NEW i \in Ids, store'[i].retry < store[i].retry
  PROVE  work[h].id = i /\ Snapshot(h).retry < store[i].retry
<1>1. store[i].retry \in Nat /\ Snapshot(h).retry \in Nat /\ m.retry \in Nat
  BY DEF IInv, TypeOK, Message, Work, Snapshot
<1>2. CASE work[h].id = i
  <2>1. store'[i] = m
    BY <1>2 DEF IInv, TypeOK
  <2> QED BY <1>1, <1>2, <2>1
<1>3. CASE work[h].id # i
  <2>1. store'[i] = store[i]
    BY <1>3 DEF IInv, TypeOK
  <2> QED BY <1>1, <2>1
<1> QED BY <1>2, <1>3

\* The records a goroutine writes back count no fewer attempts than it read.
LEMMA RetriesStep ==
  ASSUME IInv, Next, NEW i \in Ids, Exists(i), store'[i].retry < store[i].retry
  PROVE  \E h \in Handlers : work[h].id = i /\ Snapshot(h).retry < store[i].retry
<1> DEFINE Goal == \E h \in Handlers : work[h].id = i /\ Snapshot(h).retry < store[i].retry
<1>1. ASSUME store' = store PROVE FALSE
  BY <1>1 DEF IInv, TypeOK, Message
<1>2. PICK h \in Handlers : RoundTrip(h)
  BY <1>1, StepThatWrites
<1>3. /\ work[h].step # "idle" => work[h].id \in Ids
      /\ work[h].id \in Ids => Snapshot(h) \in Message
  BY DEF IInv, TypeOK, WorkOK, Work, Snapshot
<1>4. ASSUME NEW m \in Message, work[h].id \in Ids, m.retry >= Snapshot(h).retry,
             store' = [store EXCEPT ![work[h].id] = m]
      PROVE  Goal
  BY <1>4, LosesByStaleness
<1>5. ASSUME NEW d \in Ids, NEW m, ~Exists(d), store' = [store EXCEPT ![d] = m]
      PROVE  FALSE
  <2>1. d # i
    BY <1>5
  <2> QED BY <1>5, <2>1 DEF IInv, TypeOK, Message
<1>6. CASE work[h].step \in {"letter", "copyBack"}
  BY <1>2, <1>5, <1>6 DEF RoundTrip, StoreAcknowledged, StoreFailed, AcknowledgeGet,
     AcknowledgeSet, StoreRequeued, StoreLetter, StoreClosed, StoreReset, StoreDelivered,
     StoreReprocessed, MarkReprocessed, Store
<1>7. CASE work[h].step \notin {"letter", "copyBack", "idle"}
  <2> DEFINE s == Snapshot(h)
  <2>1. s \in Message /\ work[h].id \in Ids /\ s.retry \in Nat
    BY <1>3, <1>7 DEF Message
  <2> HIDE DEF s
  <2>2. ASSUME NEW m, m \in Message, m.retry >= s.retry,
               store' = [store EXCEPT ![work[h].id] = m]
        PROVE  Goal
    BY <1>4, <2>1, <2>2 DEF s
  <2> HIDE DEF Goal
  <2>3. ASSUME StoreAcknowledged(h) \/ AcknowledgeSet(h) PROVE Goal
    <3> DEFINE m == [s EXCEPT !.status = "Acknowledged"]
               n == [s EXCEPT !.status = "Failed", !.retry = @ + 1]
    <3>1. m \in Message /\ m.retry = s.retry
      BY <2>1 DEF Message, Statuses
    <3>2. n \in Message /\ n.retry = s.retry + 1
      <4>1. s.retry + 1 \in Nat
        BY <2>1
      <4>2. n \in Message
        BY <2>1, <4>1 DEF Message, Statuses
      <4>3. n.retry = s.retry + 1
        BY <2>1 DEF Message
      <4> QED BY <4>2, <4>3
    <3>3. store' = [store EXCEPT ![work[h].id] = m] \/ store' = [store EXCEPT ![work[h].id] = n]
      BY <2>3 DEF s, StoreAcknowledged, AcknowledgeSet, Store
    <3> HIDE DEF m, n
    <3>4. m.retry >= s.retry /\ n.retry >= s.retry
      BY <2>1, <3>1, <3>2
    <3> QED BY <2>2, <3>1, <3>2, <3>3, <3>4
  <2>4. ASSUME StoreFailed(h) \/ StoreClosed(h) \/ StoreReset(h) PROVE Goal
    <3>1. PICK status \in {"Failed", "DLQ", "Pending"} :
            store' = [store EXCEPT ![work[h].id] =
                        [s EXCEPT !.status = status, !.consumer = NoConsumer]]
      BY <2>4 DEF s, StoreFailed, StoreClosed, StoreReset, Store
    <3> DEFINE m == [s EXCEPT !.status = status, !.consumer = NoConsumer]
    <3>2. m \in Message /\ m.retry = s.retry
      BY <2>1 DEF Message, Statuses, NoConsumer
    <3>3. store' = [store EXCEPT ![work[h].id] = m]
      BY <3>1
    <3> HIDE DEF m
    <3>4. m.retry >= s.retry
      BY <2>1, <3>2
    <3> QED BY <2>2, <3>2, <3>3, <3>4
  <2>5. ASSUME StoreRequeued(h) PROVE Goal
    <3> DEFINE m == Requeued(s)
    <3>1. m \in Message /\ m.retry = s.retry + 1
      <4>1. s.retry + 1 \in Nat
        BY <2>1
      <4>2. m \in Message
        BY <2>1, <4>1 DEF Message, Statuses, NoConsumer, Requeued
      <4>3. m.retry = s.retry + 1
        BY <2>1 DEF Message, Requeued
      <4> QED BY <4>2, <4>3
    <3>2. store' = [store EXCEPT ![work[h].id] = m]
      BY <2>5 DEF s, StoreRequeued, Store
    <3> HIDE DEF m
    <3>3. m.retry >= s.retry
      BY <2>1, <3>1
    <3> QED BY <2>2, <3>1, <3>2, <3>3
  <2>6. ASSUME StoreDelivered(h) \/ MarkReprocessed(h) PROVE Goal
    <3>1. store' = [store EXCEPT ![work[h].id] = s]
      BY <2>6 DEF s, StoreDelivered, MarkReprocessed, Store
    <3>2. s.retry >= s.retry
      BY <2>1
    <3> QED BY <2>1, <2>2, <3>1, <3>2
  <2>7. ASSUME AcknowledgeGet(h) PROVE Goal
    BY <1>1, <2>7 DEF AcknowledgeGet
  <2>8. ASSUME StoreLetter(h) \/ StoreReprocessed(h) PROVE Goal
    BY <1>7, <2>8 DEF StoreLetter, StoreReprocessed
  <2>9. Goal
    BY <1>2, <2>3, <2>4, <2>5, <2>6, <2>7, <2>8 DEF RoundTrip
  <2> QED BY <2>9 DEF Goal
<1>8. work[h].step # "idle"
  BY <1>2 DEF RoundTrip, StoreAcknowledged, StoreFailed, AcknowledgeGet,
     AcknowledgeSet, StoreRequeued, StoreLetter, StoreClosed, StoreReset, StoreDelivered,
     StoreReprocessed, MarkReprocessed
<1> QED BY <1>6, <1>7, <1>8

\* Attempts are forgotten through stale writes only, for every number of
\* messages and goroutines.
THEOREM RetriesRemembered == Spec => RetriesAreRemembered
<1>1. IInv /\ [Next]_vars =>
        [\A i \in Ids :
           Exists(i) /\ store'[i].retry < store[i].retry
             => \E h \in Handlers : work[h].id = i /\ Snapshot(h).retry < store[i].retry]_vars
  BY RetriesStep
<1> QED BY <1>1, Invariant, PTL DEF Spec, RetriesAreRemembered
-----------------------------------------------------------------------------
(* What the background workers carry.                                      *)

\* The record a worker carries was not acknowledged when the worker read it,
\* unless it reads it again for the second write of its fail mark.
Fresh(w) ==
  w.kind # "call" =>
    /\ w.step \notin {"ackStore", "ackGet", "ackSet"}
    /\ \A i \in Ids : w.batch[i].status = "Acknowledged" => w.step = "nackSet" /\ i = w.id

WorkersAreFresh == \A h \in Handlers : Fresh(work[h])

\* A step of one goroutine leaves the others as fresh as they were.
LEMMA OneIsFresh ==
  ASSUME IInv, WorkersAreFresh, NEW h \in Handlers, NEW w, Fresh(w),
         work' = [work EXCEPT ![h] = w]
  PROVE  WorkersAreFresh'
<1> SUFFICES ASSUME NEW k \in Handlers PROVE Fresh(work'[k])
  BY DEF WorkersAreFresh
<1>1. CASE k = h
  BY <1>1 DEF IInv, TypeOK
<1>2. CASE k # h
  BY <1>2 DEF IInv, TypeOK, WorkersAreFresh
<1> QED BY <1>1, <1>2

\* A goroutine that goes on with its message is fresh if the record is.
LEMMA ContinueIsFresh ==
  ASSUME IInv, WorkersAreFresh, NEW h \in Handlers, NEW m, NEW step, Continue(h, m, step),
         step \notin {"ackStore", "ackGet", "ackSet"} \/ work[h].kind = "call",
         m.status # "Acknowledged" \/ step = "nackSet" \/ work[h].kind = "call",
         work[h].step # "nackSet", work[h].id \in Ids
  PROVE  WorkersAreFresh'
<1> DEFINE b == [work[h].batch EXCEPT ![work[h].id] = m]
           w == [step |-> step, kind |-> work[h].kind, id |-> work[h].id, batch |-> b]
<1>1. work[h] \in Work /\ Fresh(work[h])
  BY DEF IInv, TypeOK, WorkersAreFresh
<1>2. b[work[h].id] = m /\ \A i \in Ids \ {work[h].id} : b[i] = work[h].batch[i]
  BY <1>1 DEF Work
<1>3. work' = [work EXCEPT ![h] = w]
  BY DEF Continue
<1> HIDE DEF b
<1>4. Fresh(w)
  BY <1>1, <1>2 DEF Fresh
<1> HIDE DEF w
<1> QED BY <1>3, <1>4, OneIsFresh

\* A worker that is through with its message drops the record.
LEMMA DoneIsFresh ==
  ASSUME IInv, WorkersAreFresh, NEW h \in Handlers, work[h].id \in Ids, Done(h)
  PROVE  WorkersAreFresh'
<1> DEFINE rest == [work[h].batch EXCEPT ![work[h].id] = NoMessage]
           next(i) == [step |-> TakeUp(work[h].kind, rest[i]),
                       kind |-> work[h].kind, id |-> i, batch |-> rest]
<1>1. work[h] \in Work /\ Fresh(work[h])
  BY DEF IInv, TypeOK, WorkersAreFresh
<1>2. Fresh(Idle)
  BY DEF Fresh, Idle
<1>3. ASSUME NEW i \in Ids PROVE Fresh(next(i))
  <2>1. TakeUp(work[h].kind, rest[i]) \in FirstSteps \ {"ackStore", "ackSet"}
    BY DEF TakeUp, Disposition, FirstSteps
  <2>2. work[h].kind # "call" => \A j \in Ids : rest[j].status # "Acknowledged"
    BY <1>1 DEF Fresh, Work, NoMessage
  <2> HIDE DEF rest
  <2> QED BY <2>1, <2>2 DEF Fresh, FirstSteps
<1>4. \/ work' = [work EXCEPT ![h] = Idle]
      \/ \E i \in Ids : work' = [work EXCEPT ![h] = next(i)]
  BY DEF Done
<1> HIDE DEF next
<1> QED BY <1>2, <1>3, <1>4, OneIsFresh

\* A batch is chosen among delivered or failed messages.
LEMMA BeginIsFresh ==
  ASSUME IInv, WorkersAreFresh, NEW h \in Handlers,
         CheckExpiredAcknowledgments(h) \/ RetryWorker(h)
  PROVE  WorkersAreFresh'
<1>1. PICK kind \in {"sweep", "retry"}, S \in SUBSET Ids :
        /\ \A i \in S : store[i].status # "Acknowledged"
        /\ \E i \in S : Begin(h, kind, i, BatchOf(S), TakeUp(kind, store[i]))
  <2>1. CASE CheckExpiredAcknowledgments(h)
    <3>1. PICK S \in SUBSET {i \in Ids : store[i].status = "Delivered" /\ Sweepable(i)} :
            \E i \in S : Begin(h, "sweep", i, BatchOf(S), TakeUp("sweep", store[i]))
      BY <2>1 DEF CheckExpiredAcknowledgments
    <3> QED BY <3>1
  <2>2. CASE RetryWorker(h)
    <3>1. PICK S \in SUBSET {i \in Ids : /\ store[i].status = "Failed"
                                        /\ store[i].retry >= MaxRetries
                                        /\ store[i].retryAt
                                        /\ Sweepable(i)} :
            \E i \in S : Begin(h, "retry", i, BatchOf(S), TakeUp("retry", store[i]))
      BY <2>2 DEF RetryWorker
    <3> QED BY <3>1
  <2> QED BY <2>1, <2>2
<1>2. PICK i \in S : Begin(h, kind, i, BatchOf(S), TakeUp(kind, store[i]))
  BY <1>1
<1> DEFINE w == [step |-> TakeUp(kind, store[i]), kind |-> kind, id |-> i, batch |-> BatchOf(S)]
<1>3. TakeUp(kind, store[i]) \in FirstSteps \ {"ackStore", "ackSet"}
  BY DEF TakeUp, Disposition, FirstSteps
<1>4. \A j \in Ids : BatchOf(S)[j].status # "Acknowledged"
  BY <1>1 DEF BatchOf, NoMessage
<1>5. Fresh(w)
  BY <1>3, <1>4 DEF Fresh, FirstSteps
<1>6. work' = [work EXCEPT ![h] = w]
  BY <1>2 DEF Begin
<1> HIDE DEF w
<1> QED BY <1>5, <1>6, OneIsFresh

\* The workers stay fresh.
LEMMA FreshStep == IInv /\ WorkersAreFresh /\ [Next]_vars => WorkersAreFresh'
<1> SUFFICES ASSUME IInv, WorkersAreFresh, [Next]_vars PROVE WorkersAreFresh'
  OBVIOUS
<1>1. ASSUME NEW h \in Handlers, Arrive(h) PROVE WorkersAreFresh'
  <2>1. \E id, m, step : Request(h, id, m, step)
    BY <1>1 DEF Arrive, AcknowledgeMessage, ProcessAcknowledgment, ProcessNegativeAcknowledgment,
       RepositoryAcknowledge, RequeueMessage, MoveToDLQ, ReprocessDLQMessage, PushMessage,
       PullMessage
  <2>2. PICK id, b, step : Begin(h, "call", id, b, step)
    BY <2>1 DEF Request
  <2>3. Fresh([step |-> step, kind |-> "call", id |-> id, batch |-> b])
    BY DEF Fresh
  <2> QED BY <2>2, <2>3, OneIsFresh DEF Begin
<1>2. ASSUME NEW h \in Handlers, CheckExpiredAcknowledgments(h) \/ RetryWorker(h)
      PROVE  WorkersAreFresh'
  BY <1>2, BeginIsFresh
<1>3. ASSUME NEW h \in Handlers, RoundTrip(h) PROVE WorkersAreFresh'
  <2>1. work[h].step # "idle" /\ work[h].id \in Ids /\ Fresh(work[h])
    BY <1>3 DEF RoundTrip, StoreAcknowledged, StoreFailed, AcknowledgeGet,
       AcknowledgeSet, StoreRequeued, StoreLetter, StoreClosed, StoreReset, StoreDelivered,
       StoreReprocessed, MarkReprocessed, IInv, WorkOK, WorkersAreFresh
  <2>2. CASE StoreAcknowledged(h)
    <3>1. work[h].kind = "call"
      BY <2>1, <2>2 DEF Fresh, StoreAcknowledged
    <3> QED BY <2>1, <2>2, <3>1, ContinueIsFresh DEF StoreAcknowledged
  <2>3. Snapshot(h).status # "Acknowledged" \/ work[h].kind = "call" \/ work[h].step = "nackSet"
    BY <2>1 DEF Fresh, Snapshot
  <2>4. CASE StoreFailed(h)
    BY <2>1, <2>3, <2>4, ContinueIsFresh DEF StoreFailed
  <2>5. CASE AcknowledgeGet(h)
    <3>1. CASE work[h].step = "ackGet" /\ Continue(h, store[work[h].id], "ackSet")
      <4>1. work[h].kind = "call"
        BY <2>1, <3>1 DEF Fresh
      <4> QED BY <2>1, <3>1, <4>1, ContinueIsFresh
    <3>2. CASE work[h].step = "nackGet" /\ Continue(h, store[work[h].id], "nackSet")
      BY <2>1, <3>2, ContinueIsFresh
    <3> QED BY <2>5, <3>1, <3>2 DEF AcknowledgeGet
  <2>6. CASE StoreLetter(h)
    BY <2>1, <2>3, <2>6, ContinueIsFresh DEF StoreLetter
  <2>7. CASE StoreReprocessed(h)
    <3> DEFINE m == [Snapshot(h) EXCEPT !.reprocessed = TRUE]
    <3>1. m.status = Snapshot(h).status
      BY <2>1 DEF Snapshot, IInv, TypeOK, Work, Message
    <3>2. Continue(h, m, "markBack") /\ work[h].step = "copyBack"
      BY <2>7 DEF StoreReprocessed
    <3> HIDE DEF m
    <3> QED BY <2>1, <2>3, <3>1, <3>2, ContinueIsFresh
  <2>8. CASE Done(h)
    BY <2>1, <2>8, DoneIsFresh
  <2> QED BY <1>3, <2>2, <2>4, <2>5, <2>6, <2>7, <2>8 DEF RoundTrip, AcknowledgeSet,
       StoreRequeued, StoreClosed, StoreReset, StoreDelivered, MarkReprocessed
<1>4. ASSUME NEW h \in Handlers, RedisError(h) PROVE WorkersAreFresh'
  BY <1>4, DoneIsFresh DEF RedisError, IInv, WorkOK
<1>5. CASE Crash
  BY <1>5 DEF Crash, WorkersAreFresh, Fresh, Idle
<1>6. CASE UNCHANGED vars
  BY <1>6 DEF vars, WorkersAreFresh
<1> QED BY <1>1, <1>2, <1>3, <1>4, <1>5, <1>6 DEF Next

\* A write is made by a goroutine to its own message, or to a new one.
LEMMA WriterIsAtWork ==
  ASSUME IInv, Next, NEW i \in Ids, Exists(i), store'[i] # store[i]
  PROVE  \E h \in Handlers : work[h].id = i
<1>1. PICK h \in Handlers : RoundTrip(h)
  BY StepThatWrites
<1>2. \/ \E m : store' = [store EXCEPT ![work[h].id] = m]
      \/ \E d \in Ids : \E m : ~Exists(d) /\ store' = [store EXCEPT ![d] = m]
      \/ store' = store
  BY <1>1 DEF RoundTrip, StoreAcknowledged, StoreFailed, AcknowledgeGet, AcknowledgeSet,
     StoreRequeued, StoreLetter, StoreClosed, StoreReset, StoreDelivered,
     StoreReprocessed, MarkReprocessed, Store
<1>3. ASSUME NEW d, NEW m, d # i, store' = [store EXCEPT ![d] = m] PROVE FALSE
  BY <1>3 DEF IInv, TypeOK
<1> QED BY <1>2, <1>3

\* A worker overwrites an acknowledgment only with what it read before, for any
\* number of messages, goroutines and faults.
THEOREM SweepIsSparing == Spec => SweepSparesAcknowledged
<1>1. Init => WorkersAreFresh
  <2>1. Fresh(Idle)
    BY DEF Fresh, Idle
  <2>2. ASSUME Init, NEW h \in Handlers PROVE work[h] = Idle
    BY <2>2 DEF Init
  <2> QED BY <2>1, <2>2 DEF WorkersAreFresh
<1>2. ASSUME IInv, WorkersAreFresh, [Next]_vars, NEW i \in Ids,
             store[i].status = "Acknowledged", store'[i] # store[i]
      PROVE  \E h \in Handlers :
               /\ work[h].id = i
               /\ \/ work[h].kind = "call"
                  \/ Snapshot(h).status # "Acknowledged"
                  \/ work[h].step = "nackSet"
  <2>1. Next
    BY <1>2 DEF vars
  <2>2. PICK h \in Handlers : work[h].id = i
    BY <1>2, <2>1, WriterIsAtWork DEF Exists
  <2> QED BY <1>2, <2>2 DEF WorkersAreFresh, Fresh, Snapshot
<1>3. IInv /\ WorkersAreFresh /\ [Next]_vars =>
        [\A i \in Ids : store[i].status = "Acknowledged" /\ store'[i] # store[i]
           => \E h \in Handlers :
                /\ work[h].id = i
                /\ \/ work[h].kind = "call"
                   \/ Snapshot(h).status # "Acknowledged"
                   \/ work[h].step = "nackSet"]_vars
  BY <1>2
<1> QED BY <1>1, <1>3, FreshStep, Invariant, PTL DEF Spec, SweepSparesAcknowledged
-----------------------------------------------------------------------------
(* One goroutine at a time.                                                *)

\* The records the goroutine carries count the attempts the stored records count,
\* and a worker holds no message that has been acknowledged since it read it.
Current(w) ==
  \A i \in Ids : w.batch[i].status # "absent" =>
    /\ w.batch[i].retry = store[i].retry
    /\ w.kind # "call" => store[i].status # "Acknowledged"

\* No attempt is forgotten at all.
AttemptsOnlyGrow == [][\A i \in Ids : Exists(i) => store'[i].retry >= store[i].retry]_vars

\* What a consumer has acknowledged only a request changes.
ReopenedByRequest ==
  \A i \in Ids : store[i].status = "Acknowledged" /\ store'[i] # store[i]
    => \E h \in Handlers : work[h].id = i /\ work[h].kind = "call"

OnlyRequestsReopen == [][ReopenedByRequest]_vars

\* What is written to other messages than the goroutine's are new records.
OthersStand(h) ==
  \A j \in Ids : j # work[h].id /\ Exists(j) => store'[j] = store[j]

\* The messages of a batch are stored ones.
LEMMA CarriedAreStored ==
  ASSUME IInv, NEW h \in Handlers, NEW i \in Ids, work[h].batch[i].status # "absent"
  PROVE  Exists(i)
BY DEF IInv, WorkOK, SnapshotOK, Stored, Exists

\* A goroutine that goes on with its message keeps a current record if the one
\* it takes along is.
LEMMA ContinueIsCurrent ==
  ASSUME IInv, NEW h \in Handlers, Current(work[h]), NEW m, NEW step, Continue(h, m, step),
         work[h].id \in Ids, OthersStand(h), m.retry = store'[work[h].id].retry,
         work[h].kind # "call" => store'[work[h].id].status # "Acknowledged"
  PROVE  Current(work[h])'
<1> DEFINE b == [work[h].batch EXCEPT ![work[h].id] = m]
           w == [step |-> step, kind |-> work[h].kind, id |-> work[h].id, batch |-> b]
<1>1. work'[h] = w
  BY DEF Continue, IInv, TypeOK
<1>2. b[work[h].id] = m /\ \A i \in Ids \ {work[h].id} : b[i] = work[h].batch[i]
  BY DEF IInv, TypeOK, Work
<1>3. w.batch = b /\ w.kind = work[h].kind
  OBVIOUS
<1> HIDE DEF b, w
<1>4. SUFFICES ASSUME NEW i \in Ids, b[i].status # "absent"
               PROVE  /\ b[i].retry = store'[i].retry
                      /\ work[h].kind # "call" => store'[i].status # "Acknowledged"
  BY <1>1, <1>3 DEF Current
<1>5. CASE i = work[h].id
  BY <1>2, <1>5
<1>6. CASE i # work[h].id
  <2>1. store'[i] = store[i]
    BY <1>2, <1>4, <1>6, CarriedAreStored DEF OthersStand
  <2> QED BY <1>2, <1>4, <1>6, <2>1 DEF Current
<1> QED BY <1>5, <1>6

\* So does a goroutine that is through with its message.
LEMMA DoneIsCurrent ==
  ASSUME IInv, NEW h \in Handlers, Current(work[h]), Done(h), work[h].id \in Ids,
         OthersStand(h)
  PROVE  Current(work[h])'
<1> DEFINE rest == [work[h].batch EXCEPT ![work[h].id] = NoMessage]
<1>1. \/ work'[h] = Idle
      \/ work'[h].batch = rest /\ work'[h].kind = work[h].kind
  BY DEF Done, IInv, TypeOK
<1>2. /\ rest[work[h].id].status = "absent"
      /\ \A i \in Ids \ {work[h].id} : rest[i] = work[h].batch[i]
  BY DEF IInv, TypeOK, Work, NoMessage
<1> HIDE DEF rest
<1>3. CASE work'[h] = Idle
  BY <1>3 DEF Current, Idle, NoBatch, NoMessage
<1>4. CASE work'[h].batch = rest /\ work'[h].kind = work[h].kind
  <2>1. SUFFICES ASSUME NEW i \in Ids, rest[i].status # "absent"
                 PROVE  /\ rest[i].retry = store'[i].retry
                        /\ work[h].kind # "call" => store'[i].status # "Acknowledged"
    BY <1>4 DEF Current
  <2>2. i # work[h].id /\ rest[i] = work[h].batch[i]
    BY <1>2, <2>1
  <2>3. store'[i] = store[i]
    BY <2>1, <2>2, CarriedAreStored DEF OthersStand
  <2> QED BY <2>1, <2>2, <2>3 DEF Current
<1> QED BY <1>1, <1>3, <1>4

\* A goroutine that starts has just read its records.
LEMMA StartIsCurrent ==
  ASSUME IInv, NEW h \in Handlers,
         Arrive(h) \/ CheckExpiredAcknowledgments(h) \/ RetryWorker(h)
  PROVE  Current(work[h])'
<1>1. ASSUME NEW kind, NEW id, NEW b, NEW step, Begin(h, kind, id, b, step),
             \A i \in Ids : b[i].status # "absent" =>
               /\ b[i].retry = store[i].retry
               /\ kind # "call" => store[i].status # "Acknowledged"
      PROVE  Current(work[h])'
  <2>1. work'[h].kind = kind /\ work'[h].batch = b /\ store' = store
    BY <1>1 DEF Begin, IInv, TypeOK
  <2> QED BY <1>1, <2>1 DEF Current
<1>2. ASSUME NEW id \in Ids, NEW m, NEW step, Request(h, id, m, step),
             m.retry = store[id].retry
      PROVE  Current(work[h])'
  <2> DEFINE b == [NoBatch EXCEPT ![id] = m]
  <2>1. Begin(h, "call", id, b, step)
    BY <1>2 DEF Request
  <2>2. ASSUME NEW i \in Ids, b[i].status # "absent" PROVE b[i].retry = store[i].retry
    BY <1>2, <2>2 DEF NoBatch, NoMessage
  <2> HIDE DEF b
  <2> QED BY <1>1, <2>1, <2>2
<1>3. CASE Arrive(h)
  <2>1. PICK id \in Ids : \E m, step :
          /\ Request(h, id, m, step)
          /\ \/ m = store[id]
             \/ m = [store[id] EXCEPT !.status = "Delivered"]
             \/ m = [store[id] EXCEPT !.status = "Delivered", !.consumer = requests + 1]
    BY <1>3 DEF Arrive, AcknowledgeMessage, ProcessAcknowledgment,
       ProcessNegativeAcknowledgment, RepositoryAcknowledge, RequeueMessage, MoveToDLQ,
       ReprocessDLQMessage, PushMessage, PullMessage
  <2>2. PICK m, step : Request(h, id, m, step) /\ m.retry = store[id].retry
    BY <2>1 DEF IInv, TypeOK, Message
  <2> QED BY <1>2, <2>2
<1>4. CASE CheckExpiredAcknowledgments(h) \/ RetryWorker(h)
  <2>1. PICK kind \in {"sweep", "retry"}, S \in SUBSET Ids :
          /\ \A i \in S : store[i].status # "Acknowledged"
          /\ \E i \in S : Begin(h, kind, i, BatchOf(S), TakeUp(kind, store[i]))
    <3>1. CASE CheckExpiredAcknowledgments(h)
      <4>1. PICK S \in SUBSET {i \in Ids : store[i].status = "Delivered" /\ Sweepable(i)} :
              \E i \in S : Begin(h, "sweep", i, BatchOf(S), TakeUp("sweep", store[i]))
        BY <3>1 DEF CheckExpiredAcknowledgments
      <4> QED BY <4>1
    <3>2. CASE RetryWorker(h)
      <4>1. PICK S \in SUBSET {i \in Ids : /\ store[i].status = "Failed"
                                          /\ store[i].retry >= MaxRetries
                                          /\ store[i].retryAt
                                          /\ Sweepable(i)} :
              \E i \in S : Begin(h, "retry", i, BatchOf(S), TakeUp("retry", store[i]))
        BY <3>2 DEF RetryWorker
      <4> QED BY <4>1
    <3> QED BY <1>4, <3>1, <3>2
  <2>2. ASSUME NEW i \in Ids, BatchOf(S)[i].status # "absent"
        PROVE  BatchOf(S)[i].retry = store[i].retry /\ store[i].status # "Acknowledged"
    BY <2>1, <2>2 DEF BatchOf, NoMessage
  <2> QED BY <1>1, <2>1, <2>2
<1> QED BY <1>3, <1>4

\* A write to a message leaves the others, and so does one under a new id.
LEMMA WritesStandAside ==
  ASSUME IInv, NEW h \in Handlers, RoundTrip(h)
  PROVE  OthersStand(h)
<1>1. \/ \E m : store' = [store EXCEPT ![work[h].id] = m]
      \/ \E d \in Ids : \E m : ~Exists(d) /\ store' = [store EXCEPT ![d] = m]
      \/ store' = store
  BY DEF RoundTrip, StoreAcknowledged, StoreFailed, AcknowledgeGet, AcknowledgeSet,
     StoreRequeued, StoreLetter, StoreClosed, StoreReset, StoreDelivered,
     StoreReprocessed, MarkReprocessed, Store
<1>2. ASSUME NEW d, NEW m, d = work[h].id \/ ~Exists(d), store' = [store EXCEPT ![d] = m]
      PROVE  OthersStand(h)
  BY <1>2 DEF OthersStand, IInv, TypeOK
<1> QED BY <1>1, <1>2 DEF OthersStand

\* A goroutine that makes a round trip is at work.
LEMMA RoundTripIsWork ==
  ASSUME NEW h \in Handlers, RoundTrip(h)
  PROVE  work[h].step # "idle"
BY DEF RoundTrip, StoreAcknowledged, StoreFailed, AcknowledgeGet, AcknowledgeSet,
   StoreRequeued, StoreLetter, StoreClosed, StoreReset, StoreDelivered,
   StoreReprocessed, MarkReprocessed

\* A goroutine whose steps nobody interrupts stays current.
LEMMA RoundTripIsCurrent ==
  ASSUME IInv, WorkersAreFresh, NEW h \in Handlers, Current(work[h]), RoundTrip(h)
  PROVE  Current(work[h])'
<1>1. OthersStand(h)
  BY WritesStandAside
<1>2. work[h].step # "idle"
  BY RoundTripIsWork
<1>3. /\ work[h].id \in Ids /\ Snapshot(h) \in Message /\ Exists(work[h].id)
      /\ store \in [Ids -> Message]
      /\ Snapshot(h).retry = store[work[h].id].retry
      /\ work[h].kind # "call" => store[work[h].id].status # "Acknowledged"
  BY <1>2, SnapshotFacts DEF Current, Snapshot, Exists, Stored, IInv, TypeOK
<1>4. CASE Done(h)
  BY <1>1, <1>3, <1>4, DoneIsCurrent
<1>5. CASE StoreAcknowledged(h)
  <2>1. work[h].kind = "call"
    BY <1>5 DEF WorkersAreFresh, Fresh, StoreAcknowledged
  <2>2. store'[work[h].id] = [Snapshot(h) EXCEPT !.status = "Acknowledged"]
    BY <1>3, <1>5 DEF StoreAcknowledged, Store
  <2>3. store'[work[h].id].retry = Snapshot(h).retry
    BY <1>3, <2>2 DEF Message
  <2> QED BY <1>1, <1>3, <1>5, <2>1, <2>3, ContinueIsCurrent DEF StoreAcknowledged
<1>6. CASE StoreFailed(h)
  <2>1. store'[work[h].id] =
          [Snapshot(h) EXCEPT !.status = "Failed", !.consumer = NoConsumer]
    BY <1>3, <1>6 DEF StoreFailed, Store
  <2>2. /\ store'[work[h].id].retry = Snapshot(h).retry
        /\ store'[work[h].id].status = "Failed"
    BY <1>3, <2>1 DEF Message
  <2> QED BY <1>1, <1>3, <1>6, <2>2, ContinueIsCurrent DEF StoreFailed
<1>7. CASE AcknowledgeGet(h)
  <2>1. store' = store /\ \E step : Continue(h, store[work[h].id], step)
    BY <1>7 DEF AcknowledgeGet
  <2> QED BY <1>1, <1>3, <2>1, ContinueIsCurrent
<1>8. CASE StoreLetter(h) \/ StoreReprocessed(h)
  <2>1. store'[work[h].id] = store[work[h].id]
    <3>1. PICK d \in Ids : ~Exists(d) /\ \E m : store' = [store EXCEPT ![d] = m]
      BY <1>8 DEF StoreLetter, StoreReprocessed, Store
    <3> QED BY <1>3, <3>1
  <2>2. PICK m, step : Continue(h, m, step) /\ m.retry = Snapshot(h).retry
    <3>1. CASE StoreLetter(h)
      BY <3>1 DEF StoreLetter
    <3>2. CASE StoreReprocessed(h)
      <4> DEFINE m == [Snapshot(h) EXCEPT !.reprocessed = TRUE]
      <4>1. m.retry = Snapshot(h).retry
        BY <1>3 DEF Message
      <4>2. Continue(h, m, "markBack")
        BY <3>2 DEF StoreReprocessed
      <4> HIDE DEF m
      <4> QED BY <4>1, <4>2
    <3> QED BY <1>8, <3>1, <3>2
  <2> QED BY <1>1, <1>3, <2>1, <2>2, ContinueIsCurrent
<1> QED BY <1>4, <1>5, <1>6, <1>7, <1>8 DEF RoundTrip, AcknowledgeSet, StoreRequeued,
     StoreClosed, StoreReset, StoreDelivered, MarkReprocessed

\* So does one whose commands fail, or that is alone in a process that dies.
LEMMA AloneIsCurrent ==
  ASSUME NEW h, Handlers = {h}
  PROVE  IInv /\ WorkersAreFresh /\ Current(work[h]) /\ [Next]_vars => Current(work[h])'
<1> SUFFICES ASSUME IInv, WorkersAreFresh, Current(work[h]), [Next]_vars
             PROVE  Current(work[h])'
  OBVIOUS
<1>1. CASE RedisError(h)
  <2>1. OthersStand(h)
    BY <1>1 DEF RedisError, OthersStand
  <2>2. work[h].id \in Ids /\ Done(h)
    BY <1>1 DEF RedisError, IInv, WorkOK
  <2> QED BY <2>1, <2>2, DoneIsCurrent
<1>2. CASE Crash
  BY <1>2 DEF Crash, Current, Idle, NoBatch, NoMessage
<1>3. CASE UNCHANGED vars
  BY <1>3 DEF vars, Current
<1>4. CASE \/ Arrive(h) \/ CheckExpiredAcknowledgments(h) \/ RetryWorker(h)
  BY <1>4, StartIsCurrent
<1>5. CASE RoundTrip(h)
  BY <1>5, RoundTripIsCurrent
<1> QED BY <1>1, <1>2, <1>3, <1>4, <1>5 DEF Next

\* A lone goroutine starts with nothing in hand.
LEMMA AloneInvariant ==
  ASSUME NEW g, Handlers = {g}
  PROVE  Spec => [](IInv /\ WorkersAreFresh /\ Current(work[g]))
<1>1. Init => WorkersAreFresh /\ Current(work[g])
  <2>1. Init => work[g] = Idle
    BY DEF Init
  <2>2. Idle.kind = "call" /\ \A i \in Ids : Idle.batch[i].status = "absent"
    BY DEF Idle, NoBatch, NoMessage
  <2> QED BY <2>1, <2>2 DEF WorkersAreFresh, Fresh, Current
<1>2. IInv /\ WorkersAreFresh /\ Current(work[g]) /\ [Next]_vars => Current(work[g])'
  BY AloneIsCurrent
<1> QED BY <1>1, <1>2, FreshStep, Invariant, PTL DEF Spec

\* Requests and workers that take turns forget no attempt, whatever fails between
\* two of their commands: losing one takes two goroutines at work at once.
THEOREM AloneForgetsNothing ==
  ASSUME NEW g, Handlers = {g}
  PROVE  Spec => AttemptsOnlyGrow
<1>1. ASSUME IInv, Current(work[g]), Next, NEW i \in Ids, Exists(i)
      PROVE  store'[i].retry >= store[i].retry
  <2>1. IInv' /\ store[i].retry \in Nat /\ store'[i].retry \in Nat
    BY <1>1, NextInvariant DEF IInv, TypeOK, Message
  <2>2. SUFFICES ASSUME store'[i].retry < store[i].retry PROVE FALSE
    BY <2>1
  <2>3. work[g].id = i /\ Snapshot(g).retry < store[i].retry
    BY <1>1, <2>2, RetriesStep
  <2>4. work[g].step # "idle"
    BY <1>1, <2>1, <2>2, <2>3, StepThatWrites, RoundTripIsWork
  <2>5. Snapshot(g).status # "absent"
    BY <1>1, <2>4, SnapshotFacts
  <2>6. Snapshot(g).retry = store[i].retry
    BY <1>1, <2>3, <2>5 DEF Current, Snapshot
  <2> QED BY <2>1, <2>3, <2>6
<1>2. IInv /\ Current(work[g]) /\ [Next]_vars =>
        [\A i \in Ids : Exists(i) => store'[i].retry >= store[i].retry]_vars
  BY <1>1
<1> QED BY <1>2, AloneInvariant, PTL DEF Spec, AttemptsOnlyGrow

\* And no worker takes back what a consumer has acknowledged.
THEOREM AloneReopensNothing ==
  ASSUME NEW g, Handlers = {g}
  PROVE  Spec => OnlyRequestsReopen
<1>1. ASSUME IInv, Current(work[g]), Next, NEW i \in Ids,
             store[i].status = "Acknowledged", store'[i] # store[i]
      PROVE  work[g].id = i /\ work[g].kind = "call"
  <2>1. work[g].id = i
    BY <1>1, WriterIsAtWork DEF Exists
  <2>2. work[g].step # "idle"
    BY <1>1, StepThatWrites, RoundTripIsWork
  <2>3. Snapshot(g).status # "absent"
    BY <1>1, <2>2, SnapshotFacts
  <2> QED BY <1>1, <2>1, <2>3 DEF Current, Snapshot
<1>2. IInv /\ Current(work[g]) /\ [Next]_vars => [ReopenedByRequest]_vars
  BY <1>1 DEF ReopenedByRequest
<1> QED BY <1>2, AloneInvariant, PTL DEF Spec, OnlyRequestsReopen
-----------------------------------------------------------------------------
(* Refinement of the ledger of dead letters.                               *)

LetterOf(s) == [i \in Ids |-> s[i].origin]
DeadIn(s) == {i \in Ids : s[i].status = "DLQ" /\ s[i].origin = NoId}

\* A safe write writes a letter, marks one message dead that has a letter, takes
\* one mark back, or changes nothing the ledger shows.
LEMMA WriteIsLedgerStep ==
  ASSUME IInv, SafeWrite
  PROVE  \/ \E d \in Ids, m \in Ids : /\ store[d].origin = NoId
                                     /\ LetterOf(store') = [LetterOf(store) EXCEPT ![d] = m]
                                     /\ DeadIn(store') = DeadIn(store)
         \/ \E m \in Ids : /\ \E d \in Ids : store[d].origin = m
                           /\ DeadIn(store') = DeadIn(store) \cup {m}
                           /\ LetterOf(store') = LetterOf(store)
         \/ \E m \in Ids : /\ DeadIn(store') = DeadIn(store) \ {m}
                           /\ LetterOf(store') = LetterOf(store)
<1>1. PICK i \in Ids, m \in Message : /\ Writable(store, i, m)
                                     /\ store' = [store EXCEPT ![i] = m]
  BY DEF SafeWrite
<1>2. /\ store'[i] = m
      /\ \A j \in Ids : j # i => store'[j] = store[j]
      /\ m.origin \in Ids \cup {NoId}
  BY <1>1 DEF IInv, TypeOK, Message
<1>3. CASE m.origin = store[i].origin
  <2>1. LetterOf(store') = LetterOf(store)
    BY <1>2, <1>3 DEF LetterOf
  <2>2. CASE m.status = "DLQ" /\ m.origin = NoId
    <3>1. \E d \in Ids : store[d].origin = i
      BY <1>1, <2>2 DEF Writable, RecordOK
    <3>2. DeadIn(store') = DeadIn(store) \cup {i}
      BY <1>2, <2>2 DEF DeadIn
    <3> QED BY <2>1, <3>1, <3>2
  <2>3. CASE ~(m.status = "DLQ" /\ m.origin = NoId)
    <3>1. DeadIn(store') = DeadIn(store) \ {i}
      BY <1>2, <2>3 DEF DeadIn
    <3> QED BY <2>1, <3>1
  <2> QED BY <2>2, <2>3
<1>4. CASE m.origin # store[i].origin
  <2>1. store[i] = NoMessage
    BY <1>1, <1>4 DEF Writable, IInv, StoreOK, RecordOK, Stored
  <2>2. store[i].origin = NoId /\ store[i].status = "absent" /\ m.origin \in Ids
    BY <1>2, <1>4, <2>1, NoMessageIsEmpty
  <2>3. LetterOf(store') = [LetterOf(store) EXCEPT ![i] = m.origin]
    BY <1>2 DEF LetterOf
  <2>4. DeadIn(store') = DeadIn(store)
    BY <1>2, <1>4, <2>2 DEF DeadIn
  <2> QED BY <2>2, <2>3, <2>4
<1> QED BY <1>3, <1>4

\* No letter is written and nobody is dead to begin with.
LEMMA LedgerInit == Init => Ledger!Init
<1> SUFFICES ASSUME Init PROVE Ledger!Init
  OBVIOUS
<1>1. ASSUME NEW i \in Ids
      PROVE  store[i].origin = NoId /\ ~(store[i].status = "DLQ")
  BY <1>1 DEF Init, NoMessage
<1> QED BY <1>1 DEF Ledger!Init

\* Every step of the service is a step of the ledger or leaves it as it is.
LEMMA LedgerStep == IInv /\ [Next]_vars => [Ledger!Next]_(Ledger!vars)
<1>1. ASSUME UNCHANGED store PROVE UNCHANGED Ledger!vars
  BY <1>1 DEF Ledger!vars
<1>2. ASSUME IInv, SafeWrite PROVE Ledger!Next
  BY <1>2, WriteIsLedgerStep DEF LetterOf, DeadIn, Ledger!Next, Ledger!WriteLetter,
     Ledger!MarkDead, Ledger!Revive
<1>3. ASSUME IInv, Next PROVE [Ledger!Next]_(Ledger!vars)
  BY <1>1, <1>2, <1>3, StepIsOK
<1>4. ASSUME UNCHANGED vars PROVE UNCHANGED store
  BY <1>4 DEF vars
<1> QED BY <1>1, <1>3, <1>4

\* The service implements the write-ahead ledger: a letter is written before the
\* mark and for good, whatever runs at the same time or crashes.
THEOREM ImplementsLedger == Spec => LedgerSpec
BY LedgerInit, LedgerStep, Invariant, PTL DEF Spec, LedgerSpec, Ledger!Spec

\* Whatever becomes of a message, its record stays and says what it said of being
\* a letter, for its lifetime: no requeue, mark, reprocessing or stale write (dlq.go)
\* changes that.
LettersStay ==
  [][\A i \in Ids : Exists(i) => Exists(i)' /\ store'[i].origin = store[i].origin]_vars

\* A letter that was written stays one, for every number of goroutines and faults.
THEOREM LettersArePermanent == Spec => LettersStay
<1>1. IInv /\ [Next]_vars =>
        [\A i \in Ids : Exists(i) => Exists(i)' /\ store'[i].origin = store[i].origin]_vars
  BY StepIsOK, SafeWriteKeeps DEF Grows, Stored, Exists
<1> QED BY <1>1, Invariant, PTL DEF Spec, LettersStay
=============================================================================
