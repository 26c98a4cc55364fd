------------------------- MODULE TopicCatalogProofs -------------------------
(* Proofs about TopicCatalog: a call that nobody overtook knows the topic it  *)
(* works on, what it leaves half done it is still doing, and the catalogue    *)
(* uses the partition manager as PartitionSpec says.                          *)
EXTENDS TopicCatalog, PartitionManagerProofs

\* What the steps of a call say about it.
Shape(k) ==
  /\ k.step \in {"set", "list", "reget", "store", "save", "init", "cache"}
       => k.entity.partitions > 0
  /\ k.step \in {"exists", "reget", "store"} => k.kind = "publish"
  /\ k.step = "save" => k.kind \in {"publish", "update"}
  /\ k.step \in {"set", "list"} => k.kind \in {"publish", "create"}

\* What call k knows of the record r of its topic and of the sets L and M of the
\* topics that are listed and managed, while nobody has overtaken it.
Knows(k, r, L, M) ==
  k.step # "idle" /\ ~k.touched =>
    /\ k.step \in {"exists", "set", "clean", "uncache"} => r.partitions = 0
    /\ k.step \in {"list", "reget", "store", "init", "cache"} => r = k.entity
    /\ k.step = "save" /\ k.kind = "publish" =>
         k.entity = [r EXCEPT !.count = @ + k.size]
    /\ k.step = "save" /\ k.kind = "update" =>
         k.entity = [r EXCEPT !.config = k.entity.config]
    /\ k.step \in {"drop", "clean", "uncache"} => k.topic \notin L
    /\ k.step = "uncache" => k.topic \notin M
    /\ k.step = "cache" /\ k.kind = "create" => k.topic \in M

Counts(t) ==
  /\ record[t].count <= stored[t]
  /\ active[t].count <= stored[t]
  /\ stats[t] <= stored[t]

CallInv ==
  \A c \in Calls :
    /\ Shape(call[c])
    /\ call[c].entity.count <= stored[call[c].topic]
    /\ Knows(call[c], record[call[c].topic], listed, managed)

Someone(t, S) == \E c \in Calls : call[c].topic = t /\ call[c].step \in S

\* The list agrees with the record, or a call is between the two.
Listing(t) ==
  ~disturbed[t] =>
    \/ t \in listed <=> Exists(t)
    \/ Someone(t, {"list", "drop"})

InMemory(t) ==
  /\ t \in managed => Exists(t) /\ size[t] = record[t].partitions
  /\ active[t].partitions > 0 =>
       /\ t \in managed
       /\ active[t].partitions = record[t].partitions
       /\ active[t].count <= record[t].count

\* The process agrees with Redis, or a deletion has still to clean up.
Memory(t) == ~disturbed[t] => InMemory(t) \/ Someone(t, {"clean", "uncache"})

SameConfig(t) == active[t].partitions > 0 => active[t].config = record[t].config

\* The call k is about to bring the cached copy of its topic in line.
Late(k, t) ==
  /\ k.topic = t
  /\ k.step \in {"clean", "uncache"} \/ (k.step = "cache" /\ k.kind = "update")

\* The cached configuration is the recorded one, or will be.
Caching(t) == ~disturbed[t] => SameConfig(t) \/ \E c \in Calls : Late(call[c], t)

Saving(c, t) ==
  call[c].topic = t /\ call[c].step = "save" /\ call[c].kind = "publish"

\* The record is right, or will be once the only publisher has saved its count.
Counting(t) ==
  ~disturbed[t] =>
    /\ (\A c \in Calls : ~Saving(c, t)) => record[t] = truth[t]
    /\ \A c \in Calls :
         Saving(c, t) /\ ~call[c].touched /\ (\A d \in Calls : Saving(d, t) => d = c)
           => truth[t] = call[c].entity

Inv ==
  /\ TypeOK
  /\ PartitionInv
  /\ CallInv
  /\ \A t \in Topics : Counts(t) /\ Listing(t) /\ Memory(t) /\ Caching(t) /\ Counting(t)
-----------------------------------------------------------------------------
\* A goroutine that serves nobody is well typed.
LEMMA NoCallType == NoCall \in Call /\ NoTopic \in Topic
<1>1. (CHOOSE t \in Topics : TRUE) \in Topics
  BY CatalogAssumption
<1>2. NoTopic \in Topic
  BY PartitionAssumption DEF NoTopic, Topic
<1> QED BY <1>1, <1>2 DEF NoCall, Call, Steps

\* The broker starts without topics and without requests.
LEMMA InitialCatalog == Init => Inv
<1> SUFFICES ASSUME Init PROVE Inv
  OBVIOUS
<1>1. PartitionInv
  BY InitialPartitions DEF Init
<1>2. TypeOK
  <2>1. PartitionTypeOK
    BY <1>1 DEF PartitionInv
  <2> QED BY <2>1, NoCallType DEF Init, TypeOK
<1>3. CallInv
  <2> SUFFICES ASSUME NEW c \in Calls
               PROVE  /\ Shape(call[c])
                      /\ call[c].entity.count <= stored[call[c].topic]
                      /\ Knows(call[c], record[call[c].topic], listed, managed)
    BY DEF CallInv
  <2>1. call[c] = NoCall /\ NoCall.topic \in Topics
    BY NoCallType DEF Init, Call
  <2>2. NoCall.step = "idle" /\ NoCall.entity.count = 0
    BY DEF NoCall, NoTopic
  <2>3. stored[NoCall.topic] = 0
    BY <2>1 DEF Init
  <2> QED BY <2>1, <2>2, <2>3 DEF Shape, Knows
<1>4. ASSUME NEW t \in Topics
      PROVE  Counts(t) /\ Listing(t) /\ Memory(t) /\ Caching(t) /\ Counting(t)
  <2>1. Counts(t)
    BY DEF Init, Counts, NoTopic, NotCached
  <2>2. Listing(t)
    BY DEF Init, Listing, Exists, NoTopic
  <2>3. Memory(t)
    BY DEF Init, PartitionInit, Memory, InMemory, NoTopic
  <2>4. Counting(t)
    BY DEF Init, Counting, Saving, NoCall
  <2>5. Caching(t)
    BY DEF Init, Caching, SameConfig, NoTopic
  <2> QED BY <2>1, <2>2, <2>3, <2>4, <2>5
<1> QED BY <1>1, <1>2, <1>3, <1>4 DEF Inv
-----------------------------------------------------------------------------
\* What a call that changes its topic does to the calls and to the history: the
\* other calls on the topic have been overtaken.
LEMMA WriteFacts ==
  ASSUME call \in [Calls -> Call], disturbed \in [Topics -> BOOLEAN],
         NEW c \in Calls, NEW next \in Call, Write(c, next)
  PROVE  /\ call' \in [Calls -> Call]
         /\ call'[c] = next
         /\ \A d \in Calls \ {c} :
              /\ call'[d].step = call[d].step
              /\ call'[d].kind = call[d].kind
              /\ call'[d].topic = call[d].topic
              /\ call'[d].entity = call[d].entity
              /\ call'[d].size = call[d].size
              /\ call[d].topic = TopicOf(c) /\ call[d].step # "idle" => call'[d].touched
              /\ call[d].topic # TopicOf(c) => call'[d] = call[d]
         /\ disturbed' \in [Topics -> BOOLEAN]
         /\ \A u \in Topics : u # TopicOf(c) => disturbed'[u] = disturbed[u]
         /\ ~disturbed'[TopicOf(c)] => ~disturbed[TopicOf(c)] /\ ~call[c].touched
<1>1. TopicOf(c) \in Topics
  BY DEF TopicOf, Call
<1>2. ASSUME NEW d \in Calls
      PROVE  [call[d] EXCEPT !.touched = TRUE] \in Call
  <2>1. call[d] \in Call
    OBVIOUS
  <2> QED BY <2>1 DEF Call
<1>3. call' \in [Calls -> Call]
  BY <1>2 DEF Write
<1>4. call'[c] = next
  BY DEF Write
<1>5. ASSUME NEW d \in Calls \ {c}
      PROVE  /\ call'[d].step = call[d].step
             /\ call'[d].kind = call[d].kind
             /\ call'[d].topic = call[d].topic
             /\ call'[d].entity = call[d].entity
             /\ call'[d].size = call[d].size
             /\ call[d].topic = TopicOf(c) /\ call[d].step # "idle" => call'[d].touched
             /\ call[d].topic # TopicOf(c) => call'[d] = call[d]
  <2>1. call[d] \in Call
    OBVIOUS
  <2>2. CASE call[d].topic = TopicOf(c) /\ call[d].step # "idle"
    <3>1. call'[d] = [call[d] EXCEPT !.touched = TRUE]
      BY <2>2 DEF Write
    <3> QED BY <3>1, <2>1, <2>2 DEF Call
  <2>3. CASE ~(call[d].topic = TopicOf(c) /\ call[d].step # "idle")
    <3>1. call'[d] = call[d]
      BY <2>3 DEF Write
    <3> QED BY <3>1, <2>3
  <2> QED BY <2>2, <2>3
<1>6. /\ disturbed' \in [Topics -> BOOLEAN]
      /\ \A u \in Topics : u # TopicOf(c) => disturbed'[u] = disturbed[u]
      /\ disturbed'[TopicOf(c)] = (disturbed[TopicOf(c)] \/ call[c].touched)
  <2>1. call[c].touched \in BOOLEAN
    BY DEF Call
  <2>2. disturbed' = [disturbed EXCEPT ![TopicOf(c)] = @ \/ call[c].touched]
    BY DEF Write
  <2> QED BY <1>1, <2>1, <2>2, Zenon
<1> QED BY <1>3, <1>4, <1>5, <1>6

\* Another call than c is at one of the steps S of topic t.
Elsewhere(c, t, S) ==
  \E d \in Calls \ {c} : call[d].topic = t /\ call[d].step \in S

\* What the next goroutine state of a call has to say for itself.
Informed(next) ==
  /\ Shape(next)
  /\ next.entity.count <= stored'[next.topic]
  /\ Knows(next, record'[next.topic], listed', managed')

\* The topics that call c does not work on.
OthersAlone(t) ==
  /\ stored' = stored
  /\ \A u \in Topics \ {t} :
       /\ record'[u] = record[u] /\ truth'[u] = truth[u]
       /\ active'[u] = active[u] /\ stats'[u] = stats[u] /\ size'[u] = size[u]
       /\ u \in listed' <=> u \in listed
       /\ u \in managed' <=> u \in managed

\* A call changes its topic: if it leaves the topic as it should when nobody
\* has overtaken it, the invariant holds again.
LEMMA WriteStep ==
  ASSUME Inv, TypeOK', PartitionInv',
         NEW c \in Calls, NEW next \in Call, Write(c, next), NEW t \in Topics,
         t = TopicOf(c), next.step = "idle" \/ next.topic = t, next.step # "save",
         call[c].step # "idle", OthersAlone(t), Informed(next), Counts(t)',
         ~disturbed[t] /\ ~call[c].touched =>
           /\ \/ t \in listed' <=> record'[t].partitions > 0
              \/ next.topic = t /\ next.step \in {"list", "drop"}
              \/ Elsewhere(c, t, {"list", "drop"})
           /\ \/ InMemory(t)'
              \/ next.topic = t /\ next.step \in {"clean", "uncache"}
              \/ Elsewhere(c, t, {"clean", "uncache"})
           /\ \/ SameConfig(t)'
              \/ Late(next, t)
              \/ \E d \in Calls \ {c} : Late(call[d], t)
           /\ \/ record'[t] = truth'[t]
              \/ \E d \in Calls \ {c} : Saving(d, t)
  PROVE  Inv'
<1>1. /\ call \in [Calls -> Call] /\ disturbed \in [Topics -> BOOLEAN]
      /\ \A d \in Calls : call[d] \in Call
    BY DEF Inv, TypeOK
<1>2. \A d \in Calls : call[d].topic \in Topics /\ call[d].touched \in BOOLEAN
  BY <1>1 DEF Call
<1>3. /\ call' \in [Calls -> Call]
      /\ call'[c] = next
      /\ \A d \in Calls \ {c} :
           /\ call'[d].step = call[d].step
           /\ call'[d].kind = call[d].kind
           /\ call'[d].topic = call[d].topic
           /\ call'[d].entity = call[d].entity
           /\ call'[d].size = call[d].size
           /\ call[d].topic = t /\ call[d].step # "idle" => call'[d].touched
           /\ call[d].topic # t => call'[d] = call[d]
      /\ disturbed' \in [Topics -> BOOLEAN]
      /\ \A u \in Topics : u # t => disturbed'[u] = disturbed[u]
      /\ ~disturbed'[t] => ~disturbed[t] /\ ~call[c].touched
  BY <1>1, WriteFacts
<1>4. ASSUME NEW d \in Calls
      PROVE  /\ Shape(call'[d])
             /\ call'[d].entity.count <= stored'[call'[d].topic]
             /\ Knows(call'[d], record'[call'[d].topic], listed', managed')
  <2>1. CASE d = c
    BY <1>3, <2>1 DEF Informed
  <2>2. CASE d # c
    <3>1. /\ Shape(call[d])
          /\ call[d].entity.count <= stored[call[d].topic]
          /\ Knows(call[d], record[call[d].topic], listed, managed)
      BY DEF Inv, CallInv
    <3>2. Shape(call'[d])
      BY <1>3, <2>2, <3>1 DEF Shape
    <3>3. call'[d].entity.count <= stored'[call'[d].topic]
      BY <1>3, <2>2, <3>1 DEF OthersAlone
    <3>4. Knows(call'[d], record'[call'[d].topic], listed', managed')
      <4>1. CASE call[d].step = "idle" \/ call[d].topic = t
        BY <1>3, <2>2, <4>1 DEF Knows
      <4>2. CASE call[d].topic # t
        <5>1. call'[d] = call[d]
          BY <1>3, <2>2, <4>2
        <5>2. call[d].topic \in Topics \ {t}
          BY <1>2, <4>2
        <5>3. /\ record'[call[d].topic] = record[call[d].topic]
              /\ call[d].topic \in listed' <=> call[d].topic \in listed
              /\ call[d].topic \in managed' <=> call[d].topic \in managed
          BY <5>2 DEF OthersAlone
        <5> QED BY <3>1, <5>1, <5>3 DEF Knows
      <4> QED BY <4>1, <4>2
    <3> QED BY <3>2, <3>3, <3>4
  <2> QED BY <2>1, <2>2
<1>5. ASSUME NEW u \in Topics \ {t}
      PROVE  Counts(u)' /\ Listing(u)' /\ Memory(u)' /\ Caching(u)' /\ Counting(u)'
  <2>1. /\ record'[u] = record[u] /\ truth'[u] = truth[u] /\ stored'[u] = stored[u]
        /\ active'[u] = active[u] /\ stats'[u] = stats[u] /\ size'[u] = size[u]
        /\ u \in listed' <=> u \in listed
        /\ u \in managed' <=> u \in managed
        /\ disturbed'[u] = disturbed[u]
    BY <1>3 DEF OthersAlone
  <2>2. \A d \in Calls : (call[d].topic = u => call'[d] = call[d])
                         /\ (call'[d].topic = u /\ call'[d].step # "idle" => call'[d] = call[d])
    BY <1>3 DEF TopicOf
  <2>3. Counts(u) /\ Listing(u) /\ Memory(u) /\ Caching(u) /\ Counting(u)
    BY DEF Inv
  <2>4. Counts(u)'
    BY <2>1, <2>3 DEF Counts
  <2>5. Listing(u)'
    BY <2>1, <2>2, <2>3 DEF Listing, Someone, Exists
  <2>6. Memory(u)'
    BY <2>1, <2>2, <2>3 DEF Memory, InMemory, Someone, Exists
  <2>10. Caching(u)'
    BY <2>1, <2>2, <2>3 DEF Caching, SameConfig, Late
  <2>7. \A d \in Calls : Saving(d, u)' <=> Saving(d, u)
    BY <2>2 DEF Saving
  <2>8. \A d \in Calls : Saving(d, u) => call'[d] = call[d]
    BY <2>2 DEF Saving
  <2>9. Counting(u)'
    BY <2>1, <2>3, <2>7, <2>8 DEF Counting
  <2> QED BY <2>4, <2>5, <2>6, <2>9, <2>10
<1>6. Listing(t)'
  BY <1>3 DEF Listing, Someone, Elsewhere, Exists
<1>7. Memory(t)'
  BY <1>3 DEF Memory, Someone, Elsewhere
<1>8. Counting(t)'
  <2>1. ~Saving(c, t)'
    BY <1>3 DEF Saving
  <2>2. \A d \in Calls \ {c} : Saving(d, t)' <=> Saving(d, t)
    BY <1>3 DEF Saving
  <2>3. \A d \in Calls : Saving(d, t)' => call'[d].touched
    BY <1>3, <2>1 DEF Saving
  <2> QED BY <1>3, <2>1, <2>2, <2>3 DEF Counting
<1>11. Caching(t)'
  <2>1. \A d \in Calls \ {c} : Late(call'[d], t) <=> Late(call[d], t)
    BY <1>3 DEF Late
  <2> QED BY <1>3, <2>1 DEF Caching
<1>9. CallInv'
  BY <1>4 DEF CallInv
<1>10. \A u \in Topics : Counts(u)' /\ Listing(u)' /\ Memory(u)' /\ Caching(u)' /\ Counting(u)'
  BY <1>5, <1>6, <1>7, <1>8, <1>11
<1> QED BY <1>9, <1>10 DEF Inv

\* A call that changes nothing others read, and is not between two writes.
LEMMA QuietStep ==
  ASSUME Inv, PartitionInv',
         NEW c \in Calls, NEW next \in Call, Quietly(c, next),
         call[c].step \notin {"list", "drop", "clean", "uncache", "save", "cache"},
         ~(next.step = "save" /\ next.kind = "publish"),
         UNCHANGED <<record, listed, managed, size, active, stored, truth>>,
         calls' \in Nat, faults' \in Nat,
         stats' \in [Topics -> Nat \cup {NotCached}],
         \A u \in Topics : stats'[u] <= stored[u],
         Shape(next), next.entity.count <= stored[next.topic],
         Knows(next, record[next.topic], listed, managed)
  PROVE  Inv'
<1>0. TypeOK'
  <2>1. call' \in [Calls -> Call] /\ disturbed' \in [Topics -> BOOLEAN]
    BY DEF Inv, TypeOK, Quietly
  <2> QED BY <2>1 DEF Inv, TypeOK, PartitionInv
<1>1. call \in [Calls -> Call]
  BY DEF Inv, TypeOK
<1>2. /\ call'[c] = next
      /\ \A d \in Calls \ {c} : call'[d] = call[d]
      /\ disturbed' = disturbed
  BY <1>1 DEF Quietly
<1>3. ASSUME NEW d \in Calls
      PROVE  /\ Shape(call'[d])
             /\ call'[d].entity.count <= stored'[call'[d].topic]
             /\ Knows(call'[d], record'[call'[d].topic], listed', managed')
  <2>1. CASE d = c
    BY <1>2, <2>1
  <2>2. CASE d # c
    <3>1. /\ Shape(call[d])
          /\ call[d].entity.count <= stored[call[d].topic]
          /\ Knows(call[d], record[call[d].topic], listed, managed)
      BY DEF Inv, CallInv
    <3> QED BY <1>2, <2>2, <3>1
  <2> QED BY <2>1, <2>2
<1>4. ASSUME NEW u \in Topics
      PROVE  Counts(u)' /\ Listing(u)' /\ Memory(u)' /\ Caching(u)' /\ Counting(u)'
  <2>1. Counts(u) /\ Listing(u) /\ Memory(u) /\ Caching(u) /\ Counting(u)
    BY DEF Inv
  <2>2. Counts(u)'
    BY <2>1 DEF Counts
  <2>3. Listing(u)'
    BY <1>2, <2>1 DEF Listing, Someone, Exists
  <2>4. Memory(u)'
    BY <1>2, <2>1 DEF Memory, InMemory, Someone, Exists
  <2>5. \A d \in Calls : Saving(d, u)' <=> Saving(d, u)
    BY <1>2 DEF Saving
  <2>6. \A d \in Calls : Saving(d, u) => call'[d] = call[d]
    BY <1>2 DEF Saving
  <2>7. Counting(u)'
    BY <1>2, <2>1, <2>5, <2>6 DEF Counting
  <2>8. Caching(u)'
    BY <1>2, <2>1 DEF Caching, SameConfig, Late
  <2> QED BY <2>2, <2>3, <2>4, <2>7, <2>8
<1> QED BY <1>0, <1>3, <1>4 DEF Inv, CallInv
-----------------------------------------------------------------------------
\* The steps of a call are typed as long as what it holds is.
LEMMA EnterType ==
  ASSUME call \in [Calls -> Call], NEW c \in Calls, NEW step \in Steps
  PROVE  /\ Enter(c, step) \in Call
         /\ Enter(c, step).step = step
         /\ Enter(c, step).kind = call[c].kind
         /\ Enter(c, step).topic = call[c].topic
         /\ Enter(c, step).entity = call[c].entity
         /\ Enter(c, step).size = call[c].size
         /\ Enter(c, step).touched = call[c].touched
<1>1. call[c] \in Call
  OBVIOUS
<1> QED BY <1>1 DEF Enter, Call

\* The same of a call that has read the record.
LEMMA EnterWithType ==
  ASSUME call \in [Calls -> Call], NEW c \in Calls, NEW step \in Steps, NEW e \in Topic
  PROVE  /\ [Enter(c, step) EXCEPT !.entity = e, !.touched = FALSE] \in Call
         /\ [Enter(c, step) EXCEPT !.entity = e] \in Call
<1>1. Enter(c, step) \in Call
  BY EnterType
<1> QED BY <1>1 DEF Call

\* The steps a call goes on to.
LEMMA StepNames ==
  {"set", "list", "store", "save", "reget", "init", "cache", "drop", "clean", "uncache",
   "read", "collect"} \subseteq Steps
BY DEF Steps

\* What is known of a call at work and of its topic.
LEMMA CallFacts ==
  ASSUME Inv, NEW c \in Calls
  PROVE  /\ call \in [Calls -> Call] /\ call[c] \in Call
         /\ TopicOf(c) \in Topics /\ TopicOf(c) = call[c].topic
         /\ call[c].entity \in Topic
         /\ call[c].entity.partitions \in 0 .. MaxPartitions
         /\ call[c].entity.count \in Nat
         /\ call[c].size \in Nat
         /\ record[TopicOf(c)] \in Topic
         /\ stored[TopicOf(c)] \in Nat
         /\ Shape(call[c])
         /\ call[c].entity.count <= stored[TopicOf(c)]
         /\ Knows(call[c], record[TopicOf(c)], listed, managed)
         /\ Counts(TopicOf(c)) /\ Listing(TopicOf(c)) /\ Memory(TopicOf(c))
         /\ Caching(TopicOf(c)) /\ Counting(TopicOf(c))
<1>1. call[c] \in Call /\ call[c].topic \in Topics
  BY DEF Inv, TypeOK, Call
<1> QED BY <1>1 DEF Inv, TypeOK, CallInv, TopicOf, Call, Topic

\* A call that has ended says nothing.
LEMMA NoCallFacts ==
  ASSUME Inv
  PROVE  /\ NoCall \in Call
         /\ NoCall.step = "idle" /\ NoCall.kind = "stats" /\ NoCall.entity = NoTopic
         /\ NoCall.size = 0 /\ NoCall.touched = FALSE
         /\ Shape(NoCall)
         /\ NoCall.entity.count <= stored[NoCall.topic]
         /\ \A r, L, M : Knows(NoCall, r, L, M)
<1>1. NoCall \in Call /\ NoCall.topic \in Topics
  BY NoCallType DEF Call
<1>2. stored[NoCall.topic] \in Nat
  BY <1>1 DEF Inv, TypeOK
<1> QED BY <1>1, <1>2 DEF NoCall, NoTopic, Shape, Knows

\* The same of the parts of a call and its topic that are not disturbed.
LEMMA OwnFacts ==
  ASSUME Inv, NEW c \in Calls, NEW t \in Topics, t = TopicOf(c),
         ~disturbed[t], call[c].step # "idle"
  PROVE  /\ \/ t \in listed <=> record[t].partitions > 0
            \/ call[c].step \in {"list", "drop"}
            \/ Elsewhere(c, t, {"list", "drop"})
         /\ \/ InMemory(t)
            \/ call[c].step \in {"clean", "uncache"}
            \/ Elsewhere(c, t, {"clean", "uncache"})
         /\ \/ SameConfig(t)
            \/ Late(call[c], t)
            \/ \E d \in Calls \ {c} : Late(call[d], t)
         /\ \/ record[t] = truth[t]
            \/ Saving(c, t)
            \/ \E d \in Calls \ {c} : Saving(d, t)
<1>1. Listing(t) /\ Memory(t) /\ Caching(t) /\ Counting(t)
  BY DEF Inv
<1> QED BY <1>1 DEF Listing, Memory, Caching, Counting, Someone, Elsewhere, Exists
-----------------------------------------------------------------------------
\* The record of a new topic is written (the topic repository's Create).
LEMMA SetRecordKeepsInv ==
  ASSUME Inv, PartitionInv', NEW c \in Calls, NEW t \in Topics, t = TopicOf(c),
         NEW next, next = Enter(c, "list"), SetRecord(c)
  PROVE  Inv'
<1>1. /\ call[c].step = "set" /\ Write(c, next)
      /\ record' = [record EXCEPT ![t] = call[c].entity]
      /\ truth' = [truth EXCEPT ![t] = call[c].entity]
      /\ UNCHANGED <<partitionVars, listed, stored, active, stats, calls, faults>>
  BY DEF SetRecord, At, caches, counters
<1>2. /\ record \in [Topics -> Topic] /\ truth \in [Topics -> Topic]
      /\ disturbed \in [Topics -> BOOLEAN]
  BY DEF Inv, TypeOK
<1>3. /\ call \in [Calls -> Call] /\ call[c] \in Call /\ t = call[c].topic
      /\ call[c].entity \in Topic
      /\ Shape(call[c])
      /\ call[c].entity.count <= stored[t]
      /\ Knows(call[c], record[t], listed, managed)
      /\ Counts(t)
  BY CallFacts
<1>4. /\ next \in Call /\ next.step = "list" /\ next.kind = call[c].kind
      /\ next.topic = t /\ next.entity = call[c].entity /\ next.touched = call[c].touched
  BY <1>3, EnterType, StepNames
<1>5. call' \in [Calls -> Call] /\ disturbed' \in [Topics -> BOOLEAN]
  BY <1>1, <1>2, <1>3, <1>4, WriteFacts
<1>6. /\ record' \in [Topics -> Topic] /\ truth' \in [Topics -> Topic]
      /\ record'[t] = call[c].entity /\ truth'[t] = call[c].entity
      /\ \A u \in Topics \ {t} : record'[u] = record[u] /\ truth'[u] = truth[u]
  BY <1>1, <1>2, <1>3
<1>7. TypeOK'
  BY <1>1, <1>5, <1>6 DEF Inv, TypeOK, PartitionInv
<1>8. OthersAlone(t)
  BY <1>1, <1>6 DEF OthersAlone, partitionVars
<1>9. Informed(next)
  <2>1. Shape(next)
    BY <1>1, <1>3, <1>4 DEF Shape
  <2>2. Knows(next, record'[t], listed', managed')
    BY <1>4, <1>6 DEF Knows
  <2> QED BY <1>1, <1>3, <1>4, <2>1, <2>2 DEF Informed
<1>10. Counts(t)'
  BY <1>1, <1>3, <1>6 DEF Counts
<1>11. ASSUME ~disturbed[t], ~call[c].touched
       PROVE  InMemory(t)' \/ Elsewhere(c, t, {"clean", "uncache"})
  <2>1. record[t].partitions = 0
    BY <1>1, <1>3, <1>11 DEF Knows
  <2>2. InMemory(t) \/ Elsewhere(c, t, {"clean", "uncache"})
    BY <1>1, <1>3, <1>11, OwnFacts
  <2>3. active[t].partitions \in Nat
    BY PartitionAssumption DEF Inv, TypeOK, Topic
  <2>4. ASSUME InMemory(t) PROVE InMemory(t)'
    BY <1>1, <2>1, <2>3, <2>4 DEF InMemory, Exists, partitionVars
  <2> QED BY <2>2, <2>4
<1>12. ASSUME ~disturbed[t], ~call[c].touched
       PROVE  SameConfig(t)' \/ \E d \in Calls \ {c} : Late(call[d], t)
  <2>1. record[t].partitions = 0
    BY <1>1, <1>3, <1>12 DEF Knows
  <2>2. InMemory(t) \/ Elsewhere(c, t, {"clean", "uncache"})
    BY <1>1, <1>3, <1>12, OwnFacts
  <2>3. ASSUME InMemory(t) PROVE SameConfig(t)'
    BY <1>1, <2>1, <2>3 DEF InMemory, SameConfig, Exists
  <2> QED BY <2>2, <2>3 DEF Elsewhere, Late
<1> QED
  BY <1>1, <1>3, <1>4, <1>6, <1>7, <1>8, <1>9, <1>10, <1>11, <1>12, WriteStep

\* A call changes the list or the memory of the process, and no record.
LEMMA RecordKept ==
  ASSUME Inv, PartitionInv', NEW c \in Calls, NEW t \in Topics, t = TopicOf(c),
         NEW next \in Call, Write(c, next), next.step = "idle" \/ next.topic = t,
         next.step # "save", call[c].step \notin {"idle", "save"},
         UNCHANGED <<record, truth, stored, stats, calls, faults>>,
         listed' \in SUBSET Topics, active' \in [Topics -> Topic],
         \A u \in Topics \ {t} :
           /\ active'[u] = active[u] /\ size'[u] = size[u]
           /\ u \in listed' <=> u \in listed
           /\ u \in managed' <=> u \in managed,
         active'[t].count <= stored[t],
         Shape(next), next.entity.count <= stored[next.topic],
         Knows(next, record[next.topic], listed', managed'),
         ~disturbed[t] /\ ~call[c].touched =>
           /\ \/ t \in listed' <=> record[t].partitions > 0
              \/ next.topic = t /\ next.step \in {"list", "drop"}
              \/ Elsewhere(c, t, {"list", "drop"})
           /\ \/ InMemory(t)'
              \/ next.topic = t /\ next.step \in {"clean", "uncache"}
              \/ Elsewhere(c, t, {"clean", "uncache"})
           /\ \/ SameConfig(t)'
              \/ Late(next, t)
              \/ \E d \in Calls \ {c} : Late(call[d], t)
  PROVE  Inv'
<1>1. call' \in [Calls -> Call] /\ disturbed' \in [Topics -> BOOLEAN]
  BY WriteFacts DEF Inv, TypeOK
<1>2. TypeOK'
  BY <1>1 DEF Inv, TypeOK, PartitionInv
<1>3. OthersAlone(t)
  BY DEF OthersAlone
<1>4. Informed(next)
  BY DEF Informed
<1>5. Counts(t)'
  <2>1. Counts(t)
    BY DEF Inv
  <2> QED BY <2>1 DEF Counts
<1>6. ASSUME ~disturbed[t]
      PROVE  record[t] = truth[t] \/ \E d \in Calls \ {c} : Saving(d, t)
  <2>1. ~Saving(c, t)
    BY DEF Saving
  <2> QED BY <1>6, <2>1, OwnFacts
<1> QED BY <1>2, <1>3, <1>4, <1>5, <1>6, WriteStep

\* The name of a new topic is added to the list (the repository's Create).
LEMMA ListTopicKeepsInv ==
  ASSUME Inv, PartitionInv', NEW c \in Calls, NEW t \in Topics, t = TopicOf(c),
         NEW step, step = (IF call[c].kind = "publish" THEN "reget" ELSE "init"),
         NEW next, next = Enter(c, step), ListTopic(c)
  PROVE  Inv'
<1>1. /\ call[c].step = "list" /\ Write(c, next)
      /\ listed' = listed \cup {t}
      /\ UNCHANGED <<partitionVars, record, stored, active, stats, truth, calls, faults>>
  BY DEF ListTopic, At, caches, counters
<1>2. /\ call \in [Calls -> Call] /\ t = call[c].topic
      /\ call[c].entity \in Topic
      /\ Shape(call[c])
      /\ call[c].entity.count <= stored[t]
      /\ Knows(call[c], record[t], listed, managed)
      /\ Counts(t)
  BY CallFacts
<1>3. /\ next \in Call /\ next.step = step /\ next.kind = call[c].kind
      /\ next.topic = t /\ next.entity = call[c].entity /\ next.touched = call[c].touched
  <2>1. step \in Steps
    BY DEF Steps
  <2> QED BY <1>2, <2>1, EnterType
<1>4. /\ listed \in SUBSET Topics /\ active \in [Topics -> Topic]
      /\ \A u \in Topics \ {t} : u \in listed' <=> u \in listed
  BY <1>1 DEF Inv, TypeOK
<1>5. Shape(next)
  BY <1>1, <1>2, <1>3 DEF Shape
<1>6. Knows(next, record[t], listed', managed')
  BY <1>1, <1>2, <1>3 DEF Knows
<1>7. ASSUME ~disturbed[t], ~call[c].touched
      PROVE  /\ t \in listed' <=> record[t].partitions > 0
             /\ InMemory(t)' \/ Elsewhere(c, t, {"clean", "uncache"})
  <2>1. record[t].partitions > 0
    BY <1>1, <1>2, <1>7 DEF Knows, Shape
  <2>2. InMemory(t) \/ Elsewhere(c, t, {"clean", "uncache"})
    BY <1>1, <1>7, OwnFacts
  <2> QED BY <1>1, <2>1, <2>2 DEF InMemory, Exists, partitionVars
<1>8. active'[t].count <= stored[t]
  BY <1>1, <1>2 DEF Counts
<1>9. size' = size /\ managed' = managed
  BY <1>1 DEF partitionVars
<1>10. ASSUME ~disturbed[t], ~call[c].touched
       PROVE  SameConfig(t)' \/ \E d \in Calls \ {c} : Late(call[d], t)
  <2>1. SameConfig(t) \/ \E d \in Calls \ {c} : Late(call[d], t)
    BY <1>1, <1>10, OwnFacts DEF Late
  <2> QED BY <1>1, <2>1 DEF SameConfig
<1> QED
  BY <1>1, <1>2, <1>3, <1>4, <1>5, <1>6, <1>7, <1>8, <1>9, <1>10, RecordKept

\* A new topic gets its partitions (InitializePartitions).
LEMMA InitPartitionsKeepsInv ==
  ASSUME Inv, PartitionInv', NEW c \in Calls, NEW t \in Topics, t = TopicOf(c),
         NEW next, next = Enter(c, "cache"), InitPartitions(c)
  PROVE  Inv'
<1>1. /\ call[c].step = "init" /\ Write(c, next)
      /\ managed' = managed \cup {t}
      /\ size' = [size EXCEPT ![t] = call[c].entity.partitions]
      /\ UNCHANGED <<record, listed, stored, active, stats, truth, calls, faults>>
  BY DEF InitPartitions, InitializePartitions, Reset, At, redis, caches, counters
<1>2. /\ call \in [Calls -> Call] /\ t = call[c].topic
      /\ call[c].entity \in Topic
      /\ Shape(call[c])
      /\ call[c].entity.count <= stored[t]
      /\ Knows(call[c], record[t], listed, managed)
      /\ Counts(t)
  BY CallFacts
<1>3. /\ next \in Call /\ next.step = "cache" /\ next.kind = call[c].kind
      /\ next.topic = t /\ next.entity = call[c].entity /\ next.touched = call[c].touched
  BY <1>2, EnterType, StepNames
<1>4. /\ listed \in SUBSET Topics /\ active \in [Topics -> Topic]
      /\ size \in [Topics -> 0 .. MaxPartitions]
  BY DEF Inv, TypeOK, PartitionTypeOK
<1>5. Shape(next)
  BY <1>1, <1>2, <1>3 DEF Shape
<1>6. Knows(next, record[t], listed', managed')
  BY <1>1, <1>2, <1>3 DEF Knows
<1>7. /\ size'[t] = call[c].entity.partitions
      /\ \A u \in Topics \ {t} : size'[u] = size[u] /\ (u \in managed' <=> u \in managed)
  BY <1>1, <1>4
<1>8. ASSUME ~disturbed[t], ~call[c].touched
      PROVE  /\ \/ t \in listed' <=> record[t].partitions > 0
                \/ Elsewhere(c, t, {"list", "drop"})
             /\ InMemory(t)' \/ Elsewhere(c, t, {"clean", "uncache"})
  <2>1. record[t] = call[c].entity /\ record[t].partitions > 0
    BY <1>1, <1>2, <1>8 DEF Knows, Shape
  <2>2. /\ \/ t \in listed <=> record[t].partitions > 0
           \/ Elsewhere(c, t, {"list", "drop"})
        /\ InMemory(t) \/ Elsewhere(c, t, {"clean", "uncache"})
    BY <1>1, <1>8, OwnFacts
  <2> QED BY <1>1, <1>7, <2>1, <2>2 DEF InMemory, Exists
<1>9. active'[t].count <= stored[t]
  BY <1>1, <1>2 DEF Counts
<1>10. ASSUME ~disturbed[t], ~call[c].touched
       PROVE  SameConfig(t)' \/ \E d \in Calls \ {c} : Late(call[d], t)
  <2>1. SameConfig(t) \/ \E d \in Calls \ {c} : Late(call[d], t)
    BY <1>1, <1>10, OwnFacts DEF Late
  <2> QED BY <1>1, <2>1 DEF SameConfig
<1> QED
  BY <1>1, <1>2, <1>3, <1>4, <1>5, <1>6, <1>7, <1>8, <1>9, <1>10, RecordKept

\* A new topic is cached (the end of CreateTopic).
LEMMA AddToActiveTopicsKeepsInv ==
  ASSUME Inv, PartitionInv', NEW c \in Calls, NEW t \in Topics, t = TopicOf(c),
         AddToActiveTopics(c)
  PROVE  Inv'
<1>1. /\ call[c].step = "cache" /\ call[c].kind = "create" /\ Write(c, NoCall)
      /\ active' = [active EXCEPT ![t] = call[c].entity]
      /\ UNCHANGED <<partitionVars, record, listed, stored, stats, truth, calls, faults>>
  BY DEF AddToActiveTopics, At, redis, counters
<1>2. /\ t = call[c].topic /\ call[c].entity \in Topic
      /\ call[c].entity.count <= stored[t]
      /\ Knows(call[c], record[t], listed, managed)
  BY CallFacts
<1>3. listed \in SUBSET Topics /\ active \in [Topics -> Topic]
  BY DEF Inv, TypeOK
<1>4. /\ active' \in [Topics -> Topic] /\ active'[t] = call[c].entity
      /\ \A u \in Topics \ {t} : active'[u] = active[u]
  BY <1>1, <1>2, <1>3
<1>5. ASSUME ~disturbed[t], ~call[c].touched
      PROVE  /\ \/ t \in listed' <=> record[t].partitions > 0
                \/ Elsewhere(c, t, {"list", "drop"})
             /\ InMemory(t)' \/ Elsewhere(c, t, {"clean", "uncache"})
  <2>1. record[t] = call[c].entity /\ t \in managed /\ record[t].count \in Nat
    BY <1>1, <1>2, <1>5 DEF Knows, Topic
  <2>2. /\ \/ t \in listed <=> record[t].partitions > 0
           \/ Elsewhere(c, t, {"list", "drop"})
        /\ InMemory(t) \/ Elsewhere(c, t, {"clean", "uncache"})
    BY <1>1, <1>5, OwnFacts
  <2> QED BY <1>1, <1>4, <2>1, <2>2 DEF InMemory, Exists, partitionVars
<1>6. size' = size /\ managed' = managed
  BY <1>1 DEF partitionVars
<1>7. active'[t].count <= stored[t]
  BY <1>2, <1>4
<1>8. ASSUME ~call[c].touched
      PROVE  SameConfig(t)'
  <2>1. record[t] = call[c].entity
    BY <1>1, <1>2, <1>8 DEF Knows
  <2> QED BY <1>1, <1>4, <2>1 DEF SameConfig
<1> QED BY <1>1, <1>3, <1>4, <1>5, <1>6, <1>7, <1>8, NoCallFacts, RecordKept

\* An updated topic is cached again, if it was (the end of UpdateTopic).
LEMMA UpdateActiveTopicsKeepsInv ==
  ASSUME Inv, PartitionInv', NEW c \in Calls, NEW t \in Topics, t = TopicOf(c),
         NEW next,
         next = (IF stats[t] = NotCached THEN Enter(c, "read") ELSE NoCall),
         UpdateActiveTopics(c)
  PROVE  Inv'
<1>1. /\ call[c].step = "cache" /\ Write(c, next)
      /\ active' = [active EXCEPT ![t] = IF @.partitions > 0 THEN call[c].entity ELSE @]
      /\ UNCHANGED <<partitionVars, record, listed, stored, stats, truth, calls, faults>>
  BY DEF UpdateActiveTopics, At, redis, counters
<1>2. /\ call \in [Calls -> Call] /\ t = call[c].topic /\ call[c].entity \in Topic
      /\ call[c].entity.count <= stored[t]
      /\ Knows(call[c], record[t], listed, managed)
      /\ Counts(t)
  BY CallFacts
<1>3. listed \in SUBSET Topics /\ active \in [Topics -> Topic]
  BY DEF Inv, TypeOK
<1>4. /\ active' \in [Topics -> Topic]
      /\ active'[t] = IF active[t].partitions > 0 THEN call[c].entity ELSE active[t]
      /\ \A u \in Topics \ {t} : active'[u] = active[u]
  BY <1>1, <1>2, <1>3
<1>5. ASSUME ~disturbed[t], ~call[c].touched
      PROVE  /\ \/ t \in listed' <=> record[t].partitions > 0
                \/ Elsewhere(c, t, {"list", "drop"})
             /\ InMemory(t)' \/ Elsewhere(c, t, {"clean", "uncache"})
  <2>1. record[t] = call[c].entity /\ record[t].count \in Nat
    BY <1>1, <1>2, <1>5 DEF Knows, Topic
  <2>2. /\ \/ t \in listed <=> record[t].partitions > 0
           \/ Elsewhere(c, t, {"list", "drop"})
        /\ InMemory(t) \/ Elsewhere(c, t, {"clean", "uncache"})
    BY <1>1, <1>5, OwnFacts
  <2> QED BY <1>1, <1>4, <2>1, <2>2 DEF InMemory, Exists, partitionVars
<1>6. size' = size /\ managed' = managed
  BY <1>1 DEF partitionVars
<1>7. active'[t].count <= stored[t]
  BY <1>2, <1>4 DEF Counts
<1>8. /\ next \in Call
      /\ next.step = "idle" \/ (next.step = "read" /\ next.topic = t)
      /\ Shape(next)
      /\ next.entity.count <= stored[next.topic]
      /\ Knows(next, record[next.topic], listed', managed')
  <2>1. CASE stats[t] = NotCached
    <3>1. /\ next \in Call /\ next.step = "read" /\ next.topic = t
          /\ next.entity = call[c].entity
      BY <1>2, <2>1, EnterType, StepNames
    <3> QED BY <1>2, <3>1 DEF Shape, Knows
  <2>2. CASE stats[t] # NotCached
    BY <2>2, NoCallFacts
  <2> QED BY <2>1, <2>2
<1>9. ASSUME ~call[c].touched
      PROVE  SameConfig(t)'
  <2>1. record[t] = call[c].entity
    BY <1>1, <1>2, <1>9 DEF Knows
  <2> QED BY <1>1, <1>4, <2>1 DEF SameConfig
<1> QED BY <1>1, <1>3, <1>4, <1>5, <1>6, <1>7, <1>8, <1>9, RecordKept

\* The name of a deleted topic leaves the list (the repository's Delete).
LEMMA UnlistTopicKeepsInv ==
  ASSUME Inv, PartitionInv', NEW c \in Calls, NEW t \in Topics, t = TopicOf(c),
         NEW next, next = Enter(c, "drop"), UnlistTopic(c)
  PROVE  Inv'
<1>1. /\ call[c].step = "unlist" /\ Write(c, next)
      /\ listed' = listed \ {t}
      /\ UNCHANGED <<partitionVars, record, stored, active, stats, truth, calls, faults>>
  BY DEF UnlistTopic, At, caches, counters
<1>2. /\ call \in [Calls -> Call] /\ t = call[c].topic /\ call[c].entity \in Topic
      /\ call[c].entity.count <= stored[t]
      /\ Counts(t)
  BY CallFacts
<1>3. /\ next \in Call /\ next.step = "drop" /\ next.topic = t
      /\ next.entity = call[c].entity
  BY <1>2, EnterType, StepNames
<1>4. /\ listed \in SUBSET Topics /\ active \in [Topics -> Topic]
      /\ \A u \in Topics \ {t} : u \in listed' <=> u \in listed
  BY <1>1 DEF Inv, TypeOK
<1>5. Shape(next) /\ Knows(next, record[t], listed', managed')
  BY <1>1, <1>3 DEF Shape, Knows
<1>6. ASSUME ~disturbed[t], ~call[c].touched
      PROVE  InMemory(t)' \/ Elsewhere(c, t, {"clean", "uncache"})
  <2>1. InMemory(t) \/ Elsewhere(c, t, {"clean", "uncache"})
    BY <1>1, <1>6, OwnFacts
  <2> QED BY <1>1, <2>1 DEF InMemory, Exists, partitionVars
<1>7. size' = size /\ managed' = managed
  BY <1>1 DEF partitionVars
<1>8. active'[t].count <= stored[t]
  BY <1>1, <1>2 DEF Counts
<1>9. ASSUME ~disturbed[t], ~call[c].touched
      PROVE  SameConfig(t)' \/ \E d \in Calls \ {c} : Late(call[d], t)
  <2>1. SameConfig(t) \/ \E d \in Calls \ {c} : Late(call[d], t)
    BY <1>1, <1>9, OwnFacts DEF Late
  <2> QED BY <1>1, <2>1 DEF SameConfig
<1> QED
  BY <1>1, <1>2, <1>3, <1>4, <1>5, <1>6, <1>7, <1>8, <1>9, RecordKept

\* The partitions of a deleted topic go (CleanupPartitions).
LEMMA CleanPartitionsKeepsInv ==
  ASSUME Inv, PartitionInv', NEW c \in Calls, NEW t \in Topics, t = TopicOf(c),
         NEW next, next = Enter(c, "uncache"), CleanPartitions(c)
  PROVE  Inv'
<1>1. /\ call[c].step = "clean" /\ Write(c, next)
      /\ managed' = managed \ {t}
      /\ size' = [size EXCEPT ![t] = 0]
      /\ UNCHANGED <<record, listed, stored, active, stats, truth, calls, faults>>
  BY DEF CleanPartitions, CleanupPartitions, Reset, At, redis, caches, counters
<1>2. /\ call \in [Calls -> Call] /\ t = call[c].topic /\ call[c].entity \in Topic
      /\ call[c].entity.count <= stored[t]
      /\ Knows(call[c], record[t], listed, managed)
      /\ Counts(t)
  BY CallFacts
<1>3. /\ next \in Call /\ next.step = "uncache" /\ next.topic = t
      /\ next.entity = call[c].entity /\ next.touched = call[c].touched
  BY <1>2, EnterType, StepNames
<1>4. /\ listed \in SUBSET Topics /\ active \in [Topics -> Topic]
      /\ size \in [Topics -> 0 .. MaxPartitions]
  BY DEF Inv, TypeOK, PartitionTypeOK
<1>5. Shape(next)
  BY <1>3 DEF Shape
<1>6. Knows(next, record[t], listed', managed')
  BY <1>1, <1>2, <1>3 DEF Knows
<1>7. \A u \in Topics \ {t} : size'[u] = size[u] /\ (u \in managed' <=> u \in managed)
  BY <1>1, <1>4
<1>8. ASSUME ~disturbed[t], ~call[c].touched
      PROVE  t \in listed' <=> record[t].partitions > 0
  BY <1>1, <1>2, <1>8 DEF Knows
<1>9. active'[t].count <= stored[t]
  BY <1>1, <1>2 DEF Counts
<1>10. Late(next, t)
  BY <1>3 DEF Late
<1> QED
  BY <1>1, <1>2, <1>3, <1>4, <1>5, <1>6, <1>7, <1>8, <1>9, <1>10, RecordKept

\* A deleted topic leaves the cache (the end of DeleteTopic).
LEMMA RemoveFromActiveTopicsKeepsInv ==
  ASSUME Inv, PartitionInv', NEW c \in Calls, NEW t \in Topics, t = TopicOf(c),
         RemoveFromActiveTopics(c)
  PROVE  Inv'
<1>1. /\ call[c].step = "uncache" /\ Write(c, NoCall)
      /\ active' = [active EXCEPT ![t] = NoTopic]
      /\ UNCHANGED <<partitionVars, record, listed, stored, stats, truth, calls, faults>>
  BY DEF RemoveFromActiveTopics, At, redis, counters
<1>2. /\ t = call[c].topic /\ stored[t] \in Nat
      /\ Knows(call[c], record[t], listed, managed)
  BY CallFacts
<1>3. listed \in SUBSET Topics /\ active \in [Topics -> Topic]
  BY DEF Inv, TypeOK
<1>4. /\ active' \in [Topics -> Topic] /\ active'[t] = NoTopic
      /\ \A u \in Topics \ {t} : active'[u] = active[u]
  BY <1>1, <1>3, NoCallType
<1>5. ASSUME ~disturbed[t], ~call[c].touched
      PROVE  /\ t \in listed' <=> record[t].partitions > 0
             /\ InMemory(t)'
  <2>1. record[t].partitions = 0 /\ t \notin listed /\ t \notin managed
    BY <1>1, <1>2, <1>5 DEF Knows
  <2> QED BY <1>1, <1>4, <2>1 DEF InMemory, Exists, partitionVars, NoTopic
<1>6. size' = size /\ managed' = managed
  BY <1>1 DEF partitionVars
<1>7. active'[t].count <= stored[t]
  BY <1>2, <1>4 DEF NoTopic
<1>8. SameConfig(t)'
  BY <1>4 DEF SameConfig, NoTopic
<1> QED BY <1>1, <1>3, <1>4, <1>5, <1>6, <1>7, <1>8, NoCallFacts, RecordKept
-----------------------------------------------------------------------------
\* A publisher overwrites the record with its copy (Publish, PublishBatch).
LEMMA SaveCountKeepsInv ==
  ASSUME Inv, PartitionInv', NEW c \in Calls, NEW t \in Topics, t = TopicOf(c),
         SaveCount(c)
  PROVE  Inv'
<1>1. /\ call[c].step = "save" /\ call[c].kind = "publish" /\ Write(c, NoCall)
      /\ record' = [record EXCEPT ![t] = call[c].entity]
      /\ UNCHANGED <<partitionVars, listed, stored, active, stats, truth, calls, faults>>
  BY DEF SaveCount, At, caches, counters
<1>2. /\ record \in [Topics -> Topic] /\ disturbed \in [Topics -> BOOLEAN]
  BY DEF Inv, TypeOK
<1>3. /\ call \in [Calls -> Call] /\ call[c] \in Call /\ t = call[c].topic
      /\ call[c].entity \in Topic /\ record[t] \in Topic
      /\ call[c].entity.count <= stored[t]
      /\ Knows(call[c], record[t], listed, managed)
      /\ Counts(t) /\ Counting(t)
  BY CallFacts
<1>4. call' \in [Calls -> Call] /\ disturbed' \in [Topics -> BOOLEAN]
  BY <1>1, <1>2, <1>3, NoCallFacts, WriteFacts
<1>5. /\ record' \in [Topics -> Topic] /\ record'[t] = call[c].entity
      /\ \A u \in Topics \ {t} : record'[u] = record[u]
  BY <1>1, <1>2, <1>3
<1>6. TypeOK'
  BY <1>1, <1>4, <1>5 DEF Inv, TypeOK, PartitionInv
<1>7. OthersAlone(t)
  BY <1>1, <1>5 DEF OthersAlone, partitionVars
<1>8. Informed(NoCall)
  BY <1>1, NoCallFacts DEF Informed
<1>9. Counts(t)'
  BY <1>1, <1>3, <1>5 DEF Counts
<1>10. ASSUME ~disturbed[t], ~call[c].touched
       PROVE  /\ \/ t \in listed' <=> record'[t].partitions > 0
                 \/ Elsewhere(c, t, {"list", "drop"})
              /\ InMemory(t)' \/ Elsewhere(c, t, {"clean", "uncache"})
              /\ record'[t] = truth'[t] \/ \E d \in Calls \ {c} : Saving(d, t)
  <2>1. call[c].entity = [record[t] EXCEPT !.count = @ + call[c].size]
    BY <1>1, <1>3, <1>10 DEF Knows
  <2>2. /\ record'[t].partitions = record[t].partitions
        /\ \A n \in Nat : n <= record[t].count => n <= record'[t].count
    <3>1. /\ record[t].count \in Nat /\ call[c].size \in Nat
          /\ record'[t].count = record[t].count + call[c].size
      BY <1>3, <1>5, <2>1 DEF Topic, Call
    <3> QED BY <1>3, <1>5, <2>1, <3>1 DEF Topic
  <2>3. /\ \/ t \in listed <=> record[t].partitions > 0
           \/ Elsewhere(c, t, {"list", "drop"})
        /\ InMemory(t) \/ Elsewhere(c, t, {"clean", "uncache"})
    BY <1>1, <1>10, OwnFacts
  <2>4. ASSUME \A d \in Calls \ {c} : ~Saving(d, t)
        PROVE  truth[t] = call[c].entity
    BY <1>1, <1>3, <1>10, <2>4 DEF Counting, Saving
  <2>5. active[t].count \in Nat
    BY DEF Inv, TypeOK, Topic
  <2>6. InMemory(t) => InMemory(t)'
    BY <1>1, <2>2, <2>5 DEF InMemory, Exists, partitionVars
  <2> QED BY <1>1, <1>5, <2>2, <2>3, <2>4, <2>6
<1>11. ASSUME ~disturbed[t], ~call[c].touched
       PROVE  SameConfig(t)' \/ \E d \in Calls \ {c} : Late(call[d], t)
  <2>1. call[c].entity = [record[t] EXCEPT !.count = @ + call[c].size]
    BY <1>1, <1>3, <1>11 DEF Knows
  <2>2. record'[t].config = record[t].config
    BY <1>3, <1>5, <2>1 DEF Topic
  <2>3. SameConfig(t) \/ \E d \in Calls \ {c} : Late(call[d], t)
    BY <1>1, <1>11, OwnFacts DEF Late
  <2> QED BY <1>1, <2>2, <2>3 DEF SameConfig
<1> QED
  BY <1>1, <1>3, <1>6, <1>7, <1>8, <1>9, <1>10, <1>11, NoCallFacts, WriteStep

\* A configuration overwrites the record with the copy it is in (UpdateTopic).
LEMMA SaveUpdateKeepsInv ==
  ASSUME Inv, PartitionInv', NEW c \in Calls, NEW t \in Topics, t = TopicOf(c),
         NEW next, next = Enter(c, "cache"), SaveUpdate(c)
  PROVE  Inv'
<1>1. /\ call[c].step = "save" /\ call[c].kind = "update" /\ Write(c, next)
      /\ record' = [record EXCEPT ![t] = call[c].entity]
      /\ truth' = [truth EXCEPT ![t].config = call[c].entity.config]
      /\ UNCHANGED <<partitionVars, listed, stored, active, stats, calls, faults>>
  BY DEF SaveUpdate, At, caches, counters
<1>2. /\ record \in [Topics -> Topic] /\ disturbed \in [Topics -> BOOLEAN]
      /\ truth \in [Topics -> Topic]
  BY DEF Inv, TypeOK
<1>3. /\ call \in [Calls -> Call] /\ call[c] \in Call /\ t = call[c].topic
      /\ call[c].entity \in Topic /\ record[t] \in Topic /\ truth[t] \in Topic
      /\ Shape(call[c])
      /\ call[c].entity.count <= stored[t]
      /\ Knows(call[c], record[t], listed, managed)
      /\ Counts(t)
  BY <1>2, CallFacts
<1>4. /\ next \in Call /\ next.step = "cache" /\ next.kind = call[c].kind
      /\ next.topic = t /\ next.entity = call[c].entity /\ next.touched = call[c].touched
  BY <1>3, EnterType, StepNames
<1>5. call' \in [Calls -> Call] /\ disturbed' \in [Topics -> BOOLEAN]
  BY <1>1, <1>2, <1>3, <1>4, WriteFacts
<1>6. /\ record' \in [Topics -> Topic] /\ record'[t] = call[c].entity
      /\ \A u \in Topics \ {t} : record'[u] = record[u]
  BY <1>1, <1>2, <1>3
<1>7. /\ truth' \in [Topics -> Topic]
      /\ truth'[t] = [truth[t] EXCEPT !.config = call[c].entity.config]
      /\ \A u \in Topics \ {t} : truth'[u] = truth[u]
  <2>1. call[c].entity.config \in Configs \cup {NewConfig}
    BY <1>3 DEF Topic
  <2>2. [truth[t] EXCEPT !.config = call[c].entity.config] \in Topic
    BY <1>3, <2>1 DEF Topic
  <2> QED BY <1>1, <1>2, <2>2
<1>8. TypeOK'
  BY <1>1, <1>5, <1>6, <1>7 DEF Inv, TypeOK, PartitionInv
<1>9. OthersAlone(t)
  BY <1>1, <1>6, <1>7 DEF OthersAlone, partitionVars
<1>10. Informed(next)
  <2>1. Shape(next)
    BY <1>1, <1>3, <1>4 DEF Shape
  <2>2. Knows(next, record'[t], listed', managed')
    BY <1>1, <1>4, <1>6 DEF Knows
  <2> QED BY <1>1, <1>3, <1>4, <2>1, <2>2 DEF Informed
<1>11. Counts(t)'
  BY <1>1, <1>3, <1>6 DEF Counts
<1>12. ASSUME ~disturbed[t], ~call[c].touched
       PROVE  /\ \/ t \in listed' <=> record'[t].partitions > 0
                 \/ Elsewhere(c, t, {"list", "drop"})
              /\ InMemory(t)' \/ Elsewhere(c, t, {"clean", "uncache"})
              /\ record'[t] = truth'[t] \/ \E d \in Calls \ {c} : Saving(d, t)
  <2>1. call[c].entity = [record[t] EXCEPT !.config = call[c].entity.config]
    BY <1>1, <1>3, <1>12 DEF Knows
  <2>2. record'[t].partitions = record[t].partitions /\ record'[t].count = record[t].count
    BY <1>3, <1>6, <2>1 DEF Topic
  <2>3. /\ \/ t \in listed <=> record[t].partitions > 0
           \/ Elsewhere(c, t, {"list", "drop"})
        /\ InMemory(t) \/ Elsewhere(c, t, {"clean", "uncache"})
        /\ record[t] = truth[t] \/ \E d \in Calls \ {c} : Saving(d, t)
    BY <1>1, <1>12, OwnFacts DEF Saving
  <2>4. record[t] = truth[t] => record'[t] = truth'[t]
    BY <1>6, <1>7, <2>1
  <2> QED
    BY <1>1, <1>6, <2>2, <2>3, <2>4 DEF InMemory, Exists, partitionVars
<1>13. Late(next, t)
  BY <1>1, <1>4 DEF Late
<1> QED
  BY <1>1, <1>3, <1>4, <1>8, <1>9, <1>10, <1>11, <1>12, <1>13, WriteStep

\* The record of a deleted topic goes (the repository's Delete).
LEMMA DropRecordKeepsInv ==
  ASSUME Inv, PartitionInv', NEW c \in Calls, NEW t \in Topics, t = TopicOf(c),
         NEW next, next = Enter(c, "clean"), DropRecord(c)
  PROVE  Inv'
<1>1. /\ call[c].step = "drop" /\ Write(c, next)
      /\ record' = [record EXCEPT ![t] = NoTopic]
      /\ truth' = [truth EXCEPT ![t] = NoTopic]
      /\ UNCHANGED <<partitionVars, listed, stored, active, stats, calls, faults>>
  BY DEF DropRecord, At, caches, counters
<1>2. /\ record \in [Topics -> Topic] /\ truth \in [Topics -> Topic]
      /\ disturbed \in [Topics -> BOOLEAN]
  BY DEF Inv, TypeOK
<1>3. /\ call \in [Calls -> Call] /\ call[c] \in Call /\ t = call[c].topic
      /\ call[c].entity \in Topic
      /\ stored[t] \in Nat
      /\ call[c].entity.count <= stored[t]
      /\ Knows(call[c], record[t], listed, managed)
      /\ Counts(t)
  BY CallFacts
<1>4. /\ next \in Call /\ next.step = "clean"
      /\ next.topic = t /\ next.entity = call[c].entity /\ next.touched = call[c].touched
  BY <1>3, EnterType, StepNames
<1>5. call' \in [Calls -> Call] /\ disturbed' \in [Topics -> BOOLEAN]
  BY <1>1, <1>2, <1>3, <1>4, WriteFacts
<1>6. /\ record' \in [Topics -> Topic] /\ truth' \in [Topics -> Topic]
      /\ record'[t] = NoTopic /\ truth'[t] = NoTopic
      /\ \A u \in Topics \ {t} : record'[u] = record[u] /\ truth'[u] = truth[u]
  BY <1>1, <1>2, NoCallType
<1>7. TypeOK'
  BY <1>1, <1>5, <1>6 DEF Inv, TypeOK, PartitionInv
<1>8. OthersAlone(t)
  BY <1>1, <1>6 DEF OthersAlone, partitionVars
<1>9. Informed(next)
  <2>1. Shape(next)
    BY <1>4 DEF Shape
  <2>2. Knows(next, record'[t], listed', managed')
    BY <1>1, <1>3, <1>4, <1>6 DEF Knows, NoTopic
  <2> QED BY <1>1, <1>3, <1>4, <2>1, <2>2 DEF Informed
<1>10. Counts(t)'
  BY <1>1, <1>3, <1>6 DEF Counts, NoTopic
<1>11. ASSUME ~disturbed[t], ~call[c].touched
       PROVE  t \in listed' <=> record'[t].partitions > 0
  <2>1. t \notin listed
    BY <1>1, <1>3, <1>11 DEF Knows
  <2> QED BY <1>1, <1>6, <2>1 DEF NoTopic
<1>12. Late(next, t)
  BY <1>4 DEF Late
<1> QED
  BY <1>1, <1>3, <1>4, <1>6, <1>7, <1>8, <1>9, <1>10, <1>11, <1>12, WriteStep
-----------------------------------------------------------------------------
\* The messages of a publisher are stored, their number is added to its copy.
LEMMA StoreMessagesKeepsInv ==
  ASSUME Inv, PartitionInv', NEW c \in Calls, NEW t \in Topics, t = TopicOf(c),
         NEW n \in Nat, n = call[c].size,
         NEW next, next = [Enter(c, "save") EXCEPT !.entity.count = @ + n],
         StoreMessages(c)
  PROVE  Inv'
<1>1. /\ call[c].step = "store" /\ Quietly(c, next)
      /\ stored' = [stored EXCEPT ![t] = @ + n]
      /\ truth' = [truth EXCEPT ![t].count = @ + n]
      /\ UNCHANGED <<partitionVars, record, listed, active, stats, calls, faults>>
  BY DEF StoreMessages, At, caches, counters
<1>2. /\ stored \in [Topics -> Nat] /\ truth \in [Topics -> Topic]
      /\ \A u \in Topics : stored[u] \in Nat
  BY DEF Inv, TypeOK
<1>3. /\ call \in [Calls -> Call] /\ call[c] \in Call /\ t = call[c].topic
      /\ call[c].entity \in Topic /\ call[c].entity.count \in Nat
      /\ record[t] \in Topic /\ truth[t] \in Topic
      /\ Shape(call[c])
      /\ call[c].entity.count <= stored[t]
      /\ Knows(call[c], record[t], listed, managed)
  BY <1>2, CallFacts
<1>4. /\ next \in Call /\ next.step = "save" /\ next.kind = call[c].kind
      /\ next.topic = t /\ next.touched = call[c].touched /\ next.size = n
      /\ next.entity = [call[c].entity EXCEPT !.count = @ + n]
  <2>1. [call[c].entity EXCEPT !.count = @ + n] \in Topic
    BY <1>3 DEF Topic
  <2>2. /\ Enter(c, "save") \in Call /\ Enter(c, "save").step = "save"
        /\ Enter(c, "save").kind = call[c].kind
        /\ Enter(c, "save").topic = t /\ Enter(c, "save").entity = call[c].entity
        /\ Enter(c, "save").touched = call[c].touched /\ Enter(c, "save").size = n
    BY <1>3, EnterType, StepNames
  <2> QED BY <2>1, <2>2 DEF Call
<1>5. /\ call' \in [Calls -> Call] /\ call'[c] = next
      /\ \A d \in Calls \ {c} : call'[d] = call[d]
      /\ disturbed' = disturbed
  BY <1>1, <1>3, <1>4 DEF Quietly
<1>6. /\ stored' \in [Topics -> Nat] /\ stored'[t] = stored[t] + n
      /\ \A u \in Topics \ {t} : stored'[u] = stored[u]
  BY <1>1, <1>2
<1>7. \A u \in Topics : stored[u] <= stored'[u]
  BY <1>2, <1>6
<1>8. /\ truth' \in [Topics -> Topic]
      /\ truth'[t] = [truth[t] EXCEPT !.count = @ + n]
      /\ \A u \in Topics \ {t} : truth'[u] = truth[u]
  <2>1. [truth[t] EXCEPT !.count = @ + n] \in Topic
    BY <1>3 DEF Topic
  <2> QED BY <1>1, <1>2, <2>1
<1>9. TypeOK'
  BY <1>1, <1>5, <1>6, <1>8 DEF Inv, TypeOK, PartitionInv
<1>10. ASSUME NEW d \in Calls
       PROVE  /\ Shape(call'[d])
              /\ call'[d].entity.count <= stored'[call'[d].topic]
              /\ Knows(call'[d], record'[call'[d].topic], listed', managed')
  <2>1. CASE d = c
    <3>1. Shape(next)
      BY <1>1, <1>3, <1>4 DEF Shape, Topic
    <3>2. next.entity.count <= stored'[t]
      <4>1. next.entity.count = call[c].entity.count + n
        BY <1>3, <1>4 DEF Topic
      <4> QED BY <1>2, <1>3, <1>6, <4>1
    <3>3. Knows(next, record[t], listed, managed)
      <4>1. ASSUME ~call[c].touched
            PROVE  next.entity = [record[t] EXCEPT !.count = @ + next.size]
        <5>1. record[t] = call[c].entity
          BY <1>1, <1>3, <4>1 DEF Knows
        <5> QED BY <1>4, <5>1
      <4>2. next.kind = "publish"
        BY <1>1, <1>3, <1>4 DEF Shape
      <4> QED BY <1>4, <4>1, <4>2 DEF Knows
    <3>4. record' = record /\ listed' = listed /\ managed' = managed
      BY <1>1 DEF partitionVars
    <3> QED BY <1>4, <1>5, <2>1, <3>1, <3>2, <3>3, <3>4
  <2>2. CASE d # c
    <3>1. /\ Shape(call[d])
          /\ call[d].entity.count <= stored[call[d].topic]
          /\ Knows(call[d], record[call[d].topic], listed, managed)
      BY DEF Inv, CallInv
    <3>2. call[d].topic \in Topics /\ call[d].entity.count \in Nat
      BY <1>3, CallFacts DEF TopicOf
    <3>3. call[d].entity.count <= stored'[call[d].topic]
      BY <1>2, <1>6, <1>7, <3>1, <3>2
    <3>4. record' = record /\ listed' = listed /\ managed' = managed
      BY <1>1 DEF partitionVars
    <3> QED BY <1>5, <2>2, <3>1, <3>3, <3>4
  <2> QED BY <2>1, <2>2
<1>11. ASSUME NEW u \in Topics
       PROVE  Counts(u)' /\ Listing(u)' /\ Memory(u)' /\ Caching(u)'
  <2>1. Counts(u) /\ Listing(u) /\ Memory(u) /\ Caching(u)
    BY DEF Inv
  <2>2. Counts(u)'
    <3>1. /\ record[u].count \in Nat /\ active[u].count \in Nat
          /\ stats[u] \in Nat \cup {NotCached} /\ stored'[u] \in Nat /\ stored[u] \in Nat
      BY <1>2, <1>6 DEF Inv, TypeOK, Topic
    <3> QED BY <1>1, <1>7, <2>1, <3>1 DEF Counts, NotCached
  <2>3. \A S \in {{"list", "drop"}, {"clean", "uncache"}} : Someone(u, S) => Someone(u, S)'
    BY <1>1, <1>5 DEF Someone
  <2>4. Listing(u)'
    BY <1>1, <1>5, <2>1, <2>3 DEF Listing, Exists
  <2>5. Memory(u)'
    BY <1>1, <1>5, <2>1, <2>3 DEF Memory, InMemory, Exists, partitionVars
  <2>6. \A d \in Calls : Late(call[d], u) => Late(call'[d], u)
    BY <1>1, <1>5 DEF Late
  <2>7. Caching(u)'
    BY <1>1, <1>5, <2>1, <2>6 DEF Caching, SameConfig
  <2> QED BY <2>2, <2>4, <2>5, <2>7
<1>12. ASSUME NEW u \in Topics \ {t}
       PROVE  Counting(u)'
  <2>1. Counting(u)
    BY DEF Inv
  <2>2. ASSUME NEW d \in Calls
        PROVE  /\ Saving(d, u)' <=> Saving(d, u)
               /\ Saving(d, u) => call'[d] = call[d]
    <3>1. CASE d = c
      BY <1>3, <1>4, <1>5, <3>1 DEF Saving
    <3>2. CASE d # c
      BY <1>5, <3>2 DEF Saving
    <3> QED BY <3>1, <3>2
  <2> QED BY <1>1, <1>5, <1>8, <2>1, <2>2 DEF Counting
<1>13. Counting(t)'
  <2>1. Saving(c, t)'
    BY <1>1, <1>3, <1>4, <1>5 DEF Saving, Shape
  <2>2. ASSUME ~disturbed[t], ~next.touched, \A d \in Calls \ {c} : ~Saving(d, t)'
        PROVE  truth'[t] = next.entity
    <3>1. \A d \in Calls : ~Saving(d, t)
      BY <1>1, <1>5, <2>2 DEF Saving
    <3>2. record[t] = truth[t]
      BY <2>2, <3>1 DEF Inv, Counting
    <3>3. record[t] = call[c].entity
      BY <1>1, <1>3, <1>4, <2>2 DEF Knows
    <3> QED BY <1>4, <1>8, <3>2, <3>3
  <2> QED BY <1>5, <2>1, <2>2 DEF Counting
<1> QED BY <1>9, <1>10, <1>11, <1>12, <1>13 DEF Inv, CallInv
-----------------------------------------------------------------------------
\* The bounds of the statistics and the counters, when they stay as they are.
LEMMA Unchanging ==
  ASSUME Inv
  PROVE  /\ calls \in Nat /\ faults \in Nat
         /\ stats \in [Topics -> Nat \cup {NotCached}]
         /\ \A u \in Topics : stats[u] <= stored[u]
  BY DEF Inv, TypeOK, Counts

\* The publisher looks whether the topic it creates exists (CreateTopic).
LEMMA CheckMissingKeepsInv ==
  ASSUME Inv, PartitionInv', NEW c \in Calls, NEW t \in Topics, t = TopicOf(c),
         CheckMissing(c)
  PROVE  Inv'
<1>1. /\ call[c].step = "exists"
      /\ UNCHANGED <<managed, size, record, listed, stored, active, stats, truth, calls, faults>>
  BY DEF CheckMissing, At, partitionVars, redis, caches, counters
<1>2. /\ call \in [Calls -> Call] /\ t = call[c].topic /\ Shape(call[c])
      /\ record[t] \in Topic /\ stored[t] \in Nat
  BY CallFacts
<1>3. CASE Exists(t)
  <2>1. Quietly(c, NoCall)
    BY <1>3 DEF CheckMissing
  <2> QED BY <1>1, <2>1, NoCallFacts, Unchanging, QuietStep
<1>4. CASE ~Exists(t)
  <2>1. PICK next : next = [Enter(c, "set") EXCEPT !.entity = NewTopic(DefaultPartitions),
                                                   !.touched = FALSE]
    OBVIOUS
  <2>2. Quietly(c, next)
    BY <1>4, <2>1 DEF CheckMissing
  <2>3. /\ NewTopic(DefaultPartitions) \in Topic
        /\ NewTopic(DefaultPartitions).partitions > 0
        /\ NewTopic(DefaultPartitions).count = 0
    BY CatalogAssumption, PartitionAssumption DEF NewTopic, Topic
  <2>4. /\ next \in Call /\ next.step = "set" /\ next.kind = "publish" /\ next.topic = t
        /\ next.entity = NewTopic(DefaultPartitions)
    <3>1. /\ Enter(c, "set") \in Call /\ Enter(c, "set").step = "set"
          /\ Enter(c, "set").kind = call[c].kind /\ Enter(c, "set").topic = t
      BY <1>2, <2>3, EnterType, StepNames
    <3>2. call[c].kind = "publish"
      BY <1>1, <1>2 DEF Shape
    <3> QED BY <2>1, <2>3, <3>1, <3>2 DEF Call
  <2>5. record[t].partitions = 0
    BY <1>2, <1>4, PartitionAssumption DEF Exists, Topic
  <2>6. /\ Shape(next)
        /\ next.entity.count <= stored[next.topic]
        /\ Knows(next, record[next.topic], listed, managed)
    BY <1>2, <2>3, <2>4, <2>5 DEF Shape, Knows
  <2> QED BY <1>1, <2>2, <2>4, <2>6, Unchanging, QuietStep
<1> QED BY <1>3, <1>4

\* The publisher reads the topic it has created (ensureTopicExists).
LEMMA GetAgainKeepsInv ==
  ASSUME Inv, PartitionInv', NEW c \in Calls, NEW t \in Topics, t = TopicOf(c),
         GetAgain(c)
  PROVE  Inv'
<1>1. /\ call[c].step = "reget"
      /\ UNCHANGED <<managed, size, record, listed, stored, active, stats, truth, calls, faults>>
  BY DEF GetAgain, At, partitionVars, redis, caches, counters
<1>2. /\ call \in [Calls -> Call] /\ t = call[c].topic /\ Shape(call[c])
      /\ record[t] \in Topic /\ stored[t] \in Nat /\ Counts(t)
  BY CallFacts
<1>3. CASE ~(Exists(t) /\ call[c].size > 0)
  <2>1. Quietly(c, NoCall)
    BY <1>3 DEF GetAgain
  <2> QED BY <1>1, <2>1, NoCallFacts, Unchanging, QuietStep
<1>4. CASE Exists(t) /\ call[c].size > 0
  <2>1. PICK next : next = [Enter(c, "store") EXCEPT !.entity = record[t], !.touched = FALSE]
    OBVIOUS
  <2>2. Quietly(c, next)
    BY <1>4, <2>1 DEF GetAgain
  <2>3. /\ next \in Call /\ next.step = "store" /\ next.kind = "publish" /\ next.topic = t
        /\ next.entity = record[t]
    <3>1. /\ Enter(c, "store") \in Call /\ Enter(c, "store").step = "store"
          /\ Enter(c, "store").kind = call[c].kind /\ Enter(c, "store").topic = t
      BY <1>2, EnterType, StepNames
    <3>2. call[c].kind = "publish"
      BY <1>1, <1>2 DEF Shape
    <3> QED BY <1>2, <2>1, <3>1, <3>2 DEF Call
  <2>4. /\ Shape(next)
        /\ next.entity.count <= stored[next.topic]
        /\ Knows(next, record[next.topic], listed, managed)
    BY <1>2, <1>4, <2>3 DEF Shape, Knows, Counts, Exists
  <2> QED BY <1>1, <2>2, <2>3, <2>4, Unchanging, QuietStep
<1> QED BY <1>3, <1>4

\* The statistics read the topic (GetTopicStats).
LEMMA ReadTopicKeepsInv ==
  ASSUME Inv, PartitionInv', NEW c \in Calls, NEW t \in Topics, t = TopicOf(c),
         ReadTopic(c)
  PROVE  Inv'
<1>1. /\ call[c].step = "read"
      /\ UNCHANGED <<managed, size, record, listed, stored, active, stats, truth, calls, faults>>
  BY DEF ReadTopic, At, partitionVars, redis, caches, counters
<1>2. /\ call \in [Calls -> Call] /\ t = call[c].topic
      /\ record[t] \in Topic /\ stored[t] \in Nat /\ Counts(t)
  BY CallFacts
<1>3. CASE ~Exists(t)
  <2>1. Quietly(c, NoCall)
    BY <1>3 DEF ReadTopic
  <2> QED BY <1>1, <2>1, NoCallFacts, Unchanging, QuietStep
<1>4. CASE Exists(t)
  <2>1. PICK next : next = [Enter(c, "collect") EXCEPT !.entity = record[t]]
    OBVIOUS
  <2>2. Quietly(c, next)
    BY <1>4, <2>1 DEF ReadTopic
  <2>3. /\ next \in Call /\ next.step = "collect" /\ next.topic = t
        /\ next.entity = record[t]
    <3>1. /\ Enter(c, "collect") \in Call /\ Enter(c, "collect").step = "collect"
          /\ Enter(c, "collect").topic = t
      BY <1>2, EnterType, StepNames
    <3> QED BY <1>2, <2>1, <3>1 DEF Call
  <2>4. /\ Shape(next)
        /\ next.entity.count <= stored[next.topic]
        /\ Knows(next, record[next.topic], listed, managed)
    BY <1>2, <2>3 DEF Shape, Knows, Counts
  <2> QED BY <1>1, <2>2, <2>3, <2>4, Unchanging, QuietStep
<1> QED BY <1>3, <1>4

\* The statistics are cached (CollectTopicStats).
LEMMA CollectTopicStatsKeepsInv ==
  ASSUME Inv, PartitionInv', NEW c \in Calls, NEW t \in Topics, t = TopicOf(c),
         CollectTopicStats(c)
  PROVE  Inv'
<1>1. /\ call[c].step = "collect" /\ Quietly(c, NoCall)
      /\ stats' = [stats EXCEPT ![t] = call[c].entity.count]
      /\ UNCHANGED <<managed, size, record, listed, stored, active, truth, calls, faults>>
  BY DEF CollectTopicStats, At, partitionVars, redis, counters
<1>2. /\ call[c].entity.count \in Nat /\ call[c].entity.count <= stored[t]
  BY CallFacts
<1>3. /\ stats' \in [Topics -> Nat \cup {NotCached}]
      /\ \A u \in Topics : stats'[u] <= stored[u]
  BY <1>1, <1>2, Unchanging
<1> QED BY <1>1, <1>3, NoCallFacts, Unchanging, QuietStep
-----------------------------------------------------------------------------
\* A request begins (what a call asks for is typed and known).
LEMMA RequestStep ==
  ASSUME Inv, PartitionInv', NEW c \in Calls, NEW next \in Call, Request(c, next),
         ~(next.step = "save" /\ next.kind = "publish"),
         Shape(next), next.entity.count <= stored[next.topic],
         Knows(next, record[next.topic], listed, managed)
  PROVE  Inv'
<1>1. /\ call[c].step = "idle" /\ Quietly(c, next) /\ calls' = calls + 1
      /\ UNCHANGED <<managed, size, record, listed, stored, active, stats, truth, faults>>
  BY DEF Request, At, partitionVars, redis, caches
<1>2. calls' \in Nat
  BY <1>1, Unchanging
<1> QED BY <1>1, <1>2, Unchanging, QuietStep

\* A publisher looks for its topic (ensureTopicExists).
LEMMA EnsureTopicExistsKeepsInv ==
  ASSUME Inv, PartitionInv', NEW c \in Calls, NEW t \in Topics, NEW n \in Nat,
         EnsureTopicExists(c, t, n)
  PROVE  Inv'
<1>1. record[t] \in Topic /\ stored[t] \in Nat /\ Counts(t)
  BY DEF Inv, TypeOK
<1>2. CASE Exists(t) /\ Request(c, [Asked("publish", t, "store") EXCEPT
                                      !.size = n, !.entity = record[t]])
  <2>1. PICK k : k = [Asked("publish", t, "store") EXCEPT !.size = n, !.entity = record[t]]
    OBVIOUS
  <2>2. /\ k \in Call /\ k.step = "store" /\ k.kind = "publish" /\ k.topic = t
        /\ k.entity = record[t]
    <3>1. PICK a : a = Asked("publish", t, "store")
      OBVIOUS
    <3>2. a \in Call /\ a.step = "store" /\ a.kind = "publish" /\ a.topic = t
      BY <3>1, NoCallType DEF Asked, NoCall, Call, Steps
    <3> QED BY <1>1, <2>1, <3>1, <3>2 DEF Call
  <2>3. /\ Shape(k) /\ k.entity.count <= stored[k.topic]
        /\ Knows(k, record[k.topic], listed, managed)
    BY <1>1, <1>2, <2>2 DEF Shape, Knows, Counts, Exists
  <2> QED BY <1>2, <2>1, <2>2, <2>3, RequestStep
<1>3. CASE ~Exists(t) /\ Request(c, [Asked("publish", t, "exists") EXCEPT !.size = n])
  <2>1. PICK k : k = [Asked("publish", t, "exists") EXCEPT !.size = n]
    OBVIOUS
  <2>2. /\ k \in Call /\ k.step = "exists" /\ k.kind = "publish" /\ k.topic = t
        /\ k.entity = NoTopic
    <3>1. PICK a : a = Asked("publish", t, "exists")
      OBVIOUS
    <3>2. /\ a \in Call /\ a.step = "exists" /\ a.kind = "publish" /\ a.topic = t
          /\ a.entity = NoTopic
      BY <3>1, NoCallType DEF Asked, NoCall, Call, Steps
    <3> QED BY <2>1, <3>1, <3>2 DEF Call
  <2>3. record[t].partitions = 0
    BY <1>1, <1>3, PartitionAssumption DEF Exists, Topic
  <2>4. /\ Shape(k) /\ k.entity.count <= stored[k.topic]
        /\ Knows(k, record[k.topic], listed, managed)
    BY <1>1, <2>2, <2>3 DEF Shape, Knows, NoTopic
  <2> QED BY <1>3, <2>1, <2>2, <2>4, RequestStep
<1> QED BY <1>2, <1>3 DEF EnsureTopicExists

\* A topic is created, if it is not there (CreateTopic).
LEMMA CreateTopicKeepsInv ==
  ASSUME Inv, PartitionInv', NEW c \in Calls, NEW t \in Topics,
         NEW n \in PartitionCounts, CreateTopic(c, t, n)
  PROVE  Inv'
<1>1. record[t] \in Topic /\ stored[t] \in Nat /\ ~Exists(t)
  BY DEF Inv, TypeOK, CreateTopic
<1>2. PICK k : k = [Asked("create", t, "set") EXCEPT !.entity = NewTopic(n)]
  OBVIOUS
<1>3. /\ NewTopic(n) \in Topic /\ NewTopic(n).partitions > 0 /\ NewTopic(n).count = 0
  BY CatalogAssumption, PartitionAssumption DEF NewTopic, Topic
<1>4. /\ k \in Call /\ k.step = "set" /\ k.kind = "create" /\ k.topic = t
      /\ k.entity = NewTopic(n)
  <2>1. PICK a : a = Asked("create", t, "set")
    OBVIOUS
  <2>2. a \in Call /\ a.step = "set" /\ a.kind = "create" /\ a.topic = t
    BY <2>1, NoCallType DEF Asked, NoCall, Call, Steps
  <2> QED BY <1>2, <1>3, <2>1, <2>2 DEF Call
<1>5. record[t].partitions = 0
  BY <1>1, PartitionAssumption DEF Exists, Topic
<1>6. /\ Shape(k) /\ k.entity.count <= stored[k.topic]
      /\ Knows(k, record[k.topic], listed, managed)
  BY <1>1, <1>3, <1>4, <1>5 DEF Shape, Knows
<1>7. Request(c, k)
  BY <1>2 DEF CreateTopic
<1> QED BY <1>4, <1>6, <1>7, RequestStep

\* A topic is read and given its configuration (UpdateTopic).
LEMMA UpdateTopicKeepsInv ==
  ASSUME Inv, PartitionInv', NEW c \in Calls, NEW t \in Topics, NEW v \in Configs,
         UpdateTopic(c, t, v)
  PROVE  Inv'
<1>1. record[t] \in Topic /\ stored[t] \in Nat /\ Exists(t) /\ Counts(t)
  BY DEF Inv, TypeOK, UpdateTopic
<1>2. PICK e : e = [record[t] EXCEPT !.config = v]
  OBVIOUS
<1>3. /\ e \in Topic /\ e.partitions = record[t].partitions /\ e.count = record[t].count
      /\ e.config = v
  BY <1>1, <1>2 DEF Topic
<1>4. PICK k : k = [Asked("update", t, "save") EXCEPT !.entity = e]
  OBVIOUS
<1>5. /\ k \in Call /\ k.step = "save" /\ k.kind = "update" /\ k.topic = t /\ k.entity = e
  <2>1. PICK a : a = Asked("update", t, "save")
    OBVIOUS
  <2>2. a \in Call /\ a.step = "save" /\ a.kind = "update" /\ a.topic = t
    BY <2>1, NoCallType DEF Asked, NoCall, Call, Steps
  <2> QED BY <1>3, <1>4, <2>1, <2>2 DEF Call
<1>6. Shape(k) /\ k.entity.count <= stored[k.topic]
  BY <1>1, <1>3, <1>5 DEF Shape, Exists, Counts
<1>7. Knows(k, record[k.topic], listed, managed)
  BY <1>2, <1>3, <1>5 DEF Knows
<1>8. Request(c, k)
  BY <1>2, <1>4 DEF UpdateTopic
<1> QED BY <1>5, <1>6, <1>7, <1>8, RequestStep

\* A topic is to be deleted (DeleteTopic), or its statistics are asked for
\* (GetTopicStats).
LEMMA OtherRequestsKeepInv ==
  ASSUME Inv, PartitionInv', NEW c \in Calls, NEW t \in Topics,
         DeleteTopic(c, t) \/ GetTopicStats(c, t)
  PROVE  Inv'
<1>1. stored[t] \in Nat
  BY DEF Inv, TypeOK
<1>2. PICK a : a = Asked("delete", t, "unlist")
  OBVIOUS
<1>3. /\ a \in Call /\ a.step = "unlist" /\ a.kind = "delete" /\ a.topic = t
      /\ a.entity = NoTopic
  BY <1>2, NoCallType DEF Asked, NoCall, Call, Steps
<1>4. PICK b : b = Asked("stats", t, "read")
  OBVIOUS
<1>5. /\ b \in Call /\ b.step = "read" /\ b.kind = "stats" /\ b.topic = t
      /\ b.entity = NoTopic
  BY <1>4, NoCallType DEF Asked, NoCall, Call, Steps
<1>6. ASSUME NEW k \in {a, b}
      PROVE  /\ k \in Call
             /\ ~(k.step = "save" /\ k.kind = "publish")
             /\ Shape(k) /\ k.entity.count <= stored[k.topic]
             /\ Knows(k, record[k.topic], listed, managed)
  BY <1>1, <1>3, <1>5 DEF Shape, Knows, NoTopic
<1>7. Request(c, a) \/ Request(c, b)
  BY <1>2, <1>4 DEF DeleteTopic, GetTopicStats
<1> QED BY <1>6, <1>7, RequestStep

\* Reading the topic fails (ensureTopicExists).
LEMMA GetFailsKeepsInv ==
  ASSUME Inv, PartitionInv', NEW c \in Calls, NEW t \in Topics, NEW n \in Nat,
         GetFails(c, t, n)
  PROVE  Inv'
<1>1. stored[t] \in Nat
  BY DEF Inv, TypeOK
<1>2. PICK k : k = [Asked("publish", t, "exists") EXCEPT !.size = n, !.touched = TRUE]
  OBVIOUS
<1>3. /\ k \in Call /\ k.step = "exists" /\ k.kind = "publish" /\ k.topic = t
      /\ k.entity = NoTopic /\ k.touched = TRUE
  <2>1. PICK a : a = Asked("publish", t, "exists")
    OBVIOUS
  <2>2. /\ a \in Call /\ a.step = "exists" /\ a.kind = "publish" /\ a.topic = t
        /\ a.entity = NoTopic
    BY <2>1, NoCallType DEF Asked, NoCall, Call, Steps
  <2> QED BY <1>2, <2>1, <2>2 DEF Call
<1>4. /\ call[c].step = "idle" /\ Quietly(c, k) /\ faults' = faults + 1
      /\ UNCHANGED <<managed, size, record, listed, stored, active, stats, truth, calls>>
  BY <1>2 DEF GetFails, Fault, At, partitionVars, redis, caches
<1>5. faults' \in Nat
  BY <1>4, Unchanging
<1>6. /\ Shape(k) /\ k.entity.count <= stored[k.topic]
      /\ Knows(k, record[k.topic], listed, managed)
  BY <1>1, <1>3 DEF Shape, Knows, NoTopic
<1> QED BY <1>3, <1>4, <1>5, <1>6, Unchanging, QuietStep
-----------------------------------------------------------------------------
\* Nobody calls: a cache forgets or copies what it holds, consumers come and go.
LEMMA WorkersKeepInv ==
  ASSUME Inv, PartitionInv', NEW t \in Topics,
         UNCHANGED <<managed, size, redis, call, truth, disturbed, counters>>,
         \/ active' = active
         \/ active' = [active EXCEPT ![t] = NoTopic],
         \/ stats' = stats
         \/ stats' = [stats EXCEPT ![t] = NotCached]
         \/ stats' = [stats EXCEPT ![t] = active[t].count]
  PROVE  Inv'
<1>1. /\ active \in [Topics -> Topic] /\ stats \in [Topics -> Nat \cup {NotCached}]
      /\ stored \in [Topics -> Nat]
      /\ \A u \in Topics : stored[u] \in Nat
  BY DEF Inv, TypeOK
<1>2. active[t].count \in Nat
  BY <1>1 DEF Topic
<1>3. /\ active' \in [Topics -> Topic]
      /\ \A u \in Topics : active'[u] = active[u] \/ active'[u] = NoTopic
  BY <1>1, NoCallType
<1>4. /\ stats' \in [Topics -> Nat \cup {NotCached}]
      /\ \A u \in Topics : stats'[u] \in {stats[u], NotCached, active[u].count}
  BY <1>1, <1>2 DEF NotCached
<1>5. TypeOK'
  BY <1>3, <1>4 DEF Inv, TypeOK, PartitionInv, redis, counters
<1>6. CallInv'
  BY DEF Inv, CallInv, redis
<1>7. ASSUME NEW u \in Topics
      PROVE  Counts(u)' /\ Listing(u)' /\ Memory(u)' /\ Caching(u)' /\ Counting(u)'
  <2>1. Counts(u) /\ Listing(u) /\ Memory(u) /\ Caching(u) /\ Counting(u)
    BY DEF Inv
  <2>2. Counts(u)'
    BY <1>1, <1>3, <1>4, <2>1 DEF Counts, NotCached, NoTopic, redis
  <2>3. Listing(u)'
    BY <2>1 DEF Listing, Someone, Exists, redis
  <2>4. Memory(u)'
    BY <1>3, <2>1 DEF Memory, InMemory, Someone, Exists, redis, NoTopic
  <2>5. Counting(u)'
    BY <2>1 DEF Counting, Saving, redis
  <2>6. Caching(u)'
    BY <1>3, <2>1 DEF Caching, SameConfig, Late, redis, NoTopic
  <2> QED BY <2>2, <2>3, <2>4, <2>5, <2>6
<1> QED BY <1>5, <1>6, <1>7 DEF Inv
-----------------------------------------------------------------------------
\* Calls are cut short: those of the set C end, and what they leave half done
\* is written down in the history.
LEMMA CutShort ==
  ASSUME Inv, TypeOK', PartitionInv', NEW C \in SUBSET Calls,
         UNCHANGED <<redis, truth>>,
         \A c \in C : call'[c] = NoCall,
         \A c \in Calls \ C : call'[c] = call[c],
         \A u \in Topics : ~disturbed'[u] =>
           /\ ~disturbed[u]
           /\ \A c \in C : call[c].topic = u => ~HalfDone(call[c]),
         \/ /\ UNCHANGED <<managed, size, caches>>
            /\ \A c \in C : call[c].step # "uncache"
         \/ /\ managed' = {}
            /\ \A u \in Topics : active'[u] = NoTopic /\ stats'[u] = NotCached
            /\ C = Calls
  PROVE  Inv'
<1>1. CallInv'
  <2> SUFFICES ASSUME NEW c \in Calls
               PROVE  /\ Shape(call'[c])
                      /\ call'[c].entity.count <= stored'[call'[c].topic]
                      /\ Knows(call'[c], record'[call'[c].topic], listed', managed')
    BY DEF CallInv
  <2>1. CASE c \in C
    BY <2>1, NoCallFacts DEF redis
  <2>2. CASE c \notin C
    <3>1. /\ Shape(call[c])
          /\ call[c].entity.count <= stored[call[c].topic]
          /\ Knows(call[c], record[call[c].topic], listed, managed)
      BY DEF Inv, CallInv
    <3> QED BY <2>2, <3>1 DEF redis
  <2> QED BY <2>1, <2>2
<1>2. ASSUME NEW u \in Topics
      PROVE  Counts(u)' /\ Listing(u)' /\ Memory(u)' /\ Caching(u)' /\ Counting(u)'
  <2>1. Counts(u) /\ Listing(u) /\ Memory(u) /\ Caching(u) /\ Counting(u)
    BY DEF Inv
  <2>2. Counts(u)'
    <3>1. stored[u] \in Nat
      BY DEF Inv, TypeOK
    <3> QED BY <2>1, <3>1 DEF Counts, redis, caches, NoTopic, NotCached
  <2>3. Listing(u)'
    <3> SUFFICES ASSUME ~disturbed'[u]
                 PROVE  (u \in listed <=> Exists(u)) \/ Someone(u, {"list", "drop"})'
      BY DEF Listing, Exists, redis
    <3>1. \A c \in Calls : call[c].topic = u /\ call[c].step \in {"list", "drop"}
                             => call'[c] = call[c]
      BY DEF HalfDone
    <3> QED BY <2>1, <3>1 DEF Listing, Someone
  <2>4. Memory(u)'
    <3>1. CASE managed' = {} /\ active'[u] = NoTopic
      BY <3>1 DEF Memory, InMemory, NoTopic
    <3>2. CASE /\ UNCHANGED <<managed, size, caches>>
               /\ \A c \in C : call[c].step # "uncache"
      <4> SUFFICES ASSUME ~disturbed'[u]
                   PROVE  InMemory(u)' \/ Someone(u, {"clean", "uncache"})'
        BY DEF Memory
      <4>1. InMemory(u) => InMemory(u)'
        BY <3>2 DEF InMemory, Exists, redis, caches
      <4>2. \A c \in Calls : call[c].topic = u /\ call[c].step \in {"clean", "uncache"}
                               => call'[c] = call[c]
        BY <3>2 DEF HalfDone
      <4> QED BY <2>1, <4>1, <4>2 DEF Memory, Someone
    <3> QED BY <3>1, <3>2
  <2>5. Counting(u)'
    <3> SUFFICES ASSUME ~disturbed'[u]
                 PROVE  /\ (\A c \in Calls : ~Saving(c, u)') => record[u] = truth[u]
                        /\ \A c \in Calls :
                             Saving(c, u)' /\ ~call'[c].touched
                               /\ (\A d \in Calls : Saving(d, u)' => d = c)
                               => truth[u] = call'[c].entity
      BY DEF Counting, redis
    <3>1. \A c \in Calls : Saving(c, u) => call'[c] = call[c]
      BY DEF HalfDone, Saving
    <3>2. \A c \in Calls : /\ Saving(c, u)' <=> Saving(c, u)
                           /\ Saving(c, u)' => call'[c] = call[c]
      BY <3>1, NoCallFacts DEF Saving
    <3>3. ~disturbed[u]
      OBVIOUS
    <3>4. (\A c \in Calls : ~Saving(c, u)') => record[u] = truth[u]
      BY <2>1, <3>2, <3>3 DEF Counting
    <3>5. ASSUME NEW c \in Calls, Saving(c, u)', ~call'[c].touched,
                 \A d \in Calls : Saving(d, u)' => d = c
          PROVE  truth[u] = call'[c].entity
      <4>1. Saving(c, u) /\ call'[c] = call[c] /\ \A d \in Calls : Saving(d, u) => d = c
        BY <3>2, <3>5
      <4> QED BY <2>1, <3>3, <3>5, <4>1 DEF Counting
    <3> QED BY <3>4, <3>5 DEF Saving
  <2>6. Caching(u)'
    <3>1. CASE active'[u] = NoTopic
      BY <3>1 DEF Caching, SameConfig, NoTopic
    <3>2. CASE /\ UNCHANGED <<managed, size, caches>>
               /\ \A c \in C : call[c].step # "uncache"
      <4> SUFFICES ASSUME ~disturbed'[u]
                   PROVE  SameConfig(u)' \/ \E c \in Calls : Late(call'[c], u)
        BY DEF Caching
      <4>1. SameConfig(u) => SameConfig(u)'
        BY <3>2 DEF SameConfig, redis, caches
      <4>2. \A c \in Calls : Late(call[c], u) => call'[c] = call[c]
        BY <3>2 DEF HalfDone, Late
      <4> QED BY <2>1, <4>1, <4>2 DEF Caching
    <3> QED BY <3>1, <3>2
  <2> QED BY <2>2, <2>3, <2>4, <2>5, <2>6
<1> QED BY <1>1, <1>2 DEF Inv

\* A Redis command fails, or its answer is lost.
LEMMA RedisErrorKeepsInv ==
  ASSUME Inv, PartitionInv', NEW c \in Calls, RedisError(c)
  PROVE  Inv'
<1>1. /\ call' = [call EXCEPT ![c] = NoCall]
      /\ disturbed' = [disturbed EXCEPT ![TopicOf(c)] = @ \/ HalfDone(call[c])]
      /\ faults' = faults + 1
      /\ UNCHANGED <<partitionVars, redis, caches, truth, calls>>
      /\ call[c].step # "uncache"
  BY DEF RedisError, Fault, At
<1>2. /\ call \in [Calls -> Call] /\ disturbed \in [Topics -> BOOLEAN] /\ faults \in Nat
      /\ TopicOf(c) \in Topics /\ TopicOf(c) = call[c].topic
  BY CallFacts DEF Inv, TypeOK
<1>3. HalfDone(call[c]) \in BOOLEAN
  BY DEF HalfDone
<1>4. call' \in [Calls -> Call] /\ call'[c] = NoCall
      /\ \A d \in Calls \ {c} : call'[d] = call[d]
  BY <1>1, <1>2, NoCallType
<1>5. /\ disturbed' \in [Topics -> BOOLEAN]
      /\ \A u \in Topics : u # TopicOf(c) => disturbed'[u] = disturbed[u]
      /\ disturbed'[TopicOf(c)] = (disturbed[TopicOf(c)] \/ HalfDone(call[c]))
  BY <1>1, <1>2, <1>3, Zenon
<1>6. faults' \in Nat
  BY <1>1, <1>2
<1>7. TypeOK'
  BY <1>1, <1>4, <1>5, <1>6 DEF Inv, TypeOK, PartitionInv, redis, caches
<1>8. \A u \in Topics : ~disturbed'[u] =>
        /\ ~disturbed[u]
        /\ \A d \in {c} : call[d].topic = u => ~HalfDone(call[d])
  BY <1>2, <1>5
<1>9. {c} \in SUBSET Calls /\ managed' = managed /\ size' = size
  BY <1>1 DEF partitionVars
<1>10. \A d \in {c} : call'[d] = NoCall /\ call[d].step # "uncache"
  BY <1>1, <1>4
<1> QED BY <1>1, <1>4, <1>7, <1>8, <1>9, <1>10, CutShort

\* The broker is restarted.
LEMMA RestartKeepsInv ==
  ASSUME Inv, PartitionInv', Restart
  PROVE  Inv'
<1>1. /\ call' = [c \in Calls |-> NoCall]
      /\ disturbed' = [t \in Topics |-> disturbed[t] \/
                         \E c \in Calls : call[c].topic = t /\ HalfDone(call[c])]
      /\ active' = [t \in Topics |-> NoTopic]
      /\ stats' = [t \in Topics |-> NotCached]
      /\ managed' = {} /\ faults' = faults + 1
      /\ UNCHANGED <<redis, truth, calls>>
  BY DEF Restart, Fault, LosePartitions
<1>2. /\ disturbed \in [Topics -> BOOLEAN] /\ faults \in Nat
  BY DEF Inv, TypeOK
<1>3. /\ call' \in [Calls -> Call] /\ \A c \in Calls : call'[c] = NoCall
      /\ active' \in [Topics -> Topic] /\ stats' \in [Topics -> Nat \cup {NotCached}]
      /\ \A t \in Topics : active'[t] = NoTopic /\ stats'[t] = NotCached
  BY <1>1, NoCallType
<1>4. disturbed' \in [Topics -> BOOLEAN]
  <2>1. ASSUME NEW t \in Topics
        PROVE  (disturbed[t] \/ \E c \in Calls : call[c].topic = t /\ HalfDone(call[c]))
                 \in BOOLEAN
    BY <1>2 DEF HalfDone
  <2> QED BY <1>1, <2>1, Zenon
<1>5. \A u \in Topics : ~disturbed'[u] =>
        /\ ~disturbed[u]
        /\ \A c \in Calls : call[c].topic = u => ~HalfDone(call[c])
  BY <1>1, Zenon
<1>6. faults' \in Nat
  BY <1>1, <1>2
<1>7. TypeOK'
  BY <1>1, <1>3, <1>4, <1>6 DEF Inv, TypeOK, PartitionInv, redis
<1>8. Calls \in SUBSET Calls
  OBVIOUS
<1> QED BY <1>1, <1>3, <1>5, <1>7, <1>8, CutShort
-----------------------------------------------------------------------------
\* Every step of the catalogue is one of the partition manager, or none.
LEMMA StepRefines == Inv /\ [Next]_vars => [PartitionNext]_partitionVars
<1> SUFFICES ASSUME Inv, [Next]_vars PROVE [PartitionNext]_partitionVars
  OBVIOUS
<1>1. ASSUME NEW c \in Calls, Proceed(c)
      PROVE  [PartitionNext]_partitionVars
  <2>1. CASE InitPartitions(c)
    <3>1. TopicOf(c) \in Topics /\ call[c].entity.partitions \in 1 .. MaxPartitions
      BY <2>1, CallFacts, PartitionAssumption DEF InitPartitions, At, Shape
    <3> QED BY <2>1, <3>1 DEF InitPartitions, PartitionNext
  <2>2. CASE CleanPartitions(c)
    <3>1. TopicOf(c) \in Topics
      BY CallFacts
    <3> QED BY <2>2, <3>1 DEF CleanPartitions, PartitionNext
  <2>3. CASE UNCHANGED partitionVars
    BY <2>3
  <2> QED
    BY <1>1, <2>1, <2>2, <2>3 DEF Proceed, CheckMissing, SetRecord, ListTopic, GetAgain,
       StoreMessages, SaveCount, AddToActiveTopics, SaveUpdate, UpdateActiveTopics,
       UnlistTopic, DropRecord, RemoveFromActiveTopics, ReadTopic, CollectTopicStats
<1>2. ASSUME NEW c \in Calls, NEW t \in Topics, AskPublisher(c, t) \/ AskTopicService(c, t)
      PROVE  UNCHANGED partitionVars
  BY <1>2 DEF AskPublisher, AskTopicService, Publish, PublishBatch, EnsureTopicExists,
     GetFails, CreateTopic, UpdateTopic, DeleteTopic, GetTopicStats, Request
<1>3. ASSUME NEW c \in Calls, RedisError(c)
      PROVE  UNCHANGED partitionVars
  BY <1>3 DEF RedisError
<1>4. ASSUME NEW t \in Topics,
             ExpireStats(t) \/ CollectForActiveTopics(t) \/ PerformCleanupTasks(t)
      PROVE  UNCHANGED partitionVars
  BY <1>4 DEF ExpireStats, CollectForActiveTopics, PerformCleanupTasks
<1>5. ASSUME NEW t \in Topics, ManagePartitions(t)
      PROVE  PartitionNext
  BY <1>5 DEF ManagePartitions, PartitionNext
<1>6. CASE Restart
  BY <1>6 DEF Restart, PartitionNext
<1>7. CASE UNCHANGED vars
  BY <1>7 DEF vars, partitionVars
<1> QED BY <1>1, <1>2, <1>3, <1>4, <1>5, <1>6, <1>7 DEF Next

\* Every step of the catalogue keeps the invariant.
LEMMA CatalogStep == Inv /\ [Next]_vars => Inv'
<1> SUFFICES ASSUME Inv, [Next]_vars PROVE Inv'
  OBVIOUS
<1>1. PartitionInv'
  BY StepRefines, PartitionStep DEF Inv
<1>2. ASSUME NEW c \in Calls, Proceed(c)
      PROVE  Inv'
  <2>1. PICK t \in Topics : t = TopicOf(c)
    BY CallFacts
  <2>2. call[c].size \in Nat
    BY CallFacts
  <2>3. CASE CheckMissing(c) \/ GetAgain(c) \/ ReadTopic(c) \/ CollectTopicStats(c)
    BY <1>1, <2>1, <2>3, CheckMissingKeepsInv, GetAgainKeepsInv, ReadTopicKeepsInv,
       CollectTopicStatsKeepsInv
  <2>4. CASE StoreMessages(c)
    BY <1>1, <2>1, <2>2, <2>4, StoreMessagesKeepsInv
  <2>5. CASE SaveCount(c) \/ SaveUpdate(c) \/ SetRecord(c) \/ DropRecord(c)
    BY <1>1, <2>1, <2>5, SaveCountKeepsInv, SaveUpdateKeepsInv, SetRecordKeepsInv,
       DropRecordKeepsInv
  <2>6. CASE ListTopic(c) \/ InitPartitions(c) \/ AddToActiveTopics(c)
    BY <1>1, <2>1, <2>6, ListTopicKeepsInv, InitPartitionsKeepsInv,
       AddToActiveTopicsKeepsInv
  <2>7. CASE \/ UpdateActiveTopics(c) \/ UnlistTopic(c) \/ CleanPartitions(c)
             \/ RemoveFromActiveTopics(c)
    BY <1>1, <2>1, <2>7, UpdateActiveTopicsKeepsInv, UnlistTopicKeepsInv,
       CleanPartitionsKeepsInv, RemoveFromActiveTopicsKeepsInv
  <2> QED BY <1>2, <2>3, <2>4, <2>5, <2>6, <2>7 DEF Proceed
<1>3. ASSUME NEW c \in Calls, NEW t \in Topics, AskPublisher(c, t)
      PROVE  Inv'
  <2>1. \A n \in BatchSizes : n \in Nat
    BY CatalogAssumption
  <2> QED
    BY <1>1, <1>3, <2>1, EnsureTopicExistsKeepsInv, GetFailsKeepsInv
    DEF AskPublisher, Publish, PublishBatch
<1>4. ASSUME NEW c \in Calls, NEW t \in Topics, AskTopicService(c, t)
      PROVE  Inv'
  BY <1>1, <1>4, CreateTopicKeepsInv, UpdateTopicKeepsInv, OtherRequestsKeepInv
  DEF AskTopicService
<1>5. ASSUME NEW c \in Calls, RedisError(c)
      PROVE  Inv'
  BY <1>1, <1>5, RedisErrorKeepsInv
<1>6. ASSUME NEW t \in Topics,
             \/ ExpireStats(t) \/ CollectForActiveTopics(t)
             \/ PerformCleanupTasks(t) \/ ManagePartitions(t)
      PROVE  Inv'
  <2>1. UNCHANGED <<managed, size, redis, call, truth, disturbed, counters>>
    BY <1>6 DEF ExpireStats, CollectForActiveTopics, PerformCleanupTasks,
       ManagePartitions, Manage, BackgroundRebalance, RequestRebalance,
       RebalancePartitions, AddConsumer, RemoveConsumer, partitionVars
  <2>2. active' = active \/ active' = [active EXCEPT ![t] = NoTopic]
    BY <1>6 DEF ExpireStats, CollectForActiveTopics, PerformCleanupTasks,
       ManagePartitions, caches
  <2>3. \/ stats' = stats
        \/ stats' = [stats EXCEPT ![t] = NotCached]
        \/ stats' = [stats EXCEPT ![t] = active[t].count]
    BY <1>6 DEF ExpireStats, CollectForActiveTopics, PerformCleanupTasks,
       ManagePartitions, caches
  <2> QED BY <1>1, <2>1, <2>2, <2>3, WorkersKeepInv
<1>7. CASE Restart
  BY <1>1, <1>7, RestartKeepsInv
<1>8. CASE UNCHANGED vars
  <2>1. TypeOK'
    BY <1>1, <1>8 DEF Inv, TypeOK, PartitionInv, vars, redis, caches, counters
  <2>2. CallInv'
    BY <1>8 DEF Inv, CallInv, vars, partitionVars, redis
  <2>3. \A t \in Topics : Counts(t)' /\ Listing(t)' /\ Memory(t)' /\ Caching(t)' /\ Counting(t)'
    BY <1>8 DEF Inv, Counts, Listing, Memory, InMemory, Caching, SameConfig, Late,
       Counting, Saving, Someone, Exists,
       vars, partitionVars, redis, caches
  <2> QED BY <1>1, <2>1, <2>2, <2>3 DEF Inv
<1> QED BY <1>2, <1>3, <1>4, <1>5, <1>6, <1>7, <1>8 DEF Next
-----------------------------------------------------------------------------
\* The inductive invariant of the catalogue.
THEOREM CatalogInvariant == Spec => []Inv
  BY InitialCatalog, CatalogStep, PTL DEF Spec

\* Type correctness of the catalogue.
THEOREM CatalogTypeCorrect == Spec => []TypeOK
<1>1. Inv => TypeOK
  BY DEF Inv
<1> QED BY <1>1, CatalogInvariant, PTL

\* No message count claims more than is stored, whatever calls overwrite each
\* other and whatever fails (Publish counts after Store).
THEOREM CountsAreBacked == Spec => []CountIsBacked
<1>1. Inv => CountIsBacked
  BY DEF Inv, Counts, CountIsBacked
<1> QED BY <1>1, CatalogInvariant, PTL

\* Without a race or a failure, the record counts every message and has the last
\* configuration (Publish, PublishBatch, UpdateTopic).
THEOREM RecordsAreCurrent == Spec => []RecordIsCurrent
<1>1. Inv => RecordIsCurrent
  BY DEF Inv, Counting, Saving, Settled, RecordIsCurrent
<1> QED BY <1>1, CatalogInvariant, PTL

\* Without a race or a failure the record of a topic, the list, the assignment and
\* the copy in activeTopics agree (CreateTopic, UpdateTopic, DeleteTopic).
THEOREM CataloguesAgree == Spec => []CatalogueAgrees
<1>1. Inv => CatalogueAgrees
  BY DEF Inv, Listing, Memory, InMemory, Caching, SameConfig, Late, Someone, Settled,
     CatalogueAgrees
<1> QED BY <1>1, CatalogInvariant, PTL

\* In terms of the invariant: what such a publish knew of the topic was wrong.
LEMMA RefusalIsARace == Inv => OnlyARaceRefuses
<1> SUFFICES ASSUME Inv, NEW c \in Calls
             PROVE  /\ At(c, "exists") /\ Exists(TopicOf(c)) => call[c].touched
                    /\ At(c, "reget") /\ ~Exists(TopicOf(c)) => call[c].touched
  BY DEF OnlyARaceRefuses
<1>1. Shape(call[c]) /\ Knows(call[c], record[TopicOf(c)], listed, managed)
  BY CallFacts
<1> QED BY <1>1 DEF Shape, Knows, At, Exists

\* A publish is refused only when another call or a failed read came between
\* (ensureTopicExists).
THEOREM OnlyRacesRefuse == Spec => []OnlyARaceRefuses
BY RefusalIsARace, CatalogInvariant, PTL

\* In terms of the invariant: who has not been overtaken knows what it overwrites.
LEMMA StaleCopyStep ==
  Inv /\ [Next]_vars =>
    \A c \in Calls : call'[c].step # call[c].step /\ ~call[c].touched => UndoesNothing(c)
<1> SUFFICES ASSUME Inv, [Next]_vars, NEW c \in Calls,
                    call'[c].step # call[c].step, ~call[c].touched
             PROVE  UndoesNothing(c)
  OBVIOUS
<1>1. PICK t \in Topics : t = TopicOf(c)
  BY CallFacts
<1>2. /\ call \in [Calls -> Call] /\ call[c] \in Call /\ record \in [Topics -> Topic]
      /\ record[t] \in Topic /\ record[t].count \in Nat /\ call[c].size \in Nat
      /\ disturbed \in [Topics -> BOOLEAN]
      /\ Shape(call[c]) /\ Knows(call[c], record[t], listed, managed)
  BY <1>1, CallFacts DEF Inv, TypeOK, Topic
<1>3. CASE record' = record
  BY <1>1, <1>2, <1>3 DEF UndoesNothing
<1>4. ASSUME NEW d \in Calls, NEW next, Write(d, next), d # c
      PROVE  FALSE
  <2>1. call'[c].step = call[c].step
    BY <1>2, <1>4 DEF Write, Call
  <2> QED BY <2>1
<1>5. CASE SaveCount(c)
  <2>1. /\ record'[t] = call[c].entity
        /\ call[c].entity = [record[t] EXCEPT !.count = @ + call[c].size]
    BY <1>1, <1>2, <1>5 DEF SaveCount, At, Knows
  <2>2. /\ record'[t].partitions = record[t].partitions
        /\ record'[t].config = record[t].config
        /\ record'[t].count = record[t].count + call[c].size
    BY <1>2, <2>1 DEF Topic
  <2> QED BY <1>1, <1>2, <2>2 DEF UndoesNothing
<1>6. CASE SaveUpdate(c)
  <2>1. /\ record'[t] = call[c].entity /\ call[c].kind = "update"
        /\ call[c].entity = [record[t] EXCEPT !.config = call[c].entity.config]
    BY <1>1, <1>2, <1>6 DEF SaveUpdate, At, Knows
  <2>2. /\ record'[t].partitions = record[t].partitions
        /\ record'[t].count = record[t].count
    BY <1>2, <2>1 DEF Topic
  <2> QED BY <1>1, <1>2, <2>1, <2>2 DEF UndoesNothing
<1>7. CASE SetRecord(c)
  <2>1. record[t].partitions = 0 /\ At(c, "set")
    BY <1>2, <1>7 DEF SetRecord, At, Knows
  <2> QED BY <1>1, <2>1 DEF UndoesNothing
<1>8. CASE DropRecord(c)
  <2>1. record'[t].partitions = 0
    BY <1>1, <1>2, <1>8 DEF DropRecord, NoTopic
  <2> QED BY <1>1, <2>1 DEF UndoesNothing
<1>9. ASSUME NEW d \in Calls, Proceed(d)
      PROVE  UndoesNothing(c)
  <2>1. CASE SaveCount(d) \/ SaveUpdate(d) \/ SetRecord(d) \/ DropRecord(d)
    <3>1. d = c
      BY <1>4, <2>1 DEF SaveCount, SaveUpdate, SetRecord, DropRecord
    <3> QED BY <1>5, <1>6, <1>7, <1>8, <2>1, <3>1
  <2>2. CASE ~(SaveCount(d) \/ SaveUpdate(d) \/ SetRecord(d) \/ DropRecord(d))
    BY <1>3, <1>9, <2>2 DEF Proceed, CheckMissing, ListTopic, GetAgain, StoreMessages,
       InitPartitions, AddToActiveTopics, UpdateActiveTopics, UnlistTopic, CleanPartitions,
       RemoveFromActiveTopics, ReadTopic, CollectTopicStats, redis
  <2> QED BY <2>1, <2>2
<1>10. ASSUME NEW d \in Calls, NEW u \in Topics,
              AskPublisher(d, u) \/ AskTopicService(d, u)
       PROVE  record' = record
  BY <1>10 DEF AskPublisher, AskTopicService, Publish, PublishBatch, EnsureTopicExists,
     GetFails, Fault, CreateTopic, UpdateTopic, DeleteTopic, GetTopicStats, Request, redis
<1>11. ASSUME NEW d \in Calls, RedisError(d)
       PROVE  record' = record
  BY <1>11 DEF RedisError, Fault, redis
<1>12. ASSUME NEW u \in Topics,
              \/ ExpireStats(u) \/ CollectForActiveTopics(u)
              \/ PerformCleanupTasks(u) \/ ManagePartitions(u)
       PROVE  record' = record
  BY <1>12 DEF ExpireStats, CollectForActiveTopics, PerformCleanupTasks, ManagePartitions,
     redis
<1>13. CASE Restart \/ UNCHANGED vars
  BY <1>3, <1>13 DEF Restart, Fault, vars, redis
<1> QED BY <1>3, <1>9, <1>10, <1>11, <1>12, <1>13 DEF Next

\* For any number of calls, whatever races and fails: only a call that another one
\* has overtaken takes back what others did to a record (Update of the repository).
THEOREM OnlyStaleCallsUndo == Spec => OnlyStaleCopiesUndo
<1>1. Inv /\ [Next]_vars =>
        [\A c \in Calls :
           call'[c].step # call[c].step /\ ~call[c].touched => UndoesNothing(c)]_vars
  BY StaleCopyStep
<1> QED BY <1>1, CatalogInvariant, PTL DEF Spec, OnlyStaleCopiesUndo

\* What is proved of the partition manager holds in the catalogue: it creates
\* assignments of one partition at least, and changes none in another way.
LEMMA CatalogRefines == Spec => PartitionSpec
<1>1. Init => PartitionInit
  BY DEF Init
<1> QED BY <1>1, StepRefines, CatalogInvariant, PTL DEF Spec, PartitionSpec

\* So a partition has one owner and no gap is forgotten in the whole service,
\* whatever becomes of the topics.
THEOREM CatalogOwnership == Spec => [](OneOwner /\ ReadersMatchMap /\ GapIsPending)
  BY CatalogRefines, OneOwnerOnly, ReadersMatch, NoGapForgotten, PTL

\* And the partitions of every topic are dealt out fairly or not at all, while
\* calls of the topic service, failures and restarts create, delete and forget it.
THEOREM CatalogSharesOut == Spec => OwnershipSpec
  BY CatalogRefines, ImplementsOwnership, PTL
-----------------------------------------------------------------------------
(* One call at a time.                                                     *)

Calm ==
  /\ \A t \in Topics : ~disturbed[t]
  /\ \A c \in Calls : ~call[c].touched

\* What holds of a topic no call is at work on.
TopicIsExact(t) ==
  (\A c \in Calls : call[c].topic = t => call[c].step \in {"idle", "read", "collect"}) =>
    /\ record[t] = truth[t]
    /\ t \in listed <=> Exists(t)
    /\ t \in managed => Exists(t) /\ size[t] = record[t].partitions
    /\ active[t].partitions > 0 =>
         /\ t \in managed
         /\ active[t].partitions = record[t].partitions
         /\ active[t].config = record[t].config
         /\ active[t].count <= record[t].count

\* No publish fails because of what it found on its second look at the topic.
NobodyIsRefused ==
  \A c \in Calls : /\ At(c, "exists") => ~Exists(TopicOf(c))
                   /\ At(c, "reget") => Exists(TopicOf(c))

\* A step that leaves the history alone, or changes it only as Quietly and Write
\* do for a call nobody has overtaken.
LEMMA CalmIsKept ==
  ASSUME NEW c, Calls = {c}, TypeOK, Calm, NEW next, ~next.touched,
         Quietly(c, next) \/ Write(c, next)
  PROVE  Calm'
<1>1. call'[c] = next
  BY DEF TypeOK, Quietly, Write
<1>2. \A t \in Topics : ~disturbed'[t]
  <2>1. CASE Quietly(c, next)
    BY <2>1 DEF Quietly, Calm
  <2>2. CASE Write(c, next)
    BY <2>2 DEF Write, Calm, TypeOK
  <2> QED BY <2>1, <2>2
<1> QED BY <1>1, <1>2 DEF Calm

\* What the steps of a call go on as.
LEMMA GoesOnCalmly ==
  ASSUME NEW c, Calls = {c}, TypeOK, Calm,
         Proceed(c) \/ \E next : ~next.touched /\ Request(c, next)
  PROVE  Calm'
<1>1. ASSUME NEW next, ~next.touched, Quietly(c, next) \/ Write(c, next)
      PROVE  Calm'
  BY <1>1, CalmIsKept
<1>2. call[c] \in Call /\ ~call[c].touched /\ ~NoCall.touched
  BY DEF TypeOK, Calm, NoCall
<1>3. \A step : ~Enter(c, step).touched
  BY <1>2 DEF Enter, Call
<1>4. CASE \E next : ~next.touched /\ Request(c, next)
  BY <1>1, <1>4 DEF Request
<1>5. CASE Proceed(c)
  <2>1. CASE CheckMissing(c)
    <3>1. ~[Enter(c, "set") EXCEPT !.entity = NewTopic(DefaultPartitions),
                                   !.touched = FALSE].touched
      BY <1>2 DEF Enter, Call
    <3> QED BY <1>1, <1>2, <2>1, <3>1 DEF CheckMissing
  <2>2. CASE GetAgain(c)
    <3>1. ~[Enter(c, "store") EXCEPT !.entity = record[TopicOf(c)],
                                     !.touched = FALSE].touched
      BY <1>2 DEF Enter, Call
    <3> QED BY <1>1, <1>2, <2>2, <3>1 DEF GetAgain
  <2>3. CASE StoreMessages(c)
    <3>1. ~[Enter(c, "save") EXCEPT !.entity.count = @ + call[c].size].touched
      BY <1>2 DEF Enter, Call
    <3> QED BY <1>1, <2>3, <3>1 DEF StoreMessages
  <2>4. CASE ReadTopic(c)
    <3>1. ~[Enter(c, "collect") EXCEPT !.entity = record[TopicOf(c)]].touched
      BY <1>2 DEF Enter, Call
    <3> QED BY <1>1, <1>2, <2>4, <3>1 DEF ReadTopic
  <2>5. CASE \/ SaveCount(c) \/ AddToActiveTopics(c) \/ RemoveFromActiveTopics(c)
             \/ CollectTopicStats(c)
    BY <1>1, <1>2, <2>5 DEF SaveCount, AddToActiveTopics, RemoveFromActiveTopics,
       CollectTopicStats
  <2>6. CASE \/ SetRecord(c) \/ ListTopic(c) \/ InitPartitions(c) \/ SaveUpdate(c)
             \/ UpdateActiveTopics(c) \/ UnlistTopic(c) \/ DropRecord(c)
             \/ CleanPartitions(c)
    BY <1>1, <1>2, <1>3, <2>6 DEF SetRecord, ListTopic, InitPartitions, SaveUpdate,
       UpdateActiveTopics, UnlistTopic, DropRecord, CleanPartitions
  <2> QED BY <1>5, <2>1, <2>2, <2>3, <2>4, <2>5, <2>6 DEF Proceed
<1> QED BY <1>4, <1>5

\* Calls that take turns neither overtake each other nor are cut short.
LEMMA CalmStep ==
  ASSUME NEW c, Calls = {c}, MaxFaults = 0
  PROVE  Inv /\ Calm /\ [Next]_vars => Calm'
<1> SUFFICES ASSUME Inv, Calm, [Next]_vars PROVE Calm'
  OBVIOUS
<1>1. TypeOK /\ ~Fault
  BY DEF Inv, TypeOK, Fault
<1>2. ASSUME NEW t \in Topics, AskPublisher(c, t) \/ AskTopicService(c, t)
      PROVE  Calm'
  <2>1. \A kind, step : NoCall.touched = FALSE /\ ~Asked(kind, t, step).touched
    BY DEF Asked, NoCall
  <2>2. \E next : ~next.touched /\ Request(c, next)
    BY <1>1, <1>2, <2>1 DEF AskPublisher, AskTopicService, Publish, PublishBatch, GetFails,
       EnsureTopicExists, CreateTopic, UpdateTopic, DeleteTopic, GetTopicStats, Asked, NoCall
  <2> QED BY <1>1, <2>2, GoesOnCalmly
<1>3. CASE Proceed(c)
  BY <1>1, <1>3, GoesOnCalmly
<1>4. CASE RedisError(c) \/ Restart
  BY <1>1, <1>4 DEF RedisError, Restart
<1>5. CASE UNCHANGED <<call, disturbed>>
  BY <1>5 DEF Calm
<1> QED BY <1>2, <1>3, <1>4, <1>5 DEF Next, ExpireStats, CollectForActiveTopics,
     PerformCleanupTasks, ManagePartitions, vars

\* To begin with nothing has happened.
LEMMA CalmInvariant ==
  ASSUME NEW c, Calls = {c}, MaxFaults = 0
  PROVE  Spec => [](Inv /\ Calm)
<1>1. Init => Calm
  BY DEF Init, Calm, NoCall
<1>2. Inv /\ Calm /\ [Next]_vars => Calm'
  BY CalmStep
<1> QED BY <1>1, <1>2, CatalogInvariant, PTL DEF Spec

\* Served one after the other and without failures, calls leave the record of every
\* topic, its place in the list, its assignment and its cached copy in order, while
\* the workers run and consumers come and go. Nothing is said of the stored messages
\* and the cached statistics, which outlive a deleted topic.
THEOREM OneAtATimeIsExact ==
  ASSUME NEW c, Calls = {c}, MaxFaults = 0
  PROVE  Spec => [](\A t \in Topics : TopicIsExact(t))
<1>1. Inv /\ Calm => \A t \in Topics : TopicIsExact(t)
  <2>1. Inv => RecordIsCurrent /\ CatalogueAgrees
    BY DEF Inv, Counting, Saving, Settled, RecordIsCurrent, Listing, Memory, InMemory,
       Caching, SameConfig, Late, Someone, CatalogueAgrees
  <2>2. Calm /\ RecordIsCurrent /\ CatalogueAgrees => \A t \in Topics : TopicIsExact(t)
    BY DEF Calm, TopicIsExact, Settled, RecordIsCurrent, CatalogueAgrees
  <2> QED BY <2>1, <2>2
<1> QED BY <1>1, CalmInvariant, PTL

\* And no publish is refused.
THEOREM OneAtATimeIsServed ==
  ASSUME NEW c, Calls = {c}, MaxFaults = 0
  PROVE  Spec => []NobodyIsRefused
<1>1. Inv /\ Calm => NobodyIsRefused
  <2>1. Inv => OnlyARaceRefuses
    BY RefusalIsARace
  <2>2. Calm /\ OnlyARaceRefuses => NobodyIsRefused
    BY DEF Calm, OnlyARaceRefuses, NobodyIsRefused
  <2> QED BY <2>1, <2>2
<1> QED BY <1>1, CalmInvariant, PTL
=============================================================================
