------------------------ MODULE DeliveryQueueProofs ------------------------
(***************************************************************************)
(* Proofs about DeliveryQueue for any number of deliveries, payloads,      *)
(* starts, crashes and file errors: the types, and that a message which    *)
(* was persisted and is not bestEffort stays on disk until it has been     *)
(* sent or given up.  The only step that takes an entry away for good is   *)
(* the first phase of the acknowledgement, so the invariant says of every  *)
(* worker what it has sent before it comes to that step.  The second part  *)
(* shows that no payload is sent twice and no entry retried too often.     *)
(***************************************************************************)
EXTENDS DeliveryQueue, FiniteSetTheorems, TLAPS

Worker == [ step : Steps, id : 0 .. NumDeliveries, read : Nat,
            payload : Nat \ {0}, partial : BOOLEAN, results : BOOLEAN ]

Busy == {"sending", "acking", "unlinking", "failing", "rewriting", "moving"}

\* TypeOK in parts: what is stored, the workers, what has been sent.
StoredTyped ==
  /\ disk \in [Deliveries -> SUBSET Files]
  /\ retryCount \in [Deliveries -> Nat]
  /\ snapshot \in [Scans -> [Deliveries -> Nat]]
  /\ up \in BOOLEAN
  /\ starts \in 0 .. MaxStarts /\ crashes \in 0 .. MaxCrashes /\ diskErrors \in 0 .. MaxDiskErrors
  /\ accepted \subseteq Deliveries /\ aborted \subseteq Deliveries
  /\ unacked \subseteq Deliveries /\ shared \subseteq Deliveries
WorkersTyped == worker \in [Workers -> Worker]
SentTyped ==
  /\ sent = [d \in Deliveries |-> sent[d]]
  /\ \A d \in Deliveries : sent[d] \in [Payloads(d) -> 0 .. 2]

\* Nothing of the delivery is owed any more.
Settled(d) == d \in BestEffort \/ d \in aborted \/ \A p \in Payloads(d) : sent[d][p] # 0

\* The payloads before the k-th have been sent.
SentBefore(d, k) == d \in BestEffort \/ \A p \in 1 .. k - 1 : sent[d][p] # 0

SoundAt(w) ==
  /\ worker[w].step \in Busy => worker[w].id \in Deliveries
  /\ worker[w].payload # 1 => worker[w].id \in Deliveries
  /\ worker[w].step = "acking" => Settled(worker[w].id)
  /\ worker[w].step = "sending" => /\ worker[w].payload \in Payloads(worker[w].id)
                                   /\ SentBefore(worker[w].id, worker[w].payload)
  /\ \A d \in Deliveries : w = Live(d) => worker[w].id \in {0, d}
WorkersSound == \A w \in Workers : SoundAt(w)

IInv == StoredTyped /\ WorkersTyped /\ SentTyped /\ WorkersSound /\ StrictDeliveryIsKept

-----------------------------------------------------------------------------
\* The constants.
LEMMA Constants ==
  /\ NumDeliveries \in Nat /\ MaxRetries \in Nat /\ MaxRetries > 0 /\ MaxStarts \in Nat
  /\ MaxCrashes \in Nat /\ MaxDiskErrors \in Nat
  /\ NoEntry \in Nat /\ 0 \notin Deliveries /\ Deliveries \subseteq 0 .. NumDeliveries
  /\ \A d \in Deliveries : PayloadsOf[d] \in Nat \ {0}
BY ConstantsAssumption DEF NoEntry, Deliveries

\* The workers are the live deliveries and the scans.
LEMMA WorkerNames ==
  /\ \A d \in Deliveries : Live(d) \in Workers
  /\ \A n \in 1 .. MaxStarts : Scan(n) \in Scans
  /\ Scans \subseteq Workers
  /\ \A d, e \in Deliveries : Live(d) = Live(e) => d = e
  /\ \A d \in Deliveries : Live(d) \notin Scans
BY DEF Workers, Lives, Scans, Live, Scan

\* The records of a worker that has no entry, and of one that begins to send.
LEMMA RestRecord ==
  ASSUME NEW step \in Steps
  PROVE  /\ AtRest(step) \in Worker /\ AtRest(step).step = step
         /\ AtRest(step).id = 0 /\ AtRest(step).payload = 1
<1>1. 0 \in 0 .. NumDeliveries
  BY Constants
<1> QED
  BY <1>1 DEF AtRest, Worker

LEMMA SendingRecord ==
  ASSUME NEW d \in Deliveries
  PROVE  /\ Sending(d) \in Worker /\ Sending(d).step = "sending"
         /\ Sending(d).id = d /\ Sending(d).payload = 1
<1>1. d \in 0 .. NumDeliveries
  BY Constants
<1>2. AtRest("sending") \in Worker /\ AtRest("sending").step = "sending" /\ AtRest("sending").payload = 1
  BY RestRecord DEF Steps
<1> QED
  BY <1>1, <1>2 DEF Sending, Worker

\* What has been sent stays sent, and who has aborted stays aborted.
Grows ==
  /\ aborted \subseteq aborted'
  /\ \A d \in Deliveries : \A p \in Payloads(d) : sent[d][p] # 0 => sent'[d][p] # 0

\* A step of worker w leaves the others sound.
LEMMA OneWorkerSteps ==
  ASSUME WorkersTyped, WorkersSound, NEW w \in Workers, Grows,
         \A v \in Workers \ {w} : worker'[v] = worker[v], SoundAt(w)'
  PROVE  WorkersSound'
<1> SUFFICES ASSUME NEW v \in Workers, v # w PROVE SoundAt(v)'
  BY DEF WorkersSound
<1>1. SoundAt(v) /\ worker'[v] = worker[v] /\ worker[v] \in Worker
  BY DEF WorkersSound, WorkersTyped
<1>2. worker[v].step \in {"sending", "acking"} => worker[v].id \in Deliveries
  BY <1>1 DEF SoundAt, Busy
<1>3. worker[v].step = "acking" => Settled(worker[v].id)'
  <2> SUFFICES ASSUME worker[v].step = "acking" PROVE Settled(worker[v].id)'
    OBVIOUS
  <2>1. worker[v].id \in Deliveries /\ Settled(worker[v].id)
    BY <1>1, <1>2 DEF SoundAt
  <2> QED
    BY <1>1, <2>1 DEF Settled, Grows
<1>4. worker[v].step = "sending" => SentBefore(worker[v].id, worker[v].payload)'
  <2> SUFFICES ASSUME worker[v].step = "sending" PROVE SentBefore(worker[v].id, worker[v].payload)'
    OBVIOUS
  <2>1. worker[v].id \in Deliveries /\ worker[v].payload \in Payloads(worker[v].id)
        /\ SentBefore(worker[v].id, worker[v].payload)
    BY <1>1, <1>2 DEF SoundAt
  <2>2. \A p \in 1 .. worker[v].payload - 1 : p \in Payloads(worker[v].id)
    <3>1. PayloadsOf[worker[v].id] \in Nat
      BY <2>1, Constants
    <3>2. worker[v].payload \in 1 .. PayloadsOf[worker[v].id]
      BY <2>1 DEF Payloads
    <3> QED
      BY <3>1, <3>2 DEF Payloads
  <2>3. \/ worker[v].id \in BestEffort
        \/ \A p \in 1 .. worker[v].payload - 1 : sent[worker[v].id][p] # 0
    BY <2>1 DEF SentBefore
  <2>4. \/ worker[v].id \in BestEffort
        \/ \A p \in 1 .. worker[v].payload - 1 : sent'[worker[v].id][p] # 0
    BY <2>1, <2>2, <2>3 DEF Grows
  <2>5. worker'[v].id = worker[v].id /\ worker'[v].payload = worker[v].payload
    BY <1>1
  <2> QED
    BY <2>4, <2>5 DEF SentBefore
<1> QED
  BY <1>1, <1>3, <1>4 DEF SoundAt

\* A worker that neither sends nor acknowledges is sound with an entry or without.
LEMMA QuietIsSound ==
  ASSUME NEW w \in Workers, SoundAt(w), worker'[w].payload # 1 => worker'[w].id \in Deliveries,
         worker'[w].step \notin {"sending", "acking"}, worker'[w].id \in {0, worker[w].id},
         worker'[w].step \in Busy => worker'[w].id \in Deliveries
  PROVE  SoundAt(w)'
BY DEF SoundAt

\* A message that is kept stays kept, or is settled.
LEMMA KeptStays ==
  ASSUME StrictDeliveryIsKept, Grows, accepted' \subseteq Deliveries,
         \A d \in accepted' \ accepted : Kept(d)',
         \A d \in accepted : Kept(d) => Kept(d)' \/ Settled(d)'
  PROVE  StrictDeliveryIsKept'
<1> SUFFICES ASSUME NEW d \in accepted', d \notin BestEffort, NEW p \in Payloads(d),
                    sent'[d][p] = 0, d \notin aborted'
             PROVE  Kept(d)'
  BY DEF StrictDeliveryIsKept
<1>1. ~Settled(d)' /\ sent[d][p] = 0 /\ d \notin aborted
  BY DEF Settled, Grows
<1>2. d \in accepted => Kept(d)
  BY <1>1 DEF StrictDeliveryIsKept
<1> QED
  BY <1>1, <1>2

\* A step in which one worker becomes, or stays, quiet.
LEMMA QuietStep ==
  ASSUME IInv, StoredTyped', NEW w \in Workers,
         worker' \in [Workers -> Worker], \A v \in Workers \ {w} : worker'[v] = worker[v],
         worker'[w].step \notin {"sending", "acking"},
         worker'[w].step \in Busy \/ worker'[w].payload # 1 => worker'[w].id \in Deliveries,
         worker'[w].id \in {0, worker[w].id},
         sent' = sent, aborted' = aborted, accepted' = accepted,
         \A d \in Deliveries : Kept(d) => Kept(d)'
  PROVE  IInv'
<1>1. Grows
  BY DEF Grows
<1>2. WorkersSound'
  <2>1. SoundAt(w)
    BY DEF IInv, WorkersSound
  <2>2. SoundAt(w)'
    BY <2>1, QuietIsSound
  <2> QED
    BY <1>1, <2>2, OneWorkerSteps DEF IInv
<1>3. StrictDeliveryIsKept'
  <2>1. accepted \subseteq Deliveries
    BY DEF IInv, StoredTyped
  <2> QED
    BY <1>1, <2>1, KeptStays DEF IInv
<1>4. SentTyped'
  BY DEF IInv, SentTyped
<1> QED
  BY <1>2, <1>3, <1>4 DEF IInv, WorkersTyped

\* A step that leaves the workers and what was sent alone.
LEMMA StoreStep ==
  ASSUME IInv, StoredTyped', worker' = worker, sent' = sent, aborted' = aborted,
         accepted' = accepted, \A d \in Deliveries : Kept(d) => Kept(d)'
  PROVE  IInv'
<1>1. Grows
  BY DEF Grows
<1>2. WorkersSound'
  BY DEF IInv, WorkersSound, SoundAt, Settled, SentBefore
<1>3. StrictDeliveryIsKept'
  <2>1. accepted \subseteq Deliveries
    BY DEF IInv, StoredTyped
  <2> QED
    BY <1>1, <2>1, KeptStays DEF IInv
<1> QED
  BY <1>2, <1>3 DEF IInv, WorkersTyped, SentTyped

\* A worker that has done with its entry is quiet.
LEMMA FinishesQuietly ==
  ASSUME IInv, NEW w \in Workers, Finishes(w)
  PROVE  /\ worker' \in [Workers -> Worker] /\ \A v \in Workers \ {w} : worker'[v] = worker[v]
         /\ worker'[w].payload = 1 /\ worker'[w].step \in {"choosing", "done"} /\ worker'[w].id = 0
<1>1. PICK step \in {"choosing", "done"} : worker' = [worker EXCEPT ![w] = AtRest(step)]
  BY DEF Finishes
<1>2. AtRest(step) \in Worker /\ AtRest(step).step = step /\ AtRest(step).payload = 1 /\ AtRest(step).id = 0
  BY <1>1, RestRecord DEF Steps
<1> QED
  BY <1>1, <1>2 DEF IInv, WorkersTyped

\* One that goes on to another step keeps the rest of its record.
LEMMA GoesOn ==
  ASSUME IInv, NEW w \in Workers, NEW step \in Steps, Goes(w, step)
  PROVE  /\ worker' \in [Workers -> Worker] /\ \A v \in Workers \ {w} : worker'[v] = worker[v]
         /\ worker'[w].step = step /\ worker'[w].payload = worker[w].payload
         /\ worker'[w].id = worker[w].id
<1>1. worker[w] \in Worker /\ worker \in [Workers -> Worker]
  BY DEF IInv, WorkersTyped
<1>2. worker' = [worker EXCEPT ![w] = [worker[w] EXCEPT !.step = step]]
  BY DEF Goes
<1>3. [worker[w] EXCEPT !.step = step] \in Worker
  BY <1>1 DEF Worker
<1> QED
  BY <1>1, <1>2, <1>3 DEF Worker

\* What is known of a worker at a step.
LEMMA AtStepFacts ==
  ASSUME IInv, NEW w \in Workers, worker[w].step \in Busy
  PROVE  worker[w] \in Worker /\ worker[w].id \in Deliveries
BY DEF IInv, WorkersTyped, WorkersSound, SoundAt

\* The outcome of a send goes to the entry.
LEMMA RecordsOutcome ==
  ASSUME IInv, NEW w \in Workers, NEW step \in Steps, Records(w, step)
  PROVE  /\ worker' \in [Workers -> Worker] /\ \A v \in Workers \ {w} : worker'[v] = worker[v]
         /\ worker'[w].step = step /\ worker'[w].payload = 1 /\ worker'[w].id = worker[w].id
<1>1. worker[w] \in Worker /\ worker \in [Workers -> Worker]
  BY DEF IInv, WorkersTyped
<1>2. worker' = [worker EXCEPT ![w] = [worker[w] EXCEPT !.step = step, !.payload = 1, !.partial = FALSE,
                                                        !.results = FALSE]]
  BY DEF Records
<1>3. [worker[w] EXCEPT !.step = step, !.payload = 1, !.partial = FALSE, !.results = FALSE] \in Worker
  <2>1. [worker[w] EXCEPT !.step = step] \in Worker
    BY <1>1 DEF Worker
  <2>2. \A b \in Worker : [b EXCEPT !.payload = 1] \in Worker
    BY DEF Worker
  <2>3. \A b \in Worker : [b EXCEPT !.partial = FALSE] \in Worker
    BY DEF Worker
  <2>4. \A b \in Worker : [b EXCEPT !.results = FALSE] \in Worker
    BY DEF Worker
  <2> QED
    BY <2>1, <2>2, <2>3, <2>4
<1> QED
  BY <1>1, <1>2, <1>3 DEF Worker

\* An attempt that throws is over, and does not go to the acknowledgement.
LEMMA ThrowsOutcome ==
  ASSUME IInv, NEW w \in Workers, Throws(w)
  PROVE  /\ worker' \in [Workers -> Worker] /\ \A v \in Workers \ {w} : worker'[v] = worker[v]
         /\ worker'[w].step \in {"failing", "moving"} /\ worker'[w].payload = 1
         /\ worker'[w].id = worker[w].id
<1>1. PICK step \in {"failing", "moving"} : Records(w, step)
  BY DEF Throws
<1>2. step \in Steps
  BY DEF Steps
<1> QED
  BY <1>1, <1>2, RecordsOutcome

\* After a payload comes the next one, or the end.
LEMMA PayloadIsDone ==
  ASSUME IInv, NEW w \in Workers, worker[w].step = "sending", NEW success \in BOOLEAN,
         NEW failed \in BOOLEAN, PayloadDone(w, success, failed)
  PROVE  /\ worker' \in [Workers -> Worker] /\ \A v \in Workers \ {w} : worker'[v] = worker[v]
         /\ worker'[w].id = worker[w].id
         /\ \/ /\ worker'[w].step = "sending" /\ worker'[w].payload = worker[w].payload + 1
               /\ worker'[w].payload \in Payloads(worker[w].id)
            \/ /\ worker'[w].step \in {"failing", "acking", "moving"} /\ worker'[w].payload = 1
               /\ worker[w].payload = PayloadsOf[worker[w].id]
<1>1. worker[w] \in Worker /\ worker[w].id \in Deliveries /\ worker \in [Workers -> Worker]
      /\ worker[w].payload \in Payloads(worker[w].id)
  BY DEF IInv, WorkersTyped, WorkersSound, SoundAt, Busy
<1>2. PayloadsOf[worker[w].id] \in Nat /\ worker[w].payload \in 1 .. PayloadsOf[worker[w].id]
  BY <1>1, Constants DEF Payloads
<1>3. CASE worker[w].payload < PayloadsOf[worker[w].id]
  <2> DEFINE next == [worker[w] EXCEPT !.payload = worker[w].payload + 1,
                                       !.partial = worker[w].partial \/ failed,
                                       !.results = worker[w].results \/ success]
  <2>1. worker' = [worker EXCEPT ![w] = next]
    BY <1>3 DEF PayloadDone
  <2>2. /\ (worker[w].partial \/ failed) \in BOOLEAN /\ worker[w].payload + 1 \in Nat \ {0}
        /\ (worker[w].results \/ success) \in BOOLEAN
    BY <1>2
  <2>3. next \in Worker /\ next.step = "sending" /\ next.payload = worker[w].payload + 1
        /\ next.id = worker[w].id
    BY <1>1, <2>2 DEF Worker
  <2>4. next.payload \in Payloads(worker[w].id)
    BY <1>2, <1>3, <2>3 DEF Payloads
  <2> HIDE DEF next
  <2> QED
    BY <1>1, <2>1, <2>3, <2>4
<1>4. CASE ~(worker[w].payload < PayloadsOf[worker[w].id])
  <2>1. (\E step \in {"failing", "acking"} : Records(w, step)) \/ Throws(w)
    BY <1>4 DEF PayloadDone
  <2>2. worker[w].payload = PayloadsOf[worker[w].id]
    BY <1>2, <1>4
  <2>3. CASE Throws(w)
    BY <2>2, <2>3, ThrowsOutcome
  <2>4. CASE \E step \in {"failing", "acking"} : Records(w, step)
    <3>1. PICK step \in {"failing", "acking"} : Records(w, step)
      BY <2>4
    <3>2. step \in Steps
      BY DEF Steps
    <3> QED
      BY <2>2, <3>1, <3>2, RecordsOutcome
  <2> QED
    BY <2>1, <2>3, <2>4
<1> QED
  BY <1>3, <1>4

\* moveToFailed keeps the message, under another name.
LEMMA MoveKeeps ==
  ASSUME IInv, NEW d \in Deliveries, MoveToFailed(d)
  PROVE  /\ disk' \in [Deliveries -> SUBSET Files]
         /\ \A e \in Deliveries : Kept(e) => Kept(e)'
<1>1. disk \in [Deliveries -> SUBSET Files]
  BY DEF IInv, StoredTyped
<1>2. disk' = [disk EXCEPT ![d] = IF HasJson(d) THEN (disk[d] \ {"json"}) \cup {"failed"} ELSE disk[d]]
  BY DEF MoveToFailed
<1> QED
  BY <1>1, <1>2 DEF Kept, HasJson, Files

-----------------------------------------------------------------------------
(* The steps.                                                              *)

\* The initial state satisfies the invariant.
LEMMA InitInv == Init => IInv
<1> SUFFICES ASSUME Init PROVE IInv
  OBVIOUS
<1>1. StoredTyped
  <2>1. disk \in [Deliveries -> SUBSET Files] /\ retryCount \in [Deliveries -> Nat]
    BY DEF Init
  <2>2. snapshot \in [Scans -> [Deliveries -> Nat]]
    BY Constants DEF Init, NothingRead
  <2>3. starts \in 0 .. MaxStarts /\ crashes \in 0 .. MaxCrashes /\ diskErrors \in 0 .. MaxDiskErrors
    BY Constants DEF Init
  <2> QED
    BY <2>1, <2>2, <2>3 DEF Init, StoredTyped
<1>2. AtRest("idle") \in Worker /\ AtRest("idle").step = "idle" /\ AtRest("idle").payload = 1
      /\ AtRest("idle").id = 0
  BY RestRecord DEF Steps
<1>3. WorkersTyped
  BY <1>2 DEF Init, WorkersTyped
<1>4. WorkersSound
  BY <1>2 DEF Init, WorkersSound, SoundAt, Busy
<1>5. SentTyped
  BY DEF Init, SentTyped
<1>6. StrictDeliveryIsKept
  BY DEF Init, StrictDeliveryIsKept
<1> QED
  BY <1>1, <1>3, <1>4, <1>5, <1>6 DEF IInv

\* The entry is on disk before the first payload is sent.
LEMMA PersistInv == ASSUME NEW d \in Deliveries PROVE IInv /\ Persist(d) => IInv'
<1> SUFFICES ASSUME IInv, Persist(d) PROVE IInv'
  OBVIOUS
<1>1. /\ worker' = [worker EXCEPT ![Live(d)] = Sending(d)]
      /\ disk' = [disk EXCEPT ![d] = @ \cup {"json"}]
      /\ accepted' = accepted \cup {d}
      /\ UNCHANGED << retryCount, snapshot, up, starts, crashes, diskErrors, sent, aborted, unacked, shared >>
  BY DEF Persist, bounds
<1>2. disk \in [Deliveries -> SUBSET Files] /\ accepted \subseteq Deliveries /\ worker \in [Workers -> Worker]
      /\ Live(d) \in Workers
  BY WorkerNames DEF IInv, StoredTyped, WorkersTyped
<1>3. disk' \in [Deliveries -> SUBSET Files] /\ Kept(d)' /\ \A e \in Deliveries : Kept(e) => Kept(e)'
  BY <1>1, <1>2 DEF Files, Kept
<1>4. StoredTyped'
  BY <1>1, <1>2, <1>3 DEF IInv, StoredTyped
<1>5. Sending(d) \in Worker /\ Sending(d).step = "sending" /\ Sending(d).id = d /\ Sending(d).payload = 1
  BY SendingRecord
<1>6. WorkersTyped' /\ worker'[Live(d)] = Sending(d) /\ \A v \in Workers \ {Live(d)} : worker'[v] = worker[v]
  BY <1>1, <1>2, <1>5 DEF WorkersTyped
<1>7. Grows
  BY <1>1 DEF Grows
<1>8. SoundAt(Live(d))'
  <2>1. 1 \in Payloads(d)
    BY Constants DEF Payloads
  <2> QED
    BY <1>5, <1>6, <2>1, WorkerNames DEF SoundAt, SentBefore
<1>9. WorkersSound'
  BY <1>2, <1>6, <1>7, <1>8, OneWorkerSteps DEF IInv
<1>10. StrictDeliveryIsKept'
  BY <1>1, <1>2, <1>3, <1>7, KeptStays DEF IInv
<1> QED
  BY <1>1, <1>4, <1>6, <1>9, <1>10 DEF IInv, SentTyped

\* A message that could not be persisted is nobody's any more.
LEMMA PersistFailsInv == ASSUME NEW d \in Deliveries PROVE IInv /\ PersistFails(d) => IInv'
<1> SUFFICES ASSUME IInv, PersistFails(d) PROVE IInv'
  OBVIOUS
<1>1. /\ worker' = [worker EXCEPT ![Live(d)] = AtRest("done")]
      /\ UNCHANGED << disk, retryCount, snapshot, up, starts, crashes, sent, accepted, aborted, unacked, shared >>
  BY DEF PersistFails, history
<1>2. StoredTyped'
  <2>1. diskErrors' \in 0 .. MaxDiskErrors
    BY Constants DEF PersistFails, IInv, StoredTyped
  <2> QED
    BY <1>1, <2>1 DEF IInv, StoredTyped
<1>3. AtRest("done") \in Worker /\ AtRest("done").step = "done" /\ AtRest("done").payload = 1
      /\ AtRest("done").id = 0
  BY RestRecord DEF Steps
<1>4. /\ worker' \in [Workers -> Worker] /\ Live(d) \in Workers /\ worker'[Live(d)] = AtRest("done")
      /\ \A v \in Workers \ {Live(d)} : worker'[v] = worker[v]
  BY <1>1, <1>3, WorkerNames DEF IInv, WorkersTyped
<1>5. \A e \in Deliveries : Kept(e) => Kept(e)'
  BY <1>1 DEF Kept
<1> QED
  BY <1>1, <1>2, <1>3, <1>4, <1>5, QuietStep DEF Busy

\* A caller that aborts gives its message up.
LEMMA AbortInv == ASSUME NEW d \in Deliveries PROVE IInv /\ Abort(d) => IInv'
<1> SUFFICES ASSUME IInv, Abort(d) PROVE IInv'
  OBVIOUS
<1>1. /\ Records(Live(d), "acking") /\ aborted' = aborted \cup {d}
      /\ worker[Live(d)].step = "sending"
      /\ UNCHANGED << disk, retryCount, snapshot, up, starts, crashes, diskErrors, sent, accepted, unacked, shared >>
  BY DEF Abort, AtStep, bounds
<1>2. Live(d) \in Workers /\ "acking" \in Steps
  BY WorkerNames DEF Steps
<1>3. /\ worker' \in [Workers -> Worker] /\ \A v \in Workers \ {Live(d)} : worker'[v] = worker[v]
      /\ worker'[Live(d)].step = "acking" /\ worker'[Live(d)].payload = 1
      /\ worker'[Live(d)].id = worker[Live(d)].id
  BY <1>1, <1>2, RecordsOutcome
<1>4. StoredTyped'
  BY <1>1 DEF IInv, StoredTyped
<1>5. worker[Live(d)].id = d
  <2>1. SoundAt(Live(d)) /\ worker[Live(d)].id \in Deliveries
    BY <1>1, <1>2 DEF IInv, WorkersSound, SoundAt, Busy
  <2> QED
    BY <2>1, Constants DEF SoundAt
<1>6. Grows
  BY <1>1 DEF Grows
<1>7. SoundAt(Live(d))'
  BY <1>1, <1>3, <1>5, WorkerNames DEF SoundAt, Settled
<1>8. WorkersSound'
  BY <1>2, <1>3, <1>6, <1>7, OneWorkerSteps DEF IInv
<1>9. StrictDeliveryIsKept'
  <2>1. \A e \in Deliveries : Kept(e) => Kept(e)'
    BY <1>1 DEF Kept
  <2>2. accepted \subseteq Deliveries
    BY DEF IInv, StoredTyped
  <2> QED
    BY <1>1, <1>6, <2>1, <2>2, KeptStays DEF IInv
<1> QED
  BY <1>1, <1>3, <1>4, <1>8, <1>9 DEF IInv, SentTyped, WorkersTyped

\* A payload that was sent counts for the rest of the delivery.
LEMMA SendSucceedsInv == ASSUME NEW w \in Workers PROVE IInv /\ SendSucceeds(w) => IInv'
<1> SUFFICES ASSUME IInv, SendSucceeds(w) PROVE IInv'
  OBVIOUS
<1> DEFINE d == worker[w].id
           k == worker[w].payload
<1>1. /\ worker[w].step = "sending" /\ PayloadDone(w, TRUE, FALSE)
      /\ sent' = [sent EXCEPT ![d][k] = IF @ = 2 THEN 2 ELSE @ + 1]
      /\ unacked' \subseteq unacked \cup {d}
      /\ UNCHANGED << disk, retryCount, snapshot, up, starts, crashes, diskErrors, accepted, aborted, shared >>
  BY DEF SendSucceeds, Unmarked, AtStep, bounds
<1>2. /\ d \in Deliveries /\ k \in Payloads(d) /\ SentBefore(d, k) /\ SoundAt(w)
      /\ PayloadsOf[d] \in Nat
  BY <1>1, Constants DEF IInv, WorkersSound, SoundAt, Busy
<1>3. /\ worker' \in [Workers -> Worker] /\ \A v \in Workers \ {w} : worker'[v] = worker[v]
      /\ worker'[w].id = d
      /\ \/ worker'[w].step = "sending" /\ worker'[w].payload = k + 1 /\ worker'[w].payload \in Payloads(d)
         \/ worker'[w].step \in {"failing", "acking", "moving"} /\ worker'[w].payload = 1 /\ k = PayloadsOf[d]
  BY <1>1, PayloadIsDone
<1>4. StoredTyped'
  BY <1>1, <1>2 DEF IInv, StoredTyped
<1>5. sent = [e \in Deliveries |-> sent[e]] /\ \A e \in Deliveries : sent[e] \in [Payloads(e) -> 0 .. 2]
  BY DEF IInv, SentTyped
<1>6. /\ sent' = [sent EXCEPT ![d] = [sent[d] EXCEPT ![k] = IF sent[d][k] = 2 THEN 2 ELSE sent[d][k] + 1]]
      /\ sent[d] \in [Payloads(d) -> 0 .. 2]
  BY <1>1, <1>2, <1>5
<1> HIDE DEF d, k
<1>7. /\ sent'[d] = [sent[d] EXCEPT ![k] = IF sent[d][k] = 2 THEN 2 ELSE sent[d][k] + 1]
      /\ \A e \in Deliveries \ {d} : sent'[e] = sent[e]
      /\ sent' = [e \in Deliveries |-> sent'[e]]
  BY <1>2, <1>5, <1>6
<1>8. /\ sent'[d] \in [Payloads(d) -> 0 .. 2] /\ sent'[d][k] # 0
      /\ \A p \in Payloads(d) : sent[d][p] # 0 => sent'[d][p] # 0
  BY <1>2, <1>6, <1>7
<1>9. SentTyped'
  BY <1>5, <1>7, <1>8 DEF SentTyped, Payloads
<1>10. Grows
  <2> SUFFICES ASSUME NEW e \in Deliveries, NEW p \in Payloads(e), sent[e][p] # 0 PROVE sent'[e][p] # 0
    BY <1>1 DEF Grows
  <2>1. CASE e = d
    BY <1>8, <2>1
  <2>2. CASE e # d
    BY <1>7, <2>2
  <2> QED
    BY <2>1, <2>2
<1>11. d \in BestEffort \/ \A p \in 1 .. k : sent'[d][p] # 0
  <2> SUFFICES ASSUME d \notin BestEffort, NEW p \in 1 .. k PROVE sent'[d][p] # 0
    OBVIOUS
  <2>1. k \in Nat /\ p \in Payloads(d)
    BY <1>2 DEF Payloads
  <2>2. CASE p = k
    BY <1>8, <2>2
  <2>3. CASE p # k
    <3>1. p \in 1 .. k - 1
      BY <2>1, <2>3
    <3> QED
      BY <1>2, <1>8, <2>1, <3>1 DEF SentBefore
  <2> QED
    BY <2>2, <2>3
<1>12. SoundAt(w)'
  <2>1. \A e \in Deliveries : w = Live(e) => worker'[w].id \in {0, e}
    BY <1>2, <1>3 DEF SoundAt, d
  <2>2. CASE worker'[w].step = "sending"
    <3>1. worker'[w].payload = k + 1 /\ worker'[w].payload \in Payloads(d)
      BY <1>3, <2>2
    <3>2. \A p \in 1 .. (k + 1) - 1 : p \in 1 .. k
      BY <1>2 DEF Payloads
    <3>3. SentBefore(worker[w].id, worker[w].payload)'
      BY <1>3, <1>11, <3>1, <3>2 DEF SentBefore
    <3> QED
      BY <1>2, <1>3, <2>1, <2>2, <3>1, <3>3 DEF SoundAt
  <2>3. CASE worker'[w].step # "sending"
    <3>1. worker'[w].step \in {"failing", "acking", "moving"} /\ worker'[w].payload = 1 /\ k = PayloadsOf[d]
      BY <1>3, <2>3
    <3>2. Settled(worker[w].id)'
      BY <1>3, <1>11, <3>1 DEF Settled, Payloads
    <3> QED
      BY <1>2, <1>3, <2>1, <3>1, <3>2 DEF SoundAt
  <2> QED
    BY <2>2, <2>3
<1>13. WorkersSound'
  BY <1>3, <1>10, <1>12, OneWorkerSteps DEF IInv
<1>14. StrictDeliveryIsKept'
  <2>1. \A e \in Deliveries : Kept(e) => Kept(e)'
    BY <1>1 DEF Kept
  <2>2. accepted \subseteq Deliveries
    BY DEF IInv, StoredTyped
  <2> QED
    BY <1>1, <1>10, <2>1, <2>2, KeptStays DEF IInv
<1> QED
  BY <1>3, <1>4, <1>9, <1>13, <1>14 DEF IInv, WorkersTyped

\* A payload that failed ends the delivery, unless it is bestEffort.
LEMMA SendFailsInv == ASSUME NEW w \in Workers PROVE IInv /\ SendFails(w) => IInv'
<1> SUFFICES ASSUME IInv, SendFails(w) PROVE IInv'
  OBVIOUS
<1> DEFINE d == worker[w].id
<1>1. /\ worker[w].step = "sending"
      /\ unacked' \subseteq unacked \cup {d}
      /\ UNCHANGED << disk, retryCount, snapshot, up, starts, crashes, diskErrors, sent, accepted, aborted, shared >>
  BY DEF SendFails, Unmarked, AtStep, bounds
<1>2. d \in Deliveries /\ SoundAt(w)
  BY <1>1 DEF IInv, WorkersSound, SoundAt, Busy
<1>3. StoredTyped'
  BY <1>1, <1>2 DEF IInv, StoredTyped
<1>4. Grows /\ \A e \in Deliveries : Kept(e) => Kept(e)'
  BY <1>1 DEF Grows, Kept
<1>5. CASE d \in BestEffort
  <2>1. PayloadDone(w, FALSE, w \in Lives /\ d \in Observed) /\ (w \in Lives /\ d \in Observed) \in BOOLEAN
    BY <1>5 DEF SendFails
  <2>2. /\ worker' \in [Workers -> Worker] /\ \A v \in Workers \ {w} : worker'[v] = worker[v]
        /\ worker'[w].id = d
        /\ \/ worker'[w].step = "sending" /\ worker'[w].payload \in Payloads(d)
           \/ worker'[w].step \in {"failing", "acking", "moving"} /\ worker'[w].payload = 1
    BY <1>1, <2>1, PayloadIsDone
  <2> HIDE DEF d
  <2>3. SoundAt(w)'
    <3>1. \A e \in Deliveries : w = Live(e) => worker'[w].id \in {0, e}
      BY <1>2, <2>2 DEF SoundAt, d
    <3> QED
      BY <1>2, <1>5, <2>2, <3>1 DEF SoundAt, Settled, SentBefore
  <2>4. WorkersSound'
    BY <1>4, <2>2, <2>3, OneWorkerSteps DEF IInv
  <2>5. StrictDeliveryIsKept'
    <3>1. accepted \subseteq Deliveries
      BY DEF IInv, StoredTyped
    <3> QED
      BY <1>1, <1>4, <3>1, KeptStays DEF IInv
  <2> QED
    BY <1>1, <1>3, <2>2, <2>4, <2>5 DEF IInv, WorkersTyped, SentTyped
<1>6. CASE d \notin BestEffort
  <2>1. /\ worker' \in [Workers -> Worker] /\ \A v \in Workers \ {w} : worker'[v] = worker[v]
        /\ worker'[w].step \in {"failing", "moving"} /\ worker'[w].payload = 1 /\ worker'[w].id = d
    BY <1>6, ThrowsOutcome DEF SendFails
  <2> QED
    BY <1>1, <1>2, <1>3, <1>4, <2>1, QuietStep
<1> QED
  BY <1>5, <1>6

\* An attempt that cannot begin sends nothing, and does not acknowledge.
LEMMA HandlerFailsInv == ASSUME NEW w \in Workers PROVE IInv /\ HandlerFails(w) => IInv'
<1> SUFFICES ASSUME IInv, HandlerFails(w) PROVE IInv'
  OBVIOUS
<1>1. /\ worker[w].step = "sending" /\ Throws(w)
      /\ UNCHANGED << disk, retryCount, snapshot, up, starts, crashes, sent, accepted, aborted, unacked, shared >>
  BY DEF HandlerFails, AtStep, history
<1>2. worker[w].id \in Deliveries
  BY <1>1, AtStepFacts DEF Busy
<1>3. StoredTyped'
  <2>1. diskErrors' \in 0 .. MaxDiskErrors
    BY Constants DEF HandlerFails, IInv, StoredTyped
  <2> QED
    BY <1>1, <2>1 DEF IInv, StoredTyped
<1>4. \A e \in Deliveries : Kept(e) => Kept(e)'
  BY <1>1 DEF Kept
<1> QED
  BY <1>1, <1>2, <1>3, <1>4, ThrowsOutcome, QuietStep

\* The acknowledgement takes the entry of a settled message away.
LEMMA AckRenameInv == ASSUME NEW w \in Workers PROVE IInv /\ AckRename(w) => IInv'
<1> SUFFICES ASSUME IInv, AckRename(w) PROVE IInv'
  OBVIOUS
<1> DEFINE d == worker[w].id
<1>1. /\ worker[w].step = "acking" /\ Goes(w, "unlinking")
      /\ disk' = [disk EXCEPT ![d] = IF HasJson(d) THEN (disk[d] \ {"json"}) \cup {"delivered"} ELSE disk[d]]
      /\ UNCHANGED << retryCount, snapshot, up, starts, crashes, diskErrors, sent, accepted, aborted, unacked, shared >>
  BY DEF AckRename, AtStep, bounds
<1>2. d \in Deliveries /\ SoundAt(w) /\ Settled(d)
  BY <1>1 DEF IInv, WorkersSound, SoundAt, Busy
<1>3. /\ worker' \in [Workers -> Worker] /\ \A v \in Workers \ {w} : worker'[v] = worker[v]
      /\ worker'[w].step = "unlinking" /\ worker'[w].id = d
  BY <1>1, <1>2, GoesOn DEF Steps
<1> HIDE DEF d
<1>4. disk \in [Deliveries -> SUBSET Files] /\ accepted \subseteq Deliveries
  BY DEF IInv, StoredTyped
<1>5. disk' \in [Deliveries -> SUBSET Files] /\ \A e \in Deliveries \ {d} : Kept(e) => Kept(e)'
  BY <1>1, <1>4 DEF Files, Kept
<1>6. StoredTyped'
  BY <1>1, <1>5 DEF IInv, StoredTyped
<1>7. Grows
  BY <1>1 DEF Grows
<1>8. SoundAt(w)'
  BY <1>2, <1>3, QuietIsSound DEF d
<1>9. WorkersSound'
  BY <1>3, <1>7, <1>8, OneWorkerSteps DEF IInv
<1>10. StrictDeliveryIsKept'
  <2>1. \A e \in accepted : Kept(e) => Kept(e)' \/ Settled(e)'
    <3> SUFFICES ASSUME NEW e \in accepted, Kept(e) PROVE Kept(e)' \/ Settled(e)'
      OBVIOUS
    <3>1. CASE e = d
      BY <1>1, <1>2, <3>1 DEF Settled
    <3>2. CASE e # d
      BY <1>4, <1>5, <3>2
    <3> QED
      BY <3>1, <3>2
  <2> QED
    BY <1>1, <1>4, <1>7, <2>1, KeptStays DEF IInv
<1> QED
  BY <1>1, <1>3, <1>6, <1>9, <1>10 DEF IInv, WorkersTyped, SentTyped

\* An acknowledgement that fails leaves the entry, and so does the removal of the
\* marker.
LEMMA AckFailsInv == ASSUME NEW w \in Workers PROVE IInv /\ AckFails(w) => IInv'
<1> SUFFICES ASSUME IInv, AckFails(w) PROVE IInv'
  OBVIOUS
<1>1. /\ worker[w].step = "acking" /\ unacked' = unacked \cup {worker[w].id}
      /\ UNCHANGED << disk, retryCount, snapshot, up, starts, crashes, sent, accepted, aborted, shared >>
  BY DEF AckFails, AtStep
<1>2. worker[w].id \in Deliveries
  BY <1>1, AtStepFacts DEF Busy
<1>3. StoredTyped'
  <2>1. diskErrors' \in 0 .. MaxDiskErrors
    BY Constants DEF AckFails, IInv, StoredTyped
  <2> QED
    BY <1>1, <1>2, <2>1 DEF IInv, StoredTyped
<1>4. \A e \in Deliveries : Kept(e) => Kept(e)'
  BY <1>1 DEF Kept
<1>5. CASE w \in Scans
  <2>1. Goes(w, "failing") /\ "failing" \in Steps
    BY <1>5 DEF AckFails, Steps
  <2> QED
    BY <1>1, <1>2, <1>3, <1>4, <2>1, GoesOn, QuietStep
<1>6. CASE w \notin Scans
  <2>1. Finishes(w)
    BY <1>6 DEF AckFails
  <2> QED
    BY <1>1, <1>3, <1>4, <2>1, FinishesQuietly, QuietStep DEF Busy
<1> QED
  BY <1>5, <1>6

LEMMA AckUnlinkInv == ASSUME NEW w \in Workers PROVE IInv /\ AckUnlink(w) => IInv'
<1> SUFFICES ASSUME IInv, AckUnlink(w) PROVE IInv'
  OBVIOUS
<1>1. /\ disk' = [disk EXCEPT ![worker[w].id] = @ \ {"delivered"}] /\ Finishes(w)
      /\ UNCHANGED << retryCount, snapshot, up, starts, crashes, diskErrors,
                      sent, accepted, aborted, unacked, shared >>
  BY DEF AckUnlink, bounds, history
<1>2. disk \in [Deliveries -> SUBSET Files]
  BY DEF IInv, StoredTyped
<1>3. disk' \in [Deliveries -> SUBSET Files] /\ \A e \in Deliveries : Kept(e) => Kept(e)'
  BY <1>1, <1>2 DEF Files, Kept
<1>4. StoredTyped'
  BY <1>1, <1>3 DEF IInv, StoredTyped
<1> QED
  BY <1>1, <1>3, <1>4, FinishesQuietly, QuietStep DEF Busy

\* failDelivery only ever writes an entry.
LEMMA FailReadInv == ASSUME NEW w \in Workers PROVE IInv /\ FailRead(w) => IInv'
<1> SUFFICES ASSUME IInv, FailRead(w) PROVE IInv'
  OBVIOUS
<1> DEFINE d == worker[w].id
<1>1. /\ worker[w].step = "failing"
      /\ UNCHANGED << disk, retryCount, snapshot, up, starts, crashes, diskErrors,
                      sent, accepted, aborted, unacked, shared >>
  BY DEF FailRead, AtStep, bounds, history
<1>2. d \in Deliveries /\ worker[w] \in Worker
  BY <1>1, AtStepFacts DEF Busy
<1>3. StoredTyped' /\ \A e \in Deliveries : Kept(e) => Kept(e)'
  BY <1>1 DEF IInv, StoredTyped, Kept
<1>4. CASE HasJson(d)
  <2> DEFINE r == [worker[w] EXCEPT !.step = "rewriting", !.read = retryCount[d]]
  <2>1. worker' = [worker EXCEPT ![w] = r]
    BY <1>4 DEF FailRead
  <2>2. retryCount[d] \in Nat /\ worker \in [Workers -> Worker]
    BY <1>2 DEF IInv, StoredTyped, WorkersTyped
  <2>3. r \in Worker /\ r.step = "rewriting" /\ r.id = d
    <3>1. [worker[w] EXCEPT !.step = "rewriting"] \in Worker
      BY <1>2 DEF Worker, Steps
    <3>2. \A b \in Worker : [b EXCEPT !.read = retryCount[d]] \in Worker
      BY <2>2 DEF Worker
    <3>3. r \in Worker
      BY <3>1, <3>2
    <3> QED
      BY <1>2, <3>3 DEF Worker
  <2> HIDE DEF r
  <2>4. worker' \in [Workers -> Worker] /\ worker'[w] = r /\ \A v \in Workers \ {w} : worker'[v] = worker[v]
    BY <2>1, <2>2, <2>3
  <2> QED
    BY <1>1, <1>2, <1>3, <2>3, <2>4, QuietStep
<1>5. CASE ~HasJson(d)
  <2>1. Finishes(w)
    BY <1>5 DEF FailRead
  <2> QED
    BY <1>1, <1>3, <2>1, FinishesQuietly, QuietStep DEF Busy
<1> QED
  BY <1>4, <1>5

LEMMA FailWriteInv == ASSUME NEW w \in Workers PROVE IInv /\ FailWrite(w) => IInv'
<1> SUFFICES ASSUME IInv, FailWrite(w) PROVE IInv'
  OBVIOUS
<1> DEFINE d == worker[w].id
<1>1. /\ worker[w].step = "rewriting" /\ Finishes(w)
      /\ retryCount' = [retryCount EXCEPT ![d] = worker[w].read + 1]
      /\ disk' = [disk EXCEPT ![d] = @ \cup {"json"}]
      /\ UNCHANGED << snapshot, up, starts, crashes, diskErrors, sent, accepted, aborted, unacked, shared >>
  BY DEF FailWrite, AtStep, bounds, history
<1>2. worker[w].read + 1 \in Nat
  <2>1. worker[w] \in Worker
    BY <1>1, AtStepFacts DEF Busy
  <2> QED
    BY <2>1 DEF Worker
<1>3. disk \in [Deliveries -> SUBSET Files] /\ retryCount \in [Deliveries -> Nat]
  BY DEF IInv, StoredTyped
<1> HIDE DEF d
<1>4. disk' \in [Deliveries -> SUBSET Files] /\ retryCount' \in [Deliveries -> Nat]
      /\ \A e \in Deliveries : Kept(e) => Kept(e)'
  BY <1>1, <1>2, <1>3 DEF Files, Kept
<1>5. StoredTyped'
  BY <1>1, <1>4 DEF IInv, StoredTyped
<1> QED
  BY <1>1, <1>4, <1>5, FinishesQuietly, QuietStep DEF Busy

LEMMA MovePermanentInv == ASSUME NEW w \in Workers PROVE IInv /\ MovePermanent(w) => IInv'
<1> SUFFICES ASSUME IInv, MovePermanent(w) PROVE IInv'
  OBVIOUS
<1>1. /\ worker[w].step = "moving" /\ Finishes(w) /\ MoveToFailed(worker[w].id)
      /\ UNCHANGED << retryCount, snapshot, up, starts, crashes, diskErrors,
                      sent, accepted, aborted, unacked, shared >>
  BY DEF MovePermanent, AtStep, bounds, history
<1>2. worker[w].id \in Deliveries
  BY <1>1, AtStepFacts DEF Busy
<1>3. disk' \in [Deliveries -> SUBSET Files] /\ \A e \in Deliveries : Kept(e) => Kept(e)'
  BY <1>1, <1>2, MoveKeeps
<1>4. StoredTyped'
  BY <1>1, <1>3 DEF IInv, StoredTyped
<1> QED
  BY <1>1, <1>3, <1>4, FinishesQuietly, QuietStep DEF Busy

\* A file operation that fails changes no file.
LEMMA UpdateFailsInv == ASSUME NEW w \in Workers PROVE IInv /\ UpdateFails(w) => IInv'
<1> SUFFICES ASSUME IInv, UpdateFails(w) PROVE IInv'
  OBVIOUS
<1>1. Finishes(w) /\ UNCHANGED << disk, retryCount, snapshot, up, starts, crashes,
                                  sent, accepted, aborted, unacked, shared >>
  BY DEF UpdateFails, history
<1>2. StoredTyped' /\ \A e \in Deliveries : Kept(e) => Kept(e)'
  <2>1. diskErrors' \in 0 .. MaxDiskErrors
    BY Constants DEF UpdateFails, IInv, StoredTyped
  <2> QED
    BY <1>1, <2>1 DEF IInv, StoredTyped, Kept
<1> QED
  BY <1>1, <1>2, FinishesQuietly, QuietStep DEF Busy

\* A scan reads entries and removes markers; an entry it cannot read stays.
LEMMA LoadInv ==
  ASSUME NEW s \in Scans, NEW unreadable \in SUBSET Deliveries
  PROVE  IInv /\ Load(s, unreadable) => IInv'
<1> SUFFICES ASSUME IInv, Load(s, unreadable) PROVE IInv'
  OBVIOUS
<1> DEFINE found == { d \in Deliveries : HasJson(d) } \ unreadable
<1>1. /\ worker[s].step = "loading" /\ Goes(s, IF found = {} THEN "done" ELSE "choosing")
      /\ diskErrors + Cardinality(unreadable) <= MaxDiskErrors
      /\ diskErrors' = diskErrors + Cardinality(unreadable)
      /\ snapshot' = [snapshot EXCEPT ![s] = [d \in Deliveries |-> IF d \in found THEN retryCount[d] ELSE NoEntry]]
      /\ disk' = [d \in Deliveries |-> disk[d] \ {"delivered"}]
      /\ UNCHANGED << retryCount, up, starts, crashes, sent, accepted, aborted, unacked >>
  BY DEF Load, AtStep
<1>2. shared' \subseteq shared \cup Deliveries
  BY DEF Load
<1>3. /\ disk \in [Deliveries -> SUBSET Files] /\ retryCount \in [Deliveries -> Nat]
      /\ snapshot \in [Scans -> [Deliveries -> Nat]] /\ diskErrors \in 0 .. MaxDiskErrors
      /\ shared \subseteq Deliveries
  BY DEF IInv, StoredTyped
<1>4. diskErrors' \in 0 .. MaxDiskErrors
  <2>1. IsFiniteSet(Deliveries)
    BY Constants, FS_Interval DEF Deliveries
  <2>2. Cardinality(unreadable) \in Nat
    BY <2>1, FS_Subset, FS_CardinalityType
  <2> QED
    BY <1>1, <1>3, <2>2, Constants
<1>5. PICK step \in {"done", "choosing"} : Goes(s, step)
  BY <1>1
<1> HIDE DEF found
<1>6. snapshot' \in [Scans -> [Deliveries -> Nat]]
  BY <1>1, <1>3, Constants
<1>7. disk' \in [Deliveries -> SUBSET Files] /\ \A e \in Deliveries : Kept(e) => Kept(e)'
  BY <1>1, <1>3 DEF Kept
<1>8. StoredTyped'
  BY <1>1, <1>2, <1>3, <1>4, <1>6, <1>7 DEF IInv, StoredTyped
<1>9. s \in Workers /\ step \in Steps /\ (worker[s].payload # 1 => worker[s].id \in Deliveries)
  BY WorkerNames DEF Steps, IInv, WorkersSound, SoundAt
<1>10. /\ worker' \in [Workers -> Worker] /\ \A v \in Workers \ {s} : worker'[v] = worker[v]
       /\ worker'[s].step = step /\ worker'[s].payload = worker[s].payload
       /\ worker'[s].id = worker[s].id
  BY <1>5, <1>9, GoesOn
<1> QED
  BY <1>1, <1>5, <1>7, <1>8, <1>9, <1>10, QuietStep DEF Busy

LEMMA ScanEndsInv == ASSUME NEW s \in Scans PROVE IInv /\ (LoadFails(s) \/ OutOfTime(s)) => IInv'
<1> SUFFICES ASSUME IInv, LoadFails(s) \/ OutOfTime(s) PROVE IInv'
  OBVIOUS
<1>1. /\ Goes(s, "done") /\ worker[s].step \in {"loading", "choosing"}
      /\ UNCHANGED << disk, retryCount, up, starts, crashes, sent, accepted, aborted, unacked, shared >>
  BY DEF LoadFails, OutOfTime, AtStep, bounds, history
<1>2. snapshot' \in [Scans -> [Deliveries -> Nat]]
  <2>1. NothingRead \in [Deliveries -> Nat] /\ snapshot \in [Scans -> [Deliveries -> Nat]]
    BY Constants DEF NothingRead, IInv, StoredTyped
  <2>2. snapshot' = snapshot \/ snapshot' = [snapshot EXCEPT ![s] = NothingRead]
    BY DEF LoadFails, OutOfTime
  <2> QED
    BY <2>1, <2>2
<1>3. diskErrors' \in 0 .. MaxDiskErrors
  BY Constants DEF LoadFails, OutOfTime, bounds, IInv, StoredTyped
<1>4. StoredTyped' /\ \A e \in Deliveries : Kept(e) => Kept(e)'
  BY <1>1, <1>2, <1>3 DEF IInv, StoredTyped, Kept
<1>5. s \in Workers /\ (worker[s].payload # 1 => worker[s].id \in Deliveries) /\ "done" \in Steps
  BY WorkerNames DEF Steps, IInv, WorkersSound, SoundAt
<1>6. /\ worker' \in [Workers -> Worker] /\ \A v \in Workers \ {s} : worker'[v] = worker[v]
      /\ worker'[s].step = "done" /\ worker'[s].payload = worker[s].payload
      /\ worker'[s].id = worker[s].id
  BY <1>1, <1>5, GoesOn
<1> QED
  BY <1>1, <1>4, <1>5, <1>6, QuietStep DEF Busy

\* An entry that a scan does not replay is left or moved away.
LEMMA HandledInv ==
  ASSUME NEW s \in Scans, NEW d \in Deliveries
  PROVE  IInv /\ (MoveExhausted(s, d) \/ MoveExhaustedFails(s, d) \/ Defer(s, d)) => IInv'
<1> SUFFICES ASSUME IInv, MoveExhausted(s, d) \/ MoveExhaustedFails(s, d) \/ Defer(s, d) PROVE IInv'
  OBVIOUS
<1>1. Handled(s, d) /\ UNCHANGED << retryCount, worker, up, starts, crashes,
                                    sent, accepted, aborted, unacked, shared >>
  BY DEF MoveExhausted, MoveExhaustedFails, Defer, bounds, history
<1>2. disk' = disk \/ MoveToFailed(d)
  BY DEF MoveExhausted, MoveExhaustedFails, Defer
<1>3. disk' \in [Deliveries -> SUBSET Files] /\ \A e \in Deliveries : Kept(e) => Kept(e)'
  <2>1. CASE disk' = disk
    BY <2>1 DEF IInv, StoredTyped, Kept
  <2>2. CASE MoveToFailed(d)
    BY <2>2, MoveKeeps
  <2> QED
    BY <1>2, <2>1, <2>2
<1>4. diskErrors' \in 0 .. MaxDiskErrors
  BY Constants DEF MoveExhausted, MoveExhaustedFails, Defer, bounds, IInv, StoredTyped
<1>5. snapshot' \in [Scans -> [Deliveries -> Nat]]
  BY <1>1, Constants DEF Handled, IInv, StoredTyped
<1>6. StoredTyped'
  BY <1>1, <1>3, <1>4, <1>5 DEF IInv, StoredTyped
<1> QED
  BY <1>1, <1>3, <1>6, StoreStep

\* A replay begins with the first payload again.
LEMMA ReplayInv == ASSUME NEW s \in Scans, NEW d \in Deliveries PROVE IInv /\ Replay(s, d) => IInv'
<1> SUFFICES ASSUME IInv, Replay(s, d) PROVE IInv'
  OBVIOUS
<1>1. /\ Handled(s, d) /\ worker' = [worker EXCEPT ![s] = Sending(d)]
      /\ UNCHANGED << disk, retryCount, up, starts, crashes, diskErrors,
                      sent, accepted, aborted, unacked, shared >>
  BY DEF Replay, bounds, history
<1>2. snapshot' \in [Scans -> [Deliveries -> Nat]]
  BY <1>1, Constants DEF Handled, IInv, StoredTyped
<1>3. StoredTyped' /\ Grows /\ \A e \in Deliveries : Kept(e) => Kept(e)'
  BY <1>1, <1>2 DEF IInv, StoredTyped, Kept, Grows
<1>4. Sending(d) \in Worker /\ Sending(d).step = "sending" /\ Sending(d).id = d /\ Sending(d).payload = 1
  BY SendingRecord
<1>5. /\ s \in Workers /\ worker' \in [Workers -> Worker] /\ worker'[s] = Sending(d)
      /\ \A v \in Workers \ {s} : worker'[v] = worker[v]
  BY <1>1, <1>4, WorkerNames DEF IInv, WorkersTyped
<1>6. SoundAt(s)'
  <2>1. 1 \in Payloads(d) /\ \A e \in Deliveries : s # Live(e)
    BY Constants, WorkerNames DEF Payloads
  <2> QED
    BY <1>4, <1>5, <2>1 DEF SoundAt, SentBefore
<1>7. WorkersSound'
  BY <1>3, <1>5, <1>6, OneWorkerSteps DEF IInv
<1>8. StrictDeliveryIsKept'
  <2>1. accepted \subseteq Deliveries
    BY DEF IInv, StoredTyped
  <2> QED
    BY <1>1, <1>3, <2>1, KeptStays DEF IInv
<1> QED
  BY <1>1, <1>3, <1>5, <1>7, <1>8 DEF IInv, WorkersTyped, SentTyped

\* A gateway starts: one more scan, and nothing else changes.
LEMMA StartInv == IInv /\ Start => IInv'
<1> SUFFICES ASSUME IInv, Start PROVE IInv'
  OBVIOUS
<1> DEFINE s == Scan(starts + 1)
<1>1. /\ starts < MaxStarts /\ starts' = starts + 1 /\ up' = TRUE /\ Goes(s, "loading")
      /\ UNCHANGED << disk, retryCount, snapshot, crashes, diskErrors,
                      sent, accepted, aborted, unacked, shared >>
  BY DEF Start, Goes, history
<1>2. starts + 1 \in 1 .. MaxStarts
  BY <1>1, Constants DEF IInv, StoredTyped
<1>3. s \in Workers
  BY <1>2, WorkerNames
<1> HIDE DEF s
<1>4. (worker[s].payload # 1 => worker[s].id \in Deliveries) /\ "loading" \in Steps
  BY <1>3 DEF Steps, IInv, WorkersSound, SoundAt
<1>5. /\ worker' \in [Workers -> Worker] /\ \A v \in Workers \ {s} : worker'[v] = worker[v]
      /\ worker'[s].step = "loading" /\ worker'[s].payload = worker[s].payload
      /\ worker'[s].id = worker[s].id
  BY <1>1, <1>3, <1>4, GoesOn
<1>6. StoredTyped'
  <2>1. starts' \in 0 .. MaxStarts
    BY <1>1, <1>2
  <2> QED
    BY <1>1, <2>1 DEF IInv, StoredTyped
<1>7. \A e \in Deliveries : Kept(e) => Kept(e)'
  BY <1>1 DEF Kept
<1> QED
  BY <1>1, <1>3, <1>4, <1>5, <1>6, <1>7, QuietStep DEF Busy

\* What is on disk survives a crash, and no worker does.
LEMMA CrashInv == IInv /\ Crash => IInv'
<1> SUFFICES ASSUME IInv, Crash PROVE IInv'
  OBVIOUS
<1>1. /\ up' = FALSE /\ crashes < MaxCrashes /\ crashes' = crashes + 1
      /\ worker' = [w \in Workers |-> IF worker[w].step = "idle" THEN worker[w] ELSE AtRest("done")]
      /\ snapshot' = [s \in Scans |-> NothingRead]
      /\ UNCHANGED << disk, retryCount, starts, diskErrors, sent, accepted, aborted, shared >>
  BY DEF Crash
<1>2. AtRest("done") \in Worker /\ AtRest("done").step = "done" /\ AtRest("done").payload = 1
      /\ AtRest("done").id = 0
  BY RestRecord DEF Steps
<1>3. worker \in [Workers -> Worker]
  BY DEF IInv, WorkersTyped
<1>4. WorkersTyped'
  BY <1>1, <1>2, <1>3 DEF WorkersTyped
<1>5. WorkersSound'
  <2> SUFFICES ASSUME NEW w \in Workers PROVE SoundAt(w)'
    BY DEF WorkersSound
  <2>1. SoundAt(w)
    BY DEF IInv, WorkersSound
  <2>2. CASE worker[w].step = "idle"
    <3>1. worker'[w] = worker[w]
      BY <1>1, <2>2
    <3> QED
      BY <2>1, <2>2, <3>1 DEF SoundAt, Busy
  <2>3. CASE worker[w].step # "idle"
    <3>1. worker'[w] = AtRest("done")
      BY <1>1, <2>3
    <3> QED
      BY <1>2, <3>1 DEF SoundAt, Busy
  <2> QED
    BY <2>2, <2>3
<1>6. StoredTyped'
  <2>1. unacked' \subseteq Deliveries
    <3>1. ASSUME NEW w \in Workers, worker[w].step \in {"acking", "sending"}
          PROVE  worker[w].id \in Deliveries
      BY <3>1, AtStepFacts DEF Busy
    <3>2. unacked' \subseteq unacked \cup { worker[w].id : w \in { v \in Workers :
                                           worker[v].step \in {"acking", "sending"} } }
      BY DEF Crash
    <3>3. unacked \subseteq Deliveries
      BY DEF IInv, StoredTyped
    <3> QED
      BY <3>1, <3>2, <3>3
  <2>2. crashes' \in 0 .. MaxCrashes
    BY <1>1, Constants DEF IInv, StoredTyped
  <2>3. snapshot' \in [Scans -> [Deliveries -> Nat]]
    BY <1>1, Constants DEF NothingRead
  <2> QED
    BY <1>1, <2>1, <2>2, <2>3 DEF IInv, StoredTyped
<1>7. StrictDeliveryIsKept'
  <2>1. Grows /\ \A e \in Deliveries : Kept(e) => Kept(e)'
    BY <1>1 DEF Grows, Kept
  <2>2. accepted \subseteq Deliveries
    BY DEF IInv, StoredTyped
  <2> QED
    BY <1>1, <2>1, <2>2, KeptStays DEF IInv
<1> QED
  BY <1>1, <1>4, <1>5, <1>6, <1>7 DEF IInv, SentTyped

\* Every step keeps the invariant.
LEMMA NextInv == IInv /\ [Next]_vars => IInv'
<1> SUFFICES ASSUME IInv, [Next]_vars PROVE IInv'
  OBVIOUS
<1>1. CASE UNCHANGED vars
  <2>1. UNCHANGED << disk, retryCount, worker, snapshot, up, starts, crashes, diskErrors,
                     sent, accepted, aborted, unacked, shared >>
    BY <1>1 DEF vars, volatile, bounds, history
  <2>2. StoredTyped' /\ \A e \in Deliveries : Kept(e) => Kept(e)'
    BY <2>1 DEF IInv, StoredTyped, Kept
  <2> QED
    BY <2>1, <2>2, StoreStep
<1>2. CASE \E d \in Deliveries : Persist(d) \/ PersistFails(d) \/ Abort(d)
  BY <1>2, PersistInv, PersistFailsInv, AbortInv
<1>3. CASE \E w \in Workers : SendSucceeds(w) \/ SendFails(w) \/ HandlerFails(w)
  BY <1>3, SendSucceedsInv, SendFailsInv, HandlerFailsInv
<1>4. CASE \E w \in Workers : AckRename(w) \/ AckFails(w) \/ AckUnlink(w)
  BY <1>4, AckRenameInv, AckFailsInv, AckUnlinkInv
<1>5. CASE \E w \in Workers : FailRead(w) \/ FailWrite(w) \/ MovePermanent(w) \/ UpdateFails(w)
  BY <1>5, FailReadInv, FailWriteInv, MovePermanentInv, UpdateFailsInv
<1>6. CASE \E s \in Scans, unreadable \in SUBSET Deliveries : Load(s, unreadable)
  BY <1>6, LoadInv
<1>7. CASE \E s \in Scans : LoadFails(s) \/ OutOfTime(s)
  BY <1>7, ScanEndsInv
<1>8. CASE \E s \in Scans, d \in Deliveries :
             MoveExhausted(s, d) \/ MoveExhaustedFails(s, d) \/ Defer(s, d) \/ Replay(s, d)
  BY <1>8, HandledInv, ReplayInv
<1>9. CASE Start \/ Crash
  BY <1>9, StartInv, CrashInv
<1> QED
  BY <1>1, <1>2, <1>3, <1>4, <1>5, <1>6, <1>7, <1>8, <1>9 DEF Next

\* Every reachable state satisfies the invariant.
LEMMA Invariant == Spec => []IInv
<1>1. Init => IInv
  BY InitInv
<1>2. IInv /\ [Next]_vars => IInv'
  BY NextInv
<1> QED
  BY <1>1, <1>2, PTL DEF Spec

-----------------------------------------------------------------------------
\* Every variable keeps its type.
THEOREM TypeCorrect == Spec => []TypeOK
<1>1. IInv => TypeOK
  <2> SUFFICES ASSUME IInv PROVE TypeOK
    OBVIOUS
  <2>1. worker \in [Workers -> [ step : Steps, id : 0 .. NumDeliveries, read : Nat,
                                 payload : Nat \ {0}, partial : BOOLEAN, results : BOOLEAN ]]
    BY DEF IInv, WorkersTyped, Worker
  <2> QED
    BY <2>1 DEF IInv, StoredTyped, SentTyped, TypeOK
<1> QED
  BY <1>1, Invariant, PTL

\* A message that was persisted and is not bestEffort is on disk until all of it
\* has been sent or its caller has given it up, whatever crashes, overlaps or
\* fails on the way.
THEOREM StrictMessagesAreKept == Spec => []StrictDeliveryIsKept
<1>1. IInv => StrictDeliveryIsKept
  BY DEF IInv
<1> QED
  BY <1>1, Invariant, PTL
-----------------------------------------------------------------------------
(***************************************************************************)
(* More about DeliveryQueue, for any constants: no payload is sent twice   *)
(* and no entry is retried too often, except where the properties say so.  *)
(* Both follow from one fact: an entry that no scan has read while another *)
(* worker had it is held by one worker at a time, so what that worker did  *)
(* and read is all there is to know about the entry.                       *)
(***************************************************************************)

Untouched(d) == \A p \in Payloads(d) : sent[d][p] = 0
AtMostOnce(d) == \A p \in Payloads(d) : sent[d][p] <= 1

\* What the step of a worker says about the sends of the entry that it holds.
SendsKnown(w, d) ==
  /\ worker[w].id = d /\ worker[w].step = "sending" =>
       /\ \A p \in Payloads(d) : p >= worker[w].payload => sent[d][p] = 0
       /\ ~worker[w].results => Untouched(d)
  /\ worker[w].id = d /\ worker[w].step \in {"failing", "rewriting", "moving"} => Untouched(d)
  /\ worker[w].id = d /\ worker[w].step = "unlinking" => ~HasJson(d)
  /\ w \in Scans /\ snapshot[w][d] # NoEntry => Untouched(d)

\* And about its retry count.
CountKnown(w, d) ==
  /\ worker[w].id = d /\ worker[w].step \in Busy => retryCount[d] < MaxRetries
  /\ worker[w].id = d /\ worker[w].step = "rewriting" => worker[w].read = retryCount[d]
  /\ w \in Scans /\ snapshot[w][d] # NoEntry => snapshot[w][d] = retryCount[d]

\* An entry nobody has made yet.
Unborn(d) ==
  ~HasJson(d) /\ Untouched(d) /\ retryCount[d] = 0 /\ \A w \in Workers : ~Holds(w, d)

OneHolder(d) == \A v, w \in Workers : Holds(v, d) /\ Holds(w, d) => v = w

CountsSound(d) == retryCount[d] <= MaxRetries /\ \A w \in Workers : CountKnown(w, d)

SendsSound(d) ==
  /\ AtMostOnce(d) /\ \A w \in Workers : SendsKnown(w, d)
  /\ HasJson(d) /\ (\A w \in Workers : ~Holds(w, d)) => Untouched(d)

EntrySound(d) ==
  /\ worker[Live(d)].step = "idle" => Unborn(d)
  /\ d \notin shared => OneHolder(d) /\ CountsSound(d)
  /\ d \notin shared \cup unacked => SendsSound(d)

\* A worker without an entry names none, one that has an entry does not have it
\* to handle later, and a scan that was not started is idle.
Placed(w) ==
  /\ worker[w].step \notin Busy => worker[w].id = 0
  /\ w \in Scans /\ worker[w].step \in Busy => snapshot[w][worker[w].id] = NoEntry
  /\ \A n \in 1 .. MaxStarts : w = Scan(n) /\ n > starts => worker[w].step = "idle"

Exclusive == (\A w \in Workers : Placed(w)) /\ (\A d \in Deliveries : EntrySound(d))

-----------------------------------------------------------------------------
(* Steps seen from one entry.                                              *)

\* Who holds an entry: the worker that names it, or a scan that has read it.
LEMMA HoldsIs ==
  ASSUME Exclusive, NEW w \in Workers, NEW d \in Deliveries
  PROVE  /\ Holds(w, d) <=> \/ worker[w].id = d
                            \/ w \in Scans /\ snapshot[w][d] # NoEntry
         /\ worker[w].id = d => worker[w].step \in Busy
BY Constants DEF Exclusive, Placed, Holds, Busy

\* A step that one entry does not see.
LEMMA Elsewhere ==
  ASSUME NEW e \in Deliveries, EntrySound(e), NEW w \in Workers,
         worker'[w].step # "idle", worker[w].id # e, worker'[w].id # e,
         \A v \in Workers \ {w} : worker'[v] = worker[v],
         \A s \in Scans : snapshot'[s][e] = snapshot[s][e],
         sent'[e] = sent[e], HasJson(e)' <=> HasJson(e), retryCount'[e] = retryCount[e],
         shared' = shared, unacked \subseteq unacked'
  PROVE  EntrySound(e)'
<1>1. \A v \in Workers : Holds(v, e)' <=> Holds(v, e)
  BY DEF Holds
<1>2. Untouched(e)' <=> Untouched(e)
  BY DEF Untouched
<1>3. worker[Live(e)].step = "idle" => Unborn(e)
  BY DEF EntrySound
<1>4. (worker[Live(e)].step = "idle")' => Unborn(e)'
  <2> SUFFICES ASSUME worker'[Live(e)].step = "idle" PROVE Unborn(e)'
    OBVIOUS
  <2>1. worker[Live(e)].step = "idle"
    BY WorkerNames
  <2> QED
    BY <1>1, <1>2, <1>3, <2>1 DEF Unborn
<1>5. ASSUME e \notin shared PROVE OneHolder(e)' /\ CountsSound(e)'
  <2>1. OneHolder(e) /\ CountsSound(e)
    BY <1>5 DEF EntrySound
  <2>2. \A v \in Workers : CountKnown(v, e)'
    BY <2>1 DEF CountsSound, CountKnown
  <2>3. OneHolder(e)'
    BY <1>1, <2>1 DEF OneHolder
  <2> QED
    BY <2>1, <2>2, <2>3 DEF CountsSound
<1>6. ASSUME e \notin shared \cup unacked PROVE SendsSound(e)'
  <2>1. SendsSound(e)
    BY <1>6 DEF EntrySound
  <2>2. \A v \in Workers : SendsKnown(v, e)'
    BY <1>2, <2>1 DEF SendsSound, SendsKnown
  <2>3. AtMostOnce(e)'
    BY <2>1 DEF SendsSound, AtMostOnce
  <2>4. (HasJson(e) /\ (\A v \in Workers : ~Holds(v, e)) => Untouched(e))'
    BY <1>1, <1>2, <2>1 DEF SendsSound
  <2> QED
    BY <2>2, <2>3, <2>4 DEF SendsSound
<1> QED
  BY <1>4, <1>5, <1>6 DEF EntrySound

\* A step of the worker that holds the entry.
LEMMA ByItsHolder ==
  ASSUME Exclusive, NEW d \in Deliveries, NEW w \in Workers, worker[w].id = d,
         worker'[w].step # "idle", worker'[w].id \in {0, d},
         worker'[w].id = d => worker'[w].step \in Busy,
         \A v \in Workers \ {w} : worker'[v] = worker[v],
         snapshot' = snapshot, shared' = shared, unacked \subseteq unacked',
         d \notin shared => retryCount'[d] <= MaxRetries /\ CountKnown(w, d)',
         d \notin shared \cup unacked' =>
           /\ AtMostOnce(d)' /\ SendsKnown(w, d)'
           /\ HasJson(d)' /\ worker'[w].id = 0 => Untouched(d)'
  PROVE  EntrySound(d)'
<1>1. EntrySound(d) /\ Holds(w, d)
  BY HoldsIs DEF Exclusive
<1>2. worker'[Live(d)].step # "idle"
  <2>1. CASE w = Live(d)
    BY <2>1
  <2>2. CASE w # Live(d)
    <3>1. worker[Live(d)].step # "idle"
      BY <1>1 DEF EntrySound, Unborn
    <3> QED
      BY <2>2, <3>1, WorkerNames
  <2> QED
    BY <2>1, <2>2
<1>3. ASSUME NEW v \in Workers \ {w}, d \notin shared
      PROVE  ~Holds(v, d) /\ ~Holds(v, d)' /\ CountKnown(v, d)' /\ SendsKnown(v, d)'
  <2>1. ~Holds(v, d)
    BY <1>1, <1>3 DEF EntrySound, OneHolder
  <2>2. worker'[v] = worker[v] /\ worker[v].id # d /\ ~(v \in Scans /\ snapshot[v][d] # NoEntry)
    BY <2>1, HoldsIs
  <2> QED
    BY <2>1, <2>2 DEF Holds, CountKnown, SendsKnown
<1>4. ASSUME d \notin shared PROVE OneHolder(d)' /\ CountsSound(d)'
  BY <1>3, <1>4 DEF OneHolder, CountsSound
<1>5. ASSUME d \notin shared \cup unacked' PROVE SendsSound(d)'
  <2>1. AtMostOnce(d)' /\ \A v \in Workers : SendsKnown(v, d)'
    BY <1>3, <1>5
  <2>2. ASSUME HasJson(d)', \A v \in Workers : ~Holds(v, d)' PROVE Untouched(d)'
    <3>1. CASE worker'[w].id = 0
      BY <1>5, <2>2, <3>1
    <3>2. CASE worker'[w].id = d
      <4>1. Holds(w, d)'
        BY <3>2 DEF Holds, Busy
      <4> QED
        BY <2>2, <4>1
    <3> QED
      BY <3>1, <3>2
  <2> QED
    BY <2>1, <2>2 DEF SendsSound
<1> QED
  BY <1>2, <1>4, <1>5 DEF EntrySound

\* A step of the worker that holds an entry, on that entry: what has to be shown
\* of it is about the entry and the worker alone.
LEMMA HolderSteps ==
  ASSUME Exclusive, NEW w \in Workers, NEW d \in Deliveries, worker[w].id = d,
         worker'[w].step # "idle", worker'[w].id \in {0, d},
         worker'[w].id = d <=> worker'[w].step \in Busy,
         \A v \in Workers \ {w} : worker'[v] = worker[v],
         snapshot' = snapshot, shared' = shared, unacked \subseteq unacked', starts' = starts,
         \A e \in Deliveries \ {d} :
           sent'[e] = sent[e] /\ disk'[e] = disk[e] /\ retryCount'[e] = retryCount[e],
         d \notin shared => retryCount'[d] <= MaxRetries /\ CountKnown(w, d)',
         d \notin shared \cup unacked' =>
           /\ AtMostOnce(d)' /\ SendsKnown(w, d)'
           /\ HasJson(d)' /\ worker'[w].id = 0 => Untouched(d)'
  PROVE  Exclusive'
<1>1. EntrySound(d)'
  BY ByItsHolder
<1>2. ASSUME NEW e \in Deliveries \ {d} PROVE EntrySound(e)'
  <2>1. EntrySound(e) /\ worker[w].id # e /\ worker'[w].id # e
    BY Constants DEF Exclusive
  <2>2. HasJson(e)' <=> HasJson(e)
    BY DEF HasJson
  <2> QED
    BY <2>1, <2>2, Elsewhere
<1>3. Placed(w)'
  <2>1. Placed(w) /\ worker[w].step \in Busy
    BY HoldsIs DEF Exclusive
  <2>2. worker[w].step # "idle"
    BY <2>1 DEF Busy
  <2> QED
    BY <2>1, <2>2 DEF Placed
<1>4. \A v \in Workers \ {w} : Placed(v)'
  BY DEF Exclusive, Placed
<1> QED
  BY <1>1, <1>2, <1>3, <1>4 DEF Exclusive

\* A worker that goes on to another step of the same entry.
LEMMA HolderGoesOn ==
  ASSUME IInv, NEW w \in Workers, worker[w].step \in Busy, NEW step \in Busy, Goes(w, step)
  PROVE  /\ \A v \in Workers \ {w} : worker'[v] = worker[v]
         /\ worker'[w].step = step /\ worker'[w].id = worker[w].id
         /\ worker'[w].payload = worker[w].payload /\ worker'[w].results = worker[w].results
         /\ worker'[w].read = worker[w].read
<1>1. worker[w] \in Worker /\ worker \in [Workers -> Worker]
  BY DEF IInv, WorkersTyped
<1> QED
  BY <1>1 DEF Goes, Worker

\* The end of a send, in the detail that attempts which end half-way need.
LEMMA PayloadEnds ==
  ASSUME IInv, NEW w \in Workers, worker[w].step = "sending", NEW success \in BOOLEAN,
         NEW failed \in BOOLEAN, PayloadDone(w, success, failed)
  PROVE  /\ \A v \in Workers \ {w} : worker'[v] = worker[v]
         /\ worker'[w].id = worker[w].id
         /\ \/ /\ worker'[w].step = "sending" /\ worker'[w].payload = worker[w].payload + 1
               /\ worker'[w].results <=> worker[w].results \/ success
            \/ worker'[w].step \in {"failing", "acking", "moving"}
<1>1. worker[w] \in Worker /\ worker \in [Workers -> Worker]
  BY DEF IInv, WorkersTyped
<1>2. CASE worker[w].payload < PayloadsOf[worker[w].id]
  <2> DEFINE more == worker[w].partial \/ failed
             some == worker[w].results \/ success
  <2>1. worker' = [worker EXCEPT ![w] = [worker[w] EXCEPT !.payload = worker[w].payload + 1,
                                                          !.partial = more, !.results = some]]
    BY <1>2 DEF PayloadDone
  <2> HIDE DEF more, some
  <2>2. worker'[w] = [worker[w] EXCEPT !.payload = worker[w].payload + 1, !.partial = more,
                                       !.results = some]
    BY <1>1, <2>1
  <2>3. worker'[w].id = worker[w].id /\ worker'[w].step = "sending"
        /\ worker'[w].payload = worker[w].payload + 1 /\ worker'[w].results = some
    BY <1>1, <2>2 DEF Worker
  <2>4. \A v \in Workers \ {w} : worker'[v] = worker[v]
    BY <1>1, <2>1
  <2> QED
    BY <2>3, <2>4 DEF some
<1>3. CASE ~(worker[w].payload < PayloadsOf[worker[w].id])
  <2>1. worker'[w].step # "sending"
    <3>1. \E step \in Steps \ {"sending"} : Records(w, step)
      BY <1>3 DEF PayloadDone, Throws, Steps
    <3> QED
      BY <3>1, RecordsOutcome
  <2> QED
    BY <2>1, PayloadIsDone
<1> QED
  BY <1>2, <1>3

-----------------------------------------------------------------------------
(* The steps.                                                              *)

\* The initial state satisfies the invariant.
LEMMA InitExclusive == Init => Exclusive
<1> SUFFICES ASSUME Init PROVE Exclusive
  OBVIOUS
<1>1. AtRest("idle").id = 0 /\ AtRest("idle").step = "idle"
  BY DEF AtRest
<1>2. \A w \in Workers : worker[w].id = 0 /\ worker[w].step = "idle"
  BY <1>1 DEF Init
<1>3. \A s \in Scans : \A d \in Deliveries : snapshot[s][d] = NoEntry
  BY DEF Init, NothingRead
<1>4. \A w \in Workers : Placed(w)
  BY <1>2 DEF Placed, Busy
<1>5. ASSUME NEW d \in Deliveries PROVE EntrySound(d)
  <2>1. disk[d] = {} /\ retryCount[d] = 0 /\ \A p \in Payloads(d) : sent[d][p] = 0
    BY <1>5 DEF Init
  <2>2. \A w \in Workers : ~Holds(w, d) /\ worker[w].id # d
    BY <1>2, <1>3, Constants DEF Holds
  <2>3. Unborn(d)
    BY <2>1, <2>2 DEF Unborn, HasJson, Untouched
  <2>4. OneHolder(d) /\ CountsSound(d)
    BY <1>3, <2>1, <2>2, Constants DEF OneHolder, CountsSound, CountKnown
  <2>5. SendsSound(d)
    <3>1. \A w \in Workers : SendsKnown(w, d)
      BY <1>3, <2>2 DEF SendsKnown
    <3>2. AtMostOnce(d) /\ Untouched(d)
      BY <2>1 DEF AtMostOnce, Untouched
    <3> QED
      BY <3>1, <3>2 DEF SendsSound
  <2> QED
    BY <2>3, <2>4, <2>5 DEF EntrySound
<1> QED
  BY <1>4, <1>5 DEF Exclusive

\* A delivery begins: its entry had not been made, so nobody else holds it.
LEMMA PersistExclusive ==
  ASSUME NEW d \in Deliveries
  PROVE  IInv /\ Exclusive /\ (Persist(d) \/ PersistFails(d)) => Exclusive'
<1> SUFFICES ASSUME IInv, Exclusive, Persist(d) \/ PersistFails(d) PROVE Exclusive'
  OBVIOUS
<1> DEFINE w == Live(d)
<1>1. w \in Workers /\ w \notin Scans /\ worker \in [Workers -> Worker]
  BY WorkerNames DEF IInv, WorkersTyped
<1>2. /\ worker[w].step = "idle"
      /\ UNCHANGED << retryCount, snapshot, starts, sent, unacked, shared >>
  BY DEF Persist, PersistFails, AtStep, bounds, history
<1>3. \A v \in Workers \ {w} : worker'[v] = worker[v]
  BY <1>1 DEF Persist, PersistFails
<1>4. \/ /\ worker'[w].id = d /\ worker'[w].step = "sending" /\ worker'[w].payload = 1
         /\ worker'[w].read = 0
      \/ worker'[w].id = 0 /\ worker'[w].step = "done" /\ disk'[d] = disk[d]
  BY <1>1 DEF Persist, PersistFails, Sending, AtRest
<1>5. \A e \in Deliveries \ {d} : disk'[e] = disk[e]
  BY DEF Persist, PersistFails, IInv, StoredTyped
<1> HIDE DEF w
<1>6. Unborn(d) /\ worker[w].id = 0
  BY <1>1, <1>2 DEF Exclusive, EntrySound, Placed, w, Busy
<1>7. \A v \in Workers \ {w} : ~Holds(v, d)' /\ worker'[v].id # d /\ ~(v \in Scans /\ snapshot'[v][d] # NoEntry)
  <2> SUFFICES ASSUME NEW v \in Workers \ {w}
               PROVE  ~Holds(v, d)' /\ worker'[v].id # d /\ ~(v \in Scans /\ snapshot'[v][d] # NoEntry)
    OBVIOUS
  <2>1. ~Holds(v, d)
    BY <1>6 DEF Unborn
  <2>2. worker[v].id # d /\ ~(v \in Scans /\ snapshot[v][d] # NoEntry)
    BY <2>1, HoldsIs
  <2> QED
    BY <1>2, <1>3, <2>1, <2>2 DEF Holds
<1>8. retryCount'[d] = 0 /\ Untouched(d)'
  BY <1>2, <1>6 DEF Unborn, Untouched
<1>9. EntrySound(d)'
  <2>1. worker'[Live(d)].step # "idle"
    BY <1>4 DEF w
  <2>2. OneHolder(d)'
    BY <1>7 DEF OneHolder
  <2>3. CountsSound(d)'
    <3>1. \A v \in Workers : CountKnown(v, d)'
      BY <1>1, <1>4, <1>7, <1>8, Constants DEF CountKnown
    <3> QED
      BY <1>8, <3>1, Constants DEF CountsSound
  <2>4. SendsSound(d)'
    <3>1. AtMostOnce(d)'
      BY <1>8 DEF Untouched, AtMostOnce
    <3>2. \A v \in Workers : SendsKnown(v, d)'
      BY <1>1, <1>4, <1>7, <1>8, Constants DEF SendsKnown, Untouched
    <3> QED
      BY <1>8, <3>1, <3>2 DEF SendsSound
  <2> QED
    BY <2>1, <2>2, <2>3, <2>4 DEF EntrySound
<1>10. ASSUME NEW e \in Deliveries \ {d} PROVE EntrySound(e)'
  <2>1. EntrySound(e) /\ worker[w].id # e /\ worker'[w].id # e /\ worker'[w].step # "idle"
    BY <1>4, <1>6, Constants DEF Exclusive
  <2>2. HasJson(e)' <=> HasJson(e)
    BY <1>5 DEF HasJson
  <2> QED
    BY <1>1, <1>2, <1>3, <2>1, <2>2, Elsewhere
<1>11. Placed(w)'
  <2>1. \A n \in 1 .. MaxStarts : w # Scan(n)
    BY <1>1, WorkerNames
  <2> QED
    BY <1>1, <1>4, <2>1 DEF Placed, Busy
<1>12. \A v \in Workers \ {w} : Placed(v)'
  BY <1>2, <1>3 DEF Exclusive, Placed
<1> QED
  BY <1>9, <1>10, <1>11, <1>12 DEF Exclusive

\* The caller aborts.
LEMMA AbortExclusive == ASSUME NEW d \in Deliveries PROVE IInv /\ Exclusive /\ Abort(d) => Exclusive'
<1> SUFFICES ASSUME IInv, Exclusive, Abort(d) PROVE Exclusive'
  OBVIOUS
<1> DEFINE w == Live(d)
<1>1. /\ Records(w, "acking") /\ worker[w].step = "sending"
      /\ UNCHANGED << disk, retryCount, snapshot, starts, sent, unacked, shared >>
  BY DEF Abort, AtStep, bounds
<1>2. w \in Workers /\ w \notin Scans /\ "acking" \in Steps
  BY WorkerNames DEF Steps
<1>3. /\ \A v \in Workers \ {w} : worker'[v] = worker[v]
      /\ worker'[w].step = "acking" /\ worker'[w].id = worker[w].id
  BY <1>1, <1>2, RecordsOutcome
<1>4. worker[w].id = d
  <2>1. SoundAt(w) /\ worker[w].id \in Deliveries
    BY <1>1, <1>2 DEF IInv, WorkersSound, SoundAt, Busy
  <2> QED
    BY <2>1, Constants DEF SoundAt
<1> HIDE DEF w
<1>5. EntrySound(d) /\ worker[w].step \in Busy
  BY <1>1 DEF Exclusive, Busy
<1>6. d \notin shared => retryCount'[d] <= MaxRetries /\ CountKnown(w, d)'
  BY <1>1, <1>2, <1>3, <1>4, <1>5 DEF EntrySound, CountsSound, CountKnown
<1>7. d \notin shared \cup unacked' => AtMostOnce(d)' /\ SendsKnown(w, d)'
  BY <1>1, <1>2, <1>3, <1>5 DEF EntrySound, SendsSound, AtMostOnce, SendsKnown
<1> QED
  BY <1>1, <1>2, <1>3, <1>4, <1>6, <1>7, Constants, HolderSteps DEF Busy

\* A payload is sent by the only worker that has the entry, and for the first time.
LEMMA SendSucceedsExclusive ==
  ASSUME NEW w \in Workers PROVE IInv /\ Exclusive /\ SendSucceeds(w) => Exclusive'
<1> SUFFICES ASSUME IInv, Exclusive, SendSucceeds(w) PROVE Exclusive'
  OBVIOUS
<1>1. worker[w].step = "sending"
  BY DEF SendSucceeds, AtStep
<1>2. PICK d \in Deliveries : worker[w].id = d
  BY <1>1, AtStepFacts DEF Busy
<1>3. PICK k \in Payloads(d) : worker[w].payload = k
  BY <1>1, <1>2 DEF IInv, WorkersSound, SoundAt
<1>4. /\ PayloadDone(w, TRUE, FALSE)
      /\ sent' = [sent EXCEPT ![d][k] = IF @ = 2 THEN 2 ELSE @ + 1]
      /\ unacked' = IF worker'[w].step \in {"failing", "moving"} THEN unacked \cup {d} ELSE unacked
      /\ UNCHANGED << disk, retryCount, snapshot, starts, shared >>
  BY <1>2, <1>3 DEF SendSucceeds, Unmarked, bounds
<1>5. /\ \A v \in Workers \ {w} : worker'[v] = worker[v]
      /\ worker'[w].id = d
      /\ \/ worker'[w].step = "sending" /\ worker'[w].payload = k + 1 /\ worker'[w].results
         \/ worker'[w].step \in {"failing", "acking", "moving"}
  BY <1>1, <1>2, <1>3, <1>4, PayloadEnds
<1>6. sent = [e \in Deliveries |-> sent[e]] /\ sent[d] \in [Payloads(d) -> 0 .. 2]
  BY DEF IInv, SentTyped
<1>7. \A e \in Deliveries \ {d} : sent'[e] = sent[e]
  BY <1>4, <1>6
<1>8. sent'[d] = [sent[d] EXCEPT ![k] = IF sent[d][k] = 2 THEN 2 ELSE sent[d][k] + 1]
  BY <1>4, <1>6
<1>9. EntrySound(d) /\ Placed(w)
  BY DEF Exclusive
<1>10. d \notin shared => retryCount'[d] <= MaxRetries /\ CountKnown(w, d)'
  BY <1>1, <1>2, <1>4, <1>5, <1>9 DEF EntrySound, CountsSound, CountKnown, Busy
<1>11. ASSUME d \notin shared \cup unacked' PROVE AtMostOnce(d)' /\ SendsKnown(w, d)'
  <2>1. worker'[w].step \notin {"failing", "moving"} /\ d \notin shared \cup unacked
    BY <1>4, <1>11
  <2>2. AtMostOnce(d) /\ SendsKnown(w, d)
    BY <1>9, <2>1 DEF EntrySound, SendsSound
  <2>3. \A p \in Payloads(d) : p >= k => sent[d][p] = 0
    BY <1>1, <1>2, <1>3, <2>2 DEF SendsKnown
  <2>4. k \in Nat /\ Payloads(d) \subseteq Nat
    BY Constants DEF Payloads
  <2>5. sent'[d][k] = 1 /\ \A p \in Payloads(d) \ {k} : sent'[d][p] = sent[d][p]
    <3>1. sent[d][k] = 0
      BY <2>3, <2>4
    <3> QED
      BY <1>6, <1>8, <3>1
  <2>6. AtMostOnce(d)'
    <3> SUFFICES ASSUME NEW p \in Payloads(d) PROVE sent'[d][p] <= 1
      BY DEF AtMostOnce
    <3>1. CASE p = k
      BY <2>5, <3>1
    <3>2. CASE p # k
      BY <2>2, <2>5, <3>2 DEF AtMostOnce
    <3> QED
      BY <3>1, <3>2
  <2>7. \A p \in Payloads(d) : p >= k + 1 => sent'[d][p] = 0
    BY <2>3, <2>4, <2>5
  <2>8. ~(w \in Scans /\ snapshot'[w][d] # NoEntry)
    BY <1>1, <1>2, <1>4, <1>9 DEF Placed, Busy
  <2>9. SendsKnown(w, d)'
    <3>1. CASE worker'[w].step = "sending"
      <4>1. worker'[w].payload = k + 1 /\ worker'[w].results
        BY <1>5, <3>1
      <4> QED
        BY <2>7, <2>8, <3>1, <4>1 DEF SendsKnown
    <3>2. CASE worker'[w].step = "acking"
      BY <2>8, <3>2 DEF SendsKnown
    <3> QED
      BY <1>5, <2>1, <3>1, <3>2
  <2> QED
    BY <2>6, <2>9
<1>12. worker'[w].step # "idle" /\ worker'[w].step \in Busy /\ d # 0
  BY <1>5, Constants DEF Busy
<1> QED
  BY <1>2, <1>4, <1>5, <1>7, <1>10, <1>11, <1>12, HolderSteps

\* An attempt that throws has sent nothing, or leaves its mark.
LEMMA ThrowsExclusive ==
  ASSUME NEW w \in Workers, IInv, Exclusive, worker[w].step = "sending",
         \A v \in Workers \ {w} : worker'[v] = worker[v], worker'[w].id = worker[w].id,
         worker'[w].step \in {"failing", "acking", "moving"},
         unacked \subseteq unacked',
         worker[w].results /\ worker'[w].step \in {"failing", "moving"} => worker[w].id \in unacked',
         unacked' \subseteq unacked \cup {worker[w].id},
         UNCHANGED << disk, retryCount, snapshot, starts, sent, shared >>
  PROVE  Exclusive'
<1>1. PICK d \in Deliveries : worker[w].id = d
  BY AtStepFacts DEF Busy
<1>2. EntrySound(d) /\ Placed(w)
  BY DEF Exclusive
<1>3. ~(w \in Scans /\ snapshot'[w][d] # NoEntry)
  BY <1>1, <1>2 DEF Placed, Busy
<1>4. d \notin shared => retryCount'[d] <= MaxRetries /\ CountKnown(w, d)'
  BY <1>1, <1>2, <1>3 DEF EntrySound, CountsSound, CountKnown, Busy
<1>5. ASSUME d \notin shared \cup unacked' PROVE AtMostOnce(d)' /\ SendsKnown(w, d)'
  <2>1. SendsKnown(w, d) /\ AtMostOnce(d)
    BY <1>2, <1>5 DEF EntrySound, SendsSound
  <2>2. AtMostOnce(d)'
    BY <2>1 DEF AtMostOnce
  <2>3. CASE worker'[w].step = "acking"
    BY <1>3, <2>2, <2>3 DEF SendsKnown
  <2>4. CASE worker'[w].step \in {"failing", "moving"}
    <3>1. Untouched(d)
      BY <1>1, <1>5, <2>1, <2>4 DEF SendsKnown
    <3>2. Untouched(d)'
      BY <3>1 DEF Untouched
    <3> QED
      BY <1>3, <2>2, <2>4, <3>2 DEF SendsKnown
  <2> QED
    BY <2>3, <2>4
<1>6. worker'[w].step # "idle" /\ worker'[w].step \in Busy /\ d # 0
  BY Constants DEF Busy
<1> QED
  BY <1>1, <1>4, <1>5, <1>6, HolderSteps

\* A payload that fails leaves the next one to send, or ends the attempt.
LEMMA SendFailsExclusive ==
  ASSUME NEW w \in Workers PROVE IInv /\ Exclusive /\ SendFails(w) => Exclusive'
<1> SUFFICES ASSUME IInv, Exclusive, SendFails(w) PROVE Exclusive'
  OBVIOUS
<1>1. worker[w].step = "sending"
  BY DEF SendFails, AtStep
<1>2. PICK d \in Deliveries : worker[w].id = d
  BY <1>1, AtStepFacts DEF Busy
<1>3. PICK k \in Payloads(d) : worker[w].payload = k
  BY <1>1, <1>2 DEF IInv, WorkersSound, SoundAt
<1>4. /\ unacked' = IF worker[w].results /\ worker'[w].step \in {"failing", "moving"}
                    THEN unacked \cup {d} ELSE unacked
      /\ UNCHANGED << disk, retryCount, snapshot, starts, sent, shared >>
  BY <1>2 DEF SendFails, Unmarked, bounds
<1>5. /\ \A v \in Workers \ {w} : worker'[v] = worker[v]
      /\ worker'[w].id = d
      /\ \/ /\ worker'[w].step = "sending" /\ worker'[w].payload = k + 1
            /\ worker'[w].results <=> worker[w].results
         \/ worker'[w].step \in {"failing", "acking", "moving"}
  <2>1. CASE d \in BestEffort
    <3>1. /\ PayloadDone(w, FALSE, w \in Lives /\ d \in Observed)
          /\ (w \in Lives /\ d \in Observed) \in BOOLEAN
      BY <1>2, <2>1 DEF SendFails
    <3> QED
      BY <1>1, <1>2, <1>3, <3>1, PayloadEnds
  <2>2. CASE d \notin BestEffort
    BY <1>2, <2>2, ThrowsOutcome DEF SendFails
  <2> QED
    BY <2>1, <2>2
<1>6. CASE worker'[w].step \in {"failing", "acking", "moving"}
  BY <1>1, <1>2, <1>4, <1>5, <1>6, ThrowsExclusive
<1>7. CASE worker'[w].step = "sending"
  <2>1. EntrySound(d) /\ Placed(w) /\ unacked' = unacked
    BY <1>4, <1>7 DEF Exclusive
  <2>2. ~(w \in Scans /\ snapshot'[w][d] # NoEntry)
    BY <1>1, <1>2, <1>4, <2>1 DEF Placed, Busy
  <2>3. d \notin shared => retryCount'[d] <= MaxRetries /\ CountKnown(w, d)'
    BY <1>1, <1>2, <1>4, <1>7, <2>1, <2>2 DEF EntrySound, CountsSound, CountKnown, Busy
  <2>4. ASSUME d \notin shared \cup unacked' PROVE AtMostOnce(d)' /\ SendsKnown(w, d)'
    <3>1. SendsKnown(w, d) /\ AtMostOnce(d)
      BY <2>1, <2>4 DEF EntrySound, SendsSound
    <3>2. AtMostOnce(d)' /\ (Untouched(d) => Untouched(d)')
      BY <1>4, <3>1 DEF AtMostOnce, Untouched
    <3>3. \A p \in Payloads(d) : p >= k + 1 => sent'[d][p] = 0
      <4>1. k \in Nat /\ Payloads(d) \subseteq Nat
        BY Constants DEF Payloads
      <4>2. \A p \in Payloads(d) : p >= k => sent[d][p] = 0
        BY <1>1, <1>2, <1>3, <3>1 DEF SendsKnown
      <4> QED
        BY <1>4, <4>1, <4>2
    <3>4. ~worker[w].results => Untouched(d)
      BY <1>1, <1>2, <3>1 DEF SendsKnown
    <3> QED
      BY <1>5, <1>7, <2>2, <3>2, <3>3, <3>4 DEF SendsKnown
  <2>5. worker'[w].step # "idle" /\ worker'[w].step \in Busy /\ d # 0
    BY <1>7, Constants DEF Busy
  <2> QED
    BY <1>2, <1>4, <1>5, <2>3, <2>4, <2>5, HolderSteps
<1> QED
  BY <1>5, <1>6, <1>7

\* Before its first payload an attempt has sent nothing.
LEMMA HandlerFailsExclusive ==
  ASSUME NEW w \in Workers PROVE IInv /\ Exclusive /\ HandlerFails(w) => Exclusive'
<1> SUFFICES ASSUME IInv, Exclusive, HandlerFails(w) PROVE Exclusive'
  OBVIOUS
<1>1. /\ worker[w].step = "sending" /\ worker[w].payload = 1 /\ Throws(w)
      /\ UNCHANGED << disk, retryCount, snapshot, starts, sent, unacked, shared >>
  BY DEF HandlerFails, AtStep, history
<1>2. PICK d \in Deliveries : worker[w].id = d
  BY <1>1, AtStepFacts DEF Busy
<1>3. /\ \A v \in Workers \ {w} : worker'[v] = worker[v]
      /\ worker'[w].id = d /\ worker'[w].step \in {"failing", "moving"}
  BY <1>1, <1>2, ThrowsOutcome
<1>4. EntrySound(d) /\ Placed(w)
  BY DEF Exclusive
<1>5. ~(w \in Scans /\ snapshot'[w][d] # NoEntry)
  BY <1>1, <1>2, <1>4 DEF Placed, Busy
<1>6. d \notin shared => retryCount'[d] <= MaxRetries /\ CountKnown(w, d)'
  BY <1>1, <1>2, <1>3, <1>4, <1>5 DEF EntrySound, CountsSound, CountKnown, Busy
<1>7. ASSUME d \notin shared \cup unacked' PROVE AtMostOnce(d)' /\ SendsKnown(w, d)'
  <2>1. SendsKnown(w, d) /\ AtMostOnce(d)
    BY <1>1, <1>4, <1>7 DEF EntrySound, SendsSound
  <2>2. \A p \in Payloads(d) : p >= 1
    BY Constants DEF Payloads
  <2>3. Untouched(d)'
    BY <1>1, <1>2, <2>1, <2>2 DEF SendsKnown, Untouched
  <2>4. AtMostOnce(d)'
    BY <1>1, <2>1 DEF AtMostOnce
  <2> QED
    BY <1>3, <1>5, <2>3, <2>4 DEF SendsKnown
<1>8. worker'[w].step # "idle" /\ worker'[w].step \in Busy /\ d # 0
  BY <1>3, Constants DEF Busy
<1> QED
  BY <1>1, <1>2, <1>3, <1>6, <1>7, <1>8, HolderSteps

\* What a worker at the entry's own steps knows of it.
LEMMA AtTheEntry ==
  ASSUME IInv, Exclusive, NEW w \in Workers, worker[w].step \in Busy
  PROVE  /\ worker[w].id \in Deliveries /\ worker[w].id # 0
         /\ EntrySound(worker[w].id)
         /\ ~(w \in Scans /\ snapshot[w][worker[w].id] # NoEntry)
BY AtStepFacts, Constants DEF Exclusive, Placed

\* The worker finishes, and leaves an entry that is gone or of which nothing was
\* sent, or one that is marked.
LEMMA FinishesExclusive ==
  ASSUME IInv, Exclusive, NEW w \in Workers, NEW d \in Deliveries, worker[w].id = d, Finishes(w),
         snapshot' = snapshot, shared' = shared, unacked \subseteq unacked', starts' = starts,
         sent' = sent,
         \A e \in Deliveries \ {d} : disk'[e] = disk[e] /\ retryCount'[e] = retryCount[e],
         d \notin shared => retryCount'[d] <= MaxRetries,
         d \notin shared \cup unacked' /\ HasJson(d)' => Untouched(d)
  PROVE  Exclusive'
<1>1. /\ \A v \in Workers \ {w} : worker'[v] = worker[v]
      /\ worker'[w].step \in {"choosing", "done"} /\ worker'[w].id = 0
  BY FinishesQuietly
<1>2. worker[w].step \in Busy
  BY HoldsIs
<1>3. EntrySound(d) /\ ~(w \in Scans /\ snapshot'[w][d] # NoEntry) /\ d # 0
  BY <1>2, AtTheEntry
<1>4. CountKnown(w, d)' /\ SendsKnown(w, d)'
  BY <1>1, <1>3 DEF CountKnown, SendsKnown
<1>5. d \notin shared \cup unacked' => AtMostOnce(d)'
  BY <1>3 DEF EntrySound, SendsSound, AtMostOnce
<1>6. Untouched(d) => Untouched(d)'
  BY DEF Untouched
<1>7. worker'[w].step # "idle" /\ worker'[w].step \notin Busy
  BY <1>1 DEF Busy
<1> QED
  BY <1>1, <1>3, <1>4, <1>5, <1>6, <1>7, HolderSteps

\* The acknowledgement, which takes the entry away.
LEMMA AckExclusive ==
  ASSUME NEW w \in Workers
  PROVE  IInv /\ Exclusive /\ (AckRename(w) \/ AckFails(w) \/ AckUnlink(w)) => Exclusive'
<1> SUFFICES ASSUME IInv, Exclusive, AckRename(w) \/ AckFails(w) \/ AckUnlink(w) PROVE Exclusive'
  OBVIOUS
<1>1. worker[w].step \in {"acking", "unlinking"}
  BY DEF AckRename, AckFails, AckUnlink, AtStep
<1>2. PICK d \in Deliveries : worker[w].id = d
  BY <1>1, AtStepFacts DEF Busy
<1>3. EntrySound(d) /\ d # 0 /\ ~(w \in Scans /\ snapshot[w][d] # NoEntry) /\ worker[w].step \in Busy
  BY <1>1, <1>2, AtTheEntry DEF Busy
<1>4. disk \in [Deliveries -> SUBSET Files]
  BY DEF IInv, StoredTyped
<1>5. CASE AckRename(w)
  <2>1. /\ Goes(w, "unlinking")
        /\ disk' = [disk EXCEPT ![d] = IF HasJson(d) THEN (disk[d] \ {"json"}) \cup {"delivered"} ELSE disk[d]]
        /\ UNCHANGED << retryCount, snapshot, starts, sent, unacked, shared >>
    BY <1>2, <1>5 DEF AckRename, bounds
  <2>2. /\ \A v \in Workers \ {w} : worker'[v] = worker[v]
        /\ worker'[w].step = "unlinking" /\ worker'[w].id = d
    BY <1>2, <1>3, <2>1, HolderGoesOn DEF Busy
  <2>3. ~HasJson(d)' /\ \A e \in Deliveries \ {d} : disk'[e] = disk[e]
    BY <1>4, <2>1 DEF HasJson
  <2>4. d \notin shared => retryCount'[d] <= MaxRetries /\ CountKnown(w, d)'
    BY <1>2, <1>3, <2>1, <2>2 DEF EntrySound, CountsSound, CountKnown
  <2>5. d \notin shared \cup unacked' => AtMostOnce(d)' /\ SendsKnown(w, d)'
    BY <1>2, <1>3, <2>1, <2>2, <2>3 DEF EntrySound, SendsSound, AtMostOnce, SendsKnown
  <2> QED
    BY <1>2, <1>3, <2>1, <2>2, <2>3, <2>4, <2>5, HolderSteps DEF Busy
<1>6. CASE AckFails(w)
  <2>1. unacked' = unacked \cup {d}
        /\ UNCHANGED << disk, retryCount, snapshot, starts, sent, shared >>
    BY <1>2, <1>6 DEF AckFails
  <2>2. CASE w \in Scans
    <3>1. Goes(w, "failing")
      BY <1>6, <2>2 DEF AckFails
    <3>2. /\ \A v \in Workers \ {w} : worker'[v] = worker[v]
          /\ worker'[w].step = "failing" /\ worker'[w].id = d
      BY <1>2, <1>3, <3>1, HolderGoesOn DEF Busy
    <3>3. d \notin shared => retryCount'[d] <= MaxRetries /\ CountKnown(w, d)'
      BY <1>2, <1>3, <2>1, <3>2 DEF EntrySound, CountsSound, CountKnown
    <3> QED
      BY <1>2, <1>3, <2>1, <3>2, <3>3, HolderSteps DEF Busy
  <2>3. CASE w \notin Scans
    <3>1. Finishes(w)
      BY <1>6, <2>3 DEF AckFails
    <3>2. d \notin shared => retryCount'[d] <= MaxRetries
      BY <1>3, <2>1 DEF EntrySound, CountsSound
    <3> QED
      BY <1>2, <2>1, <3>1, <3>2, FinishesExclusive
  <2> QED
    BY <2>2, <2>3
<1>7. CASE AckUnlink(w)
  <2>1. /\ disk' = [disk EXCEPT ![d] = @ \ {"delivered"}] /\ Finishes(w) /\ worker[w].step = "unlinking"
        /\ UNCHANGED << retryCount, snapshot, starts, sent, unacked, shared >>
    BY <1>2, <1>7 DEF AckUnlink, AtStep, bounds, history
  <2>2. (HasJson(d)' => HasJson(d)) /\ \A e \in Deliveries \ {d} : disk'[e] = disk[e]
    BY <1>4, <2>1 DEF HasJson
  <2>3. d \notin shared => retryCount'[d] <= MaxRetries
    BY <1>3, <2>1 DEF EntrySound, CountsSound
  <2>4. d \notin shared \cup unacked' => ~HasJson(d)'
    BY <1>2, <1>3, <2>1, <2>2 DEF EntrySound, SendsSound, SendsKnown
  <2> QED
    BY <1>2, <2>1, <2>2, <2>3, <2>4, FinishesExclusive
<1> QED
  BY <1>5, <1>6, <1>7

\* failDelivery: the count that was read is still the entry's when it is written.
LEMMA FailExclusive ==
  ASSUME NEW w \in Workers PROVE IInv /\ Exclusive /\ (FailRead(w) \/ FailWrite(w)) => Exclusive'
<1> SUFFICES ASSUME IInv, Exclusive, FailRead(w) \/ FailWrite(w) PROVE Exclusive'
  OBVIOUS
<1>1. worker[w].step \in {"failing", "rewriting"}
  BY DEF FailRead, FailWrite, AtStep
<1>2. PICK d \in Deliveries : worker[w].id = d
  BY <1>1, AtStepFacts DEF Busy
<1>3. EntrySound(d) /\ d # 0 /\ ~(w \in Scans /\ snapshot[w][d] # NoEntry) /\ worker[w].step \in Busy
  BY <1>1, <1>2, AtTheEntry DEF Busy
<1>4. d \notin shared \cup unacked => Untouched(d)
  BY <1>1, <1>2, <1>3 DEF EntrySound, SendsSound, SendsKnown
<1>5. CASE FailRead(w)
  <2>1. UNCHANGED << disk, retryCount, snapshot, starts, sent, unacked, shared >> /\ worker[w].step = "failing"
    BY <1>5 DEF FailRead, AtStep, bounds, history
  <2>2. d \notin shared => retryCount'[d] <= MaxRetries
    BY <1>3, <2>1 DEF EntrySound, CountsSound
  <2>3. CASE HasJson(d)
    <3>1. worker[w] \in Worker /\ worker \in [Workers -> Worker]
      BY DEF IInv, WorkersTyped
    <3>2. worker' = [worker EXCEPT ![w] = [worker[w] EXCEPT !.step = "rewriting", !.read = retryCount[d]]]
      BY <1>2, <1>5, <2>3 DEF FailRead
    <3>3. worker'[w] = [worker[w] EXCEPT !.step = "rewriting", !.read = retryCount[d]]
      BY <3>1, <3>2
    <3>4. /\ \A v \in Workers \ {w} : worker'[v] = worker[v]
          /\ worker'[w].step = "rewriting" /\ worker'[w].id = d /\ worker'[w].read = retryCount[d]
      BY <1>2, <3>1, <3>2, <3>3 DEF Worker
    <3>5. d \notin shared => CountKnown(w, d)'
      BY <1>2, <1>3, <2>1, <3>4 DEF EntrySound, CountsSound, CountKnown
    <3>6. d \notin shared \cup unacked' => AtMostOnce(d)' /\ SendsKnown(w, d)'
      BY <1>2, <1>3, <1>4, <2>1, <3>4 DEF EntrySound, SendsSound, AtMostOnce, SendsKnown, Untouched
    <3> QED
      BY <1>2, <1>3, <2>1, <2>2, <3>4, <3>5, <3>6, HolderSteps DEF Busy
  <2>4. CASE ~HasJson(d)
    <3>1. Finishes(w)
      BY <1>2, <1>5, <2>4 DEF FailRead
    <3> QED
      BY <1>2, <1>4, <2>1, <2>2, <3>1, FinishesExclusive
  <2> QED
    BY <2>3, <2>4
<1>6. CASE FailWrite(w)
  <2>1. /\ Finishes(w) /\ worker[w].step = "rewriting"
        /\ retryCount' = [retryCount EXCEPT ![d] = worker[w].read + 1]
        /\ disk' = [disk EXCEPT ![d] = @ \cup {"json"}]
        /\ UNCHANGED << snapshot, starts, sent, unacked, shared >>
    BY <1>2, <1>6 DEF FailWrite, AtStep, bounds, history
  <2>2. disk \in [Deliveries -> SUBSET Files] /\ retryCount \in [Deliveries -> Nat]
    BY DEF IInv, StoredTyped
  <2>3. \A e \in Deliveries \ {d} : disk'[e] = disk[e] /\ retryCount'[e] = retryCount[e]
    BY <2>1, <2>2
  <2>4. d \notin shared => retryCount'[d] <= MaxRetries
    <3> SUFFICES ASSUME d \notin shared PROVE retryCount'[d] <= MaxRetries
      OBVIOUS
    <3>1. worker[w].read = retryCount[d] /\ retryCount[d] < MaxRetries
      BY <1>2, <1>3, <2>1 DEF EntrySound, CountsSound, CountKnown
    <3>2. retryCount'[d] = retryCount[d] + 1 /\ retryCount[d] \in Nat
      BY <2>1, <2>2, <3>1
    <3> QED
      BY <3>1, <3>2, Constants
  <2> QED
    BY <1>2, <1>4, <2>1, <2>3, <2>4, FinishesExclusive
<1> QED
  BY <1>5, <1>6

\* An entry that is moved away, or that a file error leaves as it was.
LEMMA MoveExclusive ==
  ASSUME NEW w \in Workers PROVE IInv /\ Exclusive /\ (MovePermanent(w) \/ UpdateFails(w)) => Exclusive'
<1> SUFFICES ASSUME IInv, Exclusive, MovePermanent(w) \/ UpdateFails(w) PROVE Exclusive'
  OBVIOUS
<1>1. worker[w].step \in {"unlinking", "failing", "rewriting", "moving"} /\ Finishes(w)
  BY DEF MovePermanent, UpdateFails, AtStep
<1>2. PICK d \in Deliveries : worker[w].id = d
  BY <1>1, AtStepFacts DEF Busy
<1>3. EntrySound(d)
  BY <1>1, <1>2, AtTheEntry DEF Busy
<1>4. UNCHANGED << retryCount, snapshot, starts, sent, unacked, shared >>
  BY DEF MovePermanent, UpdateFails, bounds, history
<1>5. disk' = disk \/ MoveToFailed(d)
  BY <1>2 DEF MovePermanent, UpdateFails
<1>6. (HasJson(d)' => HasJson(d)) /\ \A e \in Deliveries \ {d} : disk'[e] = disk[e]
  <2>1. disk \in [Deliveries -> SUBSET Files]
    BY DEF IInv, StoredTyped
  <2>2. CASE disk' = disk
    BY <2>2 DEF HasJson
  <2>3. CASE MoveToFailed(d)
    BY <2>1, <2>3 DEF MoveToFailed, HasJson
  <2> QED
    BY <1>5, <2>2, <2>3
<1>7. d \notin shared => retryCount'[d] <= MaxRetries
  BY <1>3, <1>4 DEF EntrySound, CountsSound
<1>8. d \notin shared \cup unacked' /\ HasJson(d)' => Untouched(d)
  BY <1>1, <1>2, <1>3, <1>4, <1>6 DEF EntrySound, SendsSound, SendsKnown
<1> QED
  BY <1>1, <1>2, <1>4, <1>6, <1>7, <1>8, FinishesExclusive

\* A scan that gives up what it has read of an entry.
LEMMA ScanLetsGo ==
  ASSUME Exclusive, NEW e \in Deliveries, NEW s \in Scans,
         worker[s].id # e, worker'[s].id # e, worker'[s].step # "idle",
         \A v \in Workers \ {s} : worker'[v] = worker[v],
         \A t \in Scans \ {s} : snapshot'[t][e] = snapshot[t][e], snapshot'[s][e] = NoEntry,
         sent'[e] = sent[e], retryCount'[e] = retryCount[e], HasJson(e)' => HasJson(e),
         e \in shared => e \in shared', unacked' = unacked
  PROVE  EntrySound(e)'
<1>1. EntrySound(e) /\ s \in Workers /\ s # Live(e)
  BY WorkerNames DEF Exclusive
<1>2. ~Holds(s, e)' /\ \A v \in Workers : Holds(v, e)' => Holds(v, e)
  BY DEF Holds
<1>3. \A v \in Workers \ {s} : Holds(v, e) => Holds(v, e)'
  BY DEF Holds
<1>4. Untouched(e) => Untouched(e)'
  BY DEF Untouched
<1>5. (worker[Live(e)].step = "idle")' => Unborn(e)'
  <2> SUFFICES ASSUME worker'[Live(e)].step = "idle" PROVE Unborn(e)'
    OBVIOUS
  <2>1. worker[Live(e)].step = "idle"
    BY <1>1, WorkerNames
  <2>2. Unborn(e)
    BY <1>1, <2>1 DEF EntrySound
  <2> QED
    BY <1>2, <1>4, <2>2 DEF Unborn
<1>6. ASSUME e \notin shared' PROVE OneHolder(e)' /\ CountsSound(e)'
  <2>1. OneHolder(e) /\ CountsSound(e)
    BY <1>1, <1>6 DEF EntrySound
  <2>2. \A v \in Workers : CountKnown(v, e)'
    BY <2>1 DEF CountsSound, CountKnown
  <2>3. OneHolder(e)'
    BY <1>2, <2>1 DEF OneHolder
  <2> QED
    BY <2>1, <2>2, <2>3 DEF CountsSound
<1>7. ASSUME e \notin shared' \cup unacked' PROVE SendsSound(e)'
  <2>1. SendsSound(e)
    BY <1>1, <1>7 DEF EntrySound
  <2>2. \A v \in Workers : SendsKnown(v, e)'
    BY <1>4, <2>1 DEF SendsSound, SendsKnown
  <2>3. AtMostOnce(e)'
    BY <2>1 DEF SendsSound, AtMostOnce
  <2>4. ASSUME HasJson(e)', \A v \in Workers : ~Holds(v, e)' PROVE Untouched(e)'
    <3>1. CASE Holds(s, e)
      <4>1. snapshot[s][e] # NoEntry
        BY <1>1, <3>1, HoldsIs
      <4> QED
        BY <1>1, <1>4, <2>1, <4>1 DEF SendsSound, SendsKnown
    <3>2. CASE ~Holds(s, e)
      BY <1>3, <1>4, <2>1, <2>4, <3>2 DEF SendsSound
    <3> QED
      BY <3>1, <3>2
  <2> QED
    BY <2>2, <2>3, <2>4 DEF SendsSound
<1> QED
  BY <1>5, <1>6, <1>7 DEF EntrySound

\* A scan reads the entries: those that another worker has are shared from now on,
\* and nobody has the others.
LEMMA LoadExclusive ==
  ASSUME NEW s \in Scans, NEW unreadable \in SUBSET Deliveries
  PROVE  IInv /\ Exclusive /\ Load(s, unreadable) => Exclusive'
<1> SUFFICES ASSUME IInv, Exclusive, Load(s, unreadable) PROVE Exclusive'
  OBVIOUS
<1> DEFINE found == { d \in Deliveries : HasJson(d) } \ unreadable
<1>1. /\ worker[s].step = "loading" /\ Goes(s, IF found = {} THEN "done" ELSE "choosing")
      /\ snapshot' = [snapshot EXCEPT ![s] = [d \in Deliveries |-> IF d \in found THEN retryCount[d] ELSE NoEntry]]
      /\ disk' = [d \in Deliveries |-> disk[d] \ {"delivered"}]
      /\ shared' = shared \cup { d \in found : \E w \in Workers \ {s} : Holds(w, d) }
      /\ UNCHANGED << retryCount, starts, sent, unacked >>
  BY DEF Load, AtStep
<1>2. PICK step \in {"done", "choosing"} : Goes(s, step)
  BY <1>1
<1>3. s \in Workers /\ step \in Steps /\ worker[s].id = 0 /\ snapshot \in [Scans -> [Deliveries -> Nat]]
  BY <1>1, WorkerNames DEF Exclusive, Placed, Busy, Steps, IInv, StoredTyped
<1>4. /\ \A v \in Workers \ {s} : worker'[v] = worker[v]
      /\ worker'[s].step = step /\ worker'[s].id = 0
  BY <1>2, <1>3, GoesOn
<1>5. \A d \in Deliveries : snapshot'[s][d] = IF d \in found THEN retryCount[d] ELSE NoEntry
  BY <1>1, <1>3
<1>6. \A t \in Scans \ {s} : snapshot'[t] = snapshot[t]
  BY <1>1, <1>3
<1>7. \A d \in Deliveries : HasJson(d)' <=> HasJson(d)
  BY <1>1 DEF HasJson
<1>8. ASSUME NEW e \in Deliveries, e \notin found PROVE EntrySound(e)'
  <2>1. e \in shared => e \in shared'
    BY <1>1
  <2>2. snapshot'[s][e] = NoEntry
    BY <1>5, <1>8
  <2>3. worker[s].id # e /\ worker'[s].id # e /\ worker'[s].step # "idle"
    BY <1>2, <1>3, <1>4, Constants
  <2> QED
    BY <1>1, <1>4, <1>6, <1>7, <2>1, <2>2, <2>3, ScanLetsGo
<1>9. ASSUME NEW e \in found PROVE EntrySound(e)'
  <2>1. e \in Deliveries /\ HasJson(e) /\ EntrySound(e)
    BY DEF Exclusive
  <2>2. worker[Live(e)].step # "idle" /\ Live(e) # s /\ Live(e) \in Workers
    BY <2>1, WorkerNames DEF EntrySound, Unborn
  <2>3. worker'[Live(e)].step # "idle"
    BY <1>4, <2>2
  <2>4. worker'[s].id # e
    BY <1>4, <2>1, Constants
  <2>5. snapshot'[s][e] = retryCount[e]
    BY <1>5, <2>1
  <2>6. ASSUME e \notin shared'
        PROVE  /\ e \notin shared
               /\ \A v \in Workers \ {s} : /\ ~Holds(v, e) /\ ~Holds(v, e)' /\ worker'[v].id # e
                                           /\ ~(v \in Scans /\ snapshot'[v][e] # NoEntry)
    <3>1. e \notin shared /\ \A v \in Workers \ {s} : ~Holds(v, e)
      BY <1>1, <2>6
    <3> SUFFICES ASSUME NEW v \in Workers \ {s}
                 PROVE  /\ ~Holds(v, e)' /\ worker'[v].id # e
                        /\ ~(v \in Scans /\ snapshot'[v][e] # NoEntry)
      BY <3>1
    <3>2. worker[v].id # e /\ ~(v \in Scans /\ snapshot[v][e] # NoEntry)
      BY <2>1, <3>1, HoldsIs
    <3>3. worker'[v].id # e /\ ~(v \in Scans /\ snapshot'[v][e] # NoEntry)
      BY <1>4, <1>6, <3>2
    <3> QED
      BY <3>3 DEF Holds
  <2>7. ASSUME e \notin shared' PROVE OneHolder(e)' /\ CountsSound(e)'
    <3>1. OneHolder(e)'
      BY <2>6, <2>7 DEF OneHolder
    <3>2. CountsSound(e)
      BY <2>1, <2>6, <2>7 DEF EntrySound
    <3>3. \A v \in Workers : CountKnown(v, e)'
      BY <1>1, <2>4, <2>5, <2>6, <2>7 DEF CountKnown
    <3> QED
      BY <1>1, <3>1, <3>2, <3>3 DEF CountsSound
  <2>8. ASSUME e \notin shared' \cup unacked' PROVE SendsSound(e)'
    <3>1. SendsSound(e)
      BY <1>1, <2>1, <2>6, <2>8 DEF EntrySound
    <3>2. Untouched(e)
      <4>1. CASE Holds(s, e)
        <5>1. snapshot[s][e] # NoEntry
          BY <1>3, <2>1, <4>1, HoldsIs, Constants
        <5> QED
          BY <1>3, <3>1, <5>1 DEF SendsSound, SendsKnown
      <4>2. CASE ~Holds(s, e)
        BY <2>1, <2>6, <2>8, <3>1, <4>2 DEF SendsSound
      <4> QED
        BY <4>1, <4>2
    <3>3. Untouched(e)' /\ AtMostOnce(e)'
      BY <1>1, <3>2 DEF Untouched, AtMostOnce
    <3>4. \A v \in Workers : SendsKnown(v, e)'
      BY <2>4, <2>6, <2>8, <3>3 DEF SendsKnown
    <3> QED
      BY <3>3, <3>4 DEF SendsSound
  <2> QED
    BY <2>3, <2>7, <2>8 DEF EntrySound
<1>10. Placed(s)'
  <2>1. Placed(s) /\ worker[s].step # "idle"
    BY <1>1, <1>3 DEF Exclusive
  <2>2. worker'[s].step \notin Busy
    BY <1>2, <1>4 DEF Busy
  <2> QED
    BY <1>1, <1>4, <2>1, <2>2 DEF Placed
<1>11. \A v \in Workers \ {s} : Placed(v)'
  BY <1>1, <1>4, <1>6 DEF Exclusive, Placed
<1> QED
  BY <1>8, <1>9, <1>10, <1>11 DEF Exclusive

\* A scan ends, or passes over an entry.
LEMMA ScanPassesExclusive ==
  ASSUME NEW s \in Scans, NEW d
  PROVE  IInv /\ Exclusive /\ (\/ LoadFails(s) \/ OutOfTime(s)
                               \/ MoveExhausted(s, d) \/ MoveExhaustedFails(s, d) \/ Defer(s, d))
           => Exclusive'
<1> SUFFICES ASSUME IInv, Exclusive, \/ LoadFails(s) \/ OutOfTime(s)
                                     \/ MoveExhausted(s, d) \/ MoveExhaustedFails(s, d) \/ Defer(s, d)
             PROVE  Exclusive'
  OBVIOUS
<1>1. worker[s].step \in {"loading", "choosing"} /\ UNCHANGED << retryCount, starts, sent, unacked, shared >>
  BY DEF LoadFails, OutOfTime, MoveExhausted, MoveExhaustedFails, Defer, Oldest, AtStep, bounds, history
<1>2. /\ s \in Workers /\ worker[s].id = 0 /\ "done" \in Steps
      /\ snapshot \in [Scans -> [Deliveries -> Nat]] /\ disk \in [Deliveries -> SUBSET Files]
  BY <1>1, WorkerNames DEF Exclusive, Placed, Busy, Steps, IInv, StoredTyped
<1>3. worker' = worker \/ Goes(s, "done")
  BY DEF LoadFails, OutOfTime, MoveExhausted, MoveExhaustedFails, Defer
<1>4. /\ \A v \in Workers \ {s} : worker'[v] = worker[v]
      /\ worker'[s].step \in {"loading", "choosing", "done"} /\ worker'[s].id = 0
  <2>1. CASE worker' = worker
    BY <1>1, <1>2, <2>1
  <2>2. CASE Goes(s, "done")
    BY <1>2, <2>2, GoesOn
  <2> QED
    BY <1>3, <2>1, <2>2
<1>5. \A e \in Deliveries : HasJson(e)' => HasJson(e)
  <2>1. disk' = disk \/ MoveToFailed(d)
    BY DEF LoadFails, OutOfTime, MoveExhausted, MoveExhaustedFails, Defer
  <2>2. CASE disk' = disk
    BY <2>2 DEF HasJson
  <2>3. CASE MoveToFailed(d)
    BY <1>2, <2>3 DEF MoveToFailed, HasJson
  <2> QED
    BY <2>1, <2>2, <2>3
<1>6. \A t \in Scans \ {s} : snapshot'[t] = snapshot[t]
  BY <1>2 DEF LoadFails, OutOfTime, MoveExhausted, MoveExhaustedFails, Defer, Handled
<1>7. ASSUME NEW e \in Deliveries
      PROVE  \/ snapshot'[s][e] = NoEntry
             \/ snapshot'[s][e] = snapshot[s][e] /\ (HasJson(e)' <=> HasJson(e))
  <2>1. CASE LoadFails(s)
    BY <2>1 DEF LoadFails, HasJson
  <2>2. CASE OutOfTime(s)
    BY <1>2, <2>2 DEF OutOfTime, NothingRead
  <2>3. CASE MoveExhausted(s, d) \/ MoveExhaustedFails(s, d) \/ Defer(s, d)
    <3>1. snapshot' = [snapshot EXCEPT ![s] = [snapshot[s] EXCEPT ![d] = NoEntry]]
      BY <2>3 DEF MoveExhausted, MoveExhaustedFails, Defer, Handled
    <3>2. e # d => disk'[e] = disk[e]
      BY <1>2, <2>3 DEF MoveExhausted, MoveExhaustedFails, Defer, MoveToFailed
    <3> QED
      BY <1>2, <3>1, <3>2 DEF HasJson
  <2> QED
    BY <2>1, <2>2, <2>3
<1>8. ASSUME NEW e \in Deliveries PROVE EntrySound(e)'
  <2>1. EntrySound(e) /\ worker[s].id # e /\ worker'[s].id # e /\ worker'[s].step # "idle"
    BY <1>2, <1>4, Constants DEF Exclusive
  <2>2. CASE snapshot'[s][e] = NoEntry
    BY <1>1, <1>4, <1>5, <1>6, <2>1, <2>2, ScanLetsGo
  <2>3. CASE snapshot'[s][e] = snapshot[s][e] /\ (HasJson(e)' <=> HasJson(e))
    <3>1. \A t \in Scans : snapshot'[t][e] = snapshot[t][e]
      BY <1>6, <2>3
    <3> QED
      BY <1>1, <1>2, <1>4, <2>1, <2>3, <3>1, Elsewhere
  <2> QED
    BY <1>7, <2>2, <2>3
<1>9. Placed(s)'
  <2>1. Placed(s) /\ worker[s].step # "idle"
    BY <1>1, <1>2 DEF Exclusive
  <2>2. worker'[s].step \notin Busy
    BY <1>4 DEF Busy
  <2> QED
    BY <1>1, <1>4, <2>1, <2>2 DEF Placed
<1>10. \A v \in Workers \ {s} : Placed(v)'
  BY <1>1, <1>4, <1>6 DEF Exclusive, Placed
<1> QED
  BY <1>8, <1>9, <1>10 DEF Exclusive

\* A replay: the scan that had read the entry now names it.
LEMMA ReplayExclusive ==
  ASSUME NEW s \in Scans, NEW d \in Deliveries
  PROVE  IInv /\ Exclusive /\ Replay(s, d) => Exclusive'
<1> SUFFICES ASSUME IInv, Exclusive, Replay(s, d) PROVE Exclusive'
  OBVIOUS
<1>1. /\ worker[s].step = "choosing" /\ snapshot[s][d] # NoEntry /\ snapshot[s][d] < MaxRetries
      /\ snapshot' = [snapshot EXCEPT ![s] = [snapshot[s] EXCEPT ![d] = NoEntry]]
      /\ worker' = [worker EXCEPT ![s] = Sending(d)]
      /\ UNCHANGED << disk, retryCount, starts, sent, unacked, shared >>
  BY DEF Replay, Oldest, AtStep, Handled, bounds, history
<1>2. /\ s \in Workers /\ worker[s].id = 0 /\ worker \in [Workers -> Worker]
      /\ snapshot \in [Scans -> [Deliveries -> Nat]]
  BY <1>1, WorkerNames DEF Exclusive, Placed, Busy, IInv, StoredTyped, WorkersTyped
<1>3. /\ \A v \in Workers \ {s} : worker'[v] = worker[v]
      /\ worker'[s].id = d /\ worker'[s].step = "sending" /\ worker'[s].payload = 1
      /\ worker'[s].read = 0
  BY <1>1, <1>2 DEF Sending, AtRest
<1>4. /\ \A t \in Scans \ {s} : snapshot'[t] = snapshot[t]
      /\ snapshot'[s][d] = NoEntry /\ \A e \in Deliveries \ {d} : snapshot'[s][e] = snapshot[s][e]
  BY <1>1, <1>2
<1>5. EntrySound(d) /\ Holds(s, d)
  BY <1>1 DEF Exclusive, Holds
<1>6. worker'[Live(d)].step # "idle"
  <2>1. worker[Live(d)].step # "idle" /\ Live(d) \in Workers /\ Live(d) # s
    BY <1>2, <1>5, WorkerNames DEF EntrySound, Unborn
  <2> QED
    BY <1>3, <2>1
<1>7. ASSUME d \notin shared, NEW v \in Workers \ {s}
      PROVE  ~Holds(v, d)' /\ worker'[v].id # d /\ ~(v \in Scans /\ snapshot'[v][d] # NoEntry)
  <2>1. ~Holds(v, d)
    BY <1>2, <1>5, <1>7 DEF EntrySound, OneHolder
  <2>2. worker[v].id # d /\ ~(v \in Scans /\ snapshot[v][d] # NoEntry)
    BY <2>1, HoldsIs
  <2>3. worker'[v].id # d /\ ~(v \in Scans /\ snapshot'[v][d] # NoEntry)
    BY <1>3, <1>4, <2>2
  <2> QED
    BY <2>3 DEF Holds
<1>8. ASSUME d \notin shared' PROVE OneHolder(d)' /\ CountsSound(d)'
  <2>1. d \notin shared /\ CountsSound(d)
    BY <1>1, <1>5, <1>8 DEF EntrySound
  <2>2. OneHolder(d)'
    BY <1>7, <2>1 DEF OneHolder
  <2>3. retryCount[d] < MaxRetries
    BY <1>1, <1>2, <2>1 DEF CountsSound, CountKnown
  <2>4. \A v \in Workers : CountKnown(v, d)'
    BY <1>1, <1>3, <1>4, <1>7, <2>1, <2>3 DEF CountKnown
  <2> QED
    BY <1>1, <2>1, <2>2, <2>4 DEF CountsSound
<1>9. ASSUME d \notin shared' \cup unacked' PROVE SendsSound(d)'
  <2>1. d \notin shared /\ SendsSound(d)
    BY <1>1, <1>5, <1>9 DEF EntrySound
  <2>2. Untouched(d)
    BY <1>1, <1>2, <2>1 DEF SendsSound, SendsKnown
  <2>3. Untouched(d)' /\ AtMostOnce(d)'
    BY <1>1, <2>2 DEF Untouched, AtMostOnce
  <2>4. \A v \in Workers : SendsKnown(v, d)'
    BY <1>3, <1>4, <1>7, <2>1, <2>3 DEF SendsKnown, Untouched
  <2> QED
    BY <2>3, <2>4 DEF SendsSound
<1>10. EntrySound(d)'
  BY <1>6, <1>8, <1>9 DEF EntrySound
<1>11. ASSUME NEW e \in Deliveries \ {d} PROVE EntrySound(e)'
  <2>1. EntrySound(e) /\ worker[s].id # e /\ worker'[s].id # e /\ worker'[s].step # "idle"
    BY <1>2, <1>3, Constants DEF Exclusive
  <2>2. \A t \in Scans : snapshot'[t][e] = snapshot[t][e]
    BY <1>4
  <2>3. HasJson(e)' <=> HasJson(e)
    BY <1>1 DEF HasJson
  <2> QED
    BY <1>1, <1>2, <1>3, <2>1, <2>2, <2>3, Elsewhere
<1>12. Placed(s)'
  <2>1. Placed(s) /\ worker[s].step # "idle"
    BY <1>1, <1>2 DEF Exclusive
  <2> QED
    BY <1>1, <1>3, <1>4, <2>1 DEF Placed, Busy
<1>13. \A v \in Workers \ {s} : Placed(v)'
  BY <1>1, <1>3, <1>4 DEF Exclusive, Placed
<1> QED
  BY <1>10, <1>11, <1>12, <1>13 DEF Exclusive

\* A gateway starts: its scan has no entry yet.
LEMMA StartExclusive == IInv /\ Exclusive /\ Start => Exclusive'
<1> SUFFICES ASSUME IInv, Exclusive, Start PROVE Exclusive'
  OBVIOUS
<1>1. /\ starts < MaxStarts /\ starts' = starts + 1 /\ starts \in Nat
      /\ Goes(Scan(starts + 1), "loading")
      /\ UNCHANGED << disk, retryCount, snapshot, sent, unacked, shared >>
  BY DEF Start, Goes, history, IInv, StoredTyped
<1>2. starts + 1 \in 1 .. MaxStarts
  BY <1>1, Constants
<1>3. PICK s \in Scans : s = Scan(starts + 1)
  BY <1>2, WorkerNames
<1>4. s \in Workers /\ "loading" \in Steps
  BY WorkerNames DEF Steps
<1>5. /\ \A v \in Workers \ {s} : worker'[v] = worker[v]
      /\ worker'[s].step = "loading" /\ worker'[s].id = worker[s].id
  BY <1>1, <1>3, <1>4, GoesOn
<1>6. worker[s].step = "idle" /\ worker[s].id = 0
  <2>1. Placed(s)
    BY <1>4 DEF Exclusive
  <2>2. worker[s].step = "idle"
    BY <1>1, <1>2, <1>3, <2>1 DEF Placed
  <2> QED
    BY <2>1, <2>2 DEF Placed, Busy
<1>7. ASSUME NEW e \in Deliveries PROVE EntrySound(e)'
  <2>1. EntrySound(e) /\ worker[s].id # e /\ worker'[s].id # e /\ worker'[s].step # "idle"
    BY <1>5, <1>6, Constants DEF Exclusive
  <2>2. HasJson(e)' <=> HasJson(e)
    BY <1>1 DEF HasJson
  <2> QED
    BY <1>1, <1>4, <1>5, <2>1, <2>2, Elsewhere
<1>8. ASSUME NEW v \in Workers PROVE Placed(v)'
  <2>1. Placed(v)
    BY DEF Exclusive
  <2>2. ASSUME NEW n \in 1 .. MaxStarts, v = Scan(n), n > starts' PROVE worker'[v].step = "idle"
    <3>1. n # starts + 1 /\ n > starts
      BY <1>1, <2>2
    <3>2. v # s
      BY <1>3, <2>2, <3>1 DEF Scan
    <3> QED
      BY <1>5, <2>1, <2>2, <3>1, <3>2 DEF Placed
  <2>3. CASE v = s
    BY <1>5, <1>6, <2>2, <2>3 DEF Placed, Busy
  <2>4. CASE v # s
    BY <1>1, <1>5, <2>1, <2>2, <2>4 DEF Placed
  <2> QED
    BY <2>3, <2>4
<1> QED
  BY <1>7, <1>8 DEF Exclusive

\* A crash lets go of every entry; what had been sent of one and not marked
\* makes it unacked.
LEMMA CrashExclusive == IInv /\ Exclusive /\ Crash => Exclusive'
<1> SUFFICES ASSUME IInv, Exclusive, Crash PROVE Exclusive'
  OBVIOUS
<1>1. /\ worker' = [w \in Workers |-> IF worker[w].step = "idle" THEN worker[w] ELSE AtRest("done")]
      /\ snapshot' = [s \in Scans |-> NothingRead]
      /\ unacked' = unacked \cup { worker[w].id : w \in { v \in Workers :
           worker[v].step = "acking" \/ (worker[v].step = "sending" /\ worker[v].results) } }
      /\ UNCHANGED << disk, retryCount, starts, sent, shared >>
  BY DEF Crash
<1>2. AtRest("done").step = "done" /\ AtRest("done").id = 0
  BY DEF AtRest
<1>3. ASSUME NEW w \in Workers
      PROVE  /\ worker'[w].step \in {"idle", "done"} /\ worker'[w].id = 0
             /\ worker'[w].step = "idle" <=> worker[w].step = "idle"
  <2>1. worker[w].step = "idle" => worker[w].id = 0
    BY DEF Exclusive, Placed, Busy
  <2> QED
    BY <1>1, <1>2, <2>1
<1>4. \A s \in Scans : \A d \in Deliveries : snapshot'[s][d] = NoEntry
  BY <1>1 DEF NothingRead
<1>5. \A w \in Workers : \A d \in Deliveries : ~Holds(w, d)' /\ worker'[w].id # d
  BY <1>3, <1>4, Constants DEF Holds
<1>6. ASSUME NEW w \in Workers PROVE Placed(w)'
  <2>1. Placed(w)
    BY DEF Exclusive
  <2> QED
    BY <1>1, <1>3, <2>1 DEF Placed, Busy
<1>7. ASSUME NEW e \in Deliveries PROVE EntrySound(e)'
  <2>1. EntrySound(e) /\ Live(e) \in Workers
    BY WorkerNames DEF Exclusive
  <2>2. (Untouched(e) <=> Untouched(e)') /\ (HasJson(e) <=> HasJson(e)')
    BY <1>1 DEF Untouched, HasJson
  <2>3. (worker[Live(e)].step = "idle")' => Unborn(e)'
    <3> SUFFICES ASSUME worker'[Live(e)].step = "idle" PROVE Unborn(e)'
      OBVIOUS
    <3>1. Unborn(e)
      BY <1>3, <2>1 DEF EntrySound
    <3> QED
      BY <1>1, <1>5, <2>2, <3>1 DEF Unborn
  <2>4. OneHolder(e)'
    BY <1>5 DEF OneHolder
  <2>5. ASSUME e \notin shared' PROVE CountsSound(e)'
    <3>1. CountsSound(e)
      BY <1>1, <2>1, <2>5 DEF EntrySound
    <3>2. \A w \in Workers : CountKnown(w, e)'
      BY <1>4, <1>5 DEF CountKnown
    <3> QED
      BY <1>1, <3>1, <3>2 DEF CountsSound
  <2>6. ASSUME e \notin shared' \cup unacked' PROVE SendsSound(e)'
    <3>1. SendsSound(e)
      BY <1>1, <2>1, <2>6 DEF EntrySound
    <3>2. \A w \in Workers : SendsKnown(w, e)'
      BY <1>4, <1>5 DEF SendsKnown
    <3>3. AtMostOnce(e)'
      BY <1>1, <3>1 DEF SendsSound, AtMostOnce
    <3>4. ASSUME HasJson(e) PROVE Untouched(e)
      <4>1. CASE \A w \in Workers : ~Holds(w, e)
        BY <3>1, <3>4, <4>1 DEF SendsSound
      <4>2. ASSUME NEW w \in Workers, w \in Scans, snapshot[w][e] # NoEntry PROVE Untouched(e)
        BY <3>1, <4>2 DEF SendsSound, SendsKnown
      <4>3. ASSUME NEW w \in Workers, worker[w].id = e PROVE Untouched(e)
        <5>1. worker[w].step # "acking" /\ ~(worker[w].step = "sending" /\ worker[w].results)
          BY <1>1, <2>6, <4>3
        <5>2. worker[w].step \in Busy /\ SendsKnown(w, e)
          BY <3>1, <4>3, HoldsIs DEF SendsSound
        <5>3. CASE worker[w].step = "sending"
          BY <4>3, <5>1, <5>2, <5>3 DEF SendsKnown
        <5> QED
          BY <3>4, <4>3, <5>1, <5>2, <5>3 DEF SendsKnown, Busy
      <4> QED
        BY <4>1, <4>2, <4>3, HoldsIs
    <3> QED
      BY <2>2, <3>2, <3>3, <3>4 DEF SendsSound
  <2> QED
    BY <2>3, <2>4, <2>5, <2>6 DEF EntrySound
<1> QED
  BY <1>6, <1>7 DEF Exclusive

\* Every step keeps the invariant.
LEMMA NextExclusive == IInv /\ Exclusive /\ [Next]_vars => Exclusive'
<1> SUFFICES ASSUME IInv, Exclusive, [Next]_vars PROVE Exclusive'
  OBVIOUS
<1>1. CASE UNCHANGED vars
  <2>1. UNCHANGED << disk, retryCount, worker, snapshot, starts, sent, unacked, shared >>
    BY <1>1 DEF vars, volatile, bounds, history
  <2> QED
    BY <2>1 DEF Exclusive, Placed, EntrySound, Unborn, OneHolder, CountsSound, SendsSound, CountKnown,
                SendsKnown, AtMostOnce, Untouched, HasJson, Holds
<1>2. CASE \E d \in Deliveries : Persist(d) \/ PersistFails(d) \/ Abort(d)
  BY <1>2, PersistExclusive, AbortExclusive
<1>3. CASE \E w \in Workers : SendSucceeds(w) \/ SendFails(w) \/ HandlerFails(w)
  BY <1>3, SendSucceedsExclusive, SendFailsExclusive, HandlerFailsExclusive
<1>4. CASE \E w \in Workers : AckRename(w) \/ AckFails(w) \/ AckUnlink(w)
  BY <1>4, AckExclusive
<1>5. CASE \E w \in Workers : FailRead(w) \/ FailWrite(w) \/ MovePermanent(w) \/ UpdateFails(w)
  BY <1>5, FailExclusive, MoveExclusive
<1>6. CASE \E s \in Scans, unreadable \in SUBSET Deliveries : Load(s, unreadable)
  BY <1>6, LoadExclusive
<1>7. CASE \E s \in Scans : LoadFails(s) \/ OutOfTime(s)
  BY <1>7, ScanPassesExclusive
<1>8. CASE \E s \in Scans, d \in Deliveries :
             MoveExhausted(s, d) \/ MoveExhaustedFails(s, d) \/ Defer(s, d) \/ Replay(s, d)
  BY <1>8, ScanPassesExclusive, ReplayExclusive
<1>9. CASE Start \/ Crash
  BY <1>9, StartExclusive, CrashExclusive
<1> QED
  BY <1>1, <1>2, <1>3, <1>4, <1>5, <1>6, <1>7, <1>8, <1>9 DEF Next

\* Every reachable state satisfies the invariant.
LEMMA AlwaysExclusive == Spec => []Exclusive
<1>1. Init => IInv /\ Exclusive
  BY InitInv, InitExclusive
<1>2. IInv /\ Exclusive /\ [Next]_vars => (IInv /\ Exclusive)'
  BY NextInv, NextExclusive
<1> QED
  BY <1>1, <1>2, PTL DEF Spec

-----------------------------------------------------------------------------
\* No payload is sent twice, except of a delivery of which an attempt sent
\* something that it could not record, or that two workers had at once.
THEOREM SentOnce == Spec => []SentOnceUnlessUnacked
<1>1. IInv /\ Exclusive => SentOnceUnlessUnacked
  <2> SUFFICES ASSUME IInv, Exclusive, NEW d \in Deliveries, d \notin unacked \cup shared,
                      NEW p \in Payloads(d)
               PROVE  ~(sent[d][p] > 1)
    BY DEF SentOnceUnlessUnacked
  <2>1. AtMostOnce(d)
    BY DEF Exclusive, EntrySound, SendsSound
  <2>2. sent[d][p] \in 0 .. 2
    BY DEF IInv, SentTyped
  <2> QED
    BY <2>1, <2>2 DEF AtMostOnce
<1> QED
  BY <1>1, Invariant, AlwaysExclusive, PTL

\* No retry count passes MAX_RETRIES, except of an entry that two workers had at
\* once.
THEOREM RetriesStopAtTheLimit == Spec => []RetriesAreBounded
<1>1. Exclusive => RetriesAreBounded
  BY DEF Exclusive, EntrySound, CountsSound, RetriesAreBounded
<1> QED
  BY <1>1, AlwaysExclusive, PTL
=============================================================================
