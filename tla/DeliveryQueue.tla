--------------------------- MODULE DeliveryQueue ---------------------------
(***************************************************************************)
(* The write-ahead queue of outbound messages: deliverOutboundPayloads     *)
(* persists an entry, sends and removes the entry (infra/outbound/         *)
(* deliver.ts, delivery-queue.ts); recoverPendingDeliveries replays what   *)
(* is left on disk whenever a gateway starts, also when it starts again    *)
(* inside the same process (gateway/server.impl.ts).                       *)
(*                                                                         *)
(* A worker is one activation of one of these two functions.  One action   *)
(* is one file operation or the end of one send, because everything else   *)
(* may run in between; a crash may come between any two.  The payloads of  *)
(* a delivery are sent one after the other, and the transcript is appended *)
(* to as the last of them ends.  Deliveries are numbered in the order of   *)
(* their enqueuedAt.                                                       *)
(***************************************************************************)
EXTENDS Naturals, FiniteSets

CONSTANTS
  NumDeliveries,   \* bound: messages ever delivered
  PayloadsOf,      \* how many payloads each of them has
  BestEffort,      \* those whose caller asks for bestEffort
  Observed,        \* those whose caller passes onError
  Mirrored,        \* those whose caller passes mirror, to append them to a transcript
  MaxRetries,      \* MAX_RETRIES
  MaxStarts,       \* bound: how often a gateway starts
  MaxCrashes,      \* bound: how often the process dies
  MaxDiskErrors    \* bound: how often a file operation fails, or the loading of an adapter

Deliveries == 1 .. NumDeliveries
Payloads(d) == 1 .. PayloadsOf[d]

ASSUME ConstantsAssumption ==
  /\ BestEffort \subseteq Deliveries /\ Observed \subseteq Deliveries
  /\ Mirrored \subseteq Deliveries
  /\ PayloadsOf \in [Deliveries -> Nat \ {0}]
  /\ {NumDeliveries, MaxStarts, MaxCrashes, MaxDiskErrors} \subseteq Nat
  /\ MaxRetries \in Nat \ {0}

Live(d) == << "live", d >>
Scan(n) == << "scan", n >>
Lives == { Live(d) : d \in Deliveries }
Scans == { Scan(n) : n \in 1 .. MaxStarts }
Workers == Lives \cup Scans

VARIABLES
  disk,        \* for each delivery, which of its files exist
  retryCount,  \* retryCount in <id>.json; lastAttemptAt is set iff it is not 0
  worker,      \* how far each worker is, with which delivery; while it sends, with
               \* which payload, hadPartialFailure and whether there are results
  snapshot,    \* retry counts of the entries a scan has loaded and not handled
  up,          \* whether the process runs
  starts, crashes, diskErrors,
  sent,        \* history: for each payload, sends that reported success; 2 for more
  accepted,    \* history: deliveries that were persisted
  aborted,     \* history: deliveries whose caller aborted them
  unacked,     \* history: deliveries of which an attempt sent a payload, or all, and
               \* did not mark them: a crash or an error came first, the transcript's too
  shared       \* history: entries that a scan read while another worker had them

volatile == << worker, snapshot, up >>
bounds == << starts, crashes, diskErrors >>
history == << sent, accepted, aborted, unacked, shared >>
vars == << disk, retryCount, volatile, bounds, history >>

Files == {"json", "delivered", "failed"}
Steps == {"idle", "sending", "acking", "unlinking", "failing", "rewriting", "moving",
          "loading", "choosing", "done"}
NoEntry == MaxRetries + 2   \* not a retry count

TypeOK ==
  /\ disk \in [Deliveries -> SUBSET Files]
  /\ retryCount \in [Deliveries -> Nat]
  /\ worker \in [Workers -> [ step : Steps, id : 0 .. NumDeliveries, read : Nat,
                             payload : Nat \ {0}, partial : BOOLEAN, results : BOOLEAN ]]
  /\ snapshot \in [Scans -> [Deliveries -> Nat]]
  /\ up \in BOOLEAN
  /\ starts \in 0 .. MaxStarts /\ crashes \in 0 .. MaxCrashes /\ diskErrors \in 0 .. MaxDiskErrors
  /\ \A d \in Deliveries : sent[d] \in [Payloads(d) -> 0 .. 2]
  /\ \A S \in {accepted, aborted, unacked, shared} : S \subseteq Deliveries

AtRest(step) == [step |-> step, id |-> 0, read |-> 0, payload |-> 1, partial |-> FALSE,
                 results |-> FALSE]
Sending(d) == [AtRest("sending") EXCEPT !.id = d]
NothingRead == [d \in Deliveries |-> NoEntry]

Init ==
  /\ disk = [d \in Deliveries |-> {}]
  /\ retryCount = [d \in Deliveries |-> 0]
  /\ worker = [w \in Workers |-> AtRest("idle")]
  /\ snapshot = [s \in Scans |-> NothingRead]
  /\ up = FALSE
  /\ starts = 0 /\ crashes = 0 /\ diskErrors = 0
  /\ sent = [d \in Deliveries |-> [p \in Payloads(d) |-> 0]]
  /\ accepted = {} /\ aborted = {} /\ unacked = {} /\ shared = {}

-----------------------------------------------------------------------------
AtStep(w, step) == up /\ worker[w].step = step

Goes(w, step) == worker' = [worker EXCEPT ![w].step = step]

\* A worker that has done with its entry: a scan goes on with the next one.
Finishes(w) ==
  worker' = [worker EXCEPT ![w] = AtRest(IF w \in Scans THEN "choosing" ELSE "done")]

\* The send is over, and its outcome goes to the entry.
Records(w, step) ==
  worker' = [worker EXCEPT ![w].step = step, ![w].payload = 1, ![w].partial = FALSE,
                           ![w].results = FALSE]

HasJson(d) == "json" \in disk[d]

\* A worker that is going to write to, or has yet to handle, the entry of d.
Holds(w, d) ==
  \/ worker[w].id = d /\ worker[w].step \notin {"idle", "choosing", "done"}
  \/ w \in Scans /\ snapshot[w][d] # NoEntry

-----------------------------------------------------------------------------
(* deliverOutboundPayloads.                                                *)

\* enqueueDelivery has renamed its file into place; the payloads are sent next.
Persist(d) ==
  /\ AtStep(Live(d), "idle")
  /\ \A e \in Deliveries : e < d => worker[Live(e)].step # "idle"
  /\ worker' = [worker EXCEPT ![Live(d)] = Sending(d)]
  /\ disk' = [disk EXCEPT ![d] = @ \cup {"json"}]
  /\ accepted' = accepted \cup {d}
  /\ UNCHANGED << retryCount, snapshot, up, bounds,
                  sent, aborted, unacked, shared >>

\* It has failed: the message is sent all the same, and nothing of it is ever on
\* disk (no step of it concerns the queue any more).
PersistFails(d) ==
  /\ AtStep(Live(d), "idle")
  /\ \A e \in Deliveries : e < d => worker[Live(e)].step # "idle"
  /\ diskErrors < MaxDiskErrors
  /\ diskErrors' = diskErrors + 1
  /\ worker' = [worker EXCEPT ![Live(d)] = AtRest("done")]
  /\ UNCHANGED << disk, retryCount, snapshot, up, starts, crashes, history >>

\* The caller aborts; under bestEffort the abort error is caught like any other.
Abort(d) ==
  /\ AtStep(Live(d), "sending")
  /\ d \notin BestEffort
  /\ aborted' = aborted \cup {d}
  /\ Records(Live(d), "acking")
  /\ UNCHANGED << disk, retryCount, snapshot, up, bounds,
                  sent, accepted, unacked, shared >>

-----------------------------------------------------------------------------
(* Sends, by either function.                                              *)

\* The attempt throws: a scan moves its entry away when the error is permanent.
Throws(w) == \E next \in {"failing", "moving"} : (next = "moving" => w \in Scans) /\ Records(w, next)

\* The payload is done with: the next one follows, or all have been tried, with
\* some error that the caller's onError has seen or without.  If anything was sent
\* it is then appended to the transcript, and that may throw.
PayloadDone(w, success, failed) ==
  LET partial == worker[w].partial \/ failed
      results == worker[w].results \/ success
  IN  IF worker[w].payload < PayloadsOf[worker[w].id]
      THEN worker' = [worker EXCEPT ![w].payload = @ + 1, ![w].partial = partial,
                                    ![w].results = results]
      ELSE \/ Records(w, IF partial THEN "failing" ELSE "acking")
           \/ worker[w].id \in Mirrored /\ results /\ Throws(w)

\* An attempt that has sent something of d ends, and will not mark it.
Unmarked(w, success) ==
  IF (success \/ worker[w].results) /\ worker'[w].step \in {"failing", "moving"}
  THEN {worker[w].id} ELSE {}

SendSucceeds(w) ==
  LET d == worker[w].id
  IN
  /\ AtStep(w, "sending")
  /\ sent' = [sent EXCEPT ![d][worker[w].payload] = IF @ = 2 THEN 2 ELSE @ + 1]
  /\ PayloadDone(w, TRUE, FALSE)
  /\ unacked' = unacked \cup Unmarked(w, TRUE)
  /\ UNCHANGED << disk, retryCount, snapshot, up, bounds, accepted, aborted, shared >>

\* Faulty variant: the error of a payload ends neither the loop nor the entry.
SendFailsAcked(w) ==
  LET d == worker[w].id
  IN
  /\ AtStep(w, "sending")
  /\ PayloadDone(w, FALSE, w \in Lives /\ d \in Observed)
  /\ unacked' = unacked \cup Unmarked(w, FALSE)
  /\ UNCHANGED << disk, retryCount, snapshot, up, bounds,
                  sent, accepted, aborted, shared >>

\* The send of a payload fails.  Without bestEffort the attempt ends there; with
\* bestEffort the error is swallowed, and only a live delivery whose caller passed
\* onError learns of it.
SendFails(w) ==
  LET d == worker[w].id
  IN
  /\ AtStep(w, "sending")
  /\ IF d \in BestEffort THEN PayloadDone(w, FALSE, w \in Lives /\ d \in Observed) ELSE Throws(w)
  /\ unacked' = unacked \cup Unmarked(w, FALSE)
  /\ UNCHANGED << disk, retryCount, snapshot, up, bounds,
                  sent, accepted, aborted, shared >>

\* createChannelHandler cannot load the channel's adapter: nothing is sent, and
\* the attempt ends, under bestEffort too.
HandlerFails(w) ==
  /\ AtStep(w, "sending") /\ worker[w].payload = 1
  /\ diskErrors < MaxDiskErrors
  /\ diskErrors' = diskErrors + 1
  /\ Throws(w)
  /\ UNCHANGED << disk, retryCount, snapshot, up, starts, crashes, history >>

-----------------------------------------------------------------------------
(* The operations on an entry: ackDelivery, failDelivery, moveToFailed.    *)

\* Faulty variant: the rename is left out, and the marker is not written.
AckRenameSkipped(w) ==
  LET d == worker[w].id
  IN
  /\ AtStep(w, "acking")
  /\ Goes(w, "unlinking")
  /\ UNCHANGED << disk, retryCount, snapshot, up, bounds,
                  sent, accepted, aborted, unacked, shared >>

\* Phase 1: <id>.json becomes <id>.delivered, or is gone already.
AckRename(w) ==
  LET d == worker[w].id
  IN
  /\ AtStep(w, "acking")
  /\ disk' = [disk EXCEPT ![d] = IF HasJson(d) THEN (@ \ {"json"}) \cup {"delivered"} ELSE @]
  /\ Goes(w, "unlinking")
  /\ UNCHANGED << retryCount, snapshot, up, bounds,
                  sent, accepted, aborted, unacked, shared >>

\* The rename fails otherwise: a live delivery logs it, a scan treats the
\* attempt as failed.
AckFails(w) ==
  /\ AtStep(w, "acking")
  /\ diskErrors < MaxDiskErrors
  /\ diskErrors' = diskErrors + 1
  /\ unacked' = unacked \cup {worker[w].id}
  /\ IF w \in Scans THEN Goes(w, "failing") ELSE Finishes(w)
  /\ UNCHANGED << disk, retryCount, snapshot, up, starts, crashes,
                  sent, accepted, aborted, shared >>

\* Phase 2: the marker is removed.
AckUnlink(w) ==
  /\ AtStep(w, "unlinking")
  /\ disk' = [disk EXCEPT ![worker[w].id] = @ \ {"delivered"}]
  /\ Finishes(w)
  /\ UNCHANGED << retryCount, snapshot, up, bounds, history >>

\* failDelivery reads the entry; if it is gone there is nothing to update.
FailRead(w) ==
  LET d == worker[w].id
  IN
  /\ AtStep(w, "failing")
  /\ IF HasJson(d)
     THEN worker' = [worker EXCEPT ![w].step = "rewriting", ![w].read = retryCount[d]]
     ELSE Finishes(w)
  /\ UNCHANGED << disk, retryCount, snapshot, up, bounds, history >>

\* It renames the new entry into place, whatever has become of the old one.
FailWrite(w) ==
  LET d == worker[w].id
  IN
  /\ AtStep(w, "rewriting")
  /\ retryCount' = [retryCount EXCEPT ![d] = worker[w].read + 1]
  /\ disk' = [disk EXCEPT ![d] = @ \cup {"json"}]
  /\ Finishes(w)
  /\ UNCHANGED << snapshot, up, bounds, history >>

\* moveToFailed; an entry that is gone is logged.
MoveToFailed(d) ==
  disk' = [disk EXCEPT ![d] = IF HasJson(d) THEN (@ \ {"json"}) \cup {"failed"} ELSE @]

MovePermanent(w) ==
  /\ AtStep(w, "moving")
  /\ MoveToFailed(worker[w].id)
  /\ Finishes(w)
  /\ UNCHANGED << retryCount, snapshot, up, bounds, history >>

\* A marker cannot be removed, or an entry cannot be read, rewritten or moved:
\* the error is caught, and the files stay as they are.
UpdateFails(w) ==
  /\ up /\ worker[w].step \in {"unlinking", "failing", "rewriting", "moving"}
  /\ diskErrors < MaxDiskErrors
  /\ diskErrors' = diskErrors + 1
  /\ Finishes(w)
  /\ UNCHANGED << disk, retryCount, snapshot, up, starts, crashes, history >>

-----------------------------------------------------------------------------
(* recoverPendingDeliveries.                                               *)

\* A gateway starts, in a new process or again in this one: a scan begins.
\* Scans of an earlier start in the same process go on.
Start ==
  LET s == Scan(starts + 1)
  IN
  /\ starts < MaxStarts
  /\ starts' = starts + 1
  /\ up' = TRUE
  /\ worker' = [worker EXCEPT ![s].step = "loading"]
  /\ UNCHANGED << disk, retryCount, snapshot, crashes, diskErrors, history >>

\* loadPendingDeliveries: the entries on disk are read, and the markers that a
\* crash has left are removed.  It is one step: what becomes of one file says
\* nothing about another, and a file that is gone when its turn comes counts as
\* one that was not listed.  An entry that cannot be read is skipped.
Load(s, unreadable) ==
  LET found == { d \in Deliveries : HasJson(d) } \ unreadable
  IN
  /\ AtStep(s, "loading")
  /\ diskErrors + Cardinality(unreadable) <= MaxDiskErrors
  /\ diskErrors' = diskErrors + Cardinality(unreadable)
  /\ snapshot' = [snapshot EXCEPT ![s] = [d \in Deliveries |-> IF d \in found THEN retryCount[d]
                                                                            ELSE NoEntry]]
  /\ disk' = [d \in Deliveries |-> disk[d] \ {"delivered"}]
  /\ shared' = shared \cup { d \in found : \E w \in Workers \ {s} : Holds(w, d) }
  /\ Goes(s, IF found = {} THEN "done" ELSE "choosing")
  /\ UNCHANGED << retryCount, up, starts, crashes, sent, accepted, aborted, unacked >>

\* The directory cannot be read: there is no recovery in this lifecycle.
LoadFails(s) ==
  /\ AtStep(s, "loading")
  /\ diskErrors < MaxDiskErrors
  /\ diskErrors' = diskErrors + 1
  /\ Goes(s, "done")
  /\ UNCHANGED << disk, retryCount, snapshot, up, starts, crashes, history >>

\* d is the oldest entry that the scan has read and not handled.
Oldest(s, d) ==
  /\ AtStep(s, "choosing")
  /\ snapshot[s][d] # NoEntry
  /\ \A e \in Deliveries : e < d => snapshot[s][e] = NoEntry

Handled(s, d) == snapshot' = [snapshot EXCEPT ![s][d] = NoEntry]

\* An entry without retries left; if it cannot be moved, that is logged.
MoveExhausted(s, d) ==
  /\ Oldest(s, d)
  /\ snapshot[s][d] >= MaxRetries
  /\ Handled(s, d)
  /\ MoveToFailed(d)
  /\ UNCHANGED << retryCount, worker, up, bounds, history >>

MoveExhaustedFails(s, d) ==
  /\ Oldest(s, d)
  /\ snapshot[s][d] >= MaxRetries
  /\ diskErrors < MaxDiskErrors
  /\ diskErrors' = diskErrors + 1
  /\ Handled(s, d)
  /\ UNCHANGED << disk, retryCount, worker, up, starts, crashes, history >>

\* Its backoff has not elapsed; an entry never attempted is always replayed.
Defer(s, d) ==
  /\ Oldest(s, d)
  /\ snapshot[s][d] \in 1 .. MaxRetries - 1
  /\ Handled(s, d)
  /\ UNCHANGED << disk, retryCount, worker, up, bounds, history >>

\* Faulty variant: `>` where the code compares with `>=`.
ReplayOnceMore(s, d) ==
  /\ Oldest(s, d)
  /\ snapshot[s][d] <= MaxRetries
  /\ Handled(s, d)
  /\ worker' = [worker EXCEPT ![s] = Sending(d)]
  /\ UNCHANGED << disk, retryCount, up, bounds, history >>

Replay(s, d) ==
  /\ Oldest(s, d)
  /\ snapshot[s][d] < MaxRetries
  /\ Handled(s, d)
  /\ worker' = [worker EXCEPT ![s] = Sending(d)]
  /\ UNCHANGED << disk, retryCount, up, bounds, history >>

\* The time budget is spent: what is left waits for the next start.
OutOfTime(s) ==
  /\ AtStep(s, "choosing")
  /\ snapshot[s] # NothingRead
  /\ snapshot' = [snapshot EXCEPT ![s] = NothingRead]
  /\ Goes(s, "done")
  /\ UNCHANGED << disk, retryCount, up, bounds, history >>

-----------------------------------------------------------------------------
\* The process dies.  What is on disk stays; a send whose success had not been
\* recorded will look as if it had not been made.
Crash ==
  /\ up /\ crashes < MaxCrashes
  /\ crashes' = crashes + 1
  /\ up' = FALSE
  /\ unacked' = unacked \cup { worker[w].id : w \in { v \in Workers :
       worker[v].step = "acking" \/ (worker[v].step = "sending" /\ worker[v].results) } }
  /\ worker' = [w \in Workers |-> IF worker[w].step = "idle" THEN worker[w] ELSE AtRest("done")]
  /\ snapshot' = [s \in Scans |-> NothingRead]
  /\ UNCHANGED << disk, retryCount, starts, diskErrors, sent, accepted, aborted, shared >>

Next ==
  \/ \E d \in Deliveries : Persist(d) \/ PersistFails(d) \/ Abort(d)
  \/ \E w \in Workers : SendSucceeds(w) \/ SendFails(w) \/ HandlerFails(w)
  \/ \E w \in Workers : AckRename(w) \/ AckFails(w) \/ AckUnlink(w)
  \/ \E w \in Workers : FailRead(w) \/ FailWrite(w) \/ MovePermanent(w) \/ UpdateFails(w)
  \/ \E s \in Scans, unreadable \in SUBSET Deliveries : Load(s, unreadable)
  \/ \E s \in Scans : LoadFails(s) \/ OutOfTime(s)
  \/ \E s \in Scans, d \in Deliveries :
       MoveExhausted(s, d) \/ MoveExhaustedFails(s, d) \/ Defer(s, d) \/ Replay(s, d)
  \/ Start
  \/ Crash

Spec == Init /\ [][Next]_vars

-----------------------------------------------------------------------------
Kept(d) == disk[d] \cap {"json", "failed"} # {}

\* A message that was persisted and is not bestEffort stays on disk, to be
\* replayed or for the operator to see, until all its payloads have been sent or
\* its caller has given it up: through crashes, sends that fail half-way, scans
\* that overlap live deliveries and file errors.
StrictDeliveryIsKept ==
  \A d \in accepted \ BestEffort :
    (\E p \in Payloads(d) : sent[d][p] = 0) /\ d \notin aborted => Kept(d)

\* A payload is sent a second time only if the success of its delivery could not
\* be recorded, an attempt sent only some of its payloads or could not append to
\* the transcript, or a scan and another worker had its entry at the same time.
SentOnceUnlessUnacked ==
  \A d \in Deliveries :
    (\E p \in Payloads(d) : sent[d][p] > 1) => d \in unacked \cup shared

\* Retries are bounded by MAX_RETRIES as long as a scan does not act on a count
\* that another worker has changed since it was read.
RetriesAreBounded ==
  \A d \in Deliveries \ shared : retryCount[d] <= MaxRetries
=============================================================================
