------------------------ MODULE HeartbeatWakeProofs ------------------------
(***************************************************************************)
(* Proofs about HeartbeatWake for any targets, runners and requests.  The  *)
(* inductive invariant adds to the safety invariants what a callback in    *)
(* flight holds: a wake it has handed over, and others it has yet to hand  *)
(* over, each with a priority to put back.                                 *)
(***************************************************************************)
EXTENDS HeartbeatWake, TLAPS

Wakes == [Targets -> 0 .. 3]
Timers == {"none", "normal", "retry"}
Batch == [ runner : Runners \cup {0}, wakes : Wakes, todo : SUBSET Targets,
           current : Targets \cup {0}, heard : BOOLEAN ]

\* What a callback holds; one that is over holds nothing.
BatchSound(b) ==
  /\ b.runner = 0 => b.current = 0 /\ b.todo = {}
  /\ b.runner # 0 => b.current \in Targets /\ b.wakes[b.current] # 0
  /\ \A t \in b.todo : b.wakes[t] # 0
BatchesSound == \A c \in Callbacks : BatchSound(batch[c])

\* The wake of t is with callback c.
With(c, t) == batch[c].runner # 0 /\ (batch[c].current = t \/ t \in batch[c].todo)

IInv == TypeOK /\ BatchesSound /\ NoStrandedWake /\ EveryWakeAccounted

-----------------------------------------------------------------------------
\* The bounds are natural numbers.
LEMMA ConstantsNat ==
  /\ NumTargets \in Nat /\ MaxRequests \in Nat /\ MaxRunners \in Nat /\ MaxFailures \in Nat
  /\ Priorities \subseteq 1 .. 3
BY ConstantsAssumption

\* Merged wakes are wakes, and whoever asked for a wake is still among them.
LEMMA QueueKeeps ==
  ASSUME NEW pend \in Wakes, NEW ws \in Wakes
  PROVE  /\ Queue(pend, ws) \in Wakes
         /\ \A t \in Targets : Queue(pend, ws)[t] # 0 <=> pend[t] # 0 \/ ws[t] # 0
BY DEF Queue, Wakes

\* A single wake is a wake of its target only.
LEMMA SingleWake ==
  ASSUME NEW t \in Targets, NEW p \in 0 .. 3
  PROVE  Single(t, p) \in Wakes /\ Single(t, p)[t] = p
BY DEF Single, Wakes, NoWakes

\* schedule always leaves a timer set.
LEMMA ArmSets ==
  ASSUME NEW tm \in Timers, NEW kind \in {"normal", "retry"}
  PROVE  \A new \in Arm(tm, kind) : new \in Timers /\ new # "none"
BY DEF Arm, Timers

\* The batch takes one of the wakes it has left.
LEMMA CallingTakes ==
  ASSUME NEW b \in Batch, b.runner # 0, \A t \in b.todo : b.wakes[t] # 0,
         NEW n \in Calling(b)
  PROVE  /\ n \in Batch /\ n.runner # 0 /\ BatchSound(n)
         /\ \A t \in b.todo : n.current = t \/ t \in n.todo
<1>1. PICK t \in b.todo :
        n = [b EXCEPT !.todo = @ \ {t}, !.current = t, !.heard = b.runner \notin stopped]
  BY DEF Calling
<1>2. /\ n.runner = b.runner /\ n.wakes = b.wakes /\ n.todo = b.todo \ {t}
      /\ n.current = t /\ n.heard = (b.runner \notin stopped)
  BY <1>1 DEF Batch
<1>3. n \in Batch
  <2>1. t \in Targets /\ (b.runner \notin stopped) \in BOOLEAN
    BY DEF Batch
  <2> QED
    BY <1>1, <2>1 DEF Batch
<1>4. BatchSound(n)
  <2>1. n.current \in Targets
    BY <1>2 DEF Batch
  <2> QED
    BY <1>2, <2>1 DEF BatchSound
<1> QED
  BY <1>2, <1>3, <1>4

\* What a callback does after an answer: it goes on with a wake that was left, or
\* ends and sets the timer for what waits.
LEMMA GoOnKeeps ==
  ASSUME TypeOK, BatchesSound, NEW c \in InFlight, NEW pend \in Wakes, NEW tm \in Timers,
         GoOn(c, pend, tm)
  PROVE  /\ batch' \in [Callbacks -> Batch] /\ BatchesSound'
         /\ timer' \in Timers /\ running' \in BOOLEAN
         /\ pend # NoWakes => timer' # "none" \/ InFlight' # {}
         /\ \A d \in Callbacks \ {c} : batch'[d] = batch[d]
         /\ \A t \in batch[c].todo : With(c, t)'
<1>1. c \in Callbacks /\ batch[c] \in Batch /\ batch[c].runner # 0 /\ batch \in [Callbacks -> Batch]
  BY DEF InFlight, TypeOK, Batch, Wakes
<1>2. \A t \in batch[c].todo : batch[c].wakes[t] # 0
  BY <1>1 DEF BatchesSound, BatchSound
<1>3. CASE batch[c].todo = {}
  <2>1. Finally(c, pend, tm)
    BY <1>3 DEF GoOn
  <2>2. NoBatch \in Batch /\ BatchSound(NoBatch)
    BY DEF NoBatch, Batch, Wakes, NoWakes, BatchSound
  <2>3. batch' = [batch EXCEPT ![c] = NoBatch] /\ running' = FALSE
    BY <2>1 DEF Finally
  <2>4. batch' \in [Callbacks -> Batch] /\ BatchesSound'
    BY <1>1, <2>2, <2>3 DEF BatchesSound
  <2>5. timer' \in Timers /\ (pend # NoWakes => timer' # "none")
    BY <2>1, ArmSets DEF Finally
  <2> QED
    BY <1>1, <1>3, <2>3, <2>4, <2>5
<1>4. CASE batch[c].todo # {}
  <2>1. PICK b \in Calling(batch[c]) : batch' = [batch EXCEPT ![c] = b]
    BY <1>4 DEF GoOn
  <2>2. timer' = tm /\ running' = running
    BY <1>4 DEF GoOn
  <2>3. b \in Batch /\ b.runner # 0 /\ BatchSound(b) /\ \A t \in batch[c].todo : b.current = t \/ t \in b.todo
    BY <1>1, <1>2, CallingTakes
  <2>4. batch' \in [Callbacks -> Batch] /\ BatchesSound'
    BY <1>1, <2>1, <2>3 DEF BatchesSound
  <2>5. batch'[c] = b /\ \A d \in Callbacks \ {c} : batch'[d] = batch[d]
    BY <1>1, <2>1
  <2>6. c \in InFlight' /\ \A t \in batch[c].todo : With(c, t)'
    BY <1>1, <2>3, <2>5 DEF InFlight, With
  <2>7. running \in BOOLEAN
    BY DEF TypeOK
  <2> QED
    BY <2>2, <2>4, <2>5, <2>6, <2>7
<1> QED
  BY <1>3, <1>4

\* The initial state satisfies the invariant.
LEMMA InitInv == Init => IInv
<1> SUFFICES ASSUME Init PROVE IInv
  OBVIOUS
<1>1. NoBatch \in Batch /\ BatchSound(NoBatch)
  BY DEF NoBatch, Batch, Wakes, NoWakes, BatchSound
<1>2. batch \in [Callbacks -> Batch] /\ BatchesSound
  BY <1>1 DEF Init, BatchesSound
<1>3. /\ pending \in Wakes /\ timer \in Timers /\ scheduled \in BOOLEAN /\ running \in BOOLEAN
  <2>1. pending \in Wakes
    BY DEF Init, Wakes, NoWakes
  <2> QED
    BY <2>1 DEF Init, Timers
<1>4. /\ handler \in Runners \cup {0} /\ started \in 0 .. MaxRunners /\ stopped \subseteq 1 .. started
      /\ requests \in 0 .. MaxRequests /\ failures \in 0 .. MaxFailures
      /\ owed \subseteq Targets /\ dropped \subseteq Targets
  <2>1. started \in 0 .. MaxRunners /\ requests \in 0 .. MaxRequests /\ failures \in 0 .. MaxFailures
    BY ConstantsNat DEF Init
  <2> QED
    BY <2>1 DEF Init
<1>5. TypeOK
  BY <1>2, <1>3, <1>4 DEF TypeOK, Batch, Wakes, Timers
<1> QED
  BY <1>2, <1>5 DEF Init, IInv, NoStrandedWake, EveryWakeAccounted

-----------------------------------------------------------------------------
(* The steps.                                                              *)

\* A request sets the timer, and its target is owed a wake that waits.
LEMMA RequestInv == ASSUME NEW t \in Targets, NEW p \in Priorities PROVE IInv /\ Request(t, p) => IInv'
<1> SUFFICES ASSUME IInv, Request(t, p) PROVE IInv'
  OBVIOUS
<1>1. p \in 0 .. 3 /\ p # 0 /\ pending \in Wakes /\ timer \in Timers
  BY ConstantsNat DEF IInv, TypeOK, Wakes, Timers
<1>2. Single(t, p) \in Wakes /\ Single(t, p)[t] = p
  BY <1>1, SingleWake
<1>3. /\ pending' \in Wakes
      /\ \A u \in Targets : pending'[u] # 0 <=> pending[u] # 0 \/ Single(t, p)[u] # 0
  BY <1>1, <1>2, QueueKeeps DEF Request
<1>4. timer' \in Timers /\ timer' # "none"
  BY <1>1, ArmSets DEF Request
<1>5. UNCHANGED << batch, handler, started, stopped, scheduled, running, failures >>
  BY DEF Request, runners
<1>6. TypeOK'
  <2>1. requests' \in 0 .. MaxRequests
    BY ConstantsNat DEF Request, IInv, TypeOK
  <2>2. owed' \subseteq Targets /\ dropped' \subseteq Targets
    BY DEF Request, IInv, TypeOK
  <2> QED
    BY <1>3, <1>4, <1>5, <2>1, <2>2 DEF IInv, TypeOK, Wakes, Timers
<1>7. BatchesSound'
  BY <1>5 DEF IInv, BatchesSound, BatchSound
<1>8. NoStrandedWake'
  BY <1>4 DEF NoStrandedWake
<1>9. EveryWakeAccounted'
  <2> SUFFICES ASSUME NEW u \in owed' \ dropped'
               PROVE  pending'[u] # 0 \/ \E c \in InFlight' : batch'[c].current = u \/ u \in batch'[c].todo
    BY DEF EveryWakeAccounted
  <2>1. CASE u = t
    BY <1>1, <1>2, <1>3, <2>1
  <2>2. CASE u # t
    <3>1. u \in owed \ dropped /\ u \in Targets
      BY <2>2 DEF Request, IInv, TypeOK
    <3> QED
      BY <1>3, <1>5, <3>1 DEF IInv, EveryWakeAccounted, InFlight
  <2> QED
    BY <2>1, <2>2
<1> QED
  BY <1>6, <1>7, <1>8, <1>9 DEF IInv

\* The timer that fires unheard drops itself, but nobody is registered; one that
\* fires during a batch stays.
LEMMA FireIdleInv == IInv /\ (FireUnheard \/ FireWhileRunning) => IInv'
<1> SUFFICES ASSUME IInv, FireUnheard \/ FireWhileRunning PROVE IInv'
  OBVIOUS
<1>1. /\ UNCHANGED << pending, running, batch, handler, started, stopped, requests, failures, owed, dropped >>
      /\ timer' \in {timer, "none"} /\ scheduled' \in BOOLEAN
      /\ timer' = timer \/ handler = 0
  BY DEF FireUnheard, FireWhileRunning, runners, history
<1>2. TypeOK'
  BY <1>1 DEF IInv, TypeOK
<1>3. BatchesSound'
  BY <1>1 DEF IInv, BatchesSound, BatchSound
<1>4. NoStrandedWake'
  BY <1>1 DEF IInv, NoStrandedWake, InFlight
<1>5. EveryWakeAccounted'
  BY <1>1 DEF IInv, EveryWakeAccounted, InFlight
<1> QED
  BY <1>2, <1>3, <1>4, <1>5 DEF IInv

\* All that waits goes into the batch.
LEMMA FireInv == ASSUME NEW c \in Callbacks PROVE IInv /\ Fire(c) => IInv'
<1> SUFFICES ASSUME IInv, Fire(c) PROVE IInv'
  OBVIOUS
<1>1. /\ timer' = "none" /\ scheduled' = FALSE /\ pending' = NoWakes /\ running' \in BOOLEAN
      /\ UNCHANGED << handler, started, stopped, requests, failures, owed, dropped >>
      /\ handler \in Runners /\ batch[c] = NoBatch
  BY DEF Fire, runners, history, IInv, TypeOK
<1>2. pending \in Wakes /\ batch \in [Callbacks -> Batch] /\ NoWakes \in Wakes /\ BatchesSound
  BY DEF IInv, TypeOK, Wakes, Batch, NoWakes
<1>3. CASE pending = NoWakes
  <2>1. batch' = batch
    BY <1>3 DEF Fire
  <2>2. TypeOK'
    BY <1>1, <1>2, <2>1 DEF IInv, TypeOK, Wakes
  <2>3. BatchesSound' /\ NoStrandedWake'
    BY <1>1, <1>2, <2>1 DEF BatchesSound, BatchSound, NoStrandedWake
  <2>4. EveryWakeAccounted'
    BY <1>1, <1>3, <2>1 DEF IInv, EveryWakeAccounted, InFlight
  <2> QED
    BY <2>2, <2>3, <2>4 DEF IInv
<1>4. CASE pending # NoWakes
  <2> DEFINE all == [NoBatch EXCEPT !.runner = handler, !.wakes = pending,
                                    !.todo = { t \in Targets : pending[t] # 0 }]
  <2>1. all \in Batch /\ all.runner # 0 /\ all.todo = { t \in Targets : pending[t] # 0 } /\ all.wakes = pending
    <3>1. NoBatch \in Batch
      BY DEF NoBatch, Batch, NoWakes, Wakes
    <3>2. handler # 0 /\ handler \in Runners /\ pending \in Wakes
      BY <1>1, <1>2 DEF Fire
    <3> DEFINE due == { t \in Targets : pending[t] # 0 }
    <3>3. due \in SUBSET Targets
      OBVIOUS
    <3>4. all = [NoBatch EXCEPT !.runner = handler, !.wakes = pending, !.todo = due]
      OBVIOUS
    <3> HIDE DEF due, all
    <3>5. all \in Batch /\ all.runner = handler /\ all.wakes = pending /\ all.todo = due
      BY <3>1, <3>2, <3>3, <3>4 DEF Batch
    <3> QED
      BY <3>2, <3>5 DEF due
  <2>2. PICK b \in Calling(all) : batch' = [batch EXCEPT ![c] = b]
    BY <1>4 DEF Fire
  <2>3. \A t \in all.todo : all.wakes[t] # 0
    BY <2>1
  <2>4. b \in Batch /\ b.runner # 0 /\ BatchSound(b) /\ \A t \in all.todo : b.current = t \/ t \in b.todo
    <3> HIDE DEF all
    <3> QED
      BY <2>1, <2>2, <2>3, CallingTakes
  <2>5. batch' \in [Callbacks -> Batch] /\ BatchesSound' /\ batch'[c] = b
        /\ \A d \in Callbacks \ {c} : batch'[d] = batch[d]
    BY <1>2, <2>2, <2>4 DEF BatchesSound
  <2>6. TypeOK'
    BY <1>1, <1>2, <2>5 DEF IInv, TypeOK, Wakes, Batch
  <2>7. NoStrandedWake'
    BY <1>1 DEF NoStrandedWake
  <2>8. EveryWakeAccounted'
    <3> SUFFICES ASSUME NEW t \in owed' \ dropped'
                 PROVE  \E d \in InFlight' : batch'[d].current = t \/ t \in batch'[d].todo
      BY DEF EveryWakeAccounted
    <3>1. t \in Targets /\ t \in owed \ dropped
      BY <1>1 DEF IInv, TypeOK
    <3>2. CASE pending[t] # 0
      BY <2>1, <2>4, <2>5, <3>1, <3>2 DEF InFlight
    <3>3. CASE pending[t] = 0
      <4>1. PICK d \in InFlight : batch[d].current = t \/ t \in batch[d].todo
        BY <3>1, <3>3 DEF IInv, EveryWakeAccounted
      <4>2. d \in Callbacks \ {c}
        BY <1>1, <4>1 DEF InFlight, NoBatch
      <4> QED
        BY <2>5, <4>1, <4>2 DEF InFlight
    <3> QED
      BY <3>2, <3>3
  <2> QED
    BY <2>5, <2>6, <2>7, <2>8 DEF IInv
<1> QED
  BY <1>3, <1>4

\* A wake that anything but callback c still has is accounted for once c goes on.
LEMMA AskedStays ==
  ASSUME IInv, NEW c \in Callbacks, NEW u \in Targets, StillAsked(u, c),
         pending[u] # 0 => pending'[u] # 0, \A d \in Callbacks \ {c} : batch'[d] = batch[d]
  PROVE  pending'[u] # 0 \/ \E d \in InFlight' : batch'[d].current = u \/ u \in batch'[d].todo
<1>1. CASE pending[u] # 0
  BY <1>1
<1>2. CASE pending[u] = 0
  <2>1. PICK d \in Callbacks \ {c} : batch[d].current = u \/ u \in batch[d].todo
    BY <1>2 DEF StillAsked
  <2>2. u # 0
    BY ConstantsNat DEF Targets
  <2>3. batch[d].runner # 0
    BY <2>1, <2>2 DEF IInv, BatchesSound, BatchSound
  <2> QED
    BY <2>1, <2>3 DEF InFlight
<1> QED
  BY <1>1, <1>2

\* The facts about a callback in flight that every answer needs.
LEMMA InFlightFacts ==
  ASSUME IInv, NEW c \in InFlight
  PROVE  /\ c \in Callbacks /\ batch \in [Callbacks -> Batch] /\ batch[c] \in Batch
         /\ pending \in Wakes /\ timer \in Timers
         /\ batch[c].current \in Targets /\ batch[c].wakes \in Wakes
         /\ batch[c].wakes[batch[c].current] # 0
         /\ \A t \in batch[c].todo : batch[c].wakes[t] # 0
<1>1. c \in Callbacks /\ batch \in [Callbacks -> Batch] /\ batch[c].runner # 0
  BY DEF IInv, TypeOK, InFlight, Batch, Wakes
<1>2. batch[c] \in Batch /\ BatchSound(batch[c])
  BY <1>1 DEF IInv, BatchesSound
<1>3. pending \in Wakes /\ timer \in Timers
  BY DEF IInv, TypeOK, Wakes, Timers
<1>4. batch[c].wakes \in Wakes
  BY <1>2 DEF Batch
<1> QED
  BY <1>1, <1>2, <1>3, <1>4 DEF BatchSound

\* An answer settles its target, unless somebody asked again.
LEMMA AnswerInv == ASSUME NEW c \in Callbacks PROVE IInv /\ Answer(c) => IInv'
<1> SUFFICES ASSUME IInv, Answer(c) PROVE IInv'
  OBVIOUS
<1>1. c \in InFlight /\ GoOn(c, pending, timer)
      /\ UNCHANGED << pending, scheduled, handler, started, stopped, requests, failures >>
  BY DEF Answer, runners
<1>2. batch[c].current \in Targets /\ pending \in Wakes /\ timer \in Timers
  BY <1>1, InFlightFacts
<1>3. /\ batch' \in [Callbacks -> Batch] /\ BatchesSound'
      /\ timer' \in Timers /\ running' \in BOOLEAN
      /\ pending # NoWakes => timer' # "none" \/ InFlight' # {}
      /\ \A d \in Callbacks \ {c} : batch'[d] = batch[d]
      /\ \A t \in batch[c].todo : With(c, t)'
  BY <1>1, <1>2, GoOnKeeps DEF IInv
<1>4. /\ owed' \subseteq owed /\ dropped \subseteq dropped' /\ dropped' \subseteq dropped \cup {batch[c].current}
      /\ batch[c].current \in owed' \ dropped' => StillAsked(batch[c].current, c)
  <2>1. owed' = IF batch[c].heard /\ ~StillAsked(batch[c].current, c) THEN owed \ {batch[c].current} ELSE owed
    BY DEF Answer
  <2>2. dropped' = IF batch[c].heard \/ StillAsked(batch[c].current, c) THEN dropped
                   ELSE dropped \cup {batch[c].current}
    BY DEF Answer
  <2>3. CASE StillAsked(batch[c].current, c)
    BY <2>1, <2>2, <2>3
  <2>4. CASE ~StillAsked(batch[c].current, c)
    <3>1. CASE batch[c].heard
      BY <2>1, <2>2, <2>4, <3>1
    <3>2. CASE ~batch[c].heard
      BY <2>1, <2>2, <2>4, <3>2
    <3> QED
      BY <3>1, <3>2
  <2> QED
    BY <2>3, <2>4
<1>5. TypeOK'
  <2>1. owed' \subseteq Targets /\ dropped' \subseteq Targets
    BY <1>2, <1>4 DEF IInv, TypeOK
  <2> QED
    BY <1>1, <1>3, <2>1 DEF IInv, TypeOK, Wakes, Timers, Batch
<1>6. NoStrandedWake'
  BY <1>1, <1>3 DEF NoStrandedWake
<1>7. EveryWakeAccounted'
  <2> SUFFICES ASSUME NEW u \in owed' \ dropped'
               PROVE  pending'[u] # 0 \/ \E d \in InFlight' : batch'[d].current = u \/ u \in batch'[d].todo
    BY DEF EveryWakeAccounted
  <2>1. u \in owed \ dropped /\ u \in Targets
    BY <1>4 DEF IInv, TypeOK
  <2>2. CASE StillAsked(u, c)
    BY <1>1, <1>3, <2>1, <2>2, AskedStays
  <2>3. CASE ~StillAsked(u, c)
    <3>1. pending[u] = 0 /\ \A d \in InFlight \ {c} : ~(batch[d].current = u \/ u \in batch[d].todo)
      BY <2>3 DEF StillAsked, InFlight
    <3>2. batch[c].current = u \/ u \in batch[c].todo
      BY <2>1, <3>1 DEF IInv, EveryWakeAccounted
    <3>3. u \in batch[c].todo
      BY <1>4, <2>3, <3>2
    <3> QED
      BY <1>3, <3>3 DEF With, InFlight
  <2> QED
    BY <2>2, <2>3
<1> QED
  BY <1>3, <1>5, <1>6, <1>7 DEF IInv

\* Busy: the wake of the callback waits again, under a retry timer.
LEMMA AnswerBusyInv == ASSUME NEW c \in Callbacks PROVE IInv /\ AnswerBusy(c) => IInv'
<1> SUFFICES ASSUME IInv, AnswerBusy(c) PROVE IInv'
  OBVIOUS
<1> DEFINE t == batch[c].current
           again == Queue(pending, Single(t, batch[c].wakes[t]))
<1>1. /\ c \in InFlight /\ pending' = again
      /\ UNCHANGED << scheduled, handler, started, stopped, requests, failures, owed, dropped >>
  BY DEF AnswerBusy, runners, history
<1>2. /\ t \in Targets /\ pending \in Wakes /\ timer \in Timers
      /\ batch[c].wakes[t] \in 0 .. 3 /\ batch[c].wakes[t] # 0
  BY <1>1, InFlightFacts DEF Wakes
<1>3. Single(t, batch[c].wakes[t]) \in Wakes /\ Single(t, batch[c].wakes[t])[t] # 0
  BY <1>2, SingleWake
<1>4. again \in Wakes /\ again[t] # 0 /\ \A u \in Targets : pending[u] # 0 => again[u] # 0
  BY <1>2, <1>3, QueueKeeps
<1>5. PICK tm \in Arm(timer, "retry") : GoOn(c, again, tm)
  BY DEF AnswerBusy
<1>6. tm \in Timers
  BY <1>2, <1>5, ArmSets
<1> HIDE DEF t, again
<1>7. /\ batch' \in [Callbacks -> Batch] /\ BatchesSound'
      /\ timer' \in Timers /\ running' \in BOOLEAN
      /\ again # NoWakes => timer' # "none" \/ InFlight' # {}
      /\ \A d \in Callbacks \ {c} : batch'[d] = batch[d]
      /\ \A u \in batch[c].todo : With(c, u)'
  BY <1>1, <1>4, <1>5, <1>6, GoOnKeeps DEF IInv
<1>8. TypeOK'
  BY <1>1, <1>4, <1>7 DEF IInv, TypeOK, Wakes, Timers, Batch
<1>9. NoStrandedWake'
  BY <1>1, <1>7 DEF NoStrandedWake
<1>10. EveryWakeAccounted'
  <2> SUFFICES ASSUME NEW u \in owed' \ dropped'
               PROVE  pending'[u] # 0 \/ \E d \in InFlight' : batch'[d].current = u \/ u \in batch'[d].todo
    BY DEF EveryWakeAccounted
  <2>1. u \in owed \ dropped /\ u \in Targets
    BY <1>1 DEF IInv, TypeOK
  <2>2. CASE StillAsked(u, c)
    BY <1>1, <1>4, <1>7, <2>1, <2>2, AskedStays
  <2>3. CASE ~StillAsked(u, c)
    <3>1. pending[u] = 0 /\ \A d \in InFlight \ {c} : ~(batch[d].current = u \/ u \in batch[d].todo)
      BY <2>3 DEF StillAsked, InFlight
    <3>2. u = t \/ u \in batch[c].todo
      BY <2>1, <3>1 DEF IInv, EveryWakeAccounted, t
    <3>3. CASE u = t
      BY <1>1, <1>4, <3>3
    <3>4. CASE u \in batch[c].todo
      BY <1>7, <3>4 DEF With, InFlight
    <3> QED
      BY <3>2, <3>3, <3>4
  <2> QED
    BY <2>2, <2>3
<1> QED
  BY <1>7, <1>8, <1>9, <1>10 DEF IInv

\* Thrown: everything the callback held waits again.
LEMMA ThrowInv == ASSUME NEW c \in Callbacks PROVE IInv /\ Throw(c) => IInv'
<1> SUFFICES ASSUME IInv, Throw(c) PROVE IInv'
  OBVIOUS
<1> DEFINE again == Queue(pending, batch[c].wakes)
<1>1. /\ c \in InFlight /\ pending' = again
      /\ UNCHANGED << scheduled, handler, started, stopped, requests, owed, dropped >>
  BY DEF Throw, runners, history
<1>2. /\ pending \in Wakes /\ timer \in Timers /\ batch[c].wakes \in Wakes
      /\ batch[c].current \in Targets /\ batch[c].wakes[batch[c].current] # 0
      /\ batch \in [Callbacks -> Batch] /\ \A u \in batch[c].todo : batch[c].wakes[u] # 0
  BY <1>1, InFlightFacts
<1>3. again \in Wakes /\ \A u \in Targets : again[u] # 0 <=> pending[u] # 0 \/ batch[c].wakes[u] # 0
  BY <1>2, QueueKeeps
<1>4. PICK tm \in Arm(timer, "retry") : Finally(c, again, tm)
  BY DEF Throw
<1> HIDE DEF again
<1>5. tm \in Timers /\ tm # "none"
  BY <1>2, <1>4, ArmSets
<1>6. batch' = [batch EXCEPT ![c] = NoBatch] /\ running' = FALSE
      /\ timer' \in Arm(tm, "normal") \cup {tm}
  BY <1>4 DEF Finally
<1>7. timer' \in Timers /\ timer' # "none"
  BY <1>5, <1>6, ArmSets
<1>8. NoBatch \in Batch /\ BatchSound(NoBatch)
  BY DEF NoBatch, Batch, Wakes, NoWakes, BatchSound
<1>9. batch' \in [Callbacks -> Batch] /\ BatchesSound'
  BY <1>2, <1>6, <1>8 DEF IInv, BatchesSound
<1>10. TypeOK'
  <2>1. failures' \in 0 .. MaxFailures
    BY ConstantsNat DEF Throw, IInv, TypeOK
  <2>2. running' \in BOOLEAN
    BY <1>6
  <2> QED
    BY <1>1, <1>3, <1>7, <1>9, <2>1, <2>2 DEF IInv, TypeOK, Wakes, Timers, Batch
<1>11. NoStrandedWake'
  BY <1>7 DEF NoStrandedWake
<1>12. EveryWakeAccounted'
  <2> SUFFICES ASSUME NEW u \in owed' \ dropped'
               PROVE  pending'[u] # 0 \/ \E d \in InFlight' : batch'[d].current = u \/ u \in batch'[d].todo
    BY DEF EveryWakeAccounted
  <2>1. u \in owed \ dropped /\ u \in Targets
    BY <1>1 DEF IInv, TypeOK
  <2>2. CASE StillAsked(u, c)
    <3>1. \A d \in Callbacks \ {c} : batch'[d] = batch[d]
      BY <1>2, <1>6
    <3>2. pending[u] # 0 => pending'[u] # 0
      BY <1>1, <1>3, <2>1
    <3> QED
      BY <1>1, <2>1, <2>2, <3>1, <3>2, AskedStays
  <2>3. CASE ~StillAsked(u, c)
    <3>1. pending[u] = 0 /\ \A d \in InFlight \ {c} : ~(batch[d].current = u \/ u \in batch[d].todo)
      BY <2>3 DEF StillAsked, InFlight
    <3>2. batch[c].current = u \/ u \in batch[c].todo
      BY <2>1, <3>1 DEF IInv, EveryWakeAccounted
    <3>3. batch[c].wakes[u] # 0
      BY <1>2, <3>2
    <3> QED
      BY <1>1, <1>3, <2>1, <3>3
  <2> QED
    BY <2>2, <2>3
<1> QED
  BY <1>9, <1>10, <1>11, <1>12 DEF IInv

\* A new runner sets the timer for what waits already.
LEMMA StartRunnerInv == IInv /\ StartRunner => IInv'
<1> SUFFICES ASSUME IInv, StartRunner PROVE IInv'
  OBVIOUS
<1>1. UNCHANGED << pending, stopped, batch, requests, failures, owed, dropped >>
  BY DEF StartRunner
<1>2. /\ timer' \in Timers /\ (pending # NoWakes => timer' # "none")
      /\ scheduled' \in BOOLEAN /\ running' \in BOOLEAN
  BY DEF StartRunner, Timers
<1>3. started' \in 0 .. MaxRunners /\ handler' \in Runners /\ stopped' \subseteq 1 .. started'
  BY ConstantsNat DEF StartRunner, IInv, TypeOK, Runners
<1>4. TypeOK'
  BY <1>1, <1>2, <1>3 DEF IInv, TypeOK, Timers
<1>5. BatchesSound' /\ EveryWakeAccounted'
  BY <1>1 DEF IInv, BatchesSound, BatchSound, EveryWakeAccounted, InFlight
<1>6. NoStrandedWake'
  BY <1>1, <1>2 DEF NoStrandedWake
<1> QED
  BY <1>4, <1>5, <1>6 DEF IInv

\* A stopped runner takes only its own registration away.
LEMMA StopRunnerInv == ASSUME NEW r \in Runners PROVE IInv /\ StopRunner(r) => IInv'
<1> SUFFICES ASSUME IInv, StopRunner(r) PROVE IInv'
  OBVIOUS
<1>1. UNCHANGED << pending, timer, scheduled, running, batch, started, requests, failures, owed, dropped >>
  BY DEF StopRunner, wakes, history
<1>2. handler' \in {handler, 0} /\ stopped' \subseteq 1 .. started
  BY DEF StopRunner, IInv, TypeOK, Runners
<1>3. TypeOK'
  BY <1>1, <1>2 DEF IInv, TypeOK
<1>4. BatchesSound' /\ EveryWakeAccounted'
  BY <1>1 DEF IInv, BatchesSound, BatchSound, EveryWakeAccounted, InFlight
<1>5. NoStrandedWake'
  BY <1>1, <1>2 DEF IInv, NoStrandedWake, InFlight
<1> QED
  BY <1>3, <1>4, <1>5 DEF IInv

\* Every step keeps the invariant.
LEMMA NextInv == IInv /\ [Next]_vars => IInv'
<1> SUFFICES ASSUME IInv, [Next]_vars PROVE IInv'
  OBVIOUS
<1>1. CASE UNCHANGED vars
  <2>1. UNCHANGED << pending, timer, scheduled, running, handler, started, stopped, batch,
                     requests, failures, owed, dropped >>
    BY <1>1 DEF vars, wakes, runners, history
  <2>2. TypeOK' /\ NoStrandedWake'
    BY <2>1 DEF IInv, TypeOK, NoStrandedWake, InFlight
  <2>3. BatchesSound' /\ EveryWakeAccounted'
    BY <2>1 DEF IInv, BatchesSound, BatchSound, EveryWakeAccounted, InFlight
  <2> QED
    BY <2>2, <2>3 DEF IInv
<1>2. CASE \E t \in Targets, p \in Priorities : Request(t, p)
  BY <1>2, RequestInv
<1>3. CASE FireUnheard \/ FireWhileRunning
  BY <1>3, FireIdleInv
<1>4. CASE \E c \in Callbacks : Fire(c) \/ Answer(c) \/ AnswerBusy(c) \/ Throw(c)
  BY <1>4, FireInv, AnswerInv, AnswerBusyInv, ThrowInv
<1>5. CASE StartRunner \/ \E r \in Runners : StopRunner(r)
  BY <1>5, StartRunnerInv, StopRunnerInv
<1> QED
  BY <1>1, <1>2, <1>3, <1>4, <1>5 DEF Next

\* Every reachable state satisfies the invariant.
LEMMA Invariant == Spec => []IInv
<1>1. Init => IInv
  BY InitInv
<1>2. IInv /\ [Next]_vars => IInv'
  BY NextInv
<1> QED
  BY <1>1, <1>2, PTL DEF Spec

-----------------------------------------------------------------------------
\* Every variable keeps its type.
THEOREM TypeCorrect == Spec => []TypeOK
<1>1. IInv => TypeOK
  BY DEF IInv
<1> QED
  BY <1>1, Invariant, PTL

\* No wake waits for a registered runner without a timer or a callback: whoever
\* drops the timer empties the queue, is in flight, or has nobody to call.
THEOREM NoWakeIsStranded == Spec => []NoStrandedWake
<1>1. IInv => NoStrandedWake
  BY DEF IInv
<1> QED
  BY <1>1, Invariant, PTL

\* A requested wake waits or is in a batch until it is answered, however many
\* callbacks overlap and however often the runner is replaced.
THEOREM WakesAreAccounted == Spec => []EveryWakeAccounted
<1>1. IInv => EveryWakeAccounted
  BY DEF IInv
<1> QED
  BY <1>1, Invariant, PTL
=============================================================================
