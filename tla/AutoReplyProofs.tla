-------------------------- MODULE AutoReplyProofs --------------------------
(***************************************************************************)
(* Proofs about the two queues of auto-reply, each for every value of its  *)
(* constants: the replies of a turn on their way out, and the messages     *)
(* that wait for a later turn.  They share no state; what each models is   *)
(* named with a prefix of its own (Reply, Followup).                       *)
(***************************************************************************)
EXTENDS ReplyDispatcher, FollowupQueue, FiniteSetTheorems, SequenceTheorems, TLAPS

-----------------------------------------------------------------------------
(***************************************************************************)
(* Proofs about ReplyDispatcher for any number of replies.  The inductive  *)
(* invariant adds to the types and the count three facts: the chain is in  *)
(* order, only a completed turn is ever cleared of its reservation, and    *)
(* once idle was said everything accepted before it has settled.           *)
(***************************************************************************)

\* The two halves of ReplyTypeOK: provers that do arithmetic are poor at truth values.
NumbersOK ==
  /\ accepted \in 0 .. NumReplies /\ late \in 0 .. accepted
  /\ done \subseteq 1 .. accepted /\ delivering \subseteq 1 .. accepted
  /\ done \cap delivering = {}
  /\ pending \in Int /\ (late = 0 => pending >= 0)
  /\ turn \in {"running", "waiting", "over"} /\ awaited \in 0 .. accepted
  /\ idles \in Nat
FlagsOK == completeCalled \in BOOLEAN /\ clearing \in BOOLEAN /\ registered \in BOOLEAN

ChainInOrder == \A r \in done \cup delivering : 1 .. r - 1 \subseteq done

ReservationHeld ==
  idles = 0 => late = 0 /\ registered /\ pending = accepted - Cardinality(done) + 1

SettledWhenIdle ==
  idles > 0 => /\ completeCalled
               /\ 1 .. accepted - late \subseteq done
               /\ late = 0 => ~registered /\ pending = 0

EndsOnce == (turn = "running" <=> ~completeCalled) /\ (clearing => completeCalled)

ReplyIInv == NumbersOK /\ FlagsOK /\ ChainInOrder /\ ReservationHeld /\ SettledWhenIdle /\ EndsOnce

-----------------------------------------------------------------------------
\* The settled replies are a finite set, no more than the accepted ones, and all
\* of them when there are as many.
LEMMA DoneCounts ==
  ASSUME NEW n \in Nat, NEW D \in SUBSET (1 .. n)
  PROVE  /\ IsFiniteSet(D) /\ Cardinality(D) \in Nat /\ Cardinality(D) <= n
         /\ Cardinality(D) = n <=> D = 1 .. n
<1>1. IsFiniteSet(1 .. n) /\ Cardinality(1 .. n) = n
  BY FS_Interval
<1>2. IsFiniteSet(D) /\ Cardinality(D) <= n
  BY <1>1, FS_Subset
<1>3. Cardinality(D) \in Nat
  BY <1>2, FS_CardinalityType
<1>4. Cardinality(D) = n => D = 1 .. n
  BY <1>1, FS_Subset
<1> QED
  BY <1>1, <1>2, <1>3, <1>4

\* Settling one more reply adds one to their number.
LEMMA DoneGrows ==
  ASSUME NEW n \in Nat, NEW D \in SUBSET (1 .. n), NEW r \in 1 .. n, r \notin D
  PROVE  Cardinality(D \cup {r}) = Cardinality(D) + 1
BY DoneCounts, FS_AddElement

\* The initial state satisfies the invariant.
LEMMA ReplyInitInv == ReplyInit => ReplyIInv
<1> SUFFICES ASSUME ReplyInit PROVE ReplyIInv
  OBVIOUS
<1>1. Cardinality({}) = 0
  BY FS_EmptySet
<1>2. NumbersOK
  BY RepliesAssumption DEF ReplyInit, NumbersOK
<1>3. FlagsOK /\ EndsOnce
  BY Zenon DEF ReplyInit, FlagsOK, EndsOnce
<1> QED
  BY <1>1, <1>2, <1>3 DEF ReplyInit, ReplyIInv, ChainInOrder, ReservationHeld, SettledWhenIdle

\* Taking a reply keeps the invariant: it is counted, and after the idle signal
\* it is late.
LEMMA EnqueueInv == ReplyIInv /\ Enqueue => ReplyIInv'
<1> SUFFICES ASSUME ReplyIInv, Enqueue PROVE ReplyIInv'
  OBVIOUS
<1> USE RepliesAssumption
<1>1. Cardinality(done) \in Nat /\ Cardinality(done) <= accepted
  BY DoneCounts DEF ReplyIInv, NumbersOK
<1>2. late' - late = (IF idles > 0 THEN 1 ELSE 0) /\ accepted' = accepted + 1 /\ pending' = pending + 1
  BY DEF Enqueue, ReplyIInv, NumbersOK
<1>3. NumbersOK' /\ FlagsOK'
  <2>1. NumbersOK'
    BY <1>1, <1>2 DEF Enqueue, ending, ReplyIInv, NumbersOK, ReservationHeld, SettledWhenIdle
  <2>2. FlagsOK'
    BY Zenon DEF Enqueue, ending, ReplyIInv, FlagsOK
  <2> QED
    BY <2>1, <2>2
<1>4. ChainInOrder' /\ EndsOnce'
  BY DEF Enqueue, ending, ReplyIInv, ChainInOrder, EndsOnce
<1>5. ReservationHeld'
  BY <1>1, <1>2 DEF Enqueue, ReplyIInv, NumbersOK, ReservationHeld
<1>6. SettledWhenIdle'
  BY <1>2 DEF Enqueue, ending, ReplyIInv, NumbersOK, SettledWhenIdle
<1> QED
  BY <1>3, <1>4, <1>5, <1>6 DEF ReplyIInv

\* The chain reaches a reply only behind settled ones.
LEMMA DeliverInv == ASSUME NEW r \in Replies PROVE ReplyIInv /\ Deliver(r) => ReplyIInv'
<1> SUFFICES ASSUME ReplyIInv, Deliver(r) PROVE ReplyIInv'
  OBVIOUS
<1>1. NumbersOK' /\ FlagsOK'
  <2>1. NumbersOK'
    BY DEF Deliver, tracking, ending, ReplyIInv, NumbersOK
  <2>2. FlagsOK'
    BY Zenon DEF Deliver, tracking, ending, ReplyIInv, FlagsOK
  <2> QED
    BY <2>1, <2>2
<1>2. ChainInOrder'
  BY DEF Deliver, ReplyIInv, ChainInOrder
<1>3. ReservationHeld' /\ SettledWhenIdle' /\ EndsOnce'
  BY DEF Deliver, tracking, ending, ReplyIInv, ReservationHeld, SettledWhenIdle, EndsOnce
<1> QED
  BY <1>1, <1>2, <1>3 DEF ReplyIInv

\* What a settling reply does to the count: before the idle signal, idle is said
\* exactly when it was the last of a completed turn.
LEMMA SettleCounts ==
  ASSUME NEW r \in Replies, ReplyIInv, Settle(r), idles = 0
  PROVE  /\ completeCalled /\ done' = 1 .. accepted =>
              pending' = 0 /\ ~registered' /\ idles' = 1
         /\ ~(completeCalled /\ done' = 1 .. accepted) =>
              pending' = accepted - Cardinality(done') + 1 /\ registered' /\ idles' = 0
<1> DEFINE n == Cardinality(done)
<1>1. accepted \in Nat /\ done \in SUBSET (1 .. accepted) /\ r \in 1 .. accepted /\ r \notin done
  BY RepliesAssumption DEF Settle, ReplyIInv, NumbersOK
<1>2. n \in Nat /\ n <= accepted
  BY <1>1, DoneCounts
<1>3. done' = done \cup {r} /\ Cardinality(done') = n + 1
  BY <1>1, DoneGrows DEF Settle
<1>4. done' \in SUBSET (1 .. accepted)
  BY <1>1, <1>3
<1>5. n + 1 <= accepted /\ (n + 1 = accepted <=> done' = 1 .. accepted)
  BY <1>1, <1>3, <1>4, DoneCounts
<1>6. pending = accepted - n + 1 /\ registered
  BY DEF ReplyIInv, ReservationHeld
<1>7. SetPending(IF pending = 2 /\ completeCalled THEN 0 ELSE pending - 1)
  BY DEF Settle
<1>8. CASE completeCalled /\ done' = 1 .. accepted
  <2>1. SetPending(0)
    BY <1>1, <1>2, <1>5, <1>6, <1>7, <1>8
  <2> QED
    BY <2>1, <1>8 DEF SetPending
<1>9. CASE ~(completeCalled /\ done' = 1 .. accepted)
  <2>1. ~(pending = 2 /\ completeCalled) /\ pending - 1 # 0
    BY <1>1, <1>2, <1>5, <1>6, <1>9
  <2>2. pending' = pending - 1 /\ registered' = registered /\ idles' = idles
    BY <2>1, <1>7 DEF SetPending
  <2> QED
    BY <2>2, <1>1, <1>2, <1>3, <1>6, <1>9
<1> QED
  BY <1>8, <1>9

\* A settling reply keeps the invariant.
LEMMA SettleInv == ASSUME NEW r \in Replies PROVE ReplyIInv /\ Settle(r) => ReplyIInv'
<1> SUFFICES ASSUME ReplyIInv, Settle(r) PROVE ReplyIInv'
  OBVIOUS
<1>1. accepted' = accepted /\ late' = late /\ done' = done \cup {r} /\ delivering' = delivering \ {r}
  BY DEF Settle
<1>2. completeCalled' = completeCalled /\ clearing' = clearing /\ turn' = turn /\ awaited' = awaited
  BY DEF Settle, ending
<1>3. /\ accepted \in Nat /\ done' \in SUBSET (1 .. accepted)
      /\ Cardinality(done') \in Nat /\ Cardinality(done') <= accepted
      /\ (Cardinality(done') = accepted <=> done' = 1 .. accepted)
  <2>1. accepted \in Nat /\ done' \in SUBSET (1 .. accepted)
    BY <1>1, RepliesAssumption DEF Settle, ReplyIInv, NumbersOK
  <2> QED
    BY <2>1, DoneCounts
<1>4. ChainInOrder' /\ EndsOnce'
  <2>1. ChainInOrder'
    <3>1. done' \cup delivering' = done \cup delivering
      BY <1>1 DEF Settle
    <3> QED
      BY <1>1, <3>1 DEF ReplyIInv, ChainInOrder
  <2>2. EndsOnce'
    BY <1>2, Zenon DEF ReplyIInv, EndsOnce
  <2> QED
    BY <2>1, <2>2
<1>5. FlagsOK'
  <2>1. registered' \in BOOLEAN
    BY Zenon DEF Settle, SetPending, ReplyIInv, FlagsOK
  <2> QED
    BY <1>2, <2>1, Zenon DEF ReplyIInv, FlagsOK
<1>6. CASE idles = 0
  <2>1. late = 0 /\ ~(completeCalled /\ done' = 1 .. accepted) =>
          pending' = accepted - Cardinality(done') + 1 /\ registered' /\ idles' = 0
    BY <1>6, SettleCounts
  <2>2. completeCalled /\ done' = 1 .. accepted => pending' = 0 /\ ~registered' /\ idles' = 1
    BY <1>6, SettleCounts
  <2>3. late = 0
    BY <1>6 DEF ReplyIInv, ReservationHeld
  <2>4. ReservationHeld' /\ SettledWhenIdle'
    BY <1>1, <1>2, <1>3, <2>1, <2>2, <2>3 DEF ReservationHeld, SettledWhenIdle
  <2>5. pending' \in Int /\ pending' >= 0 /\ idles' \in Nat
    BY <1>3, <2>1, <2>2, <2>3
  <2>6. NumbersOK'
    BY <1>1, <1>2, <1>3, <2>5 DEF ReplyIInv, NumbersOK
  <2> QED
    BY <1>4, <1>5, <2>4, <2>6 DEF ReplyIInv
<1>7. CASE idles # 0
  <2>1. idles \in Nat /\ idles > 0 /\ pending \in Int
    BY <1>7 DEF ReplyIInv, NumbersOK
  <2>2. completeCalled /\ 1 .. accepted - late \subseteq done
    BY <2>1 DEF ReplyIInv, SettledWhenIdle
  <2>3. late # 0
    BY <2>2 DEF Settle, ReplyIInv, NumbersOK
  <2>4. pending' \in Int /\ idles' \in Nat /\ idles' > 0
    BY <2>1 DEF Settle, SetPending, ReplyIInv, NumbersOK
  <2>5. ReservationHeld' /\ SettledWhenIdle'
    BY <1>1, <1>2, <2>2, <2>3, <2>4 DEF ReservationHeld, SettledWhenIdle
  <2>6. NumbersOK'
    BY <1>1, <1>2, <1>3, <2>3, <2>4 DEF ReplyIInv, NumbersOK
  <2> QED
    BY <1>4, <1>5, <2>5, <2>6 DEF ReplyIInv
<1> QED
  BY <1>6, <1>7

\* The microtask of markComplete clears the reservation of a turn that has
\* nothing in flight, and otherwise leaves it to the last reply.
LEMMA ClearInv == ReplyIInv /\ ClearReservation => ReplyIInv'
<1> SUFFICES ASSUME ReplyIInv, ClearReservation PROVE ReplyIInv'
  OBVIOUS
<1>1. accepted' = accepted /\ late' = late /\ done' = done /\ delivering' = delivering
  BY DEF ClearReservation, flight
<1>2. completeCalled /\ completeCalled' = completeCalled /\ clearing' = FALSE /\ turn' = turn /\ awaited' = awaited
  BY DEF ClearReservation, ReplyIInv, EndsOnce
<1>3. accepted \in Nat /\ Cardinality(done) \in Nat /\ (Cardinality(done) = accepted <=> done = 1 .. accepted)
  <2>1. accepted \in Nat /\ done \in SUBSET (1 .. accepted)
    BY RepliesAssumption DEF ReplyIInv, NumbersOK
  <2> QED
    BY <2>1, DoneCounts
<1>4. ChainInOrder' /\ EndsOnce'
  <2>1. ChainInOrder'
    BY <1>1 DEF ReplyIInv, ChainInOrder
  <2>2. EndsOnce'
    BY <1>2, Zenon DEF ReplyIInv, EndsOnce
  <2> QED
    BY <2>1, <2>2
<1>5. FlagsOK'
  <2>1. registered' \in BOOLEAN
    BY Zenon DEF ClearReservation, SetPending, tracking, ReplyIInv, FlagsOK
  <2> QED
    BY <1>2, <2>1, Zenon DEF ReplyIInv, FlagsOK
<1>6. CASE pending = 1
  <2>1. pending' = 0 /\ registered' = FALSE /\ idles' = idles + 1
    BY <1>6 DEF ClearReservation, SetPending
  <2>2. idles' \in Nat /\ idles' > 0
    BY <2>1 DEF ReplyIInv, NumbersOK
  <2>3. 1 .. accepted - late \subseteq done
    BY <1>3, <1>6 DEF ReplyIInv, NumbersOK, ReservationHeld, SettledWhenIdle
  <2>4. ReservationHeld' /\ SettledWhenIdle'
    BY <1>1, <1>2, <2>1, <2>2, <2>3 DEF ReservationHeld, SettledWhenIdle
  <2>5. NumbersOK'
    BY <1>1, <1>2, <2>1, <2>2 DEF ReplyIInv, NumbersOK
  <2> QED
    BY <1>4, <1>5, <2>4, <2>5 DEF ReplyIInv
<1>7. CASE pending # 1
  <2>1. pending' = pending /\ registered' = registered /\ idles' = idles
    BY <1>7 DEF ClearReservation, tracking
  <2> QED
    BY <1>1, <1>2, <1>4, <1>5, <2>1 DEF ReplyIInv, NumbersOK, ReservationHeld, SettledWhenIdle
<1> QED
  BY <1>6, <1>7

\* The end of the run and the return of the dispatch touch no count.
LEMMA TurnInv == ReplyIInv /\ (RunEnds \/ DispatchReturns \/ UNCHANGED replyVars) => ReplyIInv'
<1> SUFFICES ASSUME ReplyIInv, RunEnds \/ DispatchReturns \/ UNCHANGED replyVars PROVE ReplyIInv'
  OBVIOUS
<1>1. UNCHANGED << flight, tracking, late >>
  BY DEF RunEnds, DispatchReturns, replyVars
<1>2. NumbersOK' /\ FlagsOK'
  <2>1. NumbersOK'
    BY <1>1, RepliesAssumption DEF RunEnds, DispatchReturns, replyVars, ending, flight, tracking, ReplyIInv, NumbersOK
  <2>2. FlagsOK'
    BY <1>1, Zenon DEF RunEnds, DispatchReturns, replyVars, ending, flight, tracking, ReplyIInv, FlagsOK
  <2> QED
    BY <2>1, <2>2
<1>3. ChainInOrder' /\ ReservationHeld'
  BY <1>1 DEF flight, tracking, ReplyIInv, ChainInOrder, ReservationHeld
<1>4. SettledWhenIdle' /\ EndsOnce'
  BY <1>1 DEF RunEnds, DispatchReturns, replyVars, ending, flight, tracking, ReplyIInv, SettledWhenIdle, EndsOnce
<1> QED
  BY <1>2, <1>3, <1>4 DEF ReplyIInv

\* ReplyIInv is an invariant of the specification.
THEOREM ReplyInvariant == ReplySpec => []ReplyIInv
<1>1. ReplyIInv /\ [ReplyNext]_replyVars => ReplyIInv'
  BY EnqueueInv, DeliverInv, SettleInv, ClearInv, TurnInv DEF ReplyNext
<1> QED
  BY ReplyInitInv, <1>1, PTL DEF ReplySpec

\* Every state has its type; in particular pending never goes negative as long as
\* no reply comes after the idle signal.
THEOREM ReplyTypeCorrect == ReplySpec => []ReplyTypeOK
<1>1. ReplyIInv => ReplyTypeOK
  BY DEF ReplyIInv, NumbersOK, FlagsOK, ReplyTypeOK
<1> QED
  BY ReplyInvariant, <1>1, PTL

\* The registry's count: one for every reply not settled and one for the turn, up
\* to the idle signal, and nothing after it.
THEOREM CountCorrect == ReplySpec => []CountsEveryReply
<1>1. ReplyIInv => CountsEveryReply
  <2> SUFFICES ASSUME ReplyIInv, late = 0 PROVE CountsEveryReply
    BY DEF CountsEveryReply
  <2>1. accepted \in Nat /\ idles \in Nat
    BY RepliesAssumption DEF ReplyIInv, NumbersOK
  <2>2. CASE idles = 0
    BY <2>1, <2>2 DEF ReplyIInv, ReservationHeld, CountsEveryReply
  <2>3. CASE idles > 0
    <3>1. 1 .. accepted \subseteq done /\ done \in SUBSET (1 .. accepted) /\ ~registered /\ pending = 0
      BY <2>1, <2>3 DEF ReplyIInv, NumbersOK, SettledWhenIdle
    <3>2. Cardinality(done) = accepted
      BY <2>1, <3>1, DoneCounts
    <3> QED
      BY <2>1, <2>3, <3>1, <3>2 DEF CountsEveryReply
  <2> QED
    BY <2>1, <2>2, <2>3
<1> QED
  BY ReplyInvariant, <1>1, PTL

-----------------------------------------------------------------------------
(* The refinement.                                                         *)

\* The replies of the outbox that have not settled.
Open == 1 .. accepted - late \ done

\* A dispatcher begins as an empty outbox.
LEMMA OutboxInits == ReplyInit => Outbox!OutboxInit
BY DEF ReplyInit, Outbox!OutboxInit

\* A reply taken before the idle signal is accepted by the outbox; a late one is
\* no concern of it.
LEMMA EnqueueRefines ==
  ReplyIInv /\ Enqueue => Outbox!Accept \/ UNCHANGED Outbox!outboxVars
<1> SUFFICES ASSUME ReplyIInv, Enqueue PROVE Outbox!Accept \/ UNCHANGED Outbox!outboxVars
  OBVIOUS
<1>1. accepted \in Nat /\ late \in Nat /\ idles \in Nat /\ done \subseteq 1 .. accepted
  BY RepliesAssumption DEF ReplyIInv, NumbersOK
<1>2. accepted' = accepted + 1 /\ done' = done /\ idles' = idles /\ completeCalled' = completeCalled
  BY DEF Enqueue, ending
<1>3. CASE idles = 0
  <2>1. late = 0 /\ late' = 0
    BY <1>3 DEF ReplyIInv, ReservationHeld, Enqueue
  <2>2. 1 .. accepted' - late' \ done' = Open \cup {accepted - late + 1}
    BY <1>1, <1>2, <2>1 DEF Open
  <2> QED
    BY <1>1, <1>2, <1>3, <2>1, <2>2 DEF Outbox!Accept, Open
<1>4. CASE idles > 0
  <2>1. accepted' - late' = accepted - late
    BY <1>1, <1>2, <1>4 DEF Enqueue
  <2> QED
    BY <1>2, <2>1 DEF Outbox!outboxVars
<1> QED
  BY <1>1, <1>3, <1>4

\* A reply of the outbox settles as its first, with idle said exactly when it was
\* the last of a closed outbox.
LEMMA SettleRefines ==
  ASSUME NEW r \in Replies
  PROVE  ReplyIInv /\ Settle(r) => Outbox!SettleFirst \/ UNCHANGED Outbox!outboxVars
<1> SUFFICES ASSUME ReplyIInv, Settle(r) PROVE Outbox!SettleFirst \/ UNCHANGED Outbox!outboxVars
  OBVIOUS
<1>1. /\ accepted \in Nat /\ late \in Nat /\ idles \in Nat /\ done \subseteq 1 .. accepted
      /\ r \in 1 .. accepted /\ r \notin done
  BY RepliesAssumption DEF ReplyIInv, NumbersOK, Settle
<1>2. accepted' = accepted /\ late' = late /\ done' = done \cup {r} /\ completeCalled' = completeCalled
  BY DEF Settle, ending
<1>3. CASE idles = 0
  <2>1. late = 0
    BY <1>3 DEF ReplyIInv, ReservationHeld
  <2>2. 1 .. r - 1 \subseteq done
    BY DEF Settle, ReplyIInv, ChainInOrder
  <2>3. r \in Open /\ (\A q \in Open : r <= q) /\ (1 .. accepted' - late' \ done') = Open \ {r}
    BY <1>1, <1>2, <2>1, <2>2 DEF Open
  <2>4. (idles' > 0) = (completeCalled /\ (1 .. accepted' - late' \ done') = {})
    <3>1. done' \subseteq 1 .. accepted
      BY <1>1, <1>2
    <3>2. (1 .. accepted' - late' \ done') = {} <=> done' = 1 .. accepted
      <4>1. accepted' - late' = accepted
        BY <1>1, <1>2, <2>1
      <4> QED
        BY <3>1, <4>1
    <3>3. CASE completeCalled /\ done' = 1 .. accepted
      <4>1. idles' = 1
        BY <1>3, <3>3, SettleCounts
      <4> QED
        BY <3>2, <3>3, <4>1
    <3>4. CASE ~(completeCalled /\ done' = 1 .. accepted)
      <4>1. idles' = 0
        BY <1>3, <3>4, SettleCounts
      <4> QED
        BY <3>2, <3>4, <4>1
    <3> QED
      BY <3>3, <3>4
  <2> QED
    BY <1>2, <2>3, <2>4 DEF Outbox!SettleFirst, Open
<1>4. CASE idles > 0
  <2>1. 1 .. accepted - late \subseteq done
    BY <1>4 DEF ReplyIInv, SettledWhenIdle
  <2>2. idles' > 0
    BY <1>1, <1>4 DEF Settle, SetPending
  <2> QED
    BY <1>2, <1>4, <2>1, <2>2 DEF Outbox!outboxVars
<1> QED
  BY <1>1, <1>3, <1>4

\* The microtask says idle for a turn that left nothing in flight.
LEMMA ClearRefines ==
  ReplyIInv /\ ClearReservation => Outbox!SayIdle \/ UNCHANGED Outbox!outboxVars
<1> SUFFICES ASSUME ReplyIInv, ClearReservation PROVE Outbox!SayIdle \/ UNCHANGED Outbox!outboxVars
  OBVIOUS
<1>1. /\ accepted \in Nat /\ late \in Nat /\ idles \in Nat /\ done \in SUBSET (1 .. accepted)
      /\ completeCalled
  BY RepliesAssumption DEF ReplyIInv, NumbersOK, EndsOnce, ClearReservation
<1>2. accepted' = accepted /\ late' = late /\ done' = done /\ completeCalled' = completeCalled
  BY DEF ClearReservation, flight
<1>3. CASE idles = 0 /\ pending = 1
  <2>1. late = 0 /\ Cardinality(done) = accepted
    BY <1>1, <1>3, DoneCounts DEF ReplyIInv, ReservationHeld
  <2>2. Open = {}
    BY <1>1, <2>1, DoneCounts DEF Open
  <2>3. idles' > 0
    BY <1>3 DEF ClearReservation, SetPending
  <2> QED
    BY <1>1, <1>2, <1>3, <2>2, <2>3 DEF Outbox!SayIdle, Open
<1>4. CASE idles = 0 /\ pending # 1
  BY <1>2, <1>4 DEF ClearReservation, tracking, Outbox!outboxVars
<1>5. CASE idles > 0
  <2>1. idles' > 0
    BY <1>1, <1>5 DEF ClearReservation, SetPending, tracking
  <2> QED
    BY <1>2, <1>5, <2>1 DEF Outbox!outboxVars
<1> QED
  BY <1>1, <1>3, <1>4, <1>5

\* The dispatcher implements the outbox: it begins as one, and every step of it is
\* a step of the outbox or changes nothing the outbox shows.
THEOREM ImplementsOutboxSteps ==
  ReplySpec => Outbox!OutboxInit /\ [][Outbox!OutboxNext]_(Outbox!outboxVars)
<1>1. ReplyIInv /\ [ReplyNext]_replyVars => [Outbox!OutboxNext]_(Outbox!outboxVars)
  <2> SUFFICES ASSUME ReplyIInv, [ReplyNext]_replyVars PROVE Outbox!OutboxNext \/ UNCHANGED Outbox!outboxVars
    OBVIOUS
  <2>1. CASE Enqueue
    BY <2>1, EnqueueRefines DEF Outbox!OutboxNext
  <2>2. ASSUME NEW r \in Replies, Deliver(r) PROVE UNCHANGED Outbox!outboxVars
    BY <2>2 DEF Deliver, tracking, ending, Outbox!outboxVars
  <2>3. ASSUME NEW r \in Replies, Settle(r) PROVE Outbox!OutboxNext \/ UNCHANGED Outbox!outboxVars
    BY <2>3, SettleRefines DEF Outbox!OutboxNext
  <2>4. CASE ClearReservation
    BY <2>4, ClearRefines DEF Outbox!OutboxNext
  <2>5. CASE RunEnds
    <3>1. ~completeCalled /\ completeCalled' = TRUE
      BY <2>5 DEF RunEnds, ReplyIInv, EndsOnce
    <3> QED
      BY <2>5, <3>1 DEF RunEnds, flight, tracking, Outbox!OutboxNext, Outbox!Close
  <2>6. CASE DispatchReturns \/ UNCHANGED replyVars
    BY <2>6 DEF DispatchReturns, replyVars, flight, tracking, ending, Outbox!outboxVars
  <2> QED
    BY <2>1, <2>2, <2>3, <2>4, <2>5, <2>6 DEF ReplyNext
<1> QED
  BY ReplyInvariant, OutboxInits, <1>1, PTL DEF ReplySpec

-----------------------------------------------------------------------------
(***************************************************************************)
(* Proofs about FollowupQueue for any number of messages, objects, clears  *)
(* and failures, and any cap.  The inductive invariant says what a turn    *)
(* holds of the object it will take from, and that no message is in two    *)
(* places.  It is stated of a registry, objects and drains given as        *)
(* parameters, because an action first changes entries and then runs       *)
(* Schedule, Finally or NextRound, which touch none: the change is shown   *)
(* to keep it, and so is, once and for all, what follows.                  *)
(***************************************************************************)
-----------------------------------------------------------------------------
\* The inductive invariant.  Its parts speak of a registry, objects, drains
\* and histories given as parameters: between the change an action makes and
\* the state it leaves lies a Schedule, a Finally or a NextRound.

\* A queue object and a drain, as FollowupTypeOK has them.
QueueObjects == [ items : BoundedSeq(Messages, Cap), draining : BOOLEAN,
                  dropped : SUBSET Messages, mode : Modes, policy : Policies ]

Drains == [ pc : {"idle", "debounce", "turn"}, batch : SUBSET Messages,
            carrier : Messages \cup {0}, take : 0 .. Cap,
            summary : SUBSET Messages, force : BOOLEAN ]

\* The types of what Schedule, Finally and NextRound move.
Typed(reg, qs, ds) ==
  /\ reg \in Objects \cup {0}
  /\ qs \in [Objects -> QueueObjects]
  /\ ds \in [Objects -> Drains]

\* The messages a turn answers, reports or is carried by.
Prompt(d) == d.batch \cup d.summary \cup ({d.carrier} \ {0})

\* One object and its drain, when n messages have arrived: the entries are in
\* arrival order, and behind those the turn will take off, all are younger than
\* those it answers.
ObjectSound(q, d, n) ==
  /\ \A i \in 1 .. Len(q.items) : q.items[i] <= n
  /\ \A i, j \in 1 .. Len(q.items) : i < j => q.items[i] < q.items[j]
  /\ \A m \in q.dropped \cup Prompt(d) : m <= n
  /\ q.draining <=> d.pc # "idle"
  /\ d.pc # "turn" => d.batch = {}
  /\ \A i \in 1 .. Len(q.items), b \in d.batch : d.take < i => b < q.items[i]

\* No message is in two objects, or in one and in the turn of another.
Apart(qs, ds) ==
  \A o, p \in Objects : o # p =>
    \A i \in 1 .. Len(qs[o].items) :
      /\ \A j \in 1 .. Len(qs[p].items) : qs[o].items[i] # qs[p].items[j]
      /\ qs[o].items[i] \notin ds[p].batch

\* What was answered is in no object.
NotAgain(qs, fs) ==
  \A o \in Objects : \A i \in 1 .. Len(qs[o].items) : qs[o].items[i] \notin fs["answered"]

\* Without a clear in mid-drain, only the registered object has a drain, and
\* its entries are younger than all that was answered.
TurnsInOrder(reg, qs, fs, rc) ==
  ~rc.clear =>
    /\ \A o \in Objects : qs[o].draining => reg = o
    /\ reg # 0 => \A i \in 1 .. Len(qs[reg].items), m \in fs["answered"] : m < qs[reg].items[i]

\* What waits in the registered object.
Waiting(reg, qs) == IF reg = 0 THEN {} ELSE ToSet(qs[reg].items) \cup qs[reg].dropped

\* A turn that nothing raced: the entries it will take off are those it answers
\* or is carried by, and its summary is what the object has dropped.
TurnSound(q, d) ==
  /\ d.take <= Len(q.items)
  /\ \A i \in 1 .. d.take : q.items[i] \in d.batch \/ q.items[i] = d.carrier
  /\ \A m \in d.batch \cup ({d.carrier} \ {0}) : \E i \in 1 .. d.take : q.items[i] = m
  /\ d.carrier \notin d.batch
  /\ d.summary # {} => d.summary = q.dropped

\* What OneFateUnlessRaced says, and the turn of the registered object.
OneFate(reg, qs, ds, n, fs, rc) ==
  ~rc.overflow /\ ~rc.clear =>
    /\ \A m \in 1 .. n : m \in Waiting(reg, qs) \/ \E f \in Fates : m \in fs[f]
    /\ \A m \in Waiting(reg, qs), f \in Fates : m \notin fs[f]
    /\ \A f, g \in Fates : f # g => fs[f] \cap fs[g] = {}
    /\ reg # 0 => \A i \in 1 .. Len(qs[reg].items) : qs[reg].items[i] \notin qs[reg].dropped
    /\ reg # 0 /\ ds[reg].pc = "turn" => TurnSound(qs[reg], ds[reg])

Sound(reg, qs, ds, n, fs, rc) ==
  /\ Typed(reg, qs, ds)
  /\ \A o \in Objects : ObjectSound(qs[o], ds[o], n)
  /\ Apart(qs, ds)
  /\ NotAgain(qs, fs)
  /\ TurnsInOrder(reg, qs, fs, rc)
  /\ OneFate(reg, qs, ds, n, fs, rc)

\* The types of what Schedule, Finally and NextRound leave alone.
Ledger(n, fs, rc) ==
  /\ n \in 0 .. NumMessages
  /\ fs \in [Fates -> SUBSET Messages]
  /\ \A f \in Fates : \A m \in fs[f] : m <= n
  /\ rc \in [overflow : BOOLEAN, clear : BOOLEAN]

FollowupInv ==
  /\ Ledger(arrived, fates, raced)
  /\ Sound(registry, queue, drain, arrived, fates, raced)
  /\ callback \in BOOLEAN /\ recent \subseteq Messages
  /\ clears \in 0 .. MaxClears /\ failures \in 0 .. MaxFailures
  /\ IdleQueueHasNoRunner

-----------------------------------------------------------------------------
\* Sequences.

LEMMA BoundedSeqs ==
  ASSUME NEW S, NEW n \in Nat, NEW s
  PROVE  s \in BoundedSeq(S, n) <=> s \in Seq(S) /\ Len(s) <= n
<1>1. BoundedSeq(S, n) = UNION { [1 .. m -> S] : m \in 0 .. n }
  BY DEF BoundedSeq, SeqOf
<1>2. ASSUME s \in BoundedSeq(S, n)
      PROVE  s \in Seq(S) /\ Len(s) <= n
  <2>1. PICK m \in 0 .. n : s \in [1 .. m -> S]
    BY <1>1, <1>2
  <2>2. s \in Seq(S)
    BY <2>1, SeqDef
  <2>3. Len(s) = m
    BY <2>1, <2>2, LenProperties
  <2> QED
    BY <2>1, <2>2, <2>3
<1>3. ASSUME s \in Seq(S), Len(s) <= n
      PROVE  s \in BoundedSeq(S, n)
  <2>1. Len(s) \in 0 .. n /\ s \in [1 .. Len(s) -> S]
    BY <1>3, LenProperties
  <2> QED
    BY <1>1, <2>1
<1> QED
  BY <1>2, <1>3

LEMMA NoEntries == << >> \in BoundedSeq(Messages, Cap)
<1>1. Cap \in Nat /\ << >> \in Seq(Messages) /\ Len(<< >>) <= Cap
  BY EmptySeq, FollowupConstants
<1>2. \A s : s \in BoundedSeq(Messages, Cap) <=> s \in Seq(Messages) /\ Len(s) <= Cap
  BY <1>1, BoundedSeqs
<1> QED
  BY <1>1, <1>2

\* What is left of a sequence without its first k elements.
LEMMA TailOf ==
  ASSUME NEW S, NEW s \in Seq(S), NEW k \in Nat
  PROVE  LET t == SubSeq(s, k + 1, Len(s)) IN
         /\ t \in Seq(S)
         /\ Len(t) = IF k <= Len(s) THEN Len(s) - k ELSE 0
         /\ \A i \in 1 .. Len(t) : k + i \in 1 .. Len(s) /\ t[i] = s[k + i]
<1> DEFINE m == Len(s)
           t == SubSeq(s, k + 1, m)
<1>1. m \in Nat /\ \A i \in 1 .. m : s[i] \in S
  BY LenProperties, ElementOfSeq
<1>2. \A i \in k + 1 .. m : s[i] \in S
  BY <1>1
<1> HIDE DEF m
<1>3. /\ t \in Seq(S)
      /\ Len(t) = IF k + 1 <= m THEN m - (k + 1) + 1 ELSE 0
      /\ \A i \in 1 .. m - (k + 1) + 1 : t[i] = s[k + 1 + i - 1]
  <2>1. k + 1 \in Int /\ m \in Int
    BY <1>1
  <2> QED
    BY <1>2, <2>1, SubSeqProperties
<1> HIDE DEF t
<1>4. Len(t) = IF k <= m THEN m - k ELSE 0
  BY <1>1, <1>3
<1>5. ASSUME NEW i \in 1 .. Len(t)
      PROVE  k + i \in 1 .. m /\ t[i] = s[k + i]
  <2>1. k < m /\ i \in 1 .. m - (k + 1) + 1
    BY <1>1, <1>4
  <2>2. k + i \in 1 .. m /\ k + 1 + i - 1 = k + i
    BY <1>1, <2>1
  <2>3. t[i] = s[k + 1 + i - 1]
    BY <1>3, <2>1
  <2> QED
    BY <2>2, <2>3
<1> QED
  BY <1>3, <1>4, <1>5 DEF t, m

\* The elements of a sequence, by their places.
LEMMA SeqMembers ==
  ASSUME NEW S, NEW s \in Seq(S)
  PROVE  ToSet(s) = { s[i] : i \in 1 .. Len(s) }
BY LenProperties DEF ToSet

\* What FollowupTypeOK says of one object and its drain.
LEMMA ObjectTyped ==
  ASSUME NEW reg, NEW qs, NEW ds, Typed(reg, qs, ds), NEW o \in Objects
  PROVE  /\ qs[o] \in QueueObjects /\ ds[o] \in Drains
         /\ qs[o].items \in Seq(Messages) /\ Len(qs[o].items) \in 0 .. Cap
         /\ \A i \in 1 .. Len(qs[o].items) : qs[o].items[i] \in Messages
<1>1. qs[o] \in QueueObjects /\ ds[o] \in Drains
  BY DEF Typed
<1>2. qs[o].items \in BoundedSeq(Messages, Cap)
  BY <1>1 DEF QueueObjects
<1>3. qs[o].items \in Seq(Messages) /\ Len(qs[o].items) <= Cap
  BY <1>2, BoundedSeqs, FollowupConstants
<1> QED
  BY <1>1, <1>3, LenProperties, ElementOfSeq, FollowupConstants

-----------------------------------------------------------------------------
\* Schedule, Finally and NextRound touch no entry.

Fresh(d) == d.pc # "turn" /\ Prompt(d) = {}

\* From one registry, objects and drains to others by such a step: entries and
\* summaries stay, a drain stays or is one between turns, and the registry loses
\* at most an object that, but for a clear in mid-drain, has no work.
Moved(reg, qs, ds, reg2, qs2, ds2, rc) ==
  /\ Typed(reg2, qs2, ds2)
  /\ \A o \in Objects :
       /\ qs2[o].items = qs[o].items /\ qs2[o].dropped = qs[o].dropped
       /\ qs2[o].draining <=> ds2[o].pc # "idle"
       /\ ds2[o] = ds[o] \/ Fresh(ds2[o])
  /\ reg2 = reg \/ (reg2 = 0 /\ (~rc.clear /\ reg # 0 => ~HasWork(qs[reg])))
  /\ ~rc.clear => \A o \in Objects : qs2[o].draining => reg2 = o

\* The parameters of what follows, packed.
Premises(reg, qs, ds, n, fs, rc) == Ledger(n, fs, rc) /\ Sound(reg, qs, ds, n, fs, rc)

LEMMA ZeroIsNoObject == 0 \notin Objects
BY DEF Objects

LEMMA MovedKeeps ==
  ASSUME NEW reg, NEW qs, NEW ds, NEW reg2, NEW qs2, NEW ds2, NEW n, NEW fs, NEW rc,
         Premises(reg, qs, ds, n, fs, rc), Moved(reg, qs, ds, reg2, qs2, ds2, rc)
  PROVE  Sound(reg2, qs2, ds2, n, fs, rc)
<1>1. Typed(reg, qs, ds) /\ Typed(reg2, qs2, ds2)
  BY DEF Premises, Sound, Moved
<1>2. ASSUME NEW o \in Objects
      PROVE  /\ qs2[o].items = qs[o].items /\ qs2[o].dropped = qs[o].dropped
             /\ qs2[o].draining <=> ds2[o].pc # "idle"
             /\ ds2[o] = ds[o] \/ Fresh(ds2[o])
  BY DEF Moved
<1>3. ASSUME NEW o \in Objects
      PROVE  ObjectSound(qs2[o], ds2[o], n)
  <2>1. ObjectSound(qs[o], ds[o], n)
    BY DEF Premises, Sound
  <2> QED
    BY <1>2, <2>1 DEF ObjectSound, Fresh, Prompt
<1>4. Apart(qs2, ds2)
  <2>1. Apart(qs, ds)
    BY DEF Premises, Sound
  <2> QED
    BY <1>2, <2>1 DEF Apart, Fresh, Prompt
<1>5. NotAgain(qs2, fs)
  <2>1. NotAgain(qs, fs)
    BY DEF Premises, Sound
  <2> QED
    BY <1>2, <2>1 DEF NotAgain
<1>6. TurnsInOrder(reg2, qs2, fs, rc)
  <2> SUFFICES ASSUME ~rc.clear
               PROVE  /\ \A o \in Objects : qs2[o].draining => reg2 = o
                      /\ reg2 # 0 => \A i \in 1 .. Len(qs2[reg2].items), m \in fs["answered"] :
                                       m < qs2[reg2].items[i]
    BY DEF TurnsInOrder
  <2>1. \A o \in Objects : qs2[o].draining => reg2 = o
    BY DEF Moved
  <2>2. ASSUME reg2 # 0
        PROVE  \A i \in 1 .. Len(qs2[reg2].items), m \in fs["answered"] : m < qs2[reg2].items[i]
    <3>1. reg2 = reg /\ reg \in Objects
      BY <1>1, <2>2 DEF Moved, Typed
    <3>2. TurnsInOrder(reg, qs, fs, rc)
      BY DEF Premises, Sound
    <3> QED
      BY <1>2, <2>2, <3>1, <3>2 DEF TurnsInOrder
  <2> QED
    BY <2>1, <2>2
<1>7. OneFate(reg2, qs2, ds2, n, fs, rc)
  <2> SUFFICES ASSUME ~rc.overflow, ~rc.clear
               PROVE  OneFate(reg2, qs2, ds2, n, fs, rc)
    BY DEF OneFate
  <2>1. OneFate(reg, qs, ds, n, fs, rc)
    BY DEF Premises, Sound
  <2>2. Waiting(reg2, qs2) = Waiting(reg, qs)
    <3>1. CASE reg2 = reg
      <4>1. CASE reg = 0
        BY <3>1, <4>1 DEF Waiting
      <4>2. CASE reg # 0
        <5>1. reg \in Objects
          BY <1>1, <4>2 DEF Typed
        <5> QED
          BY <1>2, <3>1, <4>2, <5>1 DEF Waiting
      <4> QED
        BY <4>1, <4>2
    <3>2. CASE reg2 # reg
      <4>1. reg2 = 0 /\ reg \in Objects /\ ~HasWork(qs[reg])
        BY <1>1, <3>2 DEF Moved, Typed
      <4>2. qs[reg].items = << >> /\ qs[reg].dropped = {}
        BY <4>1 DEF HasWork
      <4>3. ToSet(qs[reg].items) = {}
        BY <4>2 DEF ToSet
      <4> QED
        BY <4>1, <4>2, <4>3 DEF Waiting
    <3> QED
      BY <3>1, <3>2
  <2>3. ASSUME reg2 # 0
        PROVE  /\ \A i \in 1 .. Len(qs2[reg2].items) : qs2[reg2].items[i] \notin qs2[reg2].dropped
               /\ ds2[reg2].pc = "turn" => TurnSound(qs2[reg2], ds2[reg2])
    <3>1. reg2 = reg /\ reg \in Objects
      BY <1>1, <2>3 DEF Moved, Typed
    <3>2. /\ \A i \in 1 .. Len(qs[reg].items) : qs[reg].items[i] \notin qs[reg].dropped
          /\ ds[reg].pc = "turn" => TurnSound(qs[reg], ds[reg])
      BY <2>1, <2>3, <3>1 DEF OneFate
    <3>3. qs2[reg].items = qs[reg].items /\ qs2[reg].dropped = qs[reg].dropped
      BY <1>2, <3>1
    <3>4. ASSUME ds2[reg].pc = "turn"
          PROVE  TurnSound(qs2[reg], ds2[reg])
      <4>1. ds2[reg] = ds[reg]
        BY <1>2, <3>1, <3>4 DEF Fresh
      <4>2. TurnSound(qs[reg], ds[reg])
        BY <3>2, <3>4, <4>1
      <4> QED
        BY <3>3, <4>1, <4>2 DEF TurnSound
    <3> QED
      BY <3>1, <3>2, <3>3, <3>4
  <2> QED
    BY <2>1, <2>2, <2>3 DEF OneFate
<1> QED
  BY <1>1, <1>3, <1>4, <1>5, <1>6, <1>7 DEF Sound

\* An object of a sound state has its drain, and only it may be registered then.
LEMMA DrainingObject ==
  ASSUME NEW reg, NEW qs, NEW ds, NEW n, NEW fs, NEW rc,
         Premises(reg, qs, ds, n, fs, rc), NEW o \in Objects
  PROVE  /\ qs[o].draining <=> ds[o].pc # "idle"
         /\ ~rc.clear /\ qs[o].draining => reg = o
<1>1. ObjectSound(qs[o], ds[o], n) /\ TurnsInOrder(reg, qs, fs, rc)
  BY DEF Premises, Sound
<1> QED
  BY <1>1 DEF ObjectSound, TurnsInOrder

\* The types after the flag of an object and its drain are replaced.
LEMMA TypedUpdate ==
  ASSUME NEW reg, NEW qs, NEW ds, Typed(reg, qs, ds), NEW o \in Objects,
         NEW reg2 \in {reg, 0}, NEW b \in BOOLEAN, NEW d \in Drains
  PROVE  Typed(reg2, [qs EXCEPT ![o].draining = b], [ds EXCEPT ![o] = d])
<1>1. qs[o] \in QueueObjects
  BY DEF Typed
<1>2. [qs[o] EXCEPT !.draining = b] \in QueueObjects
  BY <1>1 DEF QueueObjects
<1> QED
  BY <1>2 DEF Typed

LEMMA FreshDrains ==
  ASSUME NEW force \in BOOLEAN
  PROVE  /\ NoDrain \in Drains
         /\ [NoDrain EXCEPT !.pc = "debounce"] \in Drains
         /\ [NoDrain EXCEPT !.pc = "debounce", !.force = force] \in Drains
<1>1. 0 \in 0 .. Cap
  BY FollowupConstants
<1>2. NoDrain \in Drains
  BY <1>1 DEF NoDrain, Drains
<1>3. [NoDrain EXCEPT !.pc = "debounce"] \in Drains
  BY <1>2 DEF Drains
<1>4. [NoDrain EXCEPT !.pc = "debounce", !.force = force] \in Drains
  BY <1>2 DEF Drains
<1> QED
  BY <1>2, <1>3, <1>4

\* scheduleFollowupDrain, whatever the caller has left behind.
LEMMA ScheduleKeeps ==
  ASSUME NEW reg, NEW qs, NEW ds, NEW n, NEW fs, NEW rc,
         Premises(reg, qs, ds, n, fs, rc), Schedule(reg, qs, ds)
  PROVE  Sound(registry', queue', drain', n, fs, rc)
<1>1. Typed(reg, qs, ds)
  BY DEF Premises, Sound
<1>2. Moved(reg, qs, ds, registry', queue', drain', rc)
  <2>1. CASE reg = 0 \/ (reg # 0 /\ qs[reg].draining)
    <3>1. registry' = reg /\ queue' = qs /\ drain' = ds
      BY <2>1 DEF Schedule
    <3> QED
      BY <1>1, <3>1, DrainingObject DEF Moved
  <2>2. CASE reg # 0 /\ ~qs[reg].draining /\ HasWork(qs[reg])
    <3> DEFINE d == [NoDrain EXCEPT !.pc = "debounce"]
    <3>1. reg \in Objects
      BY <1>1, <2>2 DEF Typed
    <3>2. /\ registry' = reg
          /\ queue' = [qs EXCEPT ![reg].draining = TRUE]
          /\ drain' = [ds EXCEPT ![reg] = d]
      BY <2>2 DEF Schedule
    <3>3. d \in Drains /\ d.pc = "debounce" /\ Fresh(d)
      BY FreshDrains DEF NoDrain, Fresh, Prompt
    <3> HIDE DEF d
    <3>4. Typed(registry', queue', drain')
      BY <1>1, <3>1, <3>2, <3>3, TypedUpdate
    <3>5. ASSUME NEW o \in Objects
          PROVE  /\ queue'[o].items = qs[o].items /\ queue'[o].dropped = qs[o].dropped
                 /\ queue'[o].draining <=> drain'[o].pc # "idle"
                 /\ drain'[o] = ds[o] \/ Fresh(drain'[o])
                 /\ ~rc.clear /\ queue'[o].draining => registry' = o
      <4>1. qs[reg] \in QueueObjects
        BY <1>1, <3>1 DEF Typed
      <4>2. CASE o = reg
        BY <1>1, <3>1, <3>2, <3>3, <4>1, <4>2 DEF Typed, QueueObjects
      <4>3. CASE o # reg
        <5>1. queue'[o] = qs[o] /\ drain'[o] = ds[o]
          BY <1>1, <3>1, <3>2, <4>3 DEF Typed
        <5> QED
          BY <3>2, <4>3, <5>1, DrainingObject
      <4> QED
        BY <4>2, <4>3
    <3> QED
      BY <3>2, <3>4, <3>5 DEF Moved
  <2>3. CASE reg # 0 /\ ~qs[reg].draining /\ ~HasWork(qs[reg])
    <3>1. registry' = 0 /\ queue' = qs /\ drain' = ds /\ reg \in Objects
      BY <1>1, <2>3 DEF Schedule, Typed
    <3>2. Typed(registry', queue', drain')
      BY <1>1, <3>1 DEF Typed
    <3>3. ASSUME NEW o \in Objects, ~rc.clear
          PROVE  ~qs[o].draining
      BY <2>3, <3>3, DrainingObject
    <3> QED
      BY <2>3, <3>1, <3>2, <3>3, DrainingObject DEF Moved
  <2> QED
    BY <2>1, <2>2, <2>3
<1> QED
  BY <1>2, MovedKeeps

\* The drain of o stops: what Finally does before it looks for work.
LEMMA StopKeeps ==
  ASSUME NEW reg, NEW qs, NEW ds, NEW n, NEW fs, NEW rc,
         Premises(reg, qs, ds, n, fs, rc), NEW o \in Objects, NEW reg2 \in {reg, 0},
         reg # 0 /\ reg2 = 0 => ds[o].pc # "idle" /\ ~HasWork(qs[o])
  PROVE  Sound(reg2, [qs EXCEPT ![o].draining = FALSE], [ds EXCEPT ![o] = NoDrain], n, fs, rc)
<1> DEFINE qs2 == [qs EXCEPT ![o].draining = FALSE]
           ds2 == [ds EXCEPT ![o] = NoDrain]
<1>1. Typed(reg, qs, ds)
  BY DEF Premises, Sound
<1>2. NoDrain \in Drains /\ NoDrain.pc = "idle" /\ Fresh(NoDrain)
  BY FreshDrains DEF NoDrain, Fresh, Prompt
<1>3. Typed(reg2, qs2, ds2)
  <2>1. \A b \in BOOLEAN : Typed(reg2, [qs EXCEPT ![o].draining = b], [ds EXCEPT ![o] = NoDrain])
    BY <1>1, <1>2, TypedUpdate
  <2> QED
    BY <2>1
<1>4. ASSUME NEW p \in Objects
      PROVE  /\ qs2[p].items = qs[p].items /\ qs2[p].dropped = qs[p].dropped
             /\ qs2[p].draining <=> ds2[p].pc # "idle"
             /\ ds2[p] = ds[p] \/ Fresh(ds2[p])
             /\ qs2[p].draining => qs[p].draining /\ p # o
  <2>1. qs[o] \in QueueObjects
    BY <1>1 DEF Typed
  <2>2. CASE p = o
    BY <1>1, <1>2, <2>1, <2>2 DEF Typed, QueueObjects
  <2>3. CASE p # o
    <3>1. qs2[p] = qs[p] /\ ds2[p] = ds[p]
      BY <1>1, <2>3 DEF Typed
    <3> QED
      BY <2>3, <3>1, DrainingObject
  <2> QED
    BY <2>2, <2>3
<1>5. ASSUME reg # 0, reg2 = 0, ~rc.clear
      PROVE  reg = o /\ ~HasWork(qs[reg])
  <2>1. qs[o].draining
    BY <1>5, DrainingObject
  <2>2. reg = o
    BY <1>5, <2>1, DrainingObject
  <2> QED
    BY <1>5, <2>2
<1>6. ASSUME NEW p \in Objects, ~rc.clear, qs2[p].draining
      PROVE  reg2 = p
  <2>1. reg = p /\ p # o
    BY <1>4, <1>6, DrainingObject
  <2>2. reg # 0
    BY <2>1, ZeroIsNoObject
  <2> QED
    BY <1>5, <1>6, <2>1, <2>2
<1>7. Moved(reg, qs, ds, reg2, qs2, ds2, rc)
  <2> HIDE DEF qs2, ds2
  <2> QED
    BY <1>3, <1>4, <1>5, <1>6 DEF Moved
<1> QED
  BY <1>7, MovedKeeps

\* The finally block: d is the drain of o as the turn or the debounce left it.
LEMMA FinallyKeeps ==
  ASSUME NEW o \in Objects, NEW qs, NEW d, NEW n, NEW fs, NEW rc,
         drain \in [Objects -> Drains], d.pc # "idle",
         Premises(registry, qs, [drain EXCEPT ![o] = d], n, fs, rc), Finally(o, qs)
  PROVE  Sound(registry', queue', drain', n, fs, rc)
<1> DEFINE ds == [drain EXCEPT ![o] = d]
           stopped == [qs EXCEPT ![o].draining = FALSE]
           ds2 == [ds EXCEPT ![o] = NoDrain]
<1>1. ds[o] = d /\ ds2 = [drain EXCEPT ![o] = NoDrain]
  BY DEF Drains
<1>2. registry \in {registry, 0} /\ 0 \in {registry, 0}
  OBVIOUS
<1>3. CASE HasWork(qs[o])
  <2>1. Sound(registry, stopped, ds2, n, fs, rc)
    <3> HIDE DEF ds, ds2
    <3>1. Premises(registry, qs, ds, n, fs, rc)
      BY DEF ds
    <3>2. Sound(registry, stopped, [ds EXCEPT ![o] = NoDrain], n, fs, rc)
      BY <1>2, <3>1, StopKeeps
    <3> QED
      BY <3>2 DEF ds2
  <2>2. Premises(registry, stopped, ds2, n, fs, rc)
    BY <2>1 DEF Premises
  <2>3. Schedule(registry, stopped, ds2)
    BY <1>1, <1>3 DEF Finally
  <2> HIDE DEF stopped, ds2
  <2> QED
    BY <2>2, <2>3, ScheduleKeeps
<1>4. CASE ~HasWork(qs[o])
  <2>1. registry' = 0 /\ queue' = stopped /\ drain' = ds2
    BY <1>1, <1>4 DEF Finally
  <2>2. Sound(0, stopped, [ds EXCEPT ![o] = NoDrain], n, fs, rc)
    <3>1. ds[o].pc # "idle"
      BY <1>1
    <3>2. Premises(registry, qs, ds, n, fs, rc)
      OBVIOUS
    <3> HIDE DEF ds
    <3> QED
      BY <1>2, <1>4, <3>1, <3>2, StopKeeps
  <2> HIDE DEF ds, stopped
  <2> QED
    BY <2>1, <2>2
<1> QED
  BY <1>3, <1>4

LEMMA NextRoundKeeps ==
  ASSUME NEW o \in Objects, NEW qs, NEW d, NEW n, NEW fs, NEW rc,
         drain \in [Objects -> Drains],
         d = [NoDrain EXCEPT !.pc = "debounce", !.force = drain[o].force],
         Premises(registry, qs, [drain EXCEPT ![o] = d], n, fs, rc), NextRound(o, qs)
  PROVE  Sound(registry', queue', drain', n, fs, rc)
<1>1. CASE HasWork(qs[o])
  <2>1. registry' = registry /\ queue' = qs /\ drain' = [drain EXCEPT ![o] = d]
    BY <1>1 DEF NextRound
  <2> QED
    BY <2>1 DEF Premises
<1>2. CASE ~HasWork(qs[o])
  <2>1. d.pc # "idle"
    BY DEF NoDrain
  <2>2. Finally(o, qs)
    BY <1>2 DEF NextRound
  <2> QED
    BY <2>1, <2>2, FinallyKeeps
<1> QED
  BY <1>1, <1>2

-----------------------------------------------------------------------------
\* The same steps leave no registered object idle beside a known callback.

LEMMA ScheduleLeavesNoneIdle ==
  ASSUME NEW reg \in Objects \cup {0}, NEW qs \in [Objects -> QueueObjects], NEW ds,
         callback \in BOOLEAN, Schedule(reg, qs, ds)
  PROVE  IdleQueueHasNoRunner' /\ callback' \in BOOLEAN
<1>1. CASE reg = 0 \/ (reg # 0 /\ qs[reg].draining)
  BY <1>1 DEF Schedule, IdleQueueHasNoRunner
<1>2. CASE reg # 0 /\ ~qs[reg].draining /\ ~HasWork(qs[reg])
  BY <1>2 DEF Schedule, IdleQueueHasNoRunner
<1>3. CASE reg # 0 /\ ~qs[reg].draining /\ HasWork(qs[reg])
  <2>1. registry' = reg /\ queue' = [qs EXCEPT ![reg].draining = TRUE] /\ callback'
    BY <1>3 DEF Schedule
  <2>2. reg \in Objects /\ qs[reg] \in QueueObjects
    BY <1>3
  <2>3. queue'[reg].draining
    BY <2>1, <2>2 DEF QueueObjects
  <2> QED
    BY <1>3, <2>1, <2>3 DEF Schedule, IdleQueueHasNoRunner
<1> QED
  BY <1>1, <1>2, <1>3

LEMMA FinallyLeavesNoneIdle ==
  ASSUME NEW o \in Objects, NEW qs \in [Objects -> QueueObjects],
         registry \in Objects \cup {0}, callback \in BOOLEAN, Finally(o, qs)
  PROVE  IdleQueueHasNoRunner' /\ callback' \in BOOLEAN
<1> DEFINE stopped == [qs EXCEPT ![o].draining = FALSE]
<1>1. CASE HasWork(qs[o])
  <2>1. [qs[o] EXCEPT !.draining = FALSE] \in QueueObjects
    BY DEF QueueObjects
  <2>2. stopped \in [Objects -> QueueObjects]
    BY <2>1
  <2>3. Schedule(registry, stopped, [drain EXCEPT ![o] = NoDrain])
    BY <1>1 DEF Finally
  <2> HIDE DEF stopped
  <2> QED
    BY <2>2, <2>3, ScheduleLeavesNoneIdle
<1>2. CASE ~HasWork(qs[o])
  BY <1>2 DEF Finally, IdleQueueHasNoRunner
<1> QED
  BY <1>1, <1>2

\* Here qs differs from what was there only in o.
LEMMA NextRoundLeavesNoneIdle ==
  ASSUME NEW o \in Objects, NEW qs \in [Objects -> QueueObjects],
         registry \in Objects \cup {0}, callback \in BOOLEAN, IdleQueueHasNoRunner,
         \A p \in Objects : p # o => qs[p] = queue[p], qs[o].draining, NextRound(o, qs)
  PROVE  IdleQueueHasNoRunner' /\ callback' \in BOOLEAN
<1>1. CASE HasWork(qs[o])
  BY <1>1 DEF NextRound, IdleQueueHasNoRunner
<1>2. CASE ~HasWork(qs[o])
  BY <1>2, FinallyLeavesNoneIdle DEF NextRound
<1> QED
  BY <1>1, <1>2

-----------------------------------------------------------------------------
\* A message is accepted: what applyQueueDropPolicy and the push make of an
\* object, as Accept has it.

Gone(q) == { q.items[i] : i \in 1 .. Overflow(q) }

Room(q, m) ==
  [q EXCEPT !.items = Append(SubSeq(@, Overflow(q) + 1, Len(@)), m),
            !.dropped = IF q.policy = "summarize" THEN @ \cup Gone(q) ELSE @]

LEMMA OverflowBounds ==
  ASSUME NEW q \in QueueObjects
  PROVE  /\ q.items \in Seq(Messages) /\ Len(q.items) \in 0 .. Cap
         /\ Overflow(q) \in 0 .. Len(q.items)
         /\ Len(q.items) - Overflow(q) + 1 <= Cap
         /\ Gone(q) = {} => Overflow(q) = 0
<1>1. q.items \in Seq(Messages) /\ Len(q.items) <= Cap
  BY BoundedSeqs, FollowupConstants DEF QueueObjects
<1>2. Len(q.items) \in 0 .. Cap
  BY <1>1, LenProperties, FollowupConstants
<1>3. Overflow(q) \in 0 .. Len(q.items) /\ Len(q.items) - Overflow(q) + 1 <= Cap
  BY <1>2, FollowupConstants DEF Overflow
<1>4. ASSUME Overflow(q) # 0
      PROVE  Gone(q) # {}
  <2>1. 1 \in 1 .. Overflow(q)
    BY <1>2, <1>3, <1>4
  <2> QED
    BY <2>1 DEF Gone
<1> QED
  BY <1>1, <1>2, <1>3, <1>4

\* The first Overflow(q) entries are gone, and m is the last.
LEMMA RoomEntries ==
  ASSUME NEW q \in QueueObjects, NEW m \in Messages
  PROVE  LET r == Room(q, m)
             k == Overflow(q)
         IN
         /\ r \in QueueObjects
         /\ Len(r.items) = Len(q.items) - k + 1
         /\ \A i \in 1 .. Len(r.items) :
              IF i = Len(r.items) THEN r.items[i] = m
              ELSE k + i \in 1 .. Len(q.items) /\ r.items[i] = q.items[k + i]
         /\ r.dropped = IF q.policy = "summarize" THEN q.dropped \cup Gone(q) ELSE q.dropped
         /\ r.draining = q.draining /\ r.mode = q.mode /\ r.policy = q.policy
<1> DEFINE r == Room(q, m)
           k == Overflow(q)
           t == SubSeq(q.items, k + 1, Len(q.items))
<1>1. /\ q.items \in Seq(Messages) /\ Len(q.items) \in 0 .. Cap
      /\ k \in 0 .. Len(q.items) /\ Len(q.items) - k + 1 <= Cap
  BY OverflowBounds
<1>2. /\ t \in Seq(Messages) /\ Len(t) = Len(q.items) - k
      /\ \A i \in 1 .. Len(t) : k + i \in 1 .. Len(q.items) /\ t[i] = q.items[k + i]
  <2>1. k \in Nat /\ k <= Len(q.items)
    BY <1>1
  <2> HIDE DEF k
  <2> QED
    BY <1>1, <2>1, TailOf
<1>3. r.items = Append(t, m)
  BY DEF Room, QueueObjects
<1>4. /\ r.dropped = IF q.policy = "summarize" THEN q.dropped \cup Gone(q) ELSE q.dropped
      /\ r.draining = q.draining /\ r.mode = q.mode /\ r.policy = q.policy
  BY DEF Room, QueueObjects
<1> HIDE DEF t
<1>5. /\ r.items \in Seq(Messages) /\ Len(r.items) = Len(t) + 1
      /\ \A i \in 1 .. Len(t) : r.items[i] = t[i]
      /\ r.items[Len(t) + 1] = m
  BY <1>2, <1>3, AppendProperties
<1>6. Len(r.items) = Len(q.items) - k + 1
  BY <1>2, <1>5
<1>7. r.items \in BoundedSeq(Messages, Cap)
  BY <1>1, <1>5, <1>6, BoundedSeqs, FollowupConstants
<1>8. Gone(q) \subseteq Messages
  BY <1>1, ElementOfSeq DEF Gone
<1>9. r \in QueueObjects
  <2>1. r.dropped \subseteq Messages
    BY <1>4, <1>8 DEF QueueObjects
  <2>2. Append(t, m) \in BoundedSeq(Messages, Cap)
    BY <1>3, <1>7
  <2>3. (IF q.policy = "summarize" THEN q.dropped \cup Gone(q) ELSE q.dropped) \subseteq Messages
    BY <1>4, <2>1
  <2>4. r = [q EXCEPT !.items = Append(t, m),
                      !.dropped = IF q.policy = "summarize" THEN q.dropped \cup Gone(q) ELSE q.dropped]
    BY DEF Room, t, QueueObjects
  <2> HIDE DEF r
  <2> QED
    BY <2>2, <2>3, <2>4 DEF QueueObjects
<1>10. ASSUME NEW i \in 1 .. Len(r.items)
       PROVE  IF i = Len(r.items) THEN r.items[i] = m
              ELSE k + i \in 1 .. Len(q.items) /\ r.items[i] = q.items[k + i]
  <2> HIDE DEF r, k
  <2>1. CASE i = Len(r.items)
    BY <1>5, <2>1
  <2>2. CASE i # Len(r.items)
    <3>1. i \in 1 .. Len(t)
      BY <1>2, <1>5, <2>2, LenProperties
    <3> QED
      BY <1>2, <1>5, <2>2, <3>1
  <2> QED
    BY <2>1, <2>2
<1> QED
  BY <1>4, <1>6, <1>9, <1>10

LEMMA PromptTyped ==
  ASSUME NEW d \in Drains
  PROVE  Prompt(d) \subseteq Messages /\ Prompt(d) \subseteq Nat /\ d.batch \subseteq Prompt(d)
BY DEF Prompt, Drains, Messages

\* Sound and Ledger, of one object.
LEMMA SoundObject ==
  ASSUME NEW reg, NEW qs, NEW ds, NEW n, NEW fs, NEW rc,
         Premises(reg, qs, ds, n, fs, rc), NEW o \in Objects
  PROVE  /\ qs[o] \in QueueObjects /\ ds[o] \in Drains
         /\ qs[o].items \in Seq(Messages) /\ Len(qs[o].items) \in 0 .. Cap
         /\ \A i \in 1 .. Len(qs[o].items) : qs[o].items[i] \in Messages
         /\ ObjectSound(qs[o], ds[o], n)
         /\ n \in 0 .. NumMessages /\ NumMessages \in Nat
         /\ ToSet(qs[o].items) = { qs[o].items[i] : i \in 1 .. Len(qs[o].items) }
<1>1. Typed(reg, qs, ds) /\ ObjectSound(qs[o], ds[o], n) /\ n \in 0 .. NumMessages
  BY DEF Premises, Sound, Ledger
<1>2. /\ qs[o] \in QueueObjects /\ ds[o] \in Drains
      /\ qs[o].items \in Seq(Messages) /\ Len(qs[o].items) \in 0 .. Cap
      /\ \A i \in 1 .. Len(qs[o].items) : qs[o].items[i] \in Messages
  BY <1>1, ObjectTyped
<1> QED
  BY <1>1, <1>2, SeqMembers, FollowupConstants

\* What acceptance records: what went unreported, and a race with a turn.
AcceptFates(fs, q) ==
  [fs EXCEPT !["discarded"] = IF q.policy = "summarize" THEN @ ELSE @ \cup Gone(q)]

AcceptRace(rc, q, d) == [rc EXCEPT !.overflow = @ \/ (Gone(q) # {} /\ d.pc = "turn")]

LEMMA AcceptLedger ==
  ASSUME NEW reg, NEW qs, NEW ds, NEW n, NEW fs, NEW rc,
         Premises(reg, qs, ds, n, fs, rc), reg \in Objects, n < NumMessages
  PROVE  /\ Ledger(n + 1, AcceptFates(fs, qs[reg]), AcceptRace(rc, qs[reg], ds[reg]))
         /\ \A f \in Fates : AcceptFates(fs, qs[reg])[f]
              = IF f = "discarded" /\ qs[reg].policy # "summarize"
                THEN fs[f] \cup Gone(qs[reg]) ELSE fs[f]
         /\ AcceptRace(rc, qs[reg], ds[reg]).clear = rc.clear
         /\ ~AcceptRace(rc, qs[reg], ds[reg]).overflow
              => ~rc.overflow /\ (Gone(qs[reg]) = {} \/ ds[reg].pc # "turn")
<1> DEFINE q == qs[reg]
           d == ds[reg]
<1>1. /\ n \in 0 .. NumMessages /\ NumMessages \in Nat
      /\ fs \in [Fates -> SUBSET Messages]
      /\ \A f \in Fates : \A m \in fs[f] : m <= n
      /\ rc \in [overflow : BOOLEAN, clear : BOOLEAN]
  BY FollowupConstants DEF Premises, Ledger
<1>2. \A m \in Gone(q) : m \in Messages /\ m <= n
  <2>1. TAKE m \in Gone(q)
  <2>2. q \in QueueObjects /\ ObjectSound(q, d, n)
        /\ \A i \in 1 .. Len(q.items) : q.items[i] \in Messages
    BY SoundObject
  <2>3. Overflow(q) \in 0 .. Len(q.items) /\ Len(q.items) \in Nat
    BY <2>2, OverflowBounds
  <2>4. PICK i \in 1 .. Len(q.items) : m = q.items[i]
    BY <2>3 DEF Gone
  <2> QED
    BY <2>2, <2>4 DEF ObjectSound
<1> HIDE DEF q, d
<1>3. \A f \in Fates : AcceptFates(fs, q)[f]
              = IF f = "discarded" /\ q.policy # "summarize" THEN fs[f] \cup Gone(q) ELSE fs[f]
  BY <1>1 DEF AcceptFates, Fates
<1>4. AcceptFates(fs, q) \in [Fates -> SUBSET Messages]
  <2>1. (IF q.policy = "summarize" THEN fs["discarded"] ELSE fs["discarded"] \cup Gone(q))
          \subseteq Messages
    BY <1>1, <1>2 DEF Fates
  <2> QED
    BY <1>1, <2>1 DEF AcceptFates, Fates
<1>5. \A f \in Fates : \A m \in AcceptFates(fs, q)[f] : m <= n + 1
  <2>1. TAKE f \in Fates
  <2>2. TAKE m \in AcceptFates(fs, q)[f]
  <2>3. m \in fs[f] \/ m \in Gone(q)
    BY <1>3
  <2>4. m \in Messages /\ m <= n
    BY <1>1, <1>2, <2>3
  <2> QED
    BY <1>1, <2>4 DEF Messages
<1>6. AcceptRace(rc, q, d) \in [overflow : BOOLEAN, clear : BOOLEAN]
  BY <1>1 DEF AcceptRace
<1>7. AcceptRace(rc, q, d).clear = rc.clear
  BY <1>1 DEF AcceptRace
<1>8. ~AcceptRace(rc, q, d).overflow => ~rc.overflow /\ (Gone(q) = {} \/ d.pc # "turn")
  BY <1>1 DEF AcceptRace
<1>9. n + 1 \in 0 .. NumMessages
  BY <1>1
<1> QED
  BY <1>3, <1>4, <1>5, <1>6, <1>7, <1>8, <1>9 DEF Ledger, q, d

\* One entry of the object after the acceptance: an old one, or the new one.
LEMMA RoomEntry ==
  ASSUME NEW q \in QueueObjects, NEW m \in Messages, NEW i \in 1 .. Len(Room(q, m).items)
  PROVE  Room(q, m).items[i] = m
           \/ \E j \in 1 .. Len(q.items) : j = Overflow(q) + i /\ Room(q, m).items[i] = q.items[j]
BY RoomEntries

\* An old entry is gone or still there.
LEMMA RoomCovers ==
  ASSUME NEW q \in QueueObjects, NEW m \in Messages
  PROVE  /\ \A j \in 1 .. Len(q.items) : q.items[j] \in Gone(q)
              \/ \E i \in 1 .. Len(Room(q, m).items) : Room(q, m).items[i] = q.items[j]
         /\ \E i \in 1 .. Len(Room(q, m).items) : Room(q, m).items[i] = m
<1> DEFINE r == Room(q, m)
           k == Overflow(q)
<1>1. k \in 0 .. Len(q.items) /\ Len(q.items) \in Nat /\ Len(r.items) = Len(q.items) - k + 1
  <2>1. k \in 0 .. Len(q.items) /\ Len(q.items) \in Nat
    BY OverflowBounds
  <2>2. Len(r.items) = Len(q.items) - k + 1
    BY RoomEntries
  <2> QED
    BY <2>1, <2>2
<1>2. \A i \in 1 .. Len(r.items) :
        IF i = Len(r.items) THEN r.items[i] = m
        ELSE k + i \in 1 .. Len(q.items) /\ r.items[i] = q.items[k + i]
  BY RoomEntries
<1>3. Gone(q) = { q.items[i] : i \in 1 .. k }
  BY DEF Gone
<1> HIDE DEF r, k
<1>4. ASSUME NEW j \in 1 .. Len(q.items)
      PROVE  q.items[j] \in Gone(q) \/ \E i \in 1 .. Len(r.items) : r.items[i] = q.items[j]
  <2>1. CASE j <= k
    <3>1. j \in 1 .. k
      BY <1>1, <2>1
    <3> QED
      BY <1>3, <3>1
  <2>2. CASE j > k
    <3>1. j - k \in 1 .. Len(r.items) /\ j - k # Len(r.items) /\ k + (j - k) = j
      BY <1>1, <2>2
    <3>2. r.items[j - k] = q.items[j]
      BY <1>2, <3>1
    <3> QED
      BY <3>1, <3>2
  <2> QED
    BY <1>1, <2>1, <2>2
<1>5. Len(r.items) \in 1 .. Len(r.items)
  BY <1>1
<1> QED
  BY <1>2, <1>4, <1>5 DEF r

\* One object with the new entry, and its drain.
LEMMA RoomSound ==
  ASSUME NEW q \in QueueObjects, NEW d \in Drains, NEW n \in Nat, n + 1 \in Messages,
         ObjectSound(q, d, n)
  PROVE  ObjectSound(Room(q, n + 1), d, n + 1)
<1> DEFINE m == n + 1
           r == Room(q, m)
           k == Overflow(q)
<1>1. /\ \A i \in 1 .. Len(q.items) : q.items[i] <= n
      /\ \A i, j \in 1 .. Len(q.items) : i < j => q.items[i] < q.items[j]
      /\ \A x \in q.dropped \cup Prompt(d) : x <= n
      /\ q.draining <=> d.pc # "idle"
      /\ d.pc # "turn" => d.batch = {}
      /\ \A i \in 1 .. Len(q.items), b \in d.batch : d.take < i => b < q.items[i]
  BY DEF ObjectSound
<1>2. k \in Nat /\ Len(q.items) \in Nat /\ k <= Len(q.items)
      /\ \A i \in 1 .. Len(q.items) : q.items[i] \in Nat
  <2>1. /\ q.items \in Seq(Messages) /\ Len(q.items) \in 0 .. Cap
        /\ k \in 0 .. Len(q.items)
    BY OverflowBounds
  <2>2. \A i \in 1 .. Len(q.items) : q.items[i] \in Messages
    BY <2>1, ElementOfSeq
  <2> HIDE DEF k
  <2> QED
    BY <2>1, <2>2, FollowupConstants DEF Messages
<1>3. Len(r.items) = Len(q.items) - k + 1
  BY RoomEntries
<1>4. \A i \in 1 .. Len(r.items) :
        IF i = Len(r.items) THEN r.items[i] = m
        ELSE k + i \in 1 .. Len(q.items) /\ r.items[i] = q.items[k + i]
  BY RoomEntries
<1>5. /\ r.dropped = IF q.policy = "summarize" THEN q.dropped \cup Gone(q) ELSE q.dropped
      /\ r.draining = q.draining
  BY RoomEntries
<1>6. \A x \in Gone(q) : x \in Nat /\ x <= n
  BY <1>1, <1>2 DEF Gone
<1>7. d.take \in Nat /\ q.dropped \subseteq Nat /\ Prompt(d) \subseteq Nat /\ d.batch \subseteq Prompt(d)
  BY FollowupConstants, PromptTyped DEF Drains, QueueObjects, Messages
<1> HIDE DEF r, k, m
<1>8. m \in Nat /\ n < m
  BY DEF m
<1>9. ASSUME NEW i \in 1 .. Len(r.items)
      PROVE  r.items[i] <= m
  <2>1. CASE i = Len(r.items)
    BY <1>4, <1>8, <2>1
  <2>2. CASE i # Len(r.items)
    <3>1. k + i \in 1 .. Len(q.items) /\ r.items[i] = q.items[k + i]
      BY <1>4, <2>2
    <3>2. q.items[k + i] \in Nat /\ q.items[k + i] <= n
      BY <1>1, <1>2, <3>1
    <3> QED
      BY <1>8, <3>1, <3>2
  <2> QED
    BY <2>1, <2>2
<1>10. ASSUME NEW i \in 1 .. Len(r.items), NEW j \in 1 .. Len(r.items), i < j
       PROVE  r.items[i] < r.items[j]
  <2>1. Len(r.items) \in Nat
    BY <1>2, <1>3
  <2>2. k + i \in 1 .. Len(q.items) /\ r.items[i] = q.items[k + i]
    BY <1>4, <1>10, <2>1
  <2>3. CASE j = Len(r.items)
    <3>1. r.items[j] = m
      BY <1>4, <2>3
    <3> QED
      BY <1>1, <1>2, <1>8, <2>2, <3>1
  <2>4. CASE j # Len(r.items)
    <3>1. k + j \in 1 .. Len(q.items) /\ r.items[j] = q.items[k + j] /\ k + i < k + j
      BY <1>2, <1>4, <1>10, <2>4
    <3> QED
      BY <1>1, <2>2, <3>1
  <2> QED
    BY <2>3, <2>4
<1>11. \A x \in r.dropped \cup Prompt(d) : x <= m
  BY <1>1, <1>5, <1>6, <1>7, <1>8
<1>12. ASSUME NEW i \in 1 .. Len(r.items), NEW b \in d.batch, d.take < i
       PROVE  b < r.items[i]
  <2>1. CASE i = Len(r.items)
    <3>1. r.items[i] = m /\ b <= n /\ b \in Nat
      BY <1>1, <1>4, <1>7, <2>1
    <3> QED
      BY <1>8, <3>1
  <2>2. CASE i # Len(r.items)
    <3>1. k + i \in 1 .. Len(q.items) /\ r.items[i] = q.items[k + i] /\ d.take < k + i
      BY <1>2, <1>4, <1>7, <1>12, <2>2
    <3> QED
      BY <1>1, <3>1
  <2> QED
    BY <2>1, <2>2
<1>13. ObjectSound(r, d, m)
  BY <1>1, <1>5, <1>9, <1>10, <1>11, <1>12 DEF ObjectSound
<1> QED
  BY <1>13 DEF r, m

\* An acceptance keeps the state sound.
LEMMA AcceptKeeps ==
  ASSUME NEW reg, NEW qs, NEW ds, NEW n, NEW fs, NEW rc,
         Premises(reg, qs, ds, n, fs, rc), reg \in Objects, n < NumMessages
  PROVE  Premises(reg, [qs EXCEPT ![reg] = Room(qs[reg], n + 1)], ds, n + 1,
                  AcceptFates(fs, qs[reg]), AcceptRace(rc, qs[reg], ds[reg]))
<1> DEFINE q == qs[reg]
           d == ds[reg]
           m == n + 1
           r == Room(q, m)
           qs2 == [qs EXCEPT ![reg] = r]
           fs2 == AcceptFates(fs, q)
           rc2 == AcceptRace(rc, q, d)
<1>1. /\ n \in Nat /\ m \in Messages /\ m \in Nat /\ n < m
      /\ q \in QueueObjects /\ d \in Drains /\ ObjectSound(q, d, n)
  <2>1. n \in 0 .. NumMessages /\ NumMessages \in Nat
    BY SoundObject
  <2>2. q \in QueueObjects /\ d \in Drains /\ ObjectSound(q, d, n)
    BY SoundObject
  <2> QED
    BY <2>1, <2>2 DEF Messages
<1>2. Ledger(m, fs2, rc2)
  BY AcceptLedger
<1>3. \A f \in Fates : fs2[f] = IF f = "discarded" /\ q.policy # "summarize"
                                THEN fs[f] \cup Gone(q) ELSE fs[f]
  BY AcceptLedger
<1>4. rc2.clear = rc.clear /\ (~rc2.overflow => ~rc.overflow /\ (Gone(q) = {} \/ d.pc # "turn"))
  BY AcceptLedger
<1>5. r \in QueueObjects /\ r.draining = q.draining
      /\ r.dropped = IF q.policy = "summarize" THEN q.dropped \cup Gone(q) ELSE q.dropped
  BY <1>1, RoomEntries
<1>6. ObjectSound(r, d, m)
  BY <1>1, RoomSound
<1>7. \A i \in 1 .. Len(r.items) :
        r.items[i] = m \/ \E j \in 1 .. Len(q.items) : j = Overflow(q) + i /\ r.items[i] = q.items[j]
  BY <1>1, RoomEntry
<1>8. /\ \A j \in 1 .. Len(q.items) :
           q.items[j] \in Gone(q) \/ \E i \in 1 .. Len(r.items) : r.items[i] = q.items[j]
      /\ \E i \in 1 .. Len(r.items) : r.items[i] = m
  BY <1>1, RoomCovers
<1>9. Typed(reg, qs, ds) /\ qs2[reg] = r
  BY DEF Premises, Sound, Typed
<1>10. ASSUME NEW o \in Objects, o # reg
       PROVE  qs2[o] = qs[o]
  BY <1>9, <1>10 DEF Typed
<1> HIDE DEF q, d, m, r, qs2, fs2, rc2
<1>11. Typed(reg, qs2, ds)
  BY <1>5, <1>9 DEF Typed, qs2
<1>12. ASSUME NEW o \in Objects
       PROVE  ObjectSound(qs2[o], ds[o], m)
  <2>1. CASE o = reg
    BY <1>6, <1>9, <2>1 DEF d
  <2>2. CASE o # reg
    <3>1. ObjectSound(qs[o], ds[o], n) /\ qs2[o] = qs[o]
      BY <1>10, <2>2, SoundObject
    <3>2. /\ \A i \in 1 .. Len(qs[o].items) : qs[o].items[i] \in Nat
          /\ qs[o].dropped \subseteq Nat /\ Prompt(ds[o]) \subseteq Nat
      BY SoundObject, PromptTyped DEF Messages, QueueObjects, Drains
    <3>3. /\ \A i \in 1 .. Len(qs[o].items) : qs[o].items[i] <= m
          /\ \A x \in qs[o].dropped \cup Prompt(ds[o]) : x <= m
      <4>1. /\ \A i \in 1 .. Len(qs[o].items) : qs[o].items[i] <= n
            /\ \A x \in qs[o].dropped \cup Prompt(ds[o]) : x <= n
        BY <3>1 DEF ObjectSound
      <4> QED
        BY <1>1, <3>2, <4>1
    <3> QED
      BY <3>1, <3>3 DEF ObjectSound
  <2> QED
    BY <2>1, <2>2
\* The new message is in no object, no turn and no account.
<1>13. \A o \in Objects : /\ \A i \in 1 .. Len(qs[o].items) : qs[o].items[i] # m
                          /\ m \notin qs[o].dropped /\ m \notin ds[o].batch
  <2>1. TAKE o \in Objects
  <2>2. ObjectSound(qs[o], ds[o], n) /\ ds[o].batch \subseteq Prompt(ds[o])
    BY SoundObject, PromptTyped
  <2> QED
    BY <1>1, <2>2 DEF ObjectSound
<1>14. \A f \in Fates : m \notin fs[f]
  <2>1. TAKE f \in Fates
  <2>2. \A x \in fs[f] : x <= n
    BY DEF Premises, Ledger
  <2> QED
    BY <1>1, <2>2
<1>15. Apart(qs2, ds)
  <2>1. Apart(qs, ds)
    BY DEF Premises, Sound
  <2>2. ASSUME NEW o \in Objects, NEW p \in Objects, o # p, NEW i \in 1 .. Len(qs2[o].items)
        PROVE  /\ \A j \in 1 .. Len(qs2[p].items) : qs2[o].items[i] # qs2[p].items[j]
               /\ qs2[o].items[i] \notin ds[p].batch
    <3>1. (qs2[o].items[i] = m /\ o = reg)
            \/ \E j \in 1 .. Len(qs[o].items) : qs2[o].items[i] = qs[o].items[j]
      BY <1>7, <1>9, <1>10, <2>2 DEF q
    <3>2. \A j \in 1 .. Len(qs2[p].items) :
            (qs2[p].items[j] = m /\ p = reg)
              \/ \E l \in 1 .. Len(qs[p].items) : qs2[p].items[j] = qs[p].items[l]
      BY <1>7, <1>9, <1>10, <2>2 DEF q
    <3>3. CASE qs2[o].items[i] = m /\ o = reg
      BY <1>13, <2>2, <3>2, <3>3
    <3>4. CASE \E j \in 1 .. Len(qs[o].items) : qs2[o].items[i] = qs[o].items[j]
      <4>1. PICK j \in 1 .. Len(qs[o].items) : qs2[o].items[i] = qs[o].items[j]
        BY <3>4
      <4>2. qs[o].items[j] \notin ds[p].batch
            /\ \A l \in 1 .. Len(qs[p].items) : qs[o].items[j] # qs[p].items[l]
        BY <2>1, <2>2 DEF Apart
      <4> QED
        BY <1>13, <3>2, <4>1, <4>2
    <3> QED
      BY <3>1, <3>3, <3>4
  <2> QED
    BY <2>2 DEF Apart
<1>16. NotAgain(qs2, fs2)
  <2>1. NotAgain(qs, fs) /\ fs2["answered"] = fs["answered"]
    BY <1>3 DEF Premises, Sound, Fates
  <2>2. ASSUME NEW o \in Objects, NEW i \in 1 .. Len(qs2[o].items)
        PROVE  qs2[o].items[i] \notin fs["answered"]
    <3>1. qs2[o].items[i] = m \/ \E j \in 1 .. Len(qs[o].items) : qs2[o].items[i] = qs[o].items[j]
      BY <1>7, <1>9, <1>10, <2>2 DEF q
    <3> QED
      BY <1>14, <2>1, <3>1 DEF NotAgain, Fates
  <2> QED
    BY <2>1, <2>2 DEF NotAgain
<1>17. TurnsInOrder(reg, qs2, fs2, rc2)
  <2> SUFFICES ASSUME ~rc.clear
               PROVE  /\ \A o \in Objects : qs2[o].draining => reg = o
                      /\ \A i \in 1 .. Len(r.items), x \in fs["answered"] : x < r.items[i]
    <3>1. fs2["answered"] = fs["answered"]
      BY <1>3 DEF Fates
    <3> QED
      BY <1>4, <1>9, <3>1 DEF TurnsInOrder
  <2>1. TurnsInOrder(reg, qs, fs, rc)
    BY DEF Premises, Sound
  <2>2. \A o \in Objects : qs2[o].draining => reg = o
    BY <1>5, <1>9, <1>10, <2>1 DEF TurnsInOrder, q
  <2>3. ASSUME NEW i \in 1 .. Len(r.items), NEW x \in fs["answered"]
        PROVE  x < r.items[i]
    <3>1. x \in Nat /\ x <= n
      BY DEF Premises, Ledger, Fates, Messages
    <3>2. \A j \in 1 .. Len(q.items) : x < q.items[j]
      BY <2>1, ZeroIsNoObject DEF TurnsInOrder, q
    <3> QED
      BY <1>1, <1>7, <3>1, <3>2
  <2> QED
    BY <2>2, <2>3
<1>18. OneFate(reg, qs2, ds, m, fs2, rc2)
  <2> SUFFICES ASSUME ~rc2.overflow, ~rc2.clear
               PROVE  OneFate(reg, qs2, ds, m, fs2, rc2)
    BY DEF OneFate
  <2>1. /\ \A x \in 1 .. n : x \in Waiting(reg, qs) \/ \E f \in Fates : x \in fs[f]
        /\ \A x \in Waiting(reg, qs), f \in Fates : x \notin fs[f]
        /\ \A f, g \in Fates : f # g => fs[f] \cap fs[g] = {}
        /\ \A i \in 1 .. Len(q.items) : q.items[i] \notin q.dropped
        /\ d.pc = "turn" => TurnSound(q, d)
    <3>1. OneFate(reg, qs, ds, n, fs, rc) /\ ~rc.overflow /\ ~rc.clear
      BY <1>4 DEF Premises, Sound
    <3> QED
      BY <3>1, ZeroIsNoObject DEF OneFate, q, d
  <2>2. Gone(q) = {} \/ d.pc # "turn"
    BY <1>4
  <2>3. /\ \A x : x \in Waiting(reg, qs) <=> x \in q.dropped \/ \E i \in 1 .. Len(q.items) : x = q.items[i]
        /\ \A x : x \in Waiting(reg, qs2) <=> x \in r.dropped \/ \E i \in 1 .. Len(r.items) : x = r.items[i]
    <3>1. ToSet(q.items) = { q.items[i] : i \in 1 .. Len(q.items) }
      BY SoundObject DEF q
    <3>2. r.items \in Seq(Messages)
      BY <1>5, OverflowBounds
    <3>3. ToSet(r.items) = { r.items[i] : i \in 1 .. Len(r.items) }
      BY <3>2, SeqMembers
    <3>4. Waiting(reg, qs) = ToSet(q.items) \cup q.dropped
          /\ Waiting(reg, qs2) = ToSet(r.items) \cup r.dropped
      BY <1>9, ZeroIsNoObject DEF Waiting, q
    <3> QED
      BY <3>1, <3>3, <3>4
  <2>4. \A x \in Gone(q) : x \in Waiting(reg, qs) /\ x # m /\ x \notin q.dropped
    <3>1. TAKE x \in Gone(q)
    <3>2. Overflow(q) \in 0 .. Len(q.items) /\ Len(q.items) \in 0 .. Cap
      BY <1>1, OverflowBounds
    <3>3. PICK i \in 1 .. Len(q.items) : x = q.items[i]
      BY <3>2, FollowupConstants DEF Gone
    <3> QED
      BY <1>13, <2>1, <2>3, <3>3 DEF q
  \* What stays is behind what is gone.
  <2>5. \A j \in 1 .. Len(q.items) : Overflow(q) < j => q.items[j] \notin Gone(q)
    <3>1. TAKE j \in 1 .. Len(q.items)
    <3>2. HAVE Overflow(q) < j
    <3>3. Overflow(q) \in 0 .. Len(q.items) /\ Len(q.items) \in 0 .. Cap /\ q.items \in Seq(Messages)
      BY <1>1, OverflowBounds
    <3>4. ASSUME NEW i \in 1 .. Overflow(q)
          PROVE  q.items[i] # q.items[j]
      <4>1. i \in 1 .. Len(q.items) /\ i < j
        BY <3>2, <3>3, <3>4, FollowupConstants
      <4>2. q.items[i] < q.items[j]
        BY <1>1, <4>1 DEF ObjectSound
      <4>3. q.items[i] \in Messages
        BY <3>3, <4>1, ElementOfSeq
      <4> QED
        BY <4>2, <4>3 DEF Messages
    <3> QED
      BY <3>4 DEF Gone
  <2>6. \A i \in 1 .. Len(r.items) : r.items[i] = m
          \/ \E j \in 1 .. Len(q.items) : r.items[i] = q.items[j] /\ q.items[j] \notin Gone(q)
    <3>1. TAKE i \in 1 .. Len(r.items)
    <3>2. Overflow(q) \in Nat /\ i > 0
      BY <1>1, OverflowBounds
    <3>3. \A j : j = Overflow(q) + i => Overflow(q) < j
      BY <3>2
    <3> QED
      BY <1>7, <2>5, <3>3
  <2>7. \A x \in Waiting(reg, qs) : x # m
    BY <1>13, <2>3 DEF q
  <2>8. \A x \in 1 .. m : x \in Waiting(reg, qs2) \/ \E f \in Fates : x \in fs2[f]
    <3>1. TAKE x \in 1 .. m
    <3>2. CASE x = m
      BY <1>8, <2>3, <3>2
    <3>3. CASE x \in Waiting(reg, qs)
      <4>1. CASE x \in Gone(q)
        <5>1. CASE q.policy = "summarize"
          BY <1>5, <2>3, <4>1, <5>1
        <5>2. CASE q.policy # "summarize"
          BY <1>3, <4>1, <5>2 DEF Fates
        <5> QED
          BY <5>1, <5>2
      <4>2. CASE x \notin Gone(q)
        BY <1>5, <1>8, <2>3, <3>3, <4>2
      <4> QED
        BY <4>1, <4>2
    <3>4. CASE \E f \in Fates : x \in fs[f]
      BY <1>3, <3>4
    <3>5. x \in 1 .. n \/ x = m
      BY <1>1 DEF m
    <3> QED
      BY <2>1, <3>2, <3>3, <3>4, <3>5
  <2>9. ASSUME NEW x \in Waiting(reg, qs2), NEW f \in Fates
        PROVE  x \notin fs2[f]
    <3>1. x = m \/ (x \in Waiting(reg, qs) /\ (x \notin Gone(q) \/ q.policy = "summarize"))
      BY <1>5, <2>3, <2>4, <2>6
    <3>2. x # m => x \notin fs[f]
      BY <2>1, <3>1
    <3>3. m \notin fs[f] /\ m \notin Gone(q)
      BY <1>14, <2>4
    <3> QED
      BY <1>3, <3>1, <3>2, <3>3
  <2>10. ASSUME NEW f \in Fates, NEW g \in Fates, f # g
         PROVE  fs2[f] \cap fs2[g] = {}
    <3>1. fs[f] \cap fs[g] = {}
      BY <2>1, <2>10
    <3>2. Gone(q) \cap fs[f] = {} /\ Gone(q) \cap fs[g] = {}
      BY <2>1, <2>4
    <3>3. fs2[f] = fs[f] \/ (f = "discarded" /\ fs2[f] = fs[f] \cup Gone(q))
      BY <1>3, <2>10
    <3>4. fs2[g] = fs[g] \/ (g = "discarded" /\ fs2[g] = fs[g] \cup Gone(q))
      BY <1>3, <2>10
    <3> QED
      BY <2>10, <3>1, <3>2, <3>3, <3>4
  <2>11. \A i \in 1 .. Len(r.items) : r.items[i] \notin r.dropped
    <3>1. TAKE i \in 1 .. Len(r.items)
    <3>2. m \notin r.dropped
      BY <1>5, <1>13, <2>4 DEF q
    <3>3. \A j \in 1 .. Len(q.items) : q.items[j] \notin Gone(q) => q.items[j] \notin r.dropped
      BY <1>5, <2>1
    <3> QED
      BY <2>6, <3>2, <3>3
  <2>12. ASSUME d.pc = "turn"
         PROVE  TurnSound(r, d)
    <3>1. Gone(q) = {} /\ TurnSound(q, d)
      BY <2>1, <2>2, <2>12
    <3>2. Overflow(q) = 0 /\ q.items \in Seq(Messages) /\ Len(q.items) \in Nat
      BY <1>1, <3>1, OverflowBounds, LenProperties
    <3>3. r.dropped = q.dropped
      BY <1>5, <3>1
    <3>4. Len(r.items) = Len(q.items) + 1 /\ \A i \in 1 .. Len(q.items) : r.items[i] = q.items[i]
      <4>1. /\ Len(r.items) = Len(q.items) - Overflow(q) + 1
            /\ \A i \in 1 .. Len(r.items) :
                 IF i = Len(r.items) THEN r.items[i] = m
                 ELSE Overflow(q) + i \in 1 .. Len(q.items) /\ r.items[i] = q.items[Overflow(q) + i]
        BY <1>1, RoomEntries DEF r
      <4> QED
        BY <3>2, <4>1
    <3>5. d.take \in Nat
      BY <1>1, FollowupConstants DEF Drains
    <3>6. d.take <= Len(q.items) /\ \A i \in 1 .. d.take : r.items[i] = q.items[i]
      BY <3>1, <3>2, <3>4, <3>5 DEF TurnSound
    <3>7. d.take <= Len(r.items)
      BY <3>2, <3>4, <3>5, <3>6
    <3> QED
      BY <3>1, <3>3, <3>6, <3>7 DEF TurnSound
  <2> QED
    BY <1>9, <2>8, <2>9, <2>10, <2>11, <2>12 DEF OneFate, d
<1>19. Premises(reg, qs2, ds, m, fs2, rc2)
  BY <1>2, <1>11, <1>12, <1>15, <1>16, <1>17, <1>18 DEF Premises, Sound
<1> QED
  BY <1>19 DEF q, d, m, r, qs2, fs2, rc2

-----------------------------------------------------------------------------
\* A turn completes: what TurnCompletes makes of the object and the accounts.

Rest(q, d) == [q EXCEPT !.items = Taken(q, d), !.dropped = IF d.summary # {} THEN {} ELSE @]

TurnFates(fs, d) ==
  [fs EXCEPT !["answered"] = @ \cup d.batch, !["reported"] = @ \cup d.summary,
             !["consumed"] = @ \cup ({d.carrier} \ {0})]

\* What the turn adds to one account.
Account(d, f) ==
  IF f = "answered" THEN d.batch
  ELSE IF f = "reported" THEN d.summary
  ELSE IF f = "consumed" THEN {d.carrier} \ {0} ELSE {}

LEMMA TurnAccounts ==
  ASSUME NEW fs \in [Fates -> SUBSET Messages], NEW d \in Drains
  PROVE  /\ TurnFates(fs, d) \in [Fates -> SUBSET Messages]
         /\ \A f \in Fates : TurnFates(fs, d)[f] = fs[f] \cup Account(d, f)
         /\ \A f \in Fates : Account(d, f) \subseteq Prompt(d)
         /\ \A m \in Prompt(d) : \E f \in Fates : m \in Account(d, f)
<1>1. d.batch \subseteq Messages /\ d.summary \subseteq Messages /\ {d.carrier} \ {0} \subseteq Messages
  BY DEF Drains
<1>2. TurnFates(fs, d) \in [Fates -> SUBSET Messages]
  BY <1>1 DEF TurnFates, Fates
<1>3. \A f \in Fates : TurnFates(fs, d)[f] = fs[f] \cup Account(d, f)
  <2>1. TAKE f \in Fates
  <2>2. CASE f = "answered"
    BY <2>2 DEF TurnFates, Account, Fates
  <2>3. CASE f = "reported"
    BY <2>3 DEF TurnFates, Account, Fates
  <2>4. CASE f = "consumed"
    BY <2>4 DEF TurnFates, Account, Fates
  <2>5. CASE f \notin {"answered", "reported", "consumed"}
    BY <2>5 DEF TurnFates, Account, Fates
  <2> QED
    BY <2>2, <2>3, <2>4, <2>5
<1>4. \A f \in Fates : Account(d, f) \subseteq Prompt(d)
  BY DEF Account, Prompt
<1>5. \A m \in Prompt(d) : \E f \in Fates : m \in Account(d, f)
  <2>1. TAKE m \in Prompt(d)
  <2>2. m \in Account(d, "answered") \/ m \in Account(d, "reported") \/ m \in Account(d, "consumed")
    BY DEF Prompt, Account
  <2> QED
    BY <2>2 DEF Fates
<1> QED
  BY <1>2, <1>3, <1>4, <1>5

\* What the turn leaves: the entries behind those it took.
LEMMA RestEntries ==
  ASSUME NEW q \in QueueObjects, NEW d \in Drains
  PROVE  LET r == Rest(q, d) IN
         /\ r \in QueueObjects
         /\ r.dropped = IF d.summary # {} THEN {} ELSE q.dropped
         /\ r.draining = q.draining
         /\ \A i \in 1 .. Len(r.items) :
              d.take + i \in 1 .. Len(q.items) /\ r.items[i] = q.items[d.take + i]
         /\ d.take <= Len(q.items) => Len(r.items) = Len(q.items) - d.take
<1> DEFINE k == d.take
           t == SubSeq(q.items, k + 1, Len(q.items))
           r == Rest(q, d)
<1>1. q.items \in Seq(Messages) /\ Len(q.items) \in 0 .. Cap /\ k \in Nat
  BY OverflowBounds, FollowupConstants DEF Drains
<1>2. /\ r.items = t /\ r.draining = q.draining
      /\ r.dropped = IF d.summary # {} THEN {} ELSE q.dropped
  BY DEF Rest, Taken, QueueObjects
<1>3. /\ t \in Seq(Messages)
      /\ Len(t) = IF k <= Len(q.items) THEN Len(q.items) - k ELSE 0
      /\ \A i \in 1 .. Len(t) : k + i \in 1 .. Len(q.items) /\ t[i] = q.items[k + i]
  <2> HIDE DEF k
  <2> QED
    BY <1>1, TailOf
<1>4. t \in BoundedSeq(Messages, Cap)
  <2> HIDE DEF t, k
  <2>1. Len(t) <= Cap
    BY <1>1, <1>3, FollowupConstants
  <2> QED
    BY <1>3, <2>1, BoundedSeqs, FollowupConstants
<1>5. r \in QueueObjects
  BY <1>4 DEF Rest, Taken, QueueObjects
<1> HIDE DEF t, k
<1>6. k <= Len(q.items) => Len(t) = Len(q.items) - k
  BY <1>3
<1> QED
  BY <1>2, <1>3, <1>5, <1>6 DEF k

\* The completion keeps the state sound; d2 is the drain of the next round.
LEMMA TakenKeeps ==
  ASSUME NEW reg, NEW qs, NEW ds, NEW n, NEW fs, NEW rc,
         Premises(reg, qs, ds, n, fs, rc), NEW o \in Objects, ds[o].pc = "turn",
         NEW d2 \in Drains, d2.pc = "debounce", Fresh(d2)
  PROVE  Premises(reg, [qs EXCEPT ![o] = Rest(qs[o], ds[o])], [ds EXCEPT ![o] = d2], n,
                  TurnFates(fs, ds[o]), rc)
<1> DEFINE q == qs[o]
           d == ds[o]
           r == Rest(q, d)
           qs2 == [qs EXCEPT ![o] = r]
           ds2 == [ds EXCEPT ![o] = d2]
           fs2 == TurnFates(fs, d)
<1>1. /\ q \in QueueObjects /\ d \in Drains /\ ObjectSound(q, d, n) /\ n \in Nat
      /\ q.items \in Seq(Messages) /\ Len(q.items) \in 0 .. Cap
      /\ \A i \in 1 .. Len(q.items) : q.items[i] \in Messages
  BY SoundObject
<1>2. d.pc = "turn" /\ d.take \in Nat
  BY <1>1, FollowupConstants DEF Drains
<1>3. /\ r \in QueueObjects /\ r.draining = q.draining
      /\ r.dropped = IF d.summary # {} THEN {} ELSE q.dropped
      /\ d.take <= Len(q.items) => Len(r.items) = Len(q.items) - d.take
  BY <1>1, RestEntries
<1>4. \A i \in 1 .. Len(r.items) :
        d.take + i \in 1 .. Len(q.items) /\ r.items[i] = q.items[d.take + i]
  BY <1>1, RestEntries
<1>5. fs \in [Fates -> SUBSET Messages] /\ Ledger(n, fs, rc)
  BY DEF Premises, Ledger
<1>6. /\ fs2 \in [Fates -> SUBSET Messages]
      /\ \A f \in Fates : fs2[f] = fs[f] \cup Account(d, f)
      /\ \A f \in Fates : Account(d, f) \subseteq Prompt(d)
      /\ \A m \in Prompt(d) : \E f \in Fates : m \in Account(d, f)
  BY <1>1, <1>5, TurnAccounts
<1>7. fs2["answered"] = fs["answered"] \cup d.batch /\ "answered" \in Fates
  BY <1>6 DEF Account, Fates
<1>8. Typed(reg, qs, ds) /\ qs2[o] = r /\ ds2[o] = d2
  BY DEF Premises, Sound, Typed
<1>9. ASSUME NEW p \in Objects, p # o
      PROVE  qs2[p] = qs[p] /\ ds2[p] = ds[p]
  BY <1>8, <1>9 DEF Typed
<1>10. Prompt(d) \subseteq Messages /\ d.batch \subseteq Prompt(d)
  BY <1>1, PromptTyped
<1>11. /\ \A i, j \in 1 .. Len(q.items) : i < j => q.items[i] < q.items[j]
       /\ \A x \in q.dropped \cup Prompt(d) : x <= n
       /\ q.draining
       /\ \A i \in 1 .. Len(q.items), b \in d.batch : d.take < i => b < q.items[i]
  BY <1>1, <1>2 DEF ObjectSound
<1>12. d2.pc # "turn" /\ d2.batch = {} /\ Prompt(d2) = {}
  BY DEF Fresh, Prompt
<1> HIDE DEF q, d, r, qs2, ds2, fs2
<1>13. Ledger(n, fs2, rc)
  BY <1>5, <1>6, <1>11 DEF Ledger
<1>14. Typed(reg, qs2, ds2)
  BY <1>3, <1>8 DEF Typed, qs2, ds2
\* What is left is younger than all the turn answered.
<1>15. ASSUME NEW i \in 1 .. Len(r.items)
       PROVE  /\ d.take + i \in 1 .. Len(q.items) /\ d.take < d.take + i
              /\ r.items[i] = q.items[d.take + i] /\ r.items[i] \in Messages
              /\ \A b \in d.batch : b < r.items[i]
  <2>1. d.take + i \in 1 .. Len(q.items) /\ r.items[i] = q.items[d.take + i]
    BY <1>4
  <2>2. d.take < d.take + i
    BY <1>2
  <2> QED
    BY <1>1, <1>11, <2>1, <2>2
<1>16. ASSUME NEW p \in Objects
       PROVE  ObjectSound(qs2[p], ds2[p], n)
  <2>1. CASE p = o
    <3>1. \A i \in 1 .. Len(r.items) : r.items[i] <= n
      BY <1>1, <1>15 DEF ObjectSound
    <3>2. ASSUME NEW i \in 1 .. Len(r.items), NEW j \in 1 .. Len(r.items), i < j
          PROVE  r.items[i] < r.items[j]
      <4>1. d.take + i < d.take + j
        BY <1>2, <3>2
      <4> QED
        BY <1>11, <1>15, <4>1
    <3>3. \A x \in r.dropped : x <= n
      BY <1>3, <1>11
    <3> QED
      BY <1>3, <1>8, <1>11, <1>12, <2>1, <3>1, <3>2, <3>3 DEF ObjectSound
  <2>2. CASE p # o
    BY <1>9, <2>2, SoundObject
  <2> QED
    BY <2>1, <2>2
<1>17. ASSUME NEW p \in Objects, NEW i \in 1 .. Len(qs2[p].items)
       PROVE  \E j \in 1 .. Len(qs[p].items) : qs2[p].items[i] = qs[p].items[j]
  <2>1. CASE p = o
    BY <1>8, <1>15, <1>17, <2>1 DEF q
  <2>2. CASE p # o
    BY <1>9, <1>17, <2>2
  <2> QED
    BY <2>1, <2>2
<1>18. Apart(qs, ds)
  BY DEF Premises, Sound
<1>19. Apart(qs2, ds2)
  <2>1. ASSUME NEW p1 \in Objects, NEW p2 \in Objects, p1 # p2, NEW i \in 1 .. Len(qs2[p1].items)
        PROVE  /\ \A j \in 1 .. Len(qs2[p2].items) : qs2[p1].items[i] # qs2[p2].items[j]
               /\ qs2[p1].items[i] \notin ds2[p2].batch
    <3>1. PICK k \in 1 .. Len(qs[p1].items) : qs2[p1].items[i] = qs[p1].items[k]
      BY <1>17, <2>1
    <3>2. /\ \A j \in 1 .. Len(qs[p2].items) : qs[p1].items[k] # qs[p2].items[j]
          /\ qs[p1].items[k] \notin ds[p2].batch
      BY <1>18, <2>1 DEF Apart
    <3>3. ds2[p2].batch \subseteq ds[p2].batch
      BY <1>8, <1>9, <1>12
    <3> QED
      BY <1>17, <3>1, <3>2, <3>3
  <2> QED
    BY <2>1 DEF Apart
<1>20. NotAgain(qs2, fs2)
  <2>1. NotAgain(qs, fs)
    BY DEF Premises, Sound
  <2>2. ASSUME NEW p \in Objects, NEW i \in 1 .. Len(qs2[p].items)
        PROVE  qs2[p].items[i] \notin fs2["answered"]
    <3>1. qs2[p].items[i] \notin fs["answered"]
      BY <1>17, <2>1, <2>2 DEF NotAgain
    <3>2. qs2[p].items[i] \notin d.batch
      <4>1. CASE p = o
        <5>1. i \in 1 .. Len(r.items) /\ qs2[p].items[i] = r.items[i]
          BY <1>8, <2>2, <4>1
        <5>2. r.items[i] \in Nat /\ \A b \in d.batch : b < r.items[i]
          BY <1>15, <5>1 DEF Messages
        <5> QED
          BY <5>1, <5>2
      <4>2. CASE p # o
        BY <1>9, <1>18, <2>2, <4>2 DEF Apart, d
      <4> QED
        BY <4>1, <4>2
    <3> QED
      BY <1>7, <3>1, <3>2
  <2> QED
    BY <2>2 DEF NotAgain
<1>21. ~rc.clear => reg = o
  BY <1>11, DrainingObject DEF q
<1>22. TurnsInOrder(reg, qs2, fs2, rc)
  <2> SUFFICES ASSUME ~rc.clear
               PROVE  /\ \A p \in Objects : qs2[p].draining => reg = p
                      /\ \A i \in 1 .. Len(r.items), x \in fs2["answered"] : x < r.items[i]
    BY <1>8, <1>21 DEF TurnsInOrder
  <2>1. TurnsInOrder(reg, qs, fs, rc)
    BY DEF Premises, Sound
  <2>2. \A p \in Objects : qs2[p].draining => reg = p
    BY <1>9, <1>21, <2>1 DEF TurnsInOrder
  <2>3. ASSUME NEW i \in 1 .. Len(r.items), NEW x \in fs2["answered"]
        PROVE  x < r.items[i]
    <3>1. \A j \in 1 .. Len(q.items), y \in fs["answered"] : y < q.items[j]
      BY <1>21, <2>1, ZeroIsNoObject DEF TurnsInOrder, q
    <3> QED
      BY <1>7, <1>15, <3>1
  <2> QED
    BY <2>2, <2>3
<1>23. OneFate(reg, qs2, ds2, n, fs2, rc)
  <2> SUFFICES ASSUME ~rc.overflow, ~rc.clear
               PROVE  OneFate(reg, qs2, ds2, n, fs2, rc)
    BY DEF OneFate
  <2>1. reg = o /\ reg # 0
    BY <1>21, ZeroIsNoObject
  <2>2. /\ \A x \in 1 .. n : x \in Waiting(reg, qs) \/ \E f \in Fates : x \in fs[f]
        /\ \A x \in Waiting(reg, qs), f \in Fates : x \notin fs[f]
        /\ \A f, g \in Fates : f # g => fs[f] \cap fs[g] = {}
        /\ \A i \in 1 .. Len(q.items) : q.items[i] \notin q.dropped
        /\ TurnSound(q, d)
    <3>1. OneFate(reg, qs, ds, n, fs, rc)
      BY DEF Premises, Sound
    <3> QED
      BY <1>2, <2>1, <3>1 DEF OneFate, q, d
  <2>3. /\ \A x : x \in Waiting(reg, qs) <=> x \in q.dropped \/ \E i \in 1 .. Len(q.items) : x = q.items[i]
        /\ \A x : x \in Waiting(reg, qs2) <=> x \in r.dropped \/ \E i \in 1 .. Len(r.items) : x = r.items[i]
    <3>1. ToSet(q.items) = { q.items[i] : i \in 1 .. Len(q.items) }
      BY <1>1, SeqMembers
    <3>2. r.items \in Seq(Messages)
      BY <1>3, OverflowBounds
    <3>3. ToSet(r.items) = { r.items[i] : i \in 1 .. Len(r.items) }
      BY <3>2, SeqMembers
    <3>4. Waiting(reg, qs) = ToSet(q.items) \cup q.dropped
          /\ Waiting(reg, qs2) = ToSet(r.items) \cup r.dropped
      BY <1>8, <2>1 DEF Waiting, q
    <3> QED
      BY <3>1, <3>3, <3>4
  <2>4. d.take \in 0 .. Len(q.items) /\ Len(r.items) = Len(q.items) - d.take /\ Len(q.items) \in Nat
    BY <1>1, <1>2, <1>3, <2>2 DEF TurnSound
  \* The prompt is made of the entries the turn takes off, and of the summary.
  <2>5. \A m \in d.batch \cup ({d.carrier} \ {0}) : \E i \in 1 .. d.take : q.items[i] = m
    BY <2>2 DEF TurnSound
  <2>6. \A i \in 1 .. d.take : q.items[i] \in d.batch \cup ({d.carrier} \ {0})
    <3>1. TAKE i \in 1 .. d.take
    <3>2. i \in 1 .. Len(q.items)
      BY <2>4
    <3>3. q.items[i] # 0
      BY <1>1, <3>2 DEF Messages
    <3> QED
      BY <2>2, <3>3 DEF TurnSound
  <2>7. \A m \in d.batch \cup ({d.carrier} \ {0}) : m \in Waiting(reg, qs) /\ m \notin q.dropped
    <3>1. TAKE m \in d.batch \cup ({d.carrier} \ {0})
    <3>2. PICK i \in 1 .. d.take : q.items[i] = m
      BY <2>5
    <3>3. i \in 1 .. Len(q.items)
      BY <2>4
    <3> QED
      BY <2>2, <2>3, <3>2, <3>3
  <2>8. \A m \in d.summary : m \in q.dropped /\ m \in Waiting(reg, qs)
    BY <2>2, <2>3 DEF TurnSound
  \* No entry that is left was taken.
  <2>9. \A m \in d.batch \cup ({d.carrier} \ {0}), j \in 1 .. Len(r.items) : r.items[j] # m
    <3>1. TAKE m \in d.batch \cup ({d.carrier} \ {0}), j \in 1 .. Len(r.items)
    <3>2. PICK i \in 1 .. d.take : q.items[i] = m
      BY <2>5
    <3>3. i \in 1 .. Len(q.items) /\ i < d.take + j /\ d.take + j \in 1 .. Len(q.items)
      BY <1>15, <2>4, <3>2
    <3>4. q.items[i] < q.items[d.take + j]
      BY <1>11, <3>3
    <3>5. q.items[i] \in Messages
      BY <1>1, <3>3
    <3>6. q.items[i] \in Nat
      BY <3>5 DEF Messages
    <3> QED
      BY <1>15, <3>2, <3>4, <3>6
  <2>10. \A x \in Waiting(reg, qs2) : x \in Waiting(reg, qs) /\ x \notin Prompt(d)
    <3>1. TAKE x \in Waiting(reg, qs2)
    <3>2. CASE x \in r.dropped
      <4>1. d.summary = {} /\ x \in q.dropped
        BY <1>3, <3>2
      <4> QED
        BY <2>3, <2>7, <4>1 DEF Prompt
    <3>3. CASE \E i \in 1 .. Len(r.items) : x = r.items[i]
      <4>1. PICK j \in 1 .. Len(r.items) : x = r.items[j]
        BY <3>3
      <4>2. d.take + j \in 1 .. Len(q.items) /\ x = q.items[d.take + j]
        BY <1>15, <4>1
      <4>3. x \in Waiting(reg, qs) /\ x \notin q.dropped
        BY <2>2, <2>3, <4>2
      <4>4. x \notin d.summary
        BY <2>8, <4>3
      <4>5. x \notin d.batch \cup ({d.carrier} \ {0})
        BY <2>9, <4>1
      <4> QED
        BY <4>3, <4>4, <4>5 DEF Prompt
    <3> QED
      BY <2>3, <3>2, <3>3
  <2>11. \A x \in Waiting(reg, qs) : x \in Waiting(reg, qs2) \/ x \in Prompt(d)
    <3>1. TAKE x \in Waiting(reg, qs)
    <3>2. CASE x \in q.dropped
      <4>1. d.summary = {} => x \in Waiting(reg, qs2)
        BY <1>3, <2>3, <3>2
      <4>2. d.summary # {} => x \in Prompt(d)
        BY <2>2, <3>2 DEF TurnSound, Prompt
      <4> QED
        BY <4>1, <4>2
    <3>3. CASE \E i \in 1 .. Len(q.items) : x = q.items[i]
      <4>1. PICK i \in 1 .. Len(q.items) : x = q.items[i]
        BY <3>3
      <4>2. CASE i <= d.take
        <5>1. i \in 1 .. d.take
          BY <2>4, <4>2
        <5> QED
          BY <2>6, <4>1, <5>1 DEF Prompt
      <4>3. CASE i > d.take
        <5>1. i - d.take \in 1 .. Len(r.items) /\ d.take + (i - d.take) = i
          BY <2>4, <4>3
        <5>2. x = r.items[i - d.take]
          BY <1>4, <4>1, <5>1
        <5> QED
          BY <2>3, <5>1, <5>2
      <4> QED
        BY <2>4, <4>2, <4>3
    <3> QED
      BY <2>3, <3>2, <3>3
  <2>12. \A x \in 1 .. n : x \in Waiting(reg, qs2) \/ \E f \in Fates : x \in fs2[f]
    <3>1. TAKE x \in 1 .. n
    <3>2. CASE x \in Prompt(d)
      BY <1>6, <3>2
    <3>3. CASE \E f \in Fates : x \in fs[f]
      BY <1>6, <3>3
    <3> QED
      BY <2>2, <2>11, <3>2, <3>3
  <2>13. \A x \in Waiting(reg, qs2), f \in Fates : x \notin fs2[f]
    BY <1>6, <2>2, <2>10
  <2>14. \A x \in Prompt(d) : x \in Waiting(reg, qs)
    BY <2>7, <2>8 DEF Prompt
  <2>15. ASSUME NEW f \in Fates, NEW g \in Fates, f # g
         PROVE  Account(d, f) \cap Account(d, g) = {}
    <3>1. d.batch \cap d.summary = {} /\ ({d.carrier} \ {0}) \cap d.summary = {}
      BY <2>7, <2>8
    <3>2. d.batch \cap ({d.carrier} \ {0}) = {}
      BY <2>2 DEF TurnSound
    <3> QED
      BY <2>15, <3>1, <3>2 DEF Account
  <2>16. ASSUME NEW f \in Fates, NEW g \in Fates, f # g
         PROVE  fs2[f] \cap fs2[g] = {}
    <3>1. fs[f] \cap fs[g] = {} /\ Account(d, f) \cap Account(d, g) = {}
      BY <2>2, <2>15, <2>16
    <3>2. Account(d, f) \cap fs[g] = {} /\ Account(d, g) \cap fs[f] = {}
      BY <1>6, <2>2, <2>14
    <3>3. fs2[f] = fs[f] \cup Account(d, f) /\ fs2[g] = fs[g] \cup Account(d, g)
      BY <1>6
    <3> QED
      BY <3>1, <3>2, <3>3
  <2>17. \A i \in 1 .. Len(r.items) : r.items[i] \notin r.dropped
    <3>1. TAKE i \in 1 .. Len(r.items)
    <3>2. q.items[d.take + i] \notin q.dropped
      BY <1>15, <2>2
    <3> QED
      BY <1>3, <1>15, <3>2
  <2> QED
    BY <1>8, <1>12, <2>1, <2>12, <2>13, <2>16, <2>17 DEF OneFate
<1>24. Premises(reg, qs2, ds2, n, fs2, rc)
  BY <1>13, <1>14, <1>16, <1>19, <1>20, <1>22, <1>23 DEF Premises, Sound
<1> QED
  BY <1>24 DEF q, d, r, qs2, ds2, fs2

-----------------------------------------------------------------------------
\* A message is turned away: one more has arrived, and one more is discarded.

LEMMA TurnAwayKeeps ==
  ASSUME NEW reg, NEW qs, NEW ds, NEW n, NEW fs, NEW rc,
         Premises(reg, qs, ds, n, fs, rc), n < NumMessages
  PROVE  Premises(reg, qs, ds, n + 1, [fs EXCEPT !["discarded"] = @ \cup {n + 1}], rc)
<1> DEFINE m == n + 1
           fs2 == [fs EXCEPT !["discarded"] = @ \cup {m}]
<1>1. n \in Nat /\ NumMessages \in Nat /\ m \in Messages /\ m \in Nat /\ n < m /\ m \in 0 .. NumMessages
  BY FollowupConstants DEF Premises, Ledger, Messages
<1>2. /\ fs \in [Fates -> SUBSET Messages] /\ \A f \in Fates : \A x \in fs[f] : x <= n
      /\ rc \in [overflow : BOOLEAN, clear : BOOLEAN]
  BY DEF Premises, Ledger
<1>3. \A f \in Fates : fs2[f] = IF f = "discarded" THEN fs[f] \cup {m} ELSE fs[f]
  BY <1>2
<1>4. fs2 \in [Fates -> SUBSET Messages]
  BY <1>1, <1>2
<1> HIDE DEF m, fs2
<1>5. \A f \in Fates : \A x \in fs2[f] : x <= m
  <2>1. TAKE f \in Fates
  <2>2. TAKE x \in fs2[f]
  <2>3. x = m \/ x \in fs[f]
    BY <1>3
  <2>4. x \in fs[f] => x \in Messages /\ x <= n
    BY <1>2
  <2>5. x \in fs[f] => x <= m
    BY <1>1, <2>4 DEF Messages
  <2> QED
    BY <1>1, <2>3, <2>5
<1>6. Ledger(m, fs2, rc)
  BY <1>1, <1>2, <1>4, <1>5 DEF Ledger
<1>7. Typed(reg, qs, ds) /\ Apart(qs, ds) /\ NotAgain(qs, fs) /\ TurnsInOrder(reg, qs, fs, rc)
      /\ OneFate(reg, qs, ds, n, fs, rc)
  BY DEF Premises, Sound
<1>8. fs2["answered"] = fs["answered"]
  BY <1>3 DEF Fates
<1>9. ASSUME NEW o \in Objects
      PROVE  /\ ObjectSound(qs[o], ds[o], m)
             /\ m \notin qs[o].dropped /\ \A i \in 1 .. Len(qs[o].items) : qs[o].items[i] # m
  <2>1. ObjectSound(qs[o], ds[o], n)
    BY SoundObject
  <2>2. /\ \A i \in 1 .. Len(qs[o].items) : qs[o].items[i] \in Nat
        /\ qs[o].dropped \subseteq Nat /\ Prompt(ds[o]) \subseteq Nat
    BY SoundObject, PromptTyped DEF Messages, QueueObjects
  <2>3. /\ \A i \in 1 .. Len(qs[o].items) : qs[o].items[i] <= n
        /\ \A x \in qs[o].dropped \cup Prompt(ds[o]) : x <= n
    BY <2>1 DEF ObjectSound
  <2>4. /\ \A i \in 1 .. Len(qs[o].items) : qs[o].items[i] <= m /\ qs[o].items[i] # m
        /\ \A x \in qs[o].dropped \cup Prompt(ds[o]) : x <= m /\ x # m
    BY <1>1, <2>2, <2>3
  <2> QED
    BY <2>1, <2>4 DEF ObjectSound
<1>10. NotAgain(qs, fs2) /\ TurnsInOrder(reg, qs, fs2, rc)
  BY <1>7, <1>8 DEF NotAgain, TurnsInOrder
<1>11. m \notin Waiting(reg, qs)
  <2>1. CASE reg = 0
    BY <2>1 DEF Waiting
  <2>2. CASE reg # 0
    <3>1. reg \in Objects
      BY <1>7, <2>2 DEF Typed
    <3>2. ToSet(qs[reg].items) = { qs[reg].items[i] : i \in 1 .. Len(qs[reg].items) }
      BY <3>1, SoundObject
    <3> QED
      BY <1>9, <2>2, <3>1, <3>2 DEF Waiting
  <2> QED
    BY <2>1, <2>2
<1>12. OneFate(reg, qs, ds, m, fs2, rc)
  <2> SUFFICES ASSUME ~rc.overflow, ~rc.clear
               PROVE  OneFate(reg, qs, ds, m, fs2, rc)
    BY DEF OneFate
  <2>1. /\ \A x \in 1 .. n : x \in Waiting(reg, qs) \/ \E f \in Fates : x \in fs[f]
        /\ \A x \in Waiting(reg, qs), f \in Fates : x \notin fs[f]
        /\ \A f, g \in Fates : f # g => fs[f] \cap fs[g] = {}
    BY <1>7 DEF OneFate
  <2>2. ASSUME NEW x \in 1 .. m
        PROVE  x \in Waiting(reg, qs) \/ \E f \in Fates : x \in fs2[f]
    <3>1. CASE x = m
      BY <1>3, <3>1 DEF Fates
    <3>2. CASE x # m
      <4>1. x \in 1 .. n
        BY <1>1, <3>2 DEF m
      <4> QED
        BY <1>3, <2>1, <4>1
    <3> QED
      BY <3>1, <3>2
  <2>3. \A x \in Waiting(reg, qs), f \in Fates : x \notin fs2[f]
    BY <1>3, <1>11, <2>1
  <2>4. \A f \in Fates : m \notin fs[f]
    BY <1>1, <1>2
  <2>5. ASSUME NEW f \in Fates, NEW g \in Fates, f # g
        PROVE  fs2[f] \cap fs2[g] = {}
    <3>1. fs[f] \cap fs[g] = {} /\ m \notin fs[f] /\ m \notin fs[g]
      BY <2>1, <2>4, <2>5
    <3>2. fs2[f] = fs[f] \/ (f = "discarded" /\ fs2[f] = fs[f] \cup {m})
      BY <1>3
    <3>3. fs2[g] = fs[g] \/ (g = "discarded" /\ fs2[g] = fs[g] \cup {m})
      BY <1>3
    <3> QED
      BY <2>5, <3>1, <3>2, <3>3
  <2> QED
    BY <1>7, <2>2, <2>3, <2>5 DEF OneFate
<1>13. Premises(reg, qs, ds, m, fs2, rc)
  BY <1>6, <1>7, <1>9, <1>10, <1>12 DEF Premises, Sound
<1> QED
  BY <1>13 DEF m, fs2

-----------------------------------------------------------------------------
\* A turn starts.  Its entries are in the object at that moment, so no other
\* object has them, none was answered before, and what is behind them is younger.

LEMMA StartTurnKeeps ==
  ASSUME NEW reg, NEW qs, NEW ds, NEW n, NEW fs, NEW rc,
         Premises(reg, qs, ds, n, fs, rc), NEW o \in Objects, ds[o].pc = "debounce",
         NEW d \in Drains, d.pc = "turn", TurnSound(qs[o], d)
  PROVE  /\ Sound(reg, qs, [ds EXCEPT ![o] = d], n, fs, rc)
         /\ d.batch \cap fs["answered"] = {}
         /\ ~rc.clear => \A m \in d.batch, x \in fs["answered"] : x < m
<1> DEFINE q == qs[o]
           ds2 == [ds EXCEPT ![o] = d]
<1>1. /\ q \in QueueObjects /\ ObjectSound(q, ds[o], n)
      /\ Len(q.items) \in 0 .. Cap
      /\ \A i \in 1 .. Len(q.items) : q.items[i] \in Messages
  BY SoundObject
<1>2. d.take \in Nat /\ d.take <= Len(q.items)
  BY FollowupConstants DEF Drains, TurnSound
<1>3. Typed(reg, qs, ds) /\ ds2[o] = d
  BY DEF Premises, Sound, Typed
<1>4. ASSUME NEW p \in Objects, p # o
      PROVE  ds2[p] = ds[p]
  BY <1>3, <1>4 DEF Typed
<1>5. Typed(reg, qs, ds2)
  BY <1>3 DEF Typed
<1>6. /\ \A i, j \in 1 .. Len(q.items) : i < j => q.items[i] < q.items[j]
      /\ \A i \in 1 .. Len(q.items) : q.items[i] <= n
      /\ \A x \in q.dropped : x <= n
      /\ q.draining
  BY <1>1 DEF ObjectSound
<1> HIDE DEF q, ds2
<1>7. \A m \in d.batch \cup ({d.carrier} \ {0}) :
        \E i \in 1 .. Len(q.items) : i <= d.take /\ m = q.items[i]
  <2>1. TAKE m \in d.batch \cup ({d.carrier} \ {0})
  <2>2. PICK i \in 1 .. d.take : q.items[i] = m
    BY DEF TurnSound, q
  <2>3. i \in 1 .. Len(q.items) /\ i <= d.take
    BY <1>1, <1>2, FollowupConstants
  <2> QED
    BY <2>2, <2>3
<1>8. ObjectSound(q, d, n)
  <2>1. \A x \in Prompt(d) : x <= n
    <3>1. TAKE x \in Prompt(d)
    <3>2. CASE x \in d.summary
      BY <1>6, <3>2 DEF TurnSound, q
    <3>3. CASE x \in d.batch \cup ({d.carrier} \ {0})
      BY <1>6, <1>7, <3>3
    <3> QED
      BY <3>2, <3>3 DEF Prompt
  <2>2. ASSUME NEW i \in 1 .. Len(q.items), NEW b \in d.batch, d.take < i
        PROVE  b < q.items[i]
    <3>1. PICK j \in 1 .. Len(q.items) : j <= d.take /\ b = q.items[j]
      BY <1>7
    <3>2. j < i
      BY <1>1, <1>2, <2>2, <3>1, FollowupConstants
    <3> QED
      BY <1>6, <3>1, <3>2
  <2> QED
    BY <1>6, <2>1, <2>2 DEF ObjectSound
<1>9. ASSUME NEW p \in Objects
      PROVE  ObjectSound(qs[p], ds2[p], n)
  BY <1>3, <1>4, <1>8, SoundObject DEF q
<1>10. \A m \in d.batch : \E i \in 1 .. Len(q.items) : m = q.items[i]
  BY <1>7
<1>11. Apart(qs, ds2)
  <2>1. Apart(qs, ds)
    BY DEF Premises, Sound
  <2>2. ASSUME NEW p1 \in Objects, NEW p2 \in Objects, p1 # p2, NEW i \in 1 .. Len(qs[p1].items)
        PROVE  qs[p1].items[i] \notin ds2[p2].batch
    <3>1. CASE p2 = o
      <4>1. \A j \in 1 .. Len(q.items) : qs[p1].items[i] # q.items[j]
        BY <2>1, <2>2, <3>1 DEF Apart, q
      <4> QED
        BY <1>3, <1>10, <3>1, <4>1
    <3>2. CASE p2 # o
      BY <1>4, <2>1, <2>2, <3>2 DEF Apart
    <3> QED
      BY <3>1, <3>2
  <2> QED
    BY <2>1, <2>2 DEF Apart
<1>12. NotAgain(qs, fs) /\ TurnsInOrder(reg, qs, fs, rc) /\ OneFate(reg, qs, ds, n, fs, rc)
  BY DEF Premises, Sound
<1>13. OneFate(reg, qs, ds2, n, fs, rc)
  <2>1. ASSUME ~rc.overflow, ~rc.clear, reg # 0, ds2[reg].pc = "turn"
        PROVE  TurnSound(qs[reg], ds2[reg])
    <3>1. reg \in Objects
      BY <1>3, <2>1 DEF Typed
    <3>2. CASE reg = o
      BY <1>3, <3>2
    <3>3. CASE reg # o
      BY <1>4, <1>12, <2>1, <3>1, <3>3 DEF OneFate
    <3> QED
      BY <3>2, <3>3
  <2> QED
    BY <1>12, <2>1 DEF OneFate
<1>14. Sound(reg, qs, ds2, n, fs, rc)
  BY <1>5, <1>9, <1>11, <1>12, <1>13 DEF Sound
<1>15. d.batch \cap fs["answered"] = {}
  BY <1>10, <1>12 DEF NotAgain, q
<1>16. ASSUME ~rc.clear
       PROVE  \A m \in d.batch, x \in fs["answered"] : x < m
  <2>1. reg = o
    BY <1>6, <1>12, <1>16 DEF TurnsInOrder, q
  <2>2. \A i \in 1 .. Len(q.items), x \in fs["answered"] : x < q.items[i]
    BY <1>12, <1>16, <2>1, ZeroIsNoObject DEF TurnsInOrder, q
  <2> QED
    BY <1>10, <2>2
<1> QED
  BY <1>14, <1>15, <1>16 DEF ds2

-----------------------------------------------------------------------------
\* An object without entries takes the place of one: getFollowupQueue makes a
\* fresh one, clearSessionQueues empties one.  What OneFate says is the callers'.

LEMMA EmptyKeeps ==
  ASSUME NEW reg, NEW qs, NEW ds, NEW n, NEW fs, NEW rc, Premises(reg, qs, ds, n, fs, rc),
         NEW o \in Objects, NEW e \in QueueObjects, e.items = << >>, e.dropped = {},
         e.draining = qs[o].draining, NEW reg2 \in {o, 0},
         NEW fs2, fs2["answered"] = fs["answered"],
         NEW rc2, ~rc2.clear => \A p \in Objects : ~qs[p].draining,
         OneFate(reg2, [qs EXCEPT ![o] = e], ds, n, fs2, rc2)
  PROVE  Sound(reg2, [qs EXCEPT ![o] = e], ds, n, fs2, rc2)
<1> DEFINE qs2 == [qs EXCEPT ![o] = e]
<1>1. Typed(reg, qs, ds) /\ qs2[o] = e
  BY DEF Premises, Sound, Typed
<1>2. ASSUME NEW p \in Objects, p # o
      PROVE  qs2[p] = qs[p]
  BY <1>1, <1>2 DEF Typed
<1>3. Typed(reg2, qs2, ds)
  BY <1>1 DEF Typed
<1>4. 1 .. Len(e.items) = {} /\ \A x \in e.dropped : FALSE
  OBVIOUS
<1> HIDE DEF qs2
<1>5. ASSUME NEW p \in Objects
      PROVE  ObjectSound(qs2[p], ds[p], n)
  <2>1. ObjectSound(qs[p], ds[p], n)
    BY SoundObject
  <2>2. CASE p = o
    BY <1>1, <1>4, <2>1, <2>2 DEF ObjectSound
  <2>3. CASE p # o
    BY <1>2, <2>1, <2>3
  <2> QED
    BY <2>2, <2>3
<1>6. Apart(qs2, ds)
  <2>1. Apart(qs, ds)
    BY DEF Premises, Sound
  <2>2. ASSUME NEW p1 \in Objects, NEW p2 \in Objects, p1 # p2, NEW i \in 1 .. Len(qs2[p1].items)
        PROVE  /\ \A j \in 1 .. Len(qs2[p2].items) : qs2[p1].items[i] # qs2[p2].items[j]
               /\ qs2[p1].items[i] \notin ds[p2].batch
    <3>1. p1 # o
      BY <1>1, <1>4, <2>2
    <3>2. qs2[p1] = qs[p1]
      BY <1>2, <3>1
    <3>3. qs2[p2] = qs[p2] \/ 1 .. Len(qs2[p2].items) = {}
      BY <1>1, <1>2, <1>4
    <3> QED
      BY <2>1, <2>2, <3>2, <3>3 DEF Apart
  <2> QED
    BY <2>2 DEF Apart
<1>7. NotAgain(qs2, fs2)
  <2>1. NotAgain(qs, fs)
    BY DEF Premises, Sound
  <2>2. ASSUME NEW p \in Objects, NEW i \in 1 .. Len(qs2[p].items)
        PROVE  qs2[p].items[i] \notin fs["answered"]
    <3>1. p # o
      BY <1>1, <1>4, <2>2
    <3>2. qs2[p] = qs[p]
      BY <1>2, <3>1
    <3> QED
      BY <2>1, <2>2, <3>2 DEF NotAgain
  <2> QED
    BY <2>2 DEF NotAgain
<1>8. TurnsInOrder(reg2, qs2, fs2, rc2)
  <2>1. ASSUME ~rc2.clear, NEW p \in Objects
        PROVE  ~qs2[p].draining
    BY <1>1, <1>2, <2>1
  <2>2. reg2 # 0 => 1 .. Len(qs2[reg2].items) = {}
    BY <1>1, <1>4
  <2> QED
    BY <2>1, <2>2 DEF TurnsInOrder
<1> QED
  BY <1>3, <1>5, <1>6, <1>7, <1>8 DEF Sound, qs2

\* getFollowupQueue: the object a message or a duplicate of it finds.
LEMMA SettingsKeeps ==
  ASSUME FollowupInv, SomeObject, NEW mode \in Modes, NEW policy \in Policies
  PROVE  /\ Target \in Objects /\ WithSettings(mode, policy) \in QueueObjects
         /\ Premises(Target, [queue EXCEPT ![Target] = WithSettings(mode, policy)], drain,
                     arrived, fates, raced)
         /\ WithSettings(mode, policy).policy = policy
         /\ registry = 0 => WithSettings(mode, policy).items = << >>
                            /\ WithSettings(mode, policy).dropped = {}
         /\ registry # 0 => /\ Target = registry
                            /\ WithSettings(mode, policy).items = queue[registry].items
                            /\ WithSettings(mode, policy).dropped = queue[registry].dropped
                            /\ WithSettings(mode, policy).draining = queue[registry].draining
<1> DEFINE q == WithSettings(mode, policy)
           o == Target
           qs2 == [queue EXCEPT ![o] = q]
<1>1. /\ Premises(registry, queue, drain, arrived, fates, raced)
      /\ Typed(registry, queue, drain) /\ Ledger(arrived, fates, raced)
  BY DEF FollowupInv, Premises, Sound
<1>2. CASE registry = 0
  <2>1. o \in Objects /\ ~queue[o].draining
    <3>1. \E x \in Objects : x # registry /\ ~queue[x].draining
      BY <1>2, ZeroIsNoObject DEF SomeObject
    <3> QED
      BY <1>2, <3>1 DEF Target, FreeObject
  <2>2. q = [items |-> << >>, draining |-> FALSE, dropped |-> {}, mode |-> mode, policy |-> policy]
    BY <1>2 DEF WithSettings, NewQueue
  <2>3. << >> \in BoundedSeq(Messages, Cap)
    BY NoEntries
  <2>4. q \in QueueObjects /\ q.items = << >> /\ q.dropped = {} /\ q.draining = FALSE /\ q.policy = policy
    BY <2>2, <2>3 DEF QueueObjects
  <2>5. queue[o].draining = FALSE
    BY <1>1, <2>1 DEF Typed, QueueObjects
  <2> HIDE DEF q, o
  <2>6. ~raced.clear => \A p \in Objects : ~queue[p].draining
    BY <1>1, <1>2, DrainingObject, ZeroIsNoObject
  <2>7. OneFate(o, qs2, drain, arrived, fates, raced)
    <3>1. qs2[o] = q
      BY <1>1, <2>1 DEF Typed
    <3>2. Waiting(o, qs2) = Waiting(registry, queue)
      <4>1. ToSet(q.items) = {}
        BY <2>4 DEF ToSet
      <4> QED
        BY <1>2, <2>1, <2>4, <3>1, <4>1, ZeroIsNoObject DEF Waiting
    <3>3. OneFate(registry, queue, drain, arrived, fates, raced)
      BY <1>1 DEF Premises, Sound
    <3>4. drain[o].pc # "turn"
      BY <1>1, <2>1, DrainingObject
    <3>5. 1 .. Len(q.items) = {}
      BY <2>4
    <3> QED
      BY <3>1, <3>2, <3>3, <3>4, <3>5 DEF OneFate
  <2>8. Sound(o, qs2, drain, arrived, fates, raced)
    <3>1. o \in {o, 0}
      OBVIOUS
    <3> QED
      BY <1>1, <2>1, <2>4, <2>5, <2>6, <2>7, <3>1, EmptyKeeps
  <2> QED
    BY <1>1, <1>2, <2>1, <2>4, <2>8 DEF Premises, q, o
<1>3. CASE registry # 0
  <2>1. o = registry /\ o \in Objects
    BY <1>1, <1>3 DEF Target, Typed
  <2>2. q = [queue[o] EXCEPT !.mode = mode, !.policy = policy]
    BY <1>3, <2>1 DEF WithSettings
  <2>3. queue[o] \in QueueObjects
    BY <1>1, <2>1 DEF Typed
  <2>4. /\ q \in QueueObjects /\ q.items = queue[o].items /\ q.dropped = queue[o].dropped
        /\ q.draining = queue[o].draining /\ q.policy = policy
    <3> HIDE DEF o, q
    <3> QED
      BY <2>2, <2>3 DEF QueueObjects
  <2> HIDE DEF q, o
  <2>5. Typed(o, qs2, drain)
    BY <1>1, <2>1, <2>4 DEF Typed
  <2>6. ASSUME NEW p \in Objects
        PROVE  /\ qs2[p].items = queue[p].items /\ qs2[p].dropped = queue[p].dropped
               /\ qs2[p].draining = queue[p].draining
    BY <1>1, <2>1, <2>4 DEF Typed
  <2>7. Moved(registry, queue, drain, o, qs2, drain, raced)
    <3> HIDE DEF qs2
    <3> QED
      BY <1>1, <2>1, <2>5, <2>6, DrainingObject DEF Moved
  <2>8. Sound(o, qs2, drain, arrived, fates, raced)
    BY <1>1, <2>7, MovedKeeps
  <2> QED
    BY <1>1, <1>3, <2>1, <2>4, <2>8 DEF Premises, q, o
<1> QED
  BY <1>2, <1>3

-----------------------------------------------------------------------------
\* The actions.

\* The part of FollowupInv that names no object.
Rest0 ==
  /\ callback \in BOOLEAN /\ recent \subseteq Messages
  /\ clears \in 0 .. MaxClears /\ failures \in 0 .. MaxFailures

LEMMA InvParts ==
  ASSUME FollowupInv
  PROVE  /\ Premises(registry, queue, drain, arrived, fates, raced)
         /\ Typed(registry, queue, drain) /\ drain \in [Objects -> Drains]
         /\ registry \in Objects \cup {0} /\ queue \in [Objects -> QueueObjects]
         /\ Rest0 /\ IdleQueueHasNoRunner
         /\ arrived \in 0 .. NumMessages /\ NumMessages \in Nat
BY FollowupConstants DEF FollowupInv, Premises, Sound, Typed, Ledger, Rest0

LEMMA FollowupInitInv == FollowupInit => FollowupInv
<1> SUFFICES ASSUME FollowupInit
             PROVE  FollowupInv
  OBVIOUS
<1> DEFINE q == NewQueue(CHOOSE m \in Modes : TRUE, CHOOSE p \in Policies : TRUE)
<1>1. /\ registry = 0 /\ queue = [o \in Objects |-> q] /\ drain = [o \in Objects |-> NoDrain]
      /\ callback = FALSE /\ recent = {} /\ arrived = 0 /\ clears = 0 /\ failures = 0
      /\ fates = [f \in Fates |-> {}] /\ raced = [overflow |-> FALSE, clear |-> FALSE]
  BY DEF FollowupInit
<1>2. (CHOOSE m \in Modes : TRUE) \in Modes /\ (CHOOSE p \in Policies : TRUE) \in Policies
  BY FollowupConstants
<1>3. q \in QueueObjects /\ q.items = << >> /\ q.dropped = {} /\ ~q.draining
  BY <1>2, NoEntries DEF NewQueue, QueueObjects
<1>4. NoDrain \in Drains /\ NoDrain.pc = "idle" /\ NoDrain.batch = {} /\ Prompt(NoDrain) = {}
  <2>1. NoDrain \in Drains
    BY FreshDrains
  <2> QED
    BY <2>1 DEF NoDrain, Prompt
<1> HIDE DEF q
<1>5. \A o \in Objects : queue[o] = q /\ drain[o] = NoDrain
  BY <1>1
<1>6. 1 .. Len(q.items) = {}
  BY <1>3
<1>7. Typed(registry, queue, drain)
  BY <1>1, <1>3, <1>4 DEF Typed
<1>8. \A o \in Objects : ObjectSound(queue[o], drain[o], arrived)
  BY <1>3, <1>4, <1>5, <1>6 DEF ObjectSound
<1>9. Apart(queue, drain) /\ NotAgain(queue, fates)
  BY <1>5, <1>6 DEF Apart, NotAgain
<1>10. TurnsInOrder(registry, queue, fates, raced)
  BY <1>1, <1>3, <1>5 DEF TurnsInOrder
<1>11. OneFate(registry, queue, drain, arrived, fates, raced)
  <2>1. Waiting(registry, queue) = {} /\ 1 .. arrived = {}
    BY <1>1 DEF Waiting
  <2> QED
    BY <1>1, <2>1 DEF OneFate
<1>12. Ledger(arrived, fates, raced)
  BY <1>1, FollowupConstants DEF Ledger
<1>13. IdleQueueHasNoRunner
  BY <1>1 DEF IdleQueueHasNoRunner
<1>14. Sound(registry, queue, drain, arrived, fates, raced)
  BY <1>7, <1>8, <1>9, <1>10, <1>11 DEF Sound
<1>15. callback \in BOOLEAN /\ recent \subseteq Messages
       /\ clears \in 0 .. MaxClears /\ failures \in 0 .. MaxFailures
  <2>1. 0 \in 0 .. MaxClears /\ 0 \in 0 .. MaxFailures
    BY FollowupConstants
  <2>2. callback \in BOOLEAN
    BY <1>1
  <2> QED
    BY <1>1, <2>1, <2>2
<1> QED
  BY <1>12, <1>13, <1>14, <1>15 DEF FollowupInv

\* A message arrives, accepted or turned away.
LEMMA EnqueueRunInv ==
  ASSUME FollowupInv, NEW mode \in Modes, NEW policy \in Policies, EnqueueRun(mode, policy)
  PROVE  FollowupInv'
<1> DEFINE m == arrived + 1
           q == WithSettings(mode, policy)
           o == Target
           qs1 == [queue EXCEPT ![o] = q]
<1>1. /\ Premises(registry, queue, drain, arrived, fates, raced)
      /\ Typed(registry, queue, drain)
      /\ Rest0 /\ IdleQueueHasNoRunner
      /\ arrived \in 0 .. NumMessages /\ NumMessages \in Nat
  BY InvParts
<1>2. SomeObject /\ arrived < NumMessages /\ arrived' = m /\ UNCHANGED << clears, failures >>
  BY DEF EnqueueRun
<1>3. o \in Objects /\ q \in QueueObjects /\ Premises(o, qs1, drain, arrived, fates, raced)
  BY <1>2, SettingsKeeps
<1>4. m \in Messages
  BY <1>1, <1>2 DEF Messages
<1>5. qs1[o] = q
  BY <1>1, <1>3 DEF Typed
<1>6. CASE Overflow(q) > 0 /\ policy = "new"
  <2>1. TurnAway(m, o, q)
    BY <1>6 DEF EnqueueRun
  <2>2. /\ registry' = o /\ queue' = qs1
        /\ fates' = [fates EXCEPT !["discarded"] = @ \cup {m}]
        /\ UNCHANGED << drain, callback, recent, raced >>
    BY <2>1 DEF TurnAway
  <2>3. Premises(o, qs1, drain, m, fates', raced)
    <3> HIDE DEF qs1, o
    <3> QED
      BY <1>2, <1>3, <2>2, TurnAwayKeeps
  <2>4. registry # 0
    <3>1. SUFFICES ASSUME registry = 0 PROVE FALSE
      OBVIOUS
    <3>2. q.items = << >>
      BY <1>2, <3>1, SettingsKeeps
    <3> QED
      BY <1>6, <3>2, FollowupConstants DEF Overflow
  <2>5. o = registry /\ q.items = queue[o].items /\ q.dropped = queue[o].dropped
        /\ q.draining = queue[o].draining
    BY <1>2, <2>4, SettingsKeeps
  <2>6. IdleQueueHasNoRunner'
    <3> HIDE DEF q, o, qs1
    <3> QED
      BY <1>1, <1>5, <2>2, <2>4, <2>5 DEF IdleQueueHasNoRunner, HasWork
  <2> QED
    BY <1>1, <1>2, <2>2, <2>3, <2>6 DEF FollowupInv, Premises, Rest0
<1>7. CASE ~(Overflow(q) > 0 /\ policy = "new")
  <2> DEFINE r == Room(q, m)
             qs2 == [queue EXCEPT ![o] = r]
  <2>1. Accept(m, o, q)
    BY <1>7 DEF EnqueueRun
  <2>2. /\ Kick(o, qs2) /\ recent' = recent \cup {m}
        /\ fates' = AcceptFates(fates, q) /\ raced' = AcceptRace(raced, q, drain[o])
    BY <2>1 DEF Accept, Room, Gone, AcceptFates, AcceptRace
  <2>3. Premises(o, qs2, drain, m, fates', raced')
    <3>1. Premises(o, [qs1 EXCEPT ![o] = Room(qs1[o], m)], drain, m,
                   AcceptFates(fates, qs1[o]), AcceptRace(raced, qs1[o], drain[o]))
      <4> HIDE DEF qs1, o
      <4> QED
        BY <1>2, <1>3, AcceptKeeps
    <3>2. [qs1 EXCEPT ![o] = r] = qs2
      BY <1>1, <1>3 DEF Typed
    <3> QED
      BY <1>5, <2>2, <3>1, <3>2
  <2>4. Sound(registry', queue', drain', m, fates', raced') /\ IdleQueueHasNoRunner'
        /\ callback' \in BOOLEAN
    <3> HIDE DEF qs2, o
    <3>1. CASE callback
      <4>1. Schedule(o, qs2, drain)
        BY <2>2, <3>1 DEF Kick
      <4>2. qs2 \in [Objects -> QueueObjects] /\ callback \in BOOLEAN /\ o \in Objects \cup {0}
        BY <1>1, <1>3, <2>3 DEF Premises, Sound, Typed, Rest0
      <4>3. Sound(registry', queue', drain', m, fates', raced')
        BY <2>3, <4>1, ScheduleKeeps
      <4> QED
        BY <4>1, <4>2, <4>3, ScheduleLeavesNoneIdle
    <3>2. CASE ~callback
      <4>1. registry' = o /\ queue' = qs2 /\ UNCHANGED << drain, callback >>
        BY <2>2, <3>2 DEF Kick
      <4> QED
        BY <1>1, <2>3, <3>2, <4>1 DEF Premises, IdleQueueHasNoRunner, Rest0
    <3> QED
      BY <3>1, <3>2
  <2> QED
    BY <1>1, <1>2, <1>4, <2>2, <2>3, <2>4 DEF FollowupInv, Premises, Rest0
<1> QED
  BY <1>6, <1>7

LEMMA RedeliverInv ==
  ASSUME FollowupInv, NEW m \in Messages, NEW mode \in Modes, NEW policy \in Policies,
         Redeliver(m, mode, policy)
  PROVE  FollowupInv'
<1> DEFINE q == WithSettings(mode, policy)
           o == Target
<1>1. /\ Premises(registry, queue, drain, arrived, fates, raced)
      /\ Typed(registry, queue, drain)
      /\ Rest0 /\ IdleQueueHasNoRunner
  BY InvParts
<1>2. /\ SomeObject /\ registry' = o /\ queue' = [queue EXCEPT ![o] = q]
      /\ UNCHANGED << drain, callback, recent, arrived, clears, failures, fates, raced >>
  BY DEF Redeliver
<1>3. o \in Objects /\ Premises(o, queue', drain, arrived, fates, raced)
  BY <1>2, SettingsKeeps
<1>4. queue'[o] = q
  BY <1>1, <1>2, <1>3 DEF Typed
<1>5. IdleQueueHasNoRunner'
  <2>1. CASE registry = 0
    <3>1. q.items = << >> /\ q.dropped = {}
      BY <1>2, <2>1, SettingsKeeps
    <3> HIDE DEF o, q
    <3> QED
      BY <1>2, <1>4, <3>1 DEF IdleQueueHasNoRunner, HasWork
  <2>2. CASE registry # 0
    <3>1. o = registry /\ q.items = queue[o].items /\ q.dropped = queue[o].dropped
          /\ q.draining = queue[o].draining
      BY <1>2, <2>2, SettingsKeeps
    <3> HIDE DEF o, q
    <3> QED
      BY <1>1, <1>2, <1>4, <2>2, <3>1 DEF IdleQueueHasNoRunner, HasWork
  <2> QED
    BY <2>1, <2>2
<1> QED
  BY <1>1, <1>2, <1>3, <1>5 DEF FollowupInv, Premises, Rest0

LEMMA FinalizeInv ==
  ASSUME FollowupInv, Finalize
  PROVE  FollowupInv'
<1>1. /\ Premises(registry, queue, drain, arrived, fates, raced)
      /\ registry \in Objects \cup {0} /\ queue \in [Objects -> QueueObjects] /\ Rest0
  BY InvParts
<1>2. Schedule(registry, queue, drain)
      /\ UNCHANGED << recent, arrived, clears, failures, fates, raced >>
  BY DEF Finalize
<1>3. Sound(registry', queue', drain', arrived, fates, raced)
  BY <1>1, <1>2, ScheduleKeeps
<1>4. IdleQueueHasNoRunner' /\ callback' \in BOOLEAN
  BY <1>1, <1>2, ScheduleLeavesNoneIdle DEF Rest0
<1> QED
  BY <1>1, <1>2, <1>3, <1>4 DEF FollowupInv, Premises, Rest0

\* clearSessionQueues; a race with a turn is on record from then on.
LEMMA ClearQueueInv ==
  ASSUME FollowupInv, Clear
  PROVE  FollowupInv'
<1> DEFINE o == registry
           q == queue[o]
           e == [q EXCEPT !.items = << >>, !.dropped = {}]
           gone == ToSet(q.items) \cup q.dropped
           qs2 == [queue EXCEPT ![o] = e]
<1>1. /\ Premises(registry, queue, drain, arrived, fates, raced)
      /\ Typed(registry, queue, drain) /\ Rest0
  BY InvParts
<1>2. /\ registry # 0 /\ clears < MaxClears /\ clears' = clears + 1
      /\ queue' = [queue EXCEPT ![o].items = << >>, ![o].dropped = {}]
      /\ registry' = 0 /\ callback' = FALSE
      /\ UNCHANGED << drain, recent, arrived, failures >>
  BY DEF Clear
<1>3. /\ fates' = [fates EXCEPT !["cleared"] = @ \cup ToSet(q.items) \cup q.dropped]
      /\ raced' = [raced EXCEPT !.clear = @ \/ q.draining]
  BY DEF Clear
<1>4. o \in Objects
  BY <1>1, <1>2 DEF Typed
<1>5. /\ q \in QueueObjects /\ ObjectSound(q, drain[o], arrived)
      /\ ToSet(q.items) = { q.items[i] : i \in 1 .. Len(q.items) }
      /\ \A i \in 1 .. Len(q.items) : q.items[i] \in Messages
  BY <1>1, <1>4, SoundObject
<1>6. queue' = qs2
  BY <1>1, <1>2, <1>4 DEF Typed, QueueObjects
<1>7. e \in QueueObjects /\ e.items = << >> /\ e.dropped = {} /\ e.draining = q.draining
  BY <1>5, NoEntries DEF QueueObjects
<1> HIDE DEF e, q, qs2
<1>8. gone \subseteq Messages /\ \A x \in gone : x <= arrived
  BY <1>5 DEF QueueObjects, ObjectSound
<1>9. Waiting(o, queue) = gone
  BY <1>2 DEF Waiting, q
<1> HIDE DEF gone
<1>10. Ledger(arrived, fates, raced) /\ Sound(registry, queue, drain, arrived, fates, raced)
  BY <1>1 DEF Premises
<1>11. fates' = [fates EXCEPT !["cleared"] = @ \cup gone]
  <2>1. fates["cleared"] \cup ToSet(q.items) \cup q.dropped = fates["cleared"] \cup gone
    BY DEF gone
  <2> QED
    BY <1>3, <2>1
<1>12. \A f \in Fates : fates'[f] = IF f = "cleared" THEN fates[f] \cup gone ELSE fates[f]
  BY <1>10, <1>11 DEF Ledger
<1>13. Ledger(arrived, fates', raced')
  <2>1. fates' \in [Fates -> SUBSET Messages]
    BY <1>8, <1>10, <1>11 DEF Ledger
  <2>2. \A f \in Fates : \A x \in fates'[f] : x <= arrived
    BY <1>8, <1>10, <1>12 DEF Ledger
  <2>3. raced' \in [overflow : BOOLEAN, clear : BOOLEAN]
    BY <1>3, <1>5, <1>10 DEF Ledger, QueueObjects
  <2> QED
    BY <1>10, <2>1, <2>2, <2>3 DEF Ledger
<1>14. raced'.overflow = raced.overflow /\ (~raced'.clear => ~raced.clear /\ ~q.draining)
  BY <1>3, <1>10 DEF Ledger
<1>15. ~raced'.clear => \A p \in Objects : ~queue[p].draining
  BY <1>1, <1>14, DrainingObject DEF q
<1>16. OneFate(0, qs2, drain, arrived, fates', raced')
  <2> SUFFICES ASSUME ~raced'.overflow, ~raced'.clear
               PROVE  OneFate(0, qs2, drain, arrived, fates', raced')
    BY DEF OneFate
  <2>1. /\ \A x \in 1 .. arrived : x \in gone \/ \E f \in Fates : x \in fates[f]
        /\ \A x \in gone, f \in Fates : x \notin fates[f]
        /\ \A f, g \in Fates : f # g => fates[f] \cap fates[g] = {}
    BY <1>9, <1>10, <1>14 DEF Sound, OneFate
  <2>2. \A x \in 1 .. arrived : \E f \in Fates : x \in fates'[f]
    BY <1>12, <2>1 DEF Fates
  <2>3. ASSUME NEW f \in Fates, NEW g \in Fates, f # g
        PROVE  fates'[f] \cap fates'[g] = {}
    <3>1. fates[f] \cap fates[g] = {} /\ gone \cap fates[f] = {} /\ gone \cap fates[g] = {}
      BY <2>1, <2>3
    <3>2. fates'[f] = fates[f] \/ (f = "cleared" /\ fates'[f] = fates[f] \cup gone)
      BY <1>12
    <3>3. fates'[g] = fates[g] \/ (g = "cleared" /\ fates'[g] = fates[g] \cup gone)
      BY <1>12
    <3> QED
      BY <2>3, <3>1, <3>2, <3>3
  <2>4. Waiting(0, qs2) = {}
    BY DEF Waiting
  <2> QED
    BY <2>2, <2>3, <2>4 DEF OneFate
<1>17. Sound(0, qs2, drain, arrived, fates', raced')
  <2>1. 0 \in {o, 0} /\ fates'["answered"] = fates["answered"] /\ e.draining = queue[o].draining
    BY <1>7, <1>12 DEF Fates, q
  <2> HIDE DEF o
  <2> QED
    BY <1>1, <1>4, <1>7, <1>15, <1>16, <2>1, EmptyKeeps DEF qs2
<1>18. clears' \in 0 .. MaxClears
  BY <1>1, <1>2, FollowupConstants DEF Rest0
<1> QED
  BY <1>1, <1>2, <1>6, <1>13, <1>17, <1>18 DEF FollowupInv, Rest0, IdleQueueHasNoRunner

\* The debounce is over: the drain ends or starts a turn, whose entries and
\* summary are those the object holds at that moment.
LEMMA DebouncedCases ==
  ASSUME FollowupInv, NEW o \in Objects, Debounced(o)
  PROVE  /\ drain[o].pc = "debounce"
         /\ UNCHANGED << recent, arrived, clears, failures, fates, raced >>
         /\ \/ Finally(o, queue)
            \/ \E d \in Drains : /\ d.pc = "turn" /\ TurnSound(queue[o], d)
                                 /\ drain' = [drain EXCEPT ![o] = d]
                                 /\ UNCHANGED << registry, queue, callback >>
<1> DEFINE q == queue[o]
           Turn(batch, carrier, take, summary, force) ==
             [ pc |-> "turn", batch |-> batch, carrier |-> carrier, take |-> take,
               summary |-> summary, force |-> force ]
<1>1. /\ q \in QueueObjects /\ q.items \in Seq(Messages) /\ Len(q.items) \in 0 .. Cap
      /\ \A i \in 1 .. Len(q.items) : q.items[i] \in Messages
      /\ ToSet(q.items) = { q.items[i] : i \in 1 .. Len(q.items) }
  <2>1. Premises(registry, queue, drain, arrived, fates, raced)
    BY InvParts
  <2>2. q \in QueueObjects /\ \A i \in 1 .. Len(q.items) : q.items[i] \in Messages
    BY <2>1, SoundObject
  <2>3. q.items \in Seq(Messages) /\ Len(q.items) \in 0 .. Cap
    BY <2>2, OverflowBounds
  <2> QED
    BY <2>2, <2>3, SeqMembers
<1>2. drain[o].force \in BOOLEAN /\ q.dropped \subseteq Messages
  BY <1>1, InvParts DEF Drains, QueueObjects
<1>3. 0 \notin Messages
  BY DEF Messages
<1>4. drain[o].pc = "debounce" /\ (Collect(o) \/ OneByOne(o))
      /\ UNCHANGED << recent, arrived, clears, failures, fates, raced >>
  BY DEF Debounced
<1>5. q.items # << >> => Head(q.items) = q.items[1] /\ 1 \in 1 .. Len(q.items)
  BY <1>1
<1> HIDE DEF q
\* The turn of one entry, with it in the prompt or as the carrier of a summary.
<1>6. ASSUME q.items # << >>, NEW force \in BOOLEAN
      PROVE  /\ Turn({Head(q.items)}, 0, 1, {}, force) \in Drains
             /\ TurnSound(q, Turn({Head(q.items)}, 0, 1, {}, force))
             /\ Turn({}, Head(q.items), 1, q.dropped, force) \in Drains
             /\ TurnSound(q, Turn({}, Head(q.items), 1, q.dropped, force))
  <2>1. Head(q.items) = q.items[1] /\ Head(q.items) \in Messages /\ 1 <= Len(q.items)
    BY <1>1, <1>5, <1>6
  <2>2. 1 \in 0 .. Cap /\ \A i \in 1 .. 1 : i = 1
    BY FollowupConstants
  <2>3. Turn({Head(q.items)}, 0, 1, {}, force) \in Drains
    BY <2>1, <2>2 DEF Drains
  <2>4. Turn({}, Head(q.items), 1, q.dropped, force) \in Drains
    BY <1>2, <2>1, <2>2 DEF Drains, q
  <2>5. TurnSound(q, Turn({Head(q.items)}, 0, 1, {}, force))
    BY <1>3, <2>1, <2>2 DEF TurnSound
  <2>6. TurnSound(q, Turn({}, Head(q.items), 1, q.dropped, force))
    BY <2>1, <2>2 DEF TurnSound
  <2> QED
    BY <2>3, <2>4, <2>5, <2>6
\* The turn of all entries.
<1>7. ASSUME NEW summary \in {{}, q.dropped}
      PROVE  /\ Turn(ToSet(q.items), 0, Len(q.items), summary, FALSE) \in Drains
             /\ TurnSound(q, Turn(ToSet(q.items), 0, Len(q.items), summary, FALSE))
  <2>1. ToSet(q.items) \subseteq Messages /\ summary \subseteq Messages
    BY <1>1, <1>2 DEF q
  <2>2. Turn(ToSet(q.items), 0, Len(q.items), summary, FALSE) \in Drains
    BY <1>1, <2>1 DEF Drains
  <2>3. TurnSound(q, Turn(ToSet(q.items), 0, Len(q.items), summary, FALSE))
    BY <1>1, <1>3 DEF TurnSound
  <2> QED
    BY <2>2, <2>3
<1>8. CASE Collect(o)
  <2>1. CASE ~HasWork(q) \/ (Individually(o) /\ q.items = << >>)
    BY <1>4, <1>8, <2>1 DEF Collect, q
  <2>2. CASE HasWork(q) /\ Individually(o) /\ q.items # << >>
    <3>1. StartTurn(o, {Head(q.items)}, 0, 1, {}, TRUE)
      BY <1>8, <2>2 DEF Collect, q
    <3>2. /\ drain' = [drain EXCEPT ![o] = Turn({Head(q.items)}, 0, 1, {}, TRUE)]
          /\ UNCHANGED << registry, queue, callback >>
      BY <3>1 DEF StartTurn
    <3>3. Turn({Head(q.items)}, 0, 1, {}, TRUE) \in Drains
          /\ TurnSound(q, Turn({Head(q.items)}, 0, 1, {}, TRUE))
      BY <1>6, <2>2
    <3> QED
      BY <1>4, <3>2, <3>3 DEF q
  <2>3. CASE HasWork(q) /\ ~Individually(o)
    <3> DEFINE s == IF HasSummary(q) THEN q.dropped ELSE {}
               t == Turn(ToSet(q.items), 0, Len(q.items), s, FALSE)
    <3>1. StartTurn(o, ToSet(q.items), 0, Len(q.items), s, FALSE)
      BY <1>8, <2>3 DEF Collect, q
    <3>2. drain' = [drain EXCEPT ![o] = t] /\ UNCHANGED << registry, queue, callback >>
      BY <3>1 DEF StartTurn
    <3>3. s \in {{}, q.dropped}
      OBVIOUS
    <3> HIDE DEF s
    <3>4. t \in Drains /\ TurnSound(q, t)
      BY <1>7, <3>3
    <3>5. t.pc = "turn"
      OBVIOUS
    <3> HIDE DEF t
    <3> QED
      BY <1>4, <3>2, <3>4, <3>5 DEF q
  <2> QED
    BY <2>1, <2>2, <2>3
<1>9. CASE OneByOne(o)
  <2>1. CASE q.items = << >>
    BY <1>4, <1>9, <2>1 DEF OneByOne, q
  <2>2. CASE q.items # << >> /\ HasSummary(q)
    <3> DEFINE t == Turn({}, Head(q.items), 1, q.dropped, drain[o].force)
    <3>1. drain' = [drain EXCEPT ![o] = t] /\ UNCHANGED << registry, queue, callback >>
      BY <1>9, <2>2 DEF OneByOne, StartTurn, q
    <3>2. t \in Drains /\ TurnSound(q, t) /\ t.pc = "turn"
      BY <1>2, <1>6, <2>2
    <3> HIDE DEF t
    <3> QED
      BY <1>4, <3>1, <3>2 DEF q
  <2>3. CASE q.items # << >> /\ ~HasSummary(q)
    <3> DEFINE t == Turn({Head(q.items)}, 0, 1, {}, drain[o].force)
    <3>1. drain' = [drain EXCEPT ![o] = t] /\ UNCHANGED << registry, queue, callback >>
      BY <1>9, <2>3 DEF OneByOne, StartTurn, q
    <3>2. t \in Drains /\ TurnSound(q, t) /\ t.pc = "turn"
      BY <1>2, <1>6, <2>3
    <3> HIDE DEF t
    <3> QED
      BY <1>4, <3>1, <3>2 DEF q
  <2> QED
    BY <2>1, <2>2, <2>3
<1> QED
  BY <1>4, <1>8, <1>9

\* The finally block of a drain whose object is as the last step left it.
LEMMA EndInv ==
  ASSUME FollowupInv, NEW o \in Objects, drain[o].pc # "idle", Finally(o, queue),
         UNCHANGED << recent, arrived, clears, fates, raced >>, failures' \in 0 .. MaxFailures
  PROVE  FollowupInv'
<1>1. /\ Premises(registry, queue, drain, arrived, fates, raced)
      /\ drain \in [Objects -> Drains] /\ registry \in Objects \cup {0}
      /\ queue \in [Objects -> QueueObjects] /\ Rest0
  BY InvParts
<1>2. [drain EXCEPT ![o] = drain[o]] = drain
  BY <1>1
<1>3. Sound(registry', queue', drain', arrived, fates, raced)
  BY <1>1, <1>2, FinallyKeeps
<1>4. IdleQueueHasNoRunner' /\ callback' \in BOOLEAN
  BY <1>1, FinallyLeavesNoneIdle DEF Rest0
<1> QED
  BY <1>1, <1>3, <1>4 DEF FollowupInv, Premises, Rest0

LEMMA DebouncedInv ==
  ASSUME FollowupInv, NEW o \in Objects, Debounced(o)
  PROVE  FollowupInv'
<1>1. /\ Premises(registry, queue, drain, arrived, fates, raced)
      /\ Rest0 /\ IdleQueueHasNoRunner
  BY InvParts
<1>2. drain[o].pc = "debounce" /\ UNCHANGED << recent, arrived, clears, failures, fates, raced >>
  BY DebouncedCases
<1>3. CASE Finally(o, queue)
  BY <1>1, <1>2, <1>3, EndInv DEF Rest0
<1>4. CASE \E d \in Drains : /\ d.pc = "turn" /\ TurnSound(queue[o], d)
                             /\ drain' = [drain EXCEPT ![o] = d]
                             /\ UNCHANGED << registry, queue, callback >>
  <2>1. PICK d \in Drains : /\ d.pc = "turn" /\ TurnSound(queue[o], d)
                            /\ drain' = [drain EXCEPT ![o] = d]
                            /\ UNCHANGED << registry, queue, callback >>
    BY <1>4
  <2>2. Sound(registry, queue, drain', arrived, fates, raced)
    BY <1>1, <1>2, <2>1, StartTurnKeeps
  <2>3. IdleQueueHasNoRunner'
    BY <1>1, <2>1 DEF IdleQueueHasNoRunner
  <2> QED
    BY <1>1, <1>2, <2>1, <2>2, <2>3 DEF FollowupInv, Premises, Rest0
<1> QED
  BY <1>3, <1>4, DebouncedCases

LEMMA TurnCompletesInv ==
  ASSUME FollowupInv, NEW o \in Objects, TurnCompletes(o)
  PROVE  FollowupInv'
<1> DEFINE q == queue[o]
           d == drain[o]
           qs2 == [queue EXCEPT ![o] = Rest(q, d)]
           d2 == [NoDrain EXCEPT !.pc = "debounce", !.force = d.force]
<1>1. /\ Premises(registry, queue, drain, arrived, fates, raced)
      /\ drain \in [Objects -> Drains] /\ registry \in Objects \cup {0}
      /\ queue \in [Objects -> QueueObjects] /\ Rest0 /\ IdleQueueHasNoRunner
  BY InvParts
<1>2. /\ d.pc = "turn" /\ fates' = TurnFates(fates, d) /\ NextRound(o, qs2)
      /\ UNCHANGED << recent, arrived, clears, failures, raced >>
  BY DEF TurnCompletes, TurnFates, Rest
<1>3. d2 \in Drains /\ d2.pc = "debounce" /\ Fresh(d2)
  <2>1. d.force \in BOOLEAN
    BY <1>1 DEF Drains
  <2>2. d2 \in Drains
    BY <2>1, FreshDrains
  <2> QED
    BY <2>2 DEF NoDrain, Fresh, Prompt
<1>4. q \in QueueObjects /\ q.draining /\ d \in Drains
  <2>1. q.draining
    BY <1>1, <1>2, DrainingObject
  <2> QED
    BY <1>1, <2>1
<1>5. Rest(q, d) \in QueueObjects /\ Rest(q, d).draining = q.draining
  BY <1>4, RestEntries
<1>6. qs2 \in [Objects -> QueueObjects] /\ qs2[o].draining
      /\ \A p \in Objects : p # o => qs2[p] = queue[p]
  BY <1>1, <1>4, <1>5
<1>7. Premises(registry, qs2, [drain EXCEPT ![o] = d2], arrived, fates', raced)
  <2> HIDE DEF d2
  <2> QED
    BY <1>1, <1>2, <1>3, TakenKeeps
<1>8. Sound(registry', queue', drain', arrived, fates', raced)
  <2>1. d2 = [NoDrain EXCEPT !.pc = "debounce", !.force = drain[o].force]
    OBVIOUS
  <2> HIDE DEF qs2, d2
  <2> QED
    BY <1>1, <1>2, <1>7, <2>1, NextRoundKeeps
<1>9. IdleQueueHasNoRunner' /\ callback' \in BOOLEAN
  <2> HIDE DEF qs2
  <2> QED
    BY <1>1, <1>2, <1>6, NextRoundLeavesNoneIdle DEF Rest0
<1> QED
  BY <1>1, <1>2, <1>7, <1>8, <1>9 DEF FollowupInv, Premises, Rest0

LEMMA TurnThrowsInv ==
  ASSUME FollowupInv, NEW o \in Objects, TurnThrows(o)
  PROVE  FollowupInv'
<1>1. /\ drain[o].pc = "turn" /\ failures < MaxFailures /\ failures' = failures + 1
      /\ Finally(o, queue) /\ UNCHANGED << recent, arrived, clears, fates, raced >>
  BY DEF TurnThrows
<1>2. failures' \in 0 .. MaxFailures
  BY <1>1, FollowupConstants DEF FollowupInv
<1> QED
  BY <1>1, <1>2, EndInv

LEMMA FollowupNextInv == FollowupInv /\ [FollowupNext]_followupVars => FollowupInv'
<1> SUFFICES ASSUME FollowupInv, [FollowupNext]_followupVars
             PROVE  FollowupInv'
  OBVIOUS
<1>1. ASSUME NEW mode \in Modes, NEW policy \in Policies, EnqueueRun(mode, policy)
      PROVE  FollowupInv'
  BY <1>1, EnqueueRunInv
<1>2. ASSUME NEW m \in Messages, NEW mode \in Modes, NEW policy \in Policies,
             Redeliver(m, mode, policy)
      PROVE  FollowupInv'
  BY <1>2, RedeliverInv
<1>3. CASE Finalize
  BY <1>3, FinalizeInv
<1>4. CASE Clear
  BY <1>4, ClearQueueInv
<1>5. ASSUME NEW o \in Objects, Debounced(o)
      PROVE  FollowupInv'
  BY <1>5, DebouncedInv
<1>6. ASSUME NEW o \in Objects, TurnCompletes(o)
      PROVE  FollowupInv'
  BY <1>6, TurnCompletesInv
<1>7. ASSUME NEW o \in Objects, TurnThrows(o)
      PROVE  FollowupInv'
  BY <1>7, TurnThrowsInv
<1>8. CASE UNCHANGED followupVars
  BY <1>8 DEF followupVars, FollowupInv, IdleQueueHasNoRunner, HasWork
<1> QED
  BY <1>1, <1>2, <1>3, <1>4, <1>5, <1>6, <1>7, <1>8 DEF FollowupNext

\* FollowupInv holds in every reachable state.
LEMMA FollowupInvariance == FollowupSpec => []FollowupInv
<1>1. FollowupInit => FollowupInv
  BY FollowupInitInv
<1>2. FollowupInv /\ [FollowupNext]_followupVars => FollowupInv'
  BY FollowupNextInv
<1> QED
  BY <1>1, <1>2, PTL DEF FollowupSpec

-----------------------------------------------------------------------------
\* The properties.

\* Every variable has its type, for every capacity, policy and number of
\* objects: applyQueueDropPolicy makes room before a push, so that no sequence
\* of arrivals, drains and clears fills an object beyond its cap.
THEOREM FollowupTypeCorrect == FollowupSpec => []FollowupTypeOK
<1>1. FollowupInv => FollowupTypeOK
  BY DEF FollowupInv, Ledger, Sound, Typed, QueueObjects, Drains, FollowupTypeOK
<1> QED
  BY <1>1, FollowupInvariance, PTL

\* enqueueFollowupRun, finalizeWithFollowup, the drain's finally block and
\* clearSessionQueues, in any order, never leave a registered queue with work
\* idle beside a known callback.
THEOREM NoIdleQueue == FollowupSpec => []IdleQueueHasNoRunner
<1>1. FollowupInv => IdleQueueHasNoRunner
  BY DEF FollowupInv
<1> QED
  BY <1>1, FollowupInvariance, PTL

\* Unless an overflow or a clear meets a running turn, every message that has
\* arrived waits in one live queue or has come to exactly one end.
THEOREM OneFatePerMessage == FollowupSpec => []OneFateUnlessRaced
<1>1. FollowupInv => OneFateUnlessRaced
  <2> SUFFICES ASSUME FollowupInv, ~raced.overflow, ~raced.clear
               PROVE  /\ 1 .. arrived \subseteq Pending \cup Settled
                      /\ Pending \cap Settled = {}
                      /\ \A f, g \in Fates : f # g => fates[f] \cap fates[g] = {}
    BY DEF OneFateUnlessRaced
  <2>1. /\ Premises(registry, queue, drain, arrived, fates, raced)
        /\ registry \in Objects \cup {0}
    BY InvParts
  <2>2. /\ \A m \in 1 .. arrived : m \in Waiting(registry, queue) \/ \E f \in Fates : m \in fates[f]
        /\ \A m \in Waiting(registry, queue), f \in Fates : m \notin fates[f]
        /\ \A f, g \in Fates : f # g => fates[f] \cap fates[g] = {}
    BY <2>1 DEF Premises, Sound, OneFate
  <2>3. Pending = Waiting(registry, queue)
    <3>1. \A o \in Objects : Live(o) <=> registry = o
      BY <2>1, DrainingObject DEF Live
    <3>2. CASE registry = 0
      BY <3>1, <3>2, ZeroIsNoObject DEF Pending, Waiting
    <3>3. CASE registry # 0
      <4>1. { x \in Objects : Live(x) } = {registry}
        BY <2>1, <3>1, <3>3
      <4> QED
        BY <3>3, <4>1 DEF Pending, Waiting
    <3> QED
      BY <3>2, <3>3
  <2> QED
    BY <2>2, <2>3 DEF Settled
<1> QED
  BY <1>1, FollowupInvariance, PTL

-----------------------------------------------------------------------------
\* Turns.

\* Schedule, Finally and NextRound start debounces, not turns.
LEMMA NoTurnStarts ==
  ASSUME NEW reg \in Objects \cup {0}, NEW qs, NEW ds \in [Objects -> Drains],
         Schedule(reg, qs, ds), NEW p \in Objects, drain'[p].pc = "turn"
  PROVE  ds[p].pc = "turn"
<1>1. drain' = ds \/ (reg # 0 /\ drain' = [ds EXCEPT ![reg] = [NoDrain EXCEPT !.pc = "debounce"]])
  BY DEF Schedule
<1>2. [NoDrain EXCEPT !.pc = "debounce"].pc = "debounce"
  BY DEF NoDrain
<1>3. CASE drain' = ds
  BY <1>3
<1>4. CASE reg # 0 /\ drain' = [ds EXCEPT ![reg] = [NoDrain EXCEPT !.pc = "debounce"]]
  <2>1. CASE p = reg
    BY <1>2, <1>4, <2>1
  <2>2. CASE p # reg
    BY <1>4, <2>2
  <2> QED
    BY <2>1, <2>2
<1> QED
  BY <1>1, <1>3, <1>4

LEMMA FinallyStartsNoTurn ==
  ASSUME FollowupInv, NEW o \in Objects, NEW qs, Finally(o, qs), NEW p \in Objects, drain'[p].pc = "turn"
  PROVE  drain[p].pc = "turn"
<1> DEFINE ds == [drain EXCEPT ![o] = NoDrain]
<1>1. drain \in [Objects -> Drains] /\ registry \in Objects \cup {0}
  BY InvParts
<1>2. ds \in [Objects -> Drains]
  BY <1>1, FreshDrains
<1>3. ds[p].pc = "turn" => drain[p].pc = "turn"
  BY <1>1 DEF NoDrain
<1>4. CASE HasWork(qs[o])
  <2>1. Schedule(registry, [qs EXCEPT ![o].draining = FALSE], ds)
    BY <1>4 DEF Finally
  <2> HIDE DEF ds
  <2>2. ds[p].pc = "turn"
    BY <1>1, <1>2, <2>1, NoTurnStarts
  <2> QED
    BY <1>3, <2>2
<1>5. CASE ~HasWork(qs[o])
  <2>1. drain' = ds
    BY <1>5 DEF Finally
  <2>2. ds[p].pc = "turn"
    BY <2>1
  <2> QED
    BY <1>3, <2>2
<1> QED
  BY <1>4, <1>5

LEMMA NextRoundStartsNoTurn ==
  ASSUME FollowupInv, NEW o \in Objects, NEW qs, NextRound(o, qs), NEW p \in Objects, drain'[p].pc = "turn"
  PROVE  drain[p].pc = "turn"
<1>1. CASE HasWork(qs[o])
  <2>1. drain' = [drain EXCEPT ![o] = [NoDrain EXCEPT !.pc = "debounce", !.force = drain[o].force]]
    BY <1>1 DEF NextRound
  <2>2. drain \in [Objects -> Drains]
    BY InvParts
  <2> QED
    BY <2>1, <2>2 DEF NoDrain
<1>2. CASE ~HasWork(qs[o])
  <2>1. Finally(o, qs)
    BY <1>2 DEF NextRound
  <2> QED
    BY <2>1, FinallyStartsNoTurn
<1> QED
  BY <1>1, <1>2

\* Only the end of a debounce starts a turn.
LEMMA OnlyDebouncedStartsTurns ==
  ASSUME FollowupInv, [FollowupNext]_followupVars, NEW p \in Objects, drain[p].pc # "turn", drain'[p].pc = "turn"
  PROVE  Debounced(p) /\ ~Finally(p, queue)
<1>1. /\ drain \in [Objects -> Drains] /\ registry \in Objects \cup {0}
      /\ Premises(registry, queue, drain, arrived, fates, raced)
  BY InvParts
<1>2. ASSUME NEW mode \in Modes, NEW policy \in Policies, EnqueueRun(mode, policy)
      PROVE  FALSE
  <2>1. Target \in Objects
    BY <1>2, SettingsKeeps DEF EnqueueRun
  <2>2. drain' = drain \/ \E qs : Schedule(Target, qs, drain)
    BY <1>2 DEF EnqueueRun, TurnAway, Accept, Kick
  <2> QED
    BY <1>1, <2>1, <2>2, NoTurnStarts
<1>3. ASSUME NEW m \in Messages, NEW mode \in Modes, NEW policy \in Policies,
             Redeliver(m, mode, policy)
      PROVE  FALSE
  BY <1>3 DEF Redeliver
<1>4. CASE Finalize
  BY <1>1, <1>4, NoTurnStarts DEF Finalize
<1>5. CASE Clear
  BY <1>5 DEF Clear
<1>6. ASSUME NEW o \in Objects, Debounced(o)
      PROVE  Debounced(p) /\ ~Finally(p, queue)
  <2>1. ~Finally(o, queue)
    BY FinallyStartsNoTurn
  <2>2. \E d \in Drains : drain' = [drain EXCEPT ![o] = d]
    BY <1>6, <2>1, DebouncedCases
  <2>3. p = o
    BY <1>1, <2>2
  <2> QED
    BY <1>6, <2>1, <2>3
<1>7. ASSUME NEW o \in Objects, TurnCompletes(o)
      PROVE  FALSE
  BY <1>7, NextRoundStartsNoTurn DEF TurnCompletes
<1>8. ASSUME NEW o \in Objects, TurnThrows(o)
      PROVE  FALSE
  BY <1>8, FinallyStartsNoTurn DEF TurnThrows
<1>9. CASE UNCHANGED followupVars
  BY <1>9 DEF followupVars
<1> QED
  BY <1>2, <1>3, <1>4, <1>5, <1>6, <1>7, <1>8, <1>9 DEF FollowupNext

\* runFollowupTurn is never handed a message again that a completed turn
\* answered, whatever was cleared, dropped or delivered twice in between; and
\* but for a clear in mid-drain, turns follow the order of arrival.
THEOREM TurnsInArrivalOrder == FollowupSpec => TurnsFollowArrival
<1>1. ASSUME FollowupInv, [FollowupNext]_followupVars, NEW o \in Objects, drain[o].pc # "turn", drain'[o].pc = "turn"
      PROVE  /\ drain'[o].batch \cap fates["answered"] = {}
             /\ ~raced.clear => \A m \in drain'[o].batch, n \in fates["answered"] : n < m
  <2>1. Debounced(o) /\ ~Finally(o, queue)
    BY <1>1, OnlyDebouncedStartsTurns
  <2>2. drain[o].pc = "debounce"
        /\ \E d \in Drains : /\ d.pc = "turn" /\ TurnSound(queue[o], d)
                             /\ drain' = [drain EXCEPT ![o] = d]
    BY <1>1, <2>1, DebouncedCases
  <2>3. PICK d \in Drains : /\ d.pc = "turn" /\ TurnSound(queue[o], d)
                            /\ drain' = [drain EXCEPT ![o] = d]
    BY <2>2
  <2>4. Premises(registry, queue, drain, arrived, fates, raced) /\ drain \in [Objects -> Drains]
    BY <1>1, InvParts
  <2>5. drain'[o] = d
    BY <2>3, <2>4
  <2>6. d.batch \cap fates["answered"] = {}
    BY <2>2, <2>3, <2>4, StartTurnKeeps
  <2>7. ~raced.clear => \A m \in d.batch, n \in fates["answered"] : n < m
    BY <2>2, <2>3, <2>4, StartTurnKeeps
  <2> QED
    BY <2>5, <2>6, <2>7
<1>2. FollowupInv /\ [FollowupNext]_followupVars =>
        [\A o \in Objects :
           drain[o].pc # "turn" /\ drain'[o].pc = "turn" =>
             /\ drain'[o].batch \cap fates["answered"] = {}
             /\ ~raced.clear => \A m \in drain'[o].batch, n \in fates["answered"] : n < m]_followupVars
  BY <1>1
<1> QED
  BY <1>2, FollowupInvariance, PTL DEF FollowupSpec, TurnsFollowArrival
=============================================================================
