---------------------------- MODULE ReplyOutbox ----------------------------
(***************************************************************************)
(* What a reply dispatcher promises the turn that uses it and the restart  *)
(* that waits for it, without promise chains or counters: replies settle   *)
(* (are delivered, or fail) one by one in the order they were accepted,    *)
(* and "idle" is said once, when the turn has closed the outbox and every  *)
(* reply has settled.  ReplyDispatcher is shown to implement this.         *)
(***************************************************************************)
EXTENDS Integers

VARIABLES
  last,    \* replies accepted; they are numbered from 1
  open,    \* those not settled yet
  closed,  \* the turn has said that no more will come
  idle     \* idle has been said

outboxVars == << last, open, closed, idle >>

OutboxInit == last = 0 /\ open = {} /\ closed = FALSE /\ idle = FALSE

\* A closed outbox still takes replies until it is idle.
Accept ==
  /\ ~idle
  /\ last' = last + 1 /\ open' = open \cup {last + 1}
  /\ UNCHANGED << closed, idle >>

SettleFirst ==
  /\ \E r \in open : (\A q \in open : r <= q) /\ open' = open \ {r}
  /\ idle' = (closed /\ open' = {})
  /\ UNCHANGED << last, closed >>

Close == ~closed /\ closed' = TRUE /\ UNCHANGED << last, open, idle >>

SayIdle ==
  /\ closed /\ open = {} /\ ~idle
  /\ idle' = TRUE
  /\ UNCHANGED << last, open, closed >>

OutboxNext == Accept \/ SettleFirst \/ Close \/ SayIdle

\* Every accepted reply settles, and a closed outbox becomes idle.
OutboxSpec ==
  /\ OutboxInit /\ [][OutboxNext]_outboxVars
  /\ WF_outboxVars(SettleFirst) /\ WF_outboxVars(SayIdle)
=============================================================================
