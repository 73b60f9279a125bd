-------------------------- MODULE ReplyDispatcher --------------------------
(***************************************************************************)
(* The reply dispatcher of one inbound turn (reply-dispatcher.ts), its     *)
(* entry in the registry that restarts consult (dispatcher-registry.ts)    *)
(* and the turn that drives it (withReplyDispatcher of dispatch.ts).       *)
(*                                                                         *)
(* sendChain is a chain of promises: the delivery of a reply begins when   *)
(* that of the reply before it has settled.  pending counts the replies in *)
(* flight and a reservation for the turn.  Tool, block and final replies   *)
(* go through one enqueue and differ in a delay before the delivery only;  *)
(* a reply that normalisation drops changes nothing.                       *)
(***************************************************************************)
EXTENDS Integers, FiniteSets

CONSTANT NumReplies  \* bound: replies of the turn

ASSUME RepliesAssumption == NumReplies \in Nat

VARIABLES
  accepted,       \* replies that enqueue has taken; they are numbered from 1
  delivering,     \* those whose deliver() has been called and has not settled
  done,           \* those whose deliver() has settled, one way or the other
  pending,        \* pending
  completeCalled, \* completeCalled
  clearing,       \* the microtask of markComplete has not run yet
  registered,     \* the dispatcher is in activeDispatchers
  turn,           \* withReplyDispatcher: the run goes on, its end waits for the
                  \* chain, the dispatch has returned
  awaited,        \* the replies of the chain it waits for
  idles,          \* history: calls of onIdle
  late            \* history: replies taken after the first of them

flight == << accepted, delivering, done >>
tracking == << pending, registered, idles >>
ending == << completeCalled, clearing, turn, awaited >>
replyVars == << flight, tracking, ending, late >>

Replies == 1 .. NumReplies

ReplyTypeOK ==
  /\ accepted \in 0 .. NumReplies /\ late \in 0 .. accepted
  /\ done \subseteq 1 .. accepted /\ delivering \subseteq 1 .. accepted
  /\ done \cap delivering = {}
  /\ pending \in Int /\ (late = 0 => pending >= 0)
  /\ {completeCalled, clearing, registered} \subseteq BOOLEAN
  /\ turn \in {"running", "waiting", "over"} /\ awaited \in 0 .. accepted
  /\ idles \in Nat

ReplyInit ==
  /\ accepted = 0 /\ delivering = {} /\ done = {}
  /\ pending = 1 /\ registered = TRUE /\ idles = 0
  /\ completeCalled = FALSE /\ clearing = FALSE /\ turn = "running" /\ awaited = 0
  /\ late = 0

-----------------------------------------------------------------------------
\* pending takes a new value; at zero the dispatcher unregisters and says idle.
SetPending(n) ==
  /\ pending' = n
  /\ IF n = 0
     THEN registered' = FALSE /\ idles' = idles + 1
     ELSE UNCHANGED << registered, idles >>

\* A reply may come at any time: a block reply whose delivery to the dispatcher
\* timed out in the block pipeline arrives when the run may be long over.
Enqueue ==
  /\ accepted < NumReplies
  /\ accepted' = accepted + 1 /\ pending' = pending + 1
  /\ late' = IF idles > 0 THEN late + 1 ELSE late
  /\ UNCHANGED << delivering, done, registered, idles, ending >>

\* Faulty variant: deliveries are not chained.
DeliverAtOnce(r) ==
  /\ r \in 1 .. accepted \ (delivering \cup done)
  /\ delivering' = delivering \cup {r}
  /\ UNCHANGED << accepted, done, tracking, ending, late >>

\* The chain reaches reply r.
Deliver(r) ==
  /\ r \in 1 .. accepted \ (delivering \cup done)
  /\ 1 .. r - 1 \subseteq done
  /\ delivering' = delivering \cup {r}
  /\ UNCHANGED << accepted, done, tracking, ending, late >>

\* Its deliver() resolves or rejects; the finally of the link counts it off, and
\* the reservation with it when it is all that is left of a completed turn.
Settle(r) ==
  /\ r \in delivering
  /\ delivering' = delivering \ {r} /\ done' = done \cup {r}
  /\ SetPending(IF pending = 2 /\ completeCalled THEN 0 ELSE pending - 1)
  /\ UNCHANGED << accepted, ending, late >>

\* Faulty variant: the reservation is cleared whatever is in flight.
ClearReservationAlways ==
  /\ clearing /\ clearing' = FALSE
  /\ SetPending(pending - 1)
  /\ UNCHANGED << flight, completeCalled, turn, awaited, late >>

\* The microtask of markComplete.
ClearReservation ==
  /\ clearing /\ clearing' = FALSE
  /\ IF pending = 1 THEN SetPending(0) ELSE UNCHANGED tracking
  /\ UNCHANGED << flight, completeCalled, turn, awaited, late >>

\* The run returns or throws: markComplete, then waitForIdle takes the chain as
\* it is now.
RunEnds ==
  /\ turn = "running" /\ turn' = "waiting"
  /\ completeCalled' = TRUE /\ clearing' = TRUE /\ awaited' = accepted
  /\ UNCHANGED << flight, tracking, late >>

DispatchReturns ==
  /\ turn = "waiting" /\ 1 .. awaited \subseteq done
  /\ turn' = "over"
  /\ UNCHANGED << flight, tracking, completeCalled, clearing, awaited, late >>

ReplyNext ==
  \/ Enqueue
  \/ \E r \in Replies : Deliver(r) \/ Settle(r)
  \/ ClearReservation \/ RunEnds \/ DispatchReturns

ReplySpec == ReplyInit /\ [][ReplyNext]_replyVars

\* Promise callbacks run, and a channel's deliver() settles.
ReplyFairSpec ==
  /\ ReplySpec
  /\ \A r \in Replies : WF_replyVars(Deliver(r)) /\ WF_replyVars(Settle(r))
  /\ WF_replyVars(ClearReservation) /\ WF_replyVars(DispatchReturns)

-----------------------------------------------------------------------------
(* What the dispatcher promises.                                           *)

\* Up to the idle signal a restart that asks the registry is told one for every
\* reply not settled and one for a turn not known to be complete; after it, none.
\* A reply taken after the signal puts an end to that: pending then lacks the
\* reservation that its accounting relies on.
CountsEveryReply ==
  late = 0 =>
    /\ registered <=> idles = 0
    /\ pending = accepted - Cardinality(done) + (IF idles = 0 THEN 1 ELSE 0)

\* The outbox is what was accepted up to the idle signal.
Outbox == INSTANCE ReplyOutbox WITH
  last <- accepted - late,
  open <- 1 .. accepted - late \ done,
  closed <- completeCalled,
  idle <- idles > 0

\* The dispatcher is an outbox: replies settle in the order they were accepted,
\* idle is said when the turn is complete and all of them have settled, and it
\* is said at last.
ImplementsOutbox == Outbox!OutboxSpec
=============================================================================
