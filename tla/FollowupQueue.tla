--------------------------- MODULE FollowupQueue ---------------------------
(***************************************************************************)
(* The followup queue of one session key: messages that arrive while the   *)
(* agent is busy wait here and are handed to it in later turns             *)
(* (auto-reply/reply/queue/*.ts, utils/queue-helpers.ts).                  *)
(*                                                                         *)
(* FOLLOWUP_QUEUES maps the key to a queue object.  A drain is an async    *)
(* loop that holds on to the object it started with, while the registry    *)
(* may lose that object or get another one.  So objects have an identity   *)
(* here.  Between two awaits of the drain anything else may happen.        *)
(*                                                                         *)
(* Every message carries a message id.  Message k is the k-th to arrive.   *)
(***************************************************************************)
EXTENDS Integers, Sequences, FiniteSets, SequencesExt

CONSTANTS
  NumMessages,  \* bound: messages that ever arrive
  TargetOf,     \* the origin each of them is answered at, if any: a value for "none" too
  Unroutable,   \* origins with routing metadata that replies cannot be routed to
  Modes,        \* queue modes in use: "collect", or any other one
  Policies,     \* overflow policies in use: "summarize", "old", "new"
  Cap,          \* settings.cap
  MaxObjects,   \* bound: queue objects alive at a time
  MaxClears,    \* bound: calls of clearSessionQueues
  MaxFailures   \* bound: turns that throw

Messages == 1 .. NumMessages
Objects == 1 .. MaxObjects

ASSUME FollowupConstants ==
  /\ NumMessages \in Nat /\ MaxObjects \in Nat
  /\ MaxClears \in Nat /\ MaxFailures \in Nat
  /\ Cap \in Nat \ {0}
  /\ Modes # {} /\ Policies # {}

VARIABLES
  registry,   \* the object FOLLOWUP_QUEUES holds for the key, 0 for none
  queue,      \* the objects
  drain,      \* the drain loop of each object
  callback,   \* whether FOLLOWUP_RUN_CALLBACKS has the key
  recent,     \* RECENT_QUEUE_MESSAGE_IDS
  arrived,    \* messages that have arrived so far
  clears, failures,
  fates,      \* history: what became of messages
  raced       \* history: an overflow, or a clear, hit an object whose turn ran

followupVars == << registry, queue, drain, callback, recent, arrived, clears, failures, fates, raced >>

Fates ==
  { "answered",    \* its prompt was part of a turn that completed
    "reported",    \* counted in the overflow summary of such a turn
    "consumed",    \* its place in the queue was used up by a summary turn
    "discarded",   \* dropped under policy "old", or refused under "new"
    "cleared" }    \* removed by clearSessionQueues

FollowupTypeOK ==
  /\ registry \in Objects \cup {0}
  /\ queue \in [Objects -> [ items : BoundedSeq(Messages, Cap), draining : BOOLEAN,
                             dropped : SUBSET Messages,
                             mode : Modes, policy : Policies ]]
  /\ drain \in [Objects -> [ pc : {"idle", "debounce", "turn"}, batch : SUBSET Messages,
                             carrier : Messages \cup {0}, take : 0 .. Cap,
                             summary : SUBSET Messages, force : BOOLEAN ]]
  /\ callback \in BOOLEAN
  /\ recent \subseteq Messages
  /\ arrived \in 0 .. NumMessages /\ clears \in 0 .. MaxClears /\ failures \in 0 .. MaxFailures
  /\ fates \in [Fates -> SUBSET Messages]
  /\ raced \in [overflow : BOOLEAN, clear : BOOLEAN]

NewQueue(mode, policy) ==
  [items |-> << >>, draining |-> FALSE, dropped |-> {}, mode |-> mode, policy |-> policy]

NoDrain ==
  [pc |-> "idle", batch |-> {}, carrier |-> 0, take |-> 0, summary |-> {}, force |-> FALSE]

FollowupInit ==
  /\ registry = 0
  /\ queue = [o \in Objects |-> NewQueue(CHOOSE m \in Modes : TRUE, CHOOSE p \in Policies : TRUE)]
  /\ drain = [o \in Objects |-> NoDrain]
  /\ callback = FALSE
  /\ recent = {}
  /\ arrived = 0 /\ clears = 0 /\ failures = 0
  /\ fates = [f \in Fates |-> {}]
  /\ raced = [overflow |-> FALSE, clear |-> FALSE]

-----------------------------------------------------------------------------
HasWork(q) == q.items # << >> \/ q.dropped # {}

\* scheduleFollowupDrain for the key, given the registry and the objects the
\* caller has left behind.  An object with work gets a drain that first awaits
\* the debounce; a drain of an empty one deletes the key at once.
Schedule(reg, qs, ds) ==
  IF reg = 0 \/ (reg # 0 /\ qs[reg].draining)
  THEN registry' = reg /\ queue' = qs /\ drain' = ds /\ UNCHANGED callback
  ELSE /\ callback' = TRUE
       /\ IF HasWork(qs[reg])
          THEN /\ registry' = reg
               /\ queue' = [qs EXCEPT ![reg].draining = TRUE]
               /\ drain' = [ds EXCEPT ![reg] = [NoDrain EXCEPT !.pc = "debounce"]]
          ELSE registry' = 0 /\ queue' = qs /\ drain' = ds

\* The finally block of the drain of o.  It deletes the key, not the object.
Finally(o, qs) ==
  LET stopped == [qs EXCEPT ![o].draining = FALSE]
      ds == [drain EXCEPT ![o] = NoDrain]
  IN  IF HasWork(qs[o])
      THEN Schedule(registry, stopped, ds)
      ELSE registry' = 0 /\ queue' = stopped /\ drain' = ds /\ UNCHANGED callback

\* The test of the while loop of the drain of o, after a turn.
NextRound(o, qs) ==
  IF HasWork(qs[o])
  THEN /\ queue' = qs
       /\ drain' = [drain EXCEPT ![o] = [NoDrain EXCEPT !.pc = "debounce",
                                                    !.force = drain[o].force]]
       /\ UNCHANGED << registry, callback >>
  ELSE Finally(o, qs)

-----------------------------------------------------------------------------
\* Faulty variant: a full queue takes one more entry.
OverflowLate(q) == IF Len(q.items) <= Cap THEN 0 ELSE Len(q.items) - Cap

\* applyQueueDropPolicy: how many entries must go to make room for one more.
Overflow(q) == IF Len(q.items) < Cap THEN 0 ELSE Len(q.items) - Cap + 1

FreeObject == CHOOSE o \in Objects : o # registry /\ ~queue[o].draining

\* Bound: at most MaxObjects are alive, which MaxClears makes room for.
SomeObject == registry # 0 \/ \E o \in Objects : ~queue[o].draining

\* getFollowupQueue: the registered object with the new settings, or a fresh one.
Target == IF registry = 0 THEN FreeObject ELSE registry
WithSettings(mode, policy) ==
  IF registry = 0 THEN NewQueue(mode, policy)
                  ELSE [queue[registry] EXCEPT !.mode = mode, !.policy = policy]

\* Faulty variant: a message that finds the drain over is only queued.
KickNobody(o, qs) ==
  /\ registry' = o /\ queue' = qs
  /\ UNCHANGED << drain, callback >>

\* enqueueFollowupRun's last step: restart the drain if it is idle and known.
Kick(o, qs) ==
  IF callback THEN Schedule(o, qs, drain)
              ELSE registry' = o /\ queue' = qs /\ UNCHANGED << drain, callback >>

\* A message is accepted; overflow drops from the head.
Accept(m, o, q) ==
  LET gone == { q.items[i] : i \in 1 .. Overflow(q) }
      room == [q EXCEPT
                 !.items = Append(SubSeq(@, Overflow(q) + 1, Len(@)), m),
                 !.dropped = IF q.policy = "summarize" THEN @ \cup gone ELSE @]
  IN
  /\ Kick(o, [queue EXCEPT ![o] = room])
  /\ recent' = recent \cup {m}
  /\ fates' = [fates EXCEPT !["discarded"] = IF q.policy = "summarize" THEN @ ELSE @ \cup gone]
  /\ raced' = [raced EXCEPT !.overflow = @ \/ (gone # {} /\ drain[o].pc = "turn")]

\* Under policy "new" a message that finds the queue full is turned away.
TurnAway(m, o, q) ==
  /\ registry' = o
  /\ queue' = [queue EXCEPT ![o] = q]
  /\ fates' = [fates EXCEPT !["discarded"] = @ \cup {m}]
  /\ UNCHANGED << drain, callback, recent, raced >>

\* enqueueFollowupRun for a message that arrives for the first time.
EnqueueRun(mode, policy) ==
  LET m == arrived + 1
      q == WithSettings(mode, policy)
  IN
  /\ arrived < NumMessages /\ SomeObject
  /\ arrived' = m
  /\ IF Overflow(q) > 0 /\ policy = "new" THEN TurnAway(m, Target, q) ELSE Accept(m, Target, q)
  /\ UNCHANGED << clears, failures >>

\* Faulty variant: recent ids are not looked up.
RedeliverUnchecked(m, mode, policy) ==
  LET q == WithSettings(mode, policy)
  IN
  /\ m \in recent /\ SomeObject
  /\ IF m \in ToSet(q.items) \/ Overflow(q) > 0
     THEN /\ registry' = Target /\ queue' = [queue EXCEPT ![Target] = q]
          /\ UNCHANGED << drain, callback, recent, fates, raced >>
     ELSE Accept(m, Target, q)
  /\ UNCHANGED << arrived, clears, failures >>

\* enqueueFollowupRun for a message the provider delivers again: it is
\* recognised, after the settings were applied or an empty queue was created.
Redeliver(m, mode, policy) ==
  /\ m \in recent /\ SomeObject
  /\ registry' = Target
  /\ queue' = [queue EXCEPT ![Target] = WithSettings(mode, policy)]
  /\ UNCHANGED << drain, callback, recent, arrived, clears, failures, fates, raced >>

\* finalizeWithFollowup, at the end of an agent turn of the session.
Finalize ==
  /\ Schedule(registry, queue, drain)
  /\ UNCHANGED << recent, arrived, clears, failures, fates, raced >>

\* clearSessionQueues: the object is emptied and forgotten, with the callback.
Clear ==
  /\ registry # 0 /\ clears < MaxClears
  /\ clears' = clears + 1
  /\ fates' = [fates EXCEPT !["cleared"] = @ \cup ToSet(queue[registry].items)
                                             \cup queue[registry].dropped]
  /\ queue' = [queue EXCEPT ![registry].items = << >>, ![registry].dropped = {}]
  /\ raced' = [raced EXCEPT !.clear = @ \/ queue[registry].draining]
  /\ registry' = 0 /\ callback' = FALSE
  /\ UNCHANGED << drain, recent, arrived, failures >>

-----------------------------------------------------------------------------
\* hasCrossChannelItems: the entries do not share one origin that a single
\* reply can be routed to.
CrossChannel(items) ==
  LET targets == { TargetOf[m] : m \in ToSet(items) }
  IN  Cardinality(targets) > 1 \/ targets \cap Unroutable # {}

Individually(o) == drain[o].force \/ CrossChannel(queue[o].items)

HasSummary(q) == q.policy = "summarize" /\ q.dropped # {}

\* A turn of the agent starts, with these messages in its prompt; when it is
\* over, `take` entries are taken off the queue.
StartTurn(o, batch, carrier, take, summary, force) ==
  /\ drain' = [drain EXCEPT ![o] =
                 [ pc |-> "turn", batch |-> batch, carrier |-> carrier, take |-> take,
                   summary |-> summary, force |-> force ]]
  /\ UNCHANGED << registry, queue, callback >>

\* The debounce is over and the drain goes on: mode "collect".  Without items
\* the batch is empty, for the sake of the summary; the run it needs (lastRun)
\* is gone, like the items and the summary, if the object has been cleared.
Collect(o) ==
  LET q == queue[o]
  IN
  /\ q.mode = "collect"
  /\ IF ~HasWork(q) \/ (Individually(o) /\ q.items = << >>)
     THEN Finally(o, queue)
     ELSE IF Individually(o)
     THEN StartTurn(o, {Head(q.items)}, 0, 1, {}, TRUE)
     ELSE StartTurn(o, ToSet(q.items), 0, Len(q.items),
                    IF HasSummary(q) THEN q.dropped ELSE {}, FALSE)

\* Any other mode: a summary turn routed like the first entry, or that entry.
OneByOne(o) ==
  LET q == queue[o]
  IN
  /\ q.mode # "collect"
  /\ IF q.items = << >>
     THEN Finally(o, queue)
     ELSE IF HasSummary(q)
     THEN StartTurn(o, {}, Head(q.items), 1, q.dropped, drain[o].force)
     ELSE StartTurn(o, {Head(q.items)}, 0, 1, {}, drain[o].force)

Debounced(o) ==
  /\ drain[o].pc = "debounce"
  /\ Collect(o) \/ OneByOne(o)
  /\ UNCHANGED << recent, arrived, clears, failures, fates, raced >>

\* What a completed turn leaves in the queue: shift, or splice from the head.
Taken(q, d) == SubSeq(q.items, d.take + 1, Len(q.items))

\* Faulty variant: the whole queue is taken off after a turn.
TurnCompletesEmptying(o) ==
  LET d == drain[o]
      q == queue[o]
      rest == [q EXCEPT !.items = IF d.batch = {} THEN Taken(q, d) ELSE << >>,
                        !.dropped = IF d.summary # {} THEN {} ELSE @]
  IN
  /\ d.pc = "turn"
  /\ fates' = [fates EXCEPT !["answered"] = @ \cup d.batch, !["reported"] = @ \cup d.summary,
                            !["consumed"] = @ \cup ({d.carrier} \ {0})]
  /\ NextRound(o, [queue EXCEPT ![o] = rest])
  /\ UNCHANGED << recent, arrived, clears, failures, raced >>

\* The turn is over: its entries are taken off what the queue holds by now; the
\* summary state is cleared if a summary was part of the prompt.
TurnCompletes(o) ==
  LET d == drain[o]
      q == queue[o]
      rest == [q EXCEPT !.items = Taken(q, d), !.dropped = IF d.summary # {} THEN {} ELSE @]
  IN
  /\ d.pc = "turn"
  /\ fates' = [fates EXCEPT !["answered"] = @ \cup d.batch, !["reported"] = @ \cup d.summary,
                            !["consumed"] = @ \cup ({d.carrier} \ {0})]
  /\ NextRound(o, [queue EXCEPT ![o] = rest])
  /\ UNCHANGED << recent, arrived, clears, failures, raced >>

\* Faulty variant: no finally block runs when the turn throws.
TurnThrowsWithoutFinally(o) ==
  /\ drain[o].pc = "turn" /\ failures < MaxFailures
  /\ failures' = failures + 1
  /\ drain' = [drain EXCEPT ![o] = NoDrain]
  /\ UNCHANGED << registry, queue, callback, recent, arrived, clears, fates, raced >>

\* The turn throws: nothing is taken off, the drain ends and is scheduled again.
TurnThrows(o) ==
  /\ drain[o].pc = "turn" /\ failures < MaxFailures
  /\ failures' = failures + 1
  /\ Finally(o, queue)
  /\ UNCHANGED << recent, arrived, clears, fates, raced >>

-----------------------------------------------------------------------------
FollowupNext ==
  \/ \E mode \in Modes, policy \in Policies : EnqueueRun(mode, policy)
  \/ \E m \in Messages, mode \in Modes, policy \in Policies : Redeliver(m, mode, policy)
  \/ Finalize
  \/ Clear
  \/ \E o \in Objects : Debounced(o) \/ TurnCompletes(o) \/ TurnThrows(o)

FollowupSpec == FollowupInit /\ [][FollowupNext]_followupVars

\* Turns end (agents run under a timeout), timers fire, and the agent turn
\* during which a message was queued ends with finalizeWithFollowup.
FollowupFairSpec ==
  /\ FollowupSpec
  /\ WF_followupVars(Finalize)
  /\ \A o \in Objects : WF_followupVars(Debounced(o)) /\ WF_followupVars(TurnCompletes(o))

-----------------------------------------------------------------------------
\* Waiting in an object somebody can still find: the registry, or its drain.
Live(o) == registry = o \/ queue[o].draining
Pending == UNION { ToSet(queue[o].items) \cup queue[o].dropped : o \in { x \in Objects : Live(x) } }

Settled == UNION { fates[f] : f \in Fates }

\* Unless an overflow or a clear hits an object while a turn of it runs, no
\* message vanishes, none is both answered and reported as dropped, and what
\* has been answered, reported or given up is in no live queue any more.
OneFateUnlessRaced ==
  ~raced.overflow /\ ~raced.clear =>
    /\ 1 .. arrived \subseteq Pending \cup Settled
    /\ Pending \cap Settled = {}
    /\ \A f, g \in Fates : f # g => fates[f] \cap fates[g] = {}

\* A registered queue with work is being drained, unless nobody has told it yet
\* how: no interleaving of arrivals, drains that end, failures and clears leaves
\* it idle beside a known callback.
IdleQueueHasNoRunner ==
  registry # 0 /\ HasWork(queue[registry]) /\ ~queue[registry].draining => ~callback

\* No message is given to the agent again after a turn that answered it; and
\* without a clear in mid-drain, turns follow the arrival order.
TurnsFollowArrival ==
  [][\A o \in Objects :
       drain[o].pc # "turn" /\ drain'[o].pc = "turn" =>
         /\ drain'[o].batch \cap fates["answered"] = {}
         /\ ~raced.clear => \A m \in drain'[o].batch, n \in fates["answered"] : n < m]_followupVars

\* A queued message gets its turn as long as the queue does not overflow.
QueuedMessageLeaves ==
  \A m \in Messages :
    (m \in Pending) ~> (m \notin Pending \/ \E o \in Objects : queue[o].dropped # {})
=============================================================================
