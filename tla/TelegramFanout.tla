---------------------------- MODULE TelegramFanout ----------------------------
(***************************************************************************)
(* TelegramFanoutService: the one gate through which the process sends     *)
(* notifications.  It bounds the messages under way, lets them start one   *)
(* at a time with a least distance between two starts, and can be stopped. *)
(*                                                                         *)
(* Code between two awaits runs as one step.  A call that is granted a     *)
(* slot queues for its turn in the microtask that follows, in the order of *)
(* the grants, so the grant and the queueing are one step here.            *)
(***************************************************************************)
EXTENDS Integers, Sequences, FiniteSets

CONSTANTS
  Singles,      \* calls of sendMessage
  Batches,      \* calls of sendAll
  Size,         \* the number of requests of each batch
  Concurrency,  \* policy.concurrency
  Interval,     \* policy.intervalMs, in ticks
  MaxStall      \* bound: ticks counted after a turn is due

Items == UNION {{<<b, i>> : i \in 1 .. Size[b]} : b \in Batches}
Calls == Singles \union Items

ASSUME SizeAssumption == Size \in [Batches -> Nat]
ASSUME CallsAssumption == IsFiniteSet(Calls) /\ Singles \intersect Items = {}
ASSUME ConcurrencyAssumption == Concurrency \in Nat \ {0}
ASSUME TimeAssumption == Interval \in Nat /\ MaxStall \in Nat

VARIABLES
  place,    \* where each call stands
  active,   \* slots taken
  waiters,  \* calls that wait for a slot
  chain,    \* pacingTail: calls that wait for their turn to start
  due,      \* nextStartAt, from now
  stopped,  \* controller.signal.aborted
  cursor,   \* requests of each batch its workers have taken
  phase,    \* what each batch does
  since     \* history: ticks since a message last started, up to Interval

gate == <<place, active, waiters, chain>>
timing == <<due, since>>
batch == <<cursor, phase>>
vars == <<gate, timing, batch, stopped>>

Settled == {"sent", "failed", "refused"}
UnderWay == {"waiting", "pacing", "sending"}

TypeOK ==
  /\ place \in [Calls -> {"new"} \union UnderWay \union Settled]
  /\ active \in Nat
  /\ waiters \in Seq(Calls)
  /\ chain \in Seq(Calls)
  /\ due \in -MaxStall .. Interval
  /\ stopped \in BOOLEAN
  /\ cursor \in [Batches -> Nat]
  /\ phase \in [Batches -> {"new", "running", "returned"}]
  /\ since \in 0 .. Interval

Init ==
  /\ place = [c \in Calls |-> "new"]
  /\ active = 0
  /\ waiters = <<>>
  /\ chain = <<>>
  /\ due = 0
  /\ stopped = FALSE
  /\ cursor = [b \in Batches |-> 0]
  /\ phase = [b \in Batches |-> "new"]
  /\ since = Interval

------------------------------------------------------------------------------
(* Slots. *)

\* acquire, and the queueing of a granted call in pace.
Acquire(c) ==
  /\ place[c] = "new"
  /\ \/ /\ stopped
        /\ place' = [place EXCEPT ![c] = "refused"]
        /\ UNCHANGED <<active, waiters, chain>>
     \/ /\ ~stopped /\ active < Concurrency
        /\ active' = active + 1
        /\ place' = [place EXCEPT ![c] = "pacing"]
        /\ chain' = Append(chain, c)
        /\ UNCHANGED waiters
     \/ /\ ~stopped /\ active >= Concurrency
        /\ place' = [place EXCEPT ![c] = "waiting"]
        /\ waiters' = Append(waiters, c)
        /\ UNCHANGED <<active, chain>>

\* Mutant: the freed slot waits for the next call to take it.
HandoverNever == FALSE

\* Some call waits for the freed slot.
Handover == waiters # <<>> /\ ~stopped

\* Mutant: the call that came last goes first.
Pop == [first |-> waiters[Len(waiters)], rest |-> SubSeq(waiters, 1, Len(waiters) - 1)]

Shift == [first |-> Head(waiters), rest |-> Tail(waiters)]

\* The release function: c leaves with an outcome, and its slot goes to the
\* call that waited longest.  rest is the pacing queue without c.
Release(c, outcome, rest) ==
  \/ /\ Handover
     /\ place' = [place EXCEPT ![c] = outcome, ![Shift.first] = "pacing"]
     /\ chain' = Append(rest, Shift.first)
     /\ waiters' = Shift.rest
     /\ UNCHANGED active
  \/ /\ ~Handover
     /\ place' = [place EXCEPT ![c] = outcome]
     /\ active' = active - 1
     /\ chain' = rest
     /\ UNCHANGED waiters

------------------------------------------------------------------------------
(* The steps of a call. *)

\* sendMessage by itself.
Call(s) ==
  /\ Acquire(s)
  /\ UNCHANGED <<timing, batch, stopped>>

\* Mutant: the next slot is reserved from the time this one was due.
NextDueReserved == due + Interval

\* The next start is counted from the actual one.
NextDue == Interval

\* The call at the head of the queue has slept until nextStartAt: it starts.
Start ==
  /\ chain # <<>>
  /\ ~stopped
  /\ due <= 0
  /\ due' = NextDue
  /\ since' = 0
  /\ place' = [place EXCEPT ![Head(chain)] = "sending"]
  /\ chain' = Tail(chain)
  /\ UNCHANGED <<active, waiters, batch, stopped>>

\* After stop a turn ends in an error, and so does the sleep before it.
TurnRefused ==
  /\ chain # <<>>
  /\ stopped
  /\ Release(Head(chain), "refused", Tail(chain))
  /\ UNCHANGED <<timing, batch, stopped>>

\* telegram.sendMessage returns or throws.
Answer(c, outcome) ==
  /\ place[c] = "sending"
  /\ Release(c, outcome, chain)
  /\ UNCHANGED <<timing, batch, stopped>>

------------------------------------------------------------------------------
(* sendAll. *)

Begin(b) ==
  /\ phase[b] = "new"
  /\ phase' = [phase EXCEPT ![b] = "running"]
  /\ UNCHANGED <<gate, timing, cursor, stopped>>

Busy(b) == {c \in Items : c[1] = b /\ place[c] \in UnderWay}

\* One of the batch's workers takes the next request.
Take(b) ==
  /\ phase[b] = "running"
  /\ ~stopped
  /\ cursor[b] < Size[b]
  /\ Cardinality(Busy(b)) < Concurrency
  /\ cursor' = [cursor EXCEPT ![b] = @ + 1]
  /\ Acquire(<<b, cursor[b] + 1>>)
  /\ UNCHANGED <<timing, phase, stopped>>

\* All workers have ended; requests not taken are reported as refused.
Return(b) ==
  /\ phase[b] = "running"
  /\ Busy(b) = {}
  /\ stopped \/ cursor[b] = Size[b]
  /\ phase' = [phase EXCEPT ![b] = "returned"]
  /\ place' = [c \in Calls |-> IF c \in Items /\ c[1] = b /\ c[2] > cursor[b]
                                 THEN "refused" ELSE place[c]]
  /\ UNCHANGED <<active, waiters, chain, timing, cursor, stopped>>

------------------------------------------------------------------------------

Stop ==
  /\ ~stopped
  /\ stopped' = TRUE
  /\ place' = [c \in Calls |-> IF place[c] = "waiting" THEN "refused" ELSE place[c]]
  /\ waiters' = <<>>
  /\ UNCHANGED <<active, chain, timing, batch>>

Tick ==
  /\ due > -MaxStall
  /\ due' = due - 1
  /\ since' = IF since < Interval THEN since + 1 ELSE since
  /\ UNCHANGED <<gate, batch, stopped>>

Next ==
  \/ \E s \in Singles : Call(s)
  \/ Start
  \/ TurnRefused
  \/ \E c \in Calls : \E outcome \in {"sent", "failed"} : Answer(c, outcome)
  \/ \E b \in Batches : Begin(b) \/ Take(b) \/ Return(b)
  \/ Stop
  \/ Tick

Spec == Init /\ [][Next]_vars

\* Timers fire, Telegram's client answers or times out, and ready
\* continuations run; calls, batches and stop may never come.
FairSpec ==
  /\ Spec
  /\ WF_vars(Start)
  /\ WF_vars(TurnRefused)
  /\ WF_vars(Tick)
  /\ \A c \in Calls : WF_vars(\E outcome \in {"sent", "failed"} : Answer(c, outcome))
  /\ \A b \in Batches : WF_vars(Take(b)) /\ WF_vars(Return(b))

------------------------------------------------------------------------------
(* What must hold. *)

At(where) == {c \in Calls : place[c] = where}

\* The counter is the number of messages under way and never exceeds the
\* policy's concurrency, whichever way calls end.
Holders == At("pacing") \union At("sending")
SlotsCounted == active = Cardinality(Holders) /\ active <= Concurrency

\* A call waits only while every slot is taken: none is lost in a handover.
NoSlotIdle == waiters # <<>> => active = Concurrency /\ ~stopped

\* Each queue holds the calls that stand in it, once.
Lists(queue, S) ==
  /\ \A i, j \in 1 .. Len(queue) : queue[i] = queue[j] => i = j
  /\ \A c \in Calls : c \in S <=> \E i \in 1 .. Len(queue) : queue[i] = c
QueuesExact == Lists(waiters, At("waiting")) /\ Lists(chain, At("pacing"))

\* A turn that is due comes no sooner than Interval after the last start.
DueCounted == since < Interval => due + since >= Interval

\* Requests a batch has not taken yet are untouched.
CursorExact ==
  \A c \in Items : place[c] = "new" <=> c[2] > cursor[c[1]] /\ phase[c[1]] # "returned"

\* A batch reports only when every one of its requests has an outcome.
ReportComplete ==
  \A c \in Items : phase[c[1]] = "returned" => place[c] \in Settled

IndInv ==
  /\ TypeOK
  /\ SlotsCounted
  /\ NoSlotIdle
  /\ QueuesExact
  /\ DueCounted
  /\ CursorExact
  /\ ReportComplete

\* All calls that have not started, in the order they will.
Line == chain \o waiters

\* q begins with what p holds from its position k + 1 on.
Goes(p, q, k) ==
  /\ Len(p) - k <= Len(q)
  /\ \A i \in 1 .. Len(p) - k : q[i] = p[i + k]

\* Calls start in the order they came: a step serves the head of the line or
\* nobody, and newcomers go to its end, also while a slot changes hands.
NoOvertaking ==
  [][~stopped' => \E served \in 0 .. 1 : Goes(Line, Line', served)]_vars

\* Two messages start at least Interval apart, also when a stalled event loop
\* fires their timers together.
StartsSpaced ==
  [][\A c \in Calls : place'[c] = "sending" /\ place[c] # "sending" => since >= Interval]_vars

\* Every call that came gets an outcome and every batch returns, stopped or not.
EveryCallSettles ==
  /\ \A c \in Calls : place[c] \in UnderWay ~> place[c] \in Settled
  /\ \A b \in Batches : phase[b] = "running" ~> phase[b] = "returned"

==============================================================================
