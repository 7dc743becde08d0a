------------------------- MODULE TelegramFanout_proofs -------------------------
(***************************************************************************)
(* For any number of callers and batches and any policy: slots are counted *)
(* right and never idle, queues are exact, batches report everything, and  *)
(* starts are in order and spaced.  And of one call to Telegram, whatever  *)
(* is lost or late: it is carried out once, and what it says is so.  And   *)
(* of what operators do (Operations), wherever it stops.                   *)
(***************************************************************************)
EXTENDS TelegramFanout, OutboundCalls, Operations, FiniteSetTheorems, TLAPS

------------------------------------------------------------------------------
(* Queues as lists of the members of a set. *)

\* Appending a newcomer lists the set with it.
LEMMA ListsAppend ==
  ASSUME NEW q \in Seq(Calls), NEW S, Lists(q, S), NEW c \in Calls, c \notin S
  PROVE  Append(q, c) \in Seq(Calls) /\ Lists(Append(q, c), S \union {c})
<1> DEFINE p == Append(q, c)
<1>1. /\ p \in Seq(Calls) /\ Len(p) = Len(q) + 1 /\ p[Len(p)] = c
      /\ Len(q) \in Nat
      /\ \A i \in 1 .. Len(q) : p[i] = q[i] /\ q[i] \in Calls
  OBVIOUS
<1> HIDE DEF p
<1>2. \A i \in 1 .. Len(q) : q[i] \in S
  BY <1>1 DEF Lists
<1>3. \A i, j \in 1 .. Len(p) : p[i] = p[j] => i = j
  <2> SUFFICES ASSUME NEW i \in 1 .. Len(p), NEW j \in 1 .. Len(p), p[i] = p[j]
               PROVE  i = j
    OBVIOUS
  <2>1. CASE i <= Len(q) /\ j <= Len(q)
    BY <1>1, <2>1 DEF Lists
  <2>2. CASE i = Len(p) /\ j <= Len(q)
    BY <1>1, <1>2, <2>2
  <2>3. CASE j = Len(p) /\ i <= Len(q)
    BY <1>1, <1>2, <2>3
  <2> QED
    BY <1>1, <2>1, <2>2, <2>3
<1>4. ASSUME NEW d \in Calls
      PROVE  d \in S \union {c} <=> \E i \in 1 .. Len(p) : p[i] = d
  <2>1. ASSUME d \in S PROVE \E i \in 1 .. Len(p) : p[i] = d
    <3>1. PICK i \in 1 .. Len(q) : q[i] = d
      BY <2>1 DEF Lists
    <3> QED
      BY <1>1, <3>1
  <2>2. ASSUME d = c PROVE \E i \in 1 .. Len(p) : p[i] = d
    BY <1>1, <2>2
  <2>3. ASSUME NEW i \in 1 .. Len(p), p[i] = d PROVE d \in S \union {c}
    BY <1>1, <1>2, <2>3
  <2> QED
    BY <2>1, <2>2, <2>3
<1> QED
  BY <1>1, <1>3, <1>4 DEF Lists, p

\* Taking the first one away lists the set without it.
LEMMA ListsTail ==
  ASSUME NEW q \in Seq(Calls), NEW S, Lists(q, S), q # <<>>
  PROVE  /\ Head(q) \in Calls /\ Head(q) \in S
         /\ Tail(q) \in Seq(Calls) /\ Lists(Tail(q), S \ {Head(q)})
<1> DEFINE p == Tail(q)
<1> DEFINE h == Head(q)
<1>1. /\ p \in Seq(Calls) /\ Len(q) \in Nat \ {0} /\ Len(p) = Len(q) - 1
      /\ h = q[1] /\ h \in Calls
      /\ \A i \in 1 .. Len(p) : p[i] = q[i + 1] /\ p[i] \in Calls
  OBVIOUS
<1> HIDE DEF p, h
<1>2. h \in S
  BY <1>1 DEF Lists
<1>3. \A i, j \in 1 .. Len(p) : p[i] = p[j] => i = j
  <2> SUFFICES ASSUME NEW i \in 1 .. Len(p), NEW j \in 1 .. Len(p), p[i] = p[j]
               PROVE  i = j
    OBVIOUS
  <2>1. i + 1 \in 1 .. Len(q) /\ j + 1 \in 1 .. Len(q) /\ q[i + 1] = q[j + 1]
    BY <1>1
  <2>2. i + 1 = j + 1
    BY <2>1 DEF Lists
  <2> QED
    BY <2>2
<1>4. ASSUME NEW d \in Calls
      PROVE  d \in S \ {h} <=> \E i \in 1 .. Len(p) : p[i] = d
  <2>1. ASSUME d \in S, d # h PROVE \E i \in 1 .. Len(p) : p[i] = d
    <3>1. PICK i \in 1 .. Len(q) : q[i] = d
      BY <2>1 DEF Lists
    <3>2. i # 1
      BY <1>1, <2>1, <3>1
    <3>3. i - 1 \in 1 .. Len(p) /\ p[i - 1] = d
      BY <1>1, <3>1, <3>2
    <3> QED
      BY <3>3
  <2>2. ASSUME NEW i \in 1 .. Len(p), p[i] = d PROVE d \in S /\ d # h
    <3>1. i + 1 \in 1 .. Len(q) /\ q[i + 1] = d /\ i + 1 # 1
      BY <1>1, <2>2
    <3>2. d \in S
      BY <3>1 DEF Lists
    <3>3. d # h
      BY <1>1, <3>1 DEF Lists
    <3> QED
      BY <3>2, <3>3
  <2> QED
    BY <2>1, <2>2
<1> QED
  BY <1>1, <1>2, <1>3, <1>4 DEF Lists, p, h

------------------------------------------------------------------------------
(* Slots. *)

\* The gate's own part of the invariant.
GateType ==
  /\ place \in [Calls -> {"new"} \union UnderWay \union Settled]
  /\ active \in Nat
  /\ waiters \in Seq(Calls)
  /\ chain \in Seq(Calls)

GateInv == GateType /\ SlotsCounted /\ NoSlotIdle /\ QueuesExact

\* The members of a state's set of calls are finitely many.
LEMMA HoldersFinite == IsFiniteSet(Holders)
  BY CallsAssumption, FS_Subset DEF Holders, At

\* acquire keeps the gate's invariant.
LEMMA AcquireGate ==
  ASSUME GateInv, NEW c \in Calls, Acquire(c), stopped \in BOOLEAN, UNCHANGED stopped
  PROVE  GateInv'
<1> USE DEF GateInv
<1>1. /\ GateType /\ SlotsCounted /\ NoSlotIdle /\ QueuesExact /\ place[c] = "new"
  BY DEF Acquire
<1>2. c \notin At("waiting") /\ c \notin At("pacing") /\ c \notin Holders
  BY <1>1 DEF At, Holders
<1>3. CASE stopped /\ place' = [place EXCEPT ![c] = "refused"] /\ UNCHANGED <<active, waiters, chain>>
  <2>1. GateType'
    BY <1>1, <1>3 DEF GateType, Settled
  <2>2. At("waiting")' = At("waiting") /\ At("pacing")' = At("pacing") /\ Holders' = Holders
    BY <1>1, <1>3 DEF GateType, At, Holders
  <2> QED
    BY <1>1, <1>3, <2>1, <2>2 DEF SlotsCounted, NoSlotIdle, QueuesExact, Lists
<1>4. CASE /\ ~stopped /\ active < Concurrency /\ active' = active + 1
           /\ place' = [place EXCEPT ![c] = "pacing"]
           /\ chain' = Append(chain, c) /\ UNCHANGED waiters
  <2>1. /\ At("waiting")' = At("waiting") /\ At("pacing")' = At("pacing") \union {c}
        /\ Holders' = Holders \union {c}
    BY <1>1, <1>4 DEF GateType, At, Holders
  <2>2. chain' \in Seq(Calls) /\ Lists(chain', At("pacing")')
    BY <1>1, <1>2, <1>4, <2>1, ListsAppend DEF GateType, QueuesExact
  <2>3. Cardinality(Holders') = Cardinality(Holders) + 1
    BY <1>2, <2>1, HoldersFinite, FS_AddElement
  <2>4. GateType'
    BY <1>1, <1>4, <2>2 DEF GateType, UnderWay
  <2>5. SlotsCounted'
    BY <1>1, <1>4, <2>3, ConcurrencyAssumption DEF SlotsCounted, GateType
  <2>6. NoSlotIdle'
    BY <1>1, <1>4, ConcurrencyAssumption DEF NoSlotIdle, GateType
  <2>7. QueuesExact'
    BY <1>1, <1>4, <2>1, <2>2 DEF QueuesExact, Lists
  <2> QED
    BY <2>4, <2>5, <2>6, <2>7
<1>5. CASE /\ ~stopped /\ active >= Concurrency
           /\ place' = [place EXCEPT ![c] = "waiting"]
           /\ waiters' = Append(waiters, c) /\ UNCHANGED <<active, chain>>
  <2>1. /\ At("waiting")' = At("waiting") \union {c} /\ At("pacing")' = At("pacing")
        /\ Holders' = Holders
    BY <1>1, <1>5 DEF GateType, At, Holders
  <2>2. waiters' \in Seq(Calls) /\ Lists(waiters', At("waiting")')
    BY <1>1, <1>2, <1>5, <2>1, ListsAppend DEF GateType, QueuesExact
  <2>3. GateType'
    BY <1>1, <1>5, <2>2 DEF GateType, UnderWay
  <2>4. SlotsCounted'
    BY <1>1, <1>5, <2>1 DEF SlotsCounted
  <2>5. NoSlotIdle'
    BY <1>1, <1>5, ConcurrencyAssumption DEF NoSlotIdle, SlotsCounted, GateType
  <2>6. QueuesExact'
    BY <1>1, <1>5, <2>1, <2>2 DEF QueuesExact, Lists
  <2> QED
    BY <2>3, <2>4, <2>5, <2>6
<1> QED
  BY <1>3, <1>4, <1>5 DEF Acquire

\* A release keeps it, whether the slot is handed over or freed.
LEMMA ReleaseGate ==
  ASSUME GateInv, NEW c \in Holders, NEW outcome \in Settled, NEW rest \in Seq(Calls),
         Lists(rest, At("pacing") \ {c}), Release(c, outcome, rest),
         stopped \in BOOLEAN, UNCHANGED stopped
  PROVE  GateInv'
<1> USE DEF GateInv
<1>1. /\ GateType /\ SlotsCounted /\ NoSlotIdle /\ QueuesExact
      /\ c \in Calls /\ place[c] \in {"pacing", "sending"}
  BY DEF Holders, At
<1>2. Cardinality(Holders \ {c}) = Cardinality(Holders) - 1
  BY HoldersFinite, FS_RemoveElement
<1>3. CASE Handover
  <2> DEFINE w == Head(waiters)
  <2>1. /\ waiters # <<>> /\ ~stopped
        /\ place' = [place EXCEPT ![c] = outcome, ![w] = "pacing"]
        /\ chain' = Append(rest, w) /\ waiters' = Tail(waiters) /\ active' = active
    BY <1>3 DEF Release, Handover, Shift
  <2>2. /\ w \in Calls /\ w \in At("waiting")
        /\ waiters' \in Seq(Calls) /\ Lists(waiters', At("waiting") \ {w})
    BY <1>1, <2>1, ListsTail DEF GateType, QueuesExact
  <2> HIDE DEF w
  <2>3. place[w] = "waiting" /\ w # c
    BY <1>1, <2>2 DEF At
  <2>4. /\ At("waiting")' = At("waiting") \ {w}
        /\ At("pacing")' = (At("pacing") \ {c}) \union {w}
        /\ Holders' = (Holders \ {c}) \union {w}
    BY <1>1, <2>1, <2>2, <2>3 DEF GateType, At, Holders, Settled
  <2>5. chain' \in Seq(Calls) /\ Lists(chain', At("pacing")')
    <3>1. w \notin At("pacing") \ {c}
      BY <2>3 DEF At
    <3> QED
      BY <2>1, <2>2, <2>4, <3>1, ListsAppend
  <2>6. Cardinality(Holders') = Cardinality(Holders)
    <3>1. w \notin Holders \ {c} /\ IsFiniteSet(Holders \ {c})
      BY <2>3, HoldersFinite, FS_RemoveElement DEF Holders, At
    <3>2. Cardinality(Holders') = Cardinality(Holders \ {c}) + 1
      BY <2>4, <3>1, FS_AddElement
    <3> QED
      BY <1>1, <1>2, <3>2 DEF SlotsCounted, GateType
  <2>7. GateType'
    BY <1>1, <2>1, <2>2, <2>5 DEF GateType, UnderWay, Settled
  <2>8. SlotsCounted'
    BY <1>1, <2>1, <2>6 DEF SlotsCounted
  <2>9. NoSlotIdle'
    BY <1>1, <2>1 DEF NoSlotIdle
  <2>10. QueuesExact'
    BY <2>2, <2>4, <2>5 DEF QueuesExact, Lists
  <2> QED
    BY <2>7, <2>8, <2>9, <2>10
<1>4. CASE ~Handover
  <2>1. /\ place' = [place EXCEPT ![c] = outcome]
        /\ active' = active - 1 /\ chain' = rest /\ waiters' = waiters
    BY <1>4 DEF Release
  <2>2. waiters = <<>>
    BY <1>1, <1>4 DEF Handover, NoSlotIdle
  <2>3. /\ At("waiting")' = At("waiting") /\ At("pacing")' = At("pacing") \ {c}
        /\ Holders' = Holders \ {c}
    BY <1>1, <2>1 DEF GateType, At, Holders, Settled
  <2>4. Cardinality(Holders') = active - 1 /\ active - 1 \in Nat
    <3>1. Cardinality(Holders \ {c}) \in Nat
      BY HoldersFinite, FS_RemoveElement, FS_CardinalityType
    <3> QED
      BY <1>1, <1>2, <2>3, <3>1 DEF SlotsCounted, GateType
  <2>5. GateType'
    BY <1>1, <2>1, <2>4 DEF GateType, UnderWay, Settled
  <2>6. SlotsCounted'
    BY <1>1, <2>1, <2>4, ConcurrencyAssumption DEF SlotsCounted, GateType
  <2>7. NoSlotIdle'
    BY <2>1, <2>2 DEF NoSlotIdle
  <2>8. QueuesExact'
    <3>1. Lists(waiters', At("waiting")')
      BY <1>1, <2>1, <2>3 DEF QueuesExact
    <3>2. Lists(chain', At("pacing")')
      BY <2>1, <2>3
    <3> QED
      BY <3>1, <3>2 DEF QueuesExact, Lists
  <2> QED
    BY <2>5, <2>6, <2>7, <2>8
<1> QED
  BY <1>3, <1>4

------------------------------------------------------------------------------
(* The invariant is inductive. *)


\* The initial state satisfies the invariant.
LEMMA InitInv == Init => IndInv
<1> SUFFICES ASSUME Init PROVE IndInv
  OBVIOUS
<1> USE DEF Init
<1>1. At("waiting") = {} /\ At("pacing") = {} /\ Holders = {}
  BY DEF At, Holders
<1>2. TypeOK
  <2>1. due \in -MaxStall .. Interval /\ since \in 0 .. Interval
    BY TimeAssumption
  <2>2. waiters \in Seq(Calls) /\ chain \in Seq(Calls) /\ active \in Nat
    OBVIOUS
  <2>3. place \in [Calls -> {"new"} \union UnderWay \union Settled]
    OBVIOUS
  <2> QED
    BY <2>1, <2>2, <2>3 DEF TypeOK
<1>3. SlotsCounted /\ NoSlotIdle /\ DueCounted
  BY <1>1, FS_EmptySet, ConcurrencyAssumption, TimeAssumption
  DEF SlotsCounted, NoSlotIdle, DueCounted
<1>4. QueuesExact
  BY <1>1 DEF QueuesExact, Lists
<1>5. CursorExact /\ ReportComplete
  <2> SUFFICES ASSUME NEW c \in Items
               PROVE  /\ c \in Calls /\ c[1] \in Batches /\ c[2] > 0
    BY DEF CursorExact, ReportComplete
  <2> QED
    BY SizeAssumption DEF Items, Calls
<1> QED
  BY <1>2, <1>3, <1>4, <1>5 DEF IndInv

\* What a batch item is made of.
LEMMA ItemParts ==
  ASSUME NEW c \in Items
  PROVE  c \in Calls /\ c[1] \in Batches /\ c[2] \in 1 .. Size[c[1]] /\ c = <<c[1], c[2]>>
  BY SizeAssumption DEF Items, Calls

\* A step that settles or moves calls under way, and takes no request,
\* leaves the batches' bookkeeping right.
LEMMA BatchesUntouched ==
  ASSUME TypeOK, CursorExact, ReportComplete, UNCHANGED batch,
         \A c \in Calls : place'[c] # place[c] =>
            place[c] \in UnderWay /\ place'[c] \in UnderWay \union Settled
  PROVE  CursorExact' /\ ReportComplete'
<1>1. CursorExact'
  <2> SUFFICES ASSUME NEW c \in Items
               PROVE  place'[c] = "new" <=> c[2] > cursor'[c[1]] /\ phase'[c[1]] # "returned"
    BY DEF CursorExact
  <2> QED
    BY ItemParts DEF CursorExact, batch, UnderWay, Settled
<1>2. ReportComplete'
  <2> SUFFICES ASSUME NEW c \in Items, phase'[c[1]] = "returned"
               PROVE  place'[c] \in Settled
    BY DEF ReportComplete
  <2> QED
    BY ItemParts DEF ReportComplete, batch, UnderWay, Settled
<1> QED
  BY <1>1, <1>2

\* What a release does to places.
LEMMA ReleasePlaces ==
  ASSUME GateInv, NEW c \in Holders, NEW outcome \in Settled, NEW rest,
         Release(c, outcome, rest)
  PROVE  \A d \in Calls : place'[d] # place[d] =>
            place[d] \in UnderWay /\ place'[d] \in UnderWay \union Settled
<1>1. c \in Calls /\ place[c] \in UnderWay /\ GateType
  BY DEF Holders, At, UnderWay, GateInv
<1>2. CASE Handover
  <2> DEFINE w == Head(waiters)
  <2>1. place' = [place EXCEPT ![c] = outcome, ![w] = "pacing"] /\ waiters # <<>>
    BY <1>2 DEF Release, Handover, Shift
  <2>2. w \in Calls /\ w \in At("waiting")
    BY <1>1, <2>1, ListsTail DEF GateInv, GateType, QueuesExact
  <2> HIDE DEF w
  <2>3. place[w] = "waiting"
    BY <2>2 DEF At
  <2> QED
    BY <1>1, <2>1, <2>2, <2>3 DEF UnderWay, GateType
<1>3. CASE ~Handover
  BY <1>1, <1>3 DEF Release, UnderWay, GateType
<1> QED
  BY <1>2, <1>3

LEMMA GatePart == IndInv => GateInv
  BY DEF IndInv, GateInv, TypeOK, GateType

------------------------------------------------------------------------------
(* One lemma per action. *)

\* The rest of the type invariant.
RestType ==
  /\ due \in -MaxStall .. Interval
  /\ stopped \in BOOLEAN
  /\ cursor \in [Batches -> Nat]
  /\ phase \in [Batches -> {"new", "running", "returned"}]
  /\ since \in 0 .. Interval

LEMMA Parts ==
  GateInv /\ RestType /\ DueCounted /\ CursorExact /\ ReportComplete <=> IndInv
  BY DEF GateInv, GateType, RestType, IndInv, TypeOK

LEMMA Assembled ==
  ASSUME GateType', SlotsCounted', NoSlotIdle', QueuesExact',
         RestType', DueCounted', CursorExact', ReportComplete'
  PROVE  IndInv'
  BY DEF GateType, RestType, IndInv, TypeOK

LEMMA CallStep == ASSUME IndInv, NEW s \in Singles, Call(s) PROVE IndInv'
<1>1. s \in Calls /\ s \notin Items
  BY CallsAssumption DEF Calls
<1>2. GateInv'
  BY <1>1, AcquireGate, Parts DEF Call, RestType
<1>3. RestType' /\ DueCounted'
  BY Parts DEF Call, RestType, DueCounted, timing, batch
<1>4. \A c \in Items : place'[c] = place[c]
  BY <1>1, ItemParts DEF Call, Acquire, IndInv, TypeOK
<1>5. CursorExact' /\ ReportComplete'
  BY <1>4, Parts DEF Call, CursorExact, ReportComplete, batch
<1> QED
  BY <1>2, <1>3, <1>5, Assembled DEF GateInv

LEMMA StartStep == ASSUME IndInv, Start PROVE IndInv'
<1> DEFINE h == Head(chain)
<1>1. /\ GateInv /\ RestType /\ chain # <<>> /\ due' = Interval /\ since' = 0
      /\ place' = [place EXCEPT ![h] = "sending"] /\ chain' = Tail(chain)
      /\ UNCHANGED <<active, waiters, batch, stopped>>
  BY Parts DEF Start, NextDue
<1>2. h \in Calls /\ h \in At("pacing") /\ chain' \in Seq(Calls)
      /\ Lists(chain', At("pacing") \ {h})
  BY <1>1, ListsTail DEF GateInv, GateType, QueuesExact
<1> HIDE DEF h
<1>3. place[h] = "pacing"
  BY <1>2 DEF At
<1>4. /\ At("waiting")' = At("waiting") /\ At("pacing")' = At("pacing") \ {h}
      /\ Holders' = Holders
  BY <1>1, <1>2, <1>3 DEF GateInv, GateType, At, Holders
<1>5. GateType' /\ SlotsCounted' /\ NoSlotIdle'
  BY <1>1, <1>2, <1>4 DEF GateInv, GateType, SlotsCounted, NoSlotIdle, UnderWay
<1>6. QueuesExact'
  <2>1. Lists(waiters', At("waiting")') BY <1>1, <1>4 DEF GateInv, QueuesExact
  <2>2. Lists(chain', At("pacing")') BY <1>2, <1>4
  <2> QED BY <2>1, <2>2 DEF QueuesExact, Lists
<1>7. RestType' /\ DueCounted'
  BY <1>1, TimeAssumption DEF RestType, DueCounted, batch
<1>8. CursorExact' /\ ReportComplete'
  BY <1>1, <1>2, <1>3, BatchesUntouched DEF IndInv, TypeOK, UnderWay
<1> QED
  BY <1>5, <1>6, <1>7, <1>8, Assembled DEF GateInv

LEMMA TurnRefusedStep == ASSUME IndInv, TurnRefused PROVE IndInv'
<1> DEFINE h == Head(chain)
<1>1. /\ GateInv /\ RestType /\ chain # <<>> /\ Release(h, "refused", Tail(chain))
      /\ UNCHANGED <<timing, batch, stopped>>
  BY Parts DEF TurnRefused
<1>2. h \in Calls /\ h \in At("pacing") /\ Tail(chain) \in Seq(Calls)
      /\ Lists(Tail(chain), At("pacing") \ {h})
  BY <1>1, ListsTail DEF GateInv, GateType, QueuesExact
<1>3. h \in Holders
  BY <1>2 DEF Holders
<1> HIDE DEF h
<1>4. GateInv'
  BY <1>1, <1>2, <1>3, ReleaseGate DEF Settled, RestType
<1>5. RestType' /\ DueCounted'
  BY <1>1, Parts DEF RestType, DueCounted, timing, batch
<1>6. CursorExact' /\ ReportComplete'
  BY <1>1, <1>3, ReleasePlaces, BatchesUntouched DEF IndInv, Settled
<1> QED
  BY <1>4, <1>5, <1>6, Assembled DEF GateInv

LEMMA AnswerStep ==
  ASSUME IndInv, NEW c \in Calls, NEW outcome \in {"sent", "failed"}, Answer(c, outcome)
  PROVE  IndInv'
<1>1. /\ GateInv /\ RestType /\ Release(c, outcome, chain) /\ place[c] = "sending"
      /\ UNCHANGED <<timing, batch, stopped>> /\ outcome \in Settled
  BY Parts DEF Answer, Settled
<1>2. c \in Holders /\ At("pacing") \ {c} = At("pacing")
  BY <1>1 DEF Holders, At
<1>3. chain \in Seq(Calls) /\ Lists(chain, At("pacing") \ {c})
  BY <1>1, <1>2 DEF GateInv, GateType, QueuesExact
<1>4. GateInv'
  BY <1>1, <1>2, <1>3, ReleaseGate DEF RestType
<1>5. RestType' /\ DueCounted'
  BY <1>1, Parts DEF RestType, DueCounted, timing, batch
<1>6. CursorExact' /\ ReportComplete'
  BY <1>1, <1>2, ReleasePlaces, BatchesUntouched DEF IndInv
<1> QED
  BY <1>4, <1>5, <1>6, Assembled DEF GateInv

LEMMA BeginStep == ASSUME IndInv, NEW b \in Batches, Begin(b) PROVE IndInv'
<1>1. /\ GateInv /\ RestType /\ phase[b] = "new"
      /\ phase' = [phase EXCEPT ![b] = "running"]
      /\ UNCHANGED <<gate, timing, cursor, stopped>>
  BY Parts DEF Begin
<1>2. GateInv'
  BY <1>1 DEF gate, GateInv, GateType, SlotsCounted, NoSlotIdle, QueuesExact, Lists, At, Holders
<1>3. RestType' /\ DueCounted'
  BY <1>1, Parts DEF RestType, DueCounted, timing
<1>4. \A c \in Items : place'[c] = place[c] /\ (phase'[c[1]] = "returned" <=> phase[c[1]] = "returned")
  BY <1>1, ItemParts DEF gate, RestType
<1>5. CursorExact' /\ ReportComplete'
  BY <1>1, <1>4, Parts DEF CursorExact, ReportComplete
<1> QED
  BY <1>2, <1>3, <1>5, Assembled DEF GateInv

LEMMA TakeStep == ASSUME IndInv, NEW b \in Batches, Take(b) PROVE IndInv'
<1> DEFINE t == <<b, cursor[b] + 1>>
<1>1. /\ GateInv /\ RestType /\ phase[b] = "running" /\ ~stopped /\ cursor[b] < Size[b]
      /\ cursor' = [cursor EXCEPT ![b] = @ + 1] /\ Acquire(t)
      /\ UNCHANGED <<timing, phase, stopped>>
  BY Parts DEF Take
<1>2. t \in Items /\ t[1] = b /\ t[2] = cursor[b] + 1 /\ cursor[b] \in Nat
  <2>1. cursor[b] \in Nat /\ cursor[b] + 1 \in 1 .. Size[b]
    <3>1. cursor[b] \in Nat /\ Size[b] \in Nat /\ cursor[b] < Size[b]
      BY <1>1, SizeAssumption DEF RestType
    <3> QED
      BY <3>1
  <2>2. t \in {<<b, i>> : i \in 1 .. Size[b]}
    BY <2>1
  <2> QED
    BY <2>1, <2>2 DEF Items
<1> HIDE DEF t
<1>3. GateInv'
  BY <1>1, <1>2, ItemParts, AcquireGate DEF RestType
<1>4. RestType' /\ DueCounted'
  BY <1>1, Parts DEF RestType, DueCounted, timing
<1>5. /\ place'[t] # "new"
      /\ \A c \in Calls : c # t => place'[c] = place[c]
  BY <1>1, <1>2, ItemParts DEF Acquire, GateInv, GateType
<1>6. CursorExact'
  <2> SUFFICES ASSUME NEW c \in Items
               PROVE  place'[c] = "new" <=> c[2] > cursor'[c[1]] /\ phase'[c[1]] # "returned"
    BY DEF CursorExact
  <2>1. c \in Calls /\ c[1] \in Batches /\ c[2] \in Nat /\ c = <<c[1], c[2]>>
    BY ItemParts, SizeAssumption
  <2>2. place[c] = "new" <=> c[2] > cursor[c[1]] /\ phase[c[1]] # "returned"
    BY Parts DEF CursorExact
  <2>3. CASE c = t
    BY <1>1, <1>2, <1>5, <2>1, <2>3 DEF RestType
  <2>4. CASE c # t /\ c[1] = b
    <3>1. c[2] # cursor[b] + 1
      BY <2>1, <2>4 DEF t
    <3> QED
      BY <1>1, <1>2, <1>5, <2>1, <2>2, <2>4, <3>1 DEF RestType
  <2>5. CASE c[1] # b
    BY <1>1, <1>2, <1>5, <2>1, <2>2, <2>5 DEF RestType
  <2> QED
    BY <2>3, <2>4, <2>5
<1>7. ReportComplete'
  <2> SUFFICES ASSUME NEW c \in Items, phase'[c[1]] = "returned"
               PROVE  place'[c] \in Settled
    BY DEF ReportComplete
  <2> QED
    BY <1>1, <1>2, <1>5, ItemParts, Parts DEF ReportComplete
<1> QED
  BY <1>3, <1>4, <1>6, <1>7, Assembled DEF GateInv

LEMMA ReturnStep == ASSUME IndInv, NEW b \in Batches, Return(b) PROVE IndInv'
<1> DEFINE gone(c) == c \in Items /\ c[1] = b /\ c[2] > cursor[b]
<1>1. /\ GateInv /\ RestType /\ phase[b] = "running" /\ Busy(b) = {}
      /\ phase' = [phase EXCEPT ![b] = "returned"]
      /\ place' = [c \in Calls |-> IF gone(c) THEN "refused" ELSE place[c]]
      /\ UNCHANGED <<active, waiters, chain, timing, cursor, stopped>>
  BY Parts DEF Return
<1>2. \A c \in Calls : gone(c) => place[c] = "new"
  BY <1>1, Parts DEF CursorExact
<1>3. /\ At("waiting")' = At("waiting") /\ At("pacing")' = At("pacing")
      /\ Holders' = Holders
  BY <1>1, <1>2 DEF At, Holders
<1>4. GateType'
  BY <1>1 DEF GateInv, GateType, Settled
<1>5. SlotsCounted' /\ NoSlotIdle' /\ QueuesExact'
  BY <1>1, <1>3 DEF GateInv, SlotsCounted, NoSlotIdle, QueuesExact, Lists
<1>6. RestType' /\ DueCounted'
  BY <1>1, Parts DEF RestType, DueCounted, timing
<1>7. CursorExact'
  <2> SUFFICES ASSUME NEW c \in Items
               PROVE  place'[c] = "new" <=> c[2] > cursor'[c[1]] /\ phase'[c[1]] # "returned"
    BY DEF CursorExact
  <2>1. place[c] = "new" <=> c[2] > cursor[c[1]] /\ phase[c[1]] # "returned"
    BY Parts DEF CursorExact
  <2> QED
    BY <1>1, <2>1, ItemParts DEF RestType
<1>8. ReportComplete'
  <2> SUFFICES ASSUME NEW c \in Items, phase'[c[1]] = "returned"
               PROVE  place'[c] \in Settled
    BY DEF ReportComplete
  <2>1. CASE c[1] = b
    <3>1. place[c] \notin UnderWay
      BY <1>1, <2>1 DEF Busy
    <3>2. gone(c) \/ place[c] # "new"
      BY <1>1, <2>1, Parts, ItemParts, SizeAssumption DEF CursorExact, RestType
    <3> QED
      BY <1>1, <3>1, <3>2, ItemParts DEF GateInv, GateType, Settled
  <2>2. CASE c[1] # b
    BY <1>1, <2>2, ItemParts, Parts DEF ReportComplete, RestType
  <2> QED
    BY <2>1, <2>2
<1> QED
  BY <1>4, <1>5, <1>6, <1>7, <1>8, Assembled DEF GateInv

LEMMA StopStep == ASSUME IndInv, Stop PROVE IndInv'
<1>1. /\ GateInv /\ RestType /\ stopped' = TRUE /\ waiters' = <<>>
      /\ place' = [c \in Calls |-> IF place[c] = "waiting" THEN "refused" ELSE place[c]]
      /\ UNCHANGED <<active, chain, timing, batch>>
  BY Parts DEF Stop
<1>2. /\ At("waiting")' = {} /\ At("pacing")' = At("pacing") /\ Holders' = Holders
  BY <1>1 DEF At, Holders
<1>3. GateType'
  BY <1>1 DEF GateInv, GateType, Settled
<1>4. SlotsCounted' /\ NoSlotIdle'
  BY <1>1, <1>2 DEF GateInv, SlotsCounted, NoSlotIdle
<1>5. QueuesExact'
  BY <1>1, <1>2 DEF GateInv, QueuesExact, Lists
<1>6. RestType' /\ DueCounted'
  BY <1>1, Parts DEF RestType, DueCounted, timing, batch
<1>7. CursorExact' /\ ReportComplete'
  BY <1>1, BatchesUntouched DEF IndInv, UnderWay, Settled
<1> QED
  BY <1>3, <1>4, <1>5, <1>6, <1>7, Assembled DEF GateInv

LEMMA TickStep == ASSUME IndInv, Tick PROVE IndInv'
<1>1. GateInv'
  BY Parts DEF Tick, gate, GateInv, GateType, SlotsCounted, NoSlotIdle, QueuesExact, Lists, At, Holders
<1>2. RestType' /\ DueCounted'
  BY Parts, TimeAssumption DEF Tick, RestType, DueCounted, batch
<1>3. CursorExact' /\ ReportComplete'
  BY Parts DEF Tick, gate, batch, CursorExact, ReportComplete
<1> QED
  BY <1>1, <1>2, <1>3, Assembled DEF GateInv

LEMMA StutterStep == ASSUME IndInv, UNCHANGED vars PROVE IndInv'
  BY DEF vars, gate, timing, batch, IndInv, TypeOK, SlotsCounted, NoSlotIdle,
         QueuesExact, DueCounted, CursorExact, ReportComplete, Lists, At, Holders

LEMMA NextStep == ASSUME IndInv, [Next]_vars PROVE IndInv'
<1>1. CASE \E s \in Singles : Call(s)
  BY <1>1, CallStep
<1>2. CASE \E c \in Calls : \E outcome \in {"sent", "failed"} : Answer(c, outcome)
  BY <1>2, AnswerStep
<1>3. CASE \E b \in Batches : Begin(b) \/ Take(b) \/ Return(b)
  BY <1>3, BeginStep, TakeStep, ReturnStep
<1> QED
  BY <1>1, <1>2, <1>3, StartStep, TurnRefusedStep, StopStep, TickStep, StutterStep DEF Next

------------------------------------------------------------------------------
(* The theorems. *)

\* Slots are counted exactly and never idle while a call waits, queues hold
\* the calls that stand in them, and a batch returns with a full report.
THEOREM Invariance == Spec => []IndInv
  BY InitInv, NextStep, PTL DEF Spec

\* The active counter equals the messages under way and is at most the
\* policy's concurrency.
THEOREM Bounded == Spec => []SlotsCounted
<1>1. IndInv => SlotsCounted
  BY DEF IndInv
<1> QED
  BY <1>1, Invariance, PTL

\* No call waits while a slot is free, so a handover loses no wake-up.
THEOREM Handovers == Spec => []NoSlotIdle
<1>1. IndInv => NoSlotIdle
  BY DEF IndInv
<1> QED
  BY <1>1, Invariance, PTL

\* Only Start puts a call under way to Telegram.
LEMMA OnlyStartSends ==
  ASSUME IndInv, [Next]_vars, NEW c \in Calls, place'[c] = "sending", place[c] # "sending"
  PROVE  Start
<1> USE DEF IndInv, TypeOK
<1>1. ASSUME NEW d \in Calls, Acquire(d) PROVE FALSE
  BY <1>1 DEF Acquire
<1>2. ASSUME NEW d, NEW outcome \in Settled, NEW rest, Release(d, outcome, rest) PROVE FALSE
  BY <1>2 DEF Release, Settled
<1>3. ASSUME NEW s \in Singles, Call(s) PROVE FALSE
  BY <1>1, <1>3 DEF Call, Calls
<1>4. ASSUME NEW b \in Batches, Take(b) PROVE FALSE
  <2>1. cursor[b] + 1 \in 1 .. Size[b]
    <3>1. cursor[b] \in Nat /\ Size[b] \in Nat /\ cursor[b] < Size[b]
      BY <1>4, SizeAssumption DEF Take
    <3> QED
      BY <3>1
  <2>2. <<b, cursor[b] + 1>> \in {<<b, i>> : i \in 1 .. Size[b]}
    BY <2>1
  <2> QED
    BY <1>1, <1>4, <2>2 DEF Take, Calls, Items
<1>5. ~TurnRefused
  BY <1>2 DEF TurnRefused, Settled
<1>6. ASSUME NEW d \in Calls, NEW outcome \in {"sent", "failed"}, Answer(d, outcome) PROVE FALSE
  BY <1>2, <1>6 DEF Answer, Settled
<1>7. ASSUME NEW b \in Batches, Begin(b) \/ Return(b) PROVE FALSE
  BY <1>7 DEF Begin, Return, gate
<1>8. ~Stop /\ ~Tick /\ ~UNCHANGED vars
  BY DEF Stop, Tick, vars, gate
<1> QED
  BY <1>3, <1>4, <1>5, <1>6, <1>7, <1>8 DEF Next

\* Two messages start at least the policy's interval apart.
THEOREM Spacing == Spec => StartsSpaced
<1> DEFINE A == \A c \in Calls : place'[c] = "sending" /\ place[c] # "sending" => since >= Interval
<1>1. IndInv /\ [Next]_vars => [A]_vars
  <2> SUFFICES ASSUME IndInv, [Next]_vars, NEW c \in Calls,
                      place'[c] = "sending", place[c] # "sending"
               PROVE  since >= Interval
    OBVIOUS
  <2>1. Start
    BY OnlyStartSends
  <2> QED
    BY <2>1, TimeAssumption DEF Start, IndInv, DueCounted, TypeOK
<1> QED
  BY <1>1, Invariance, PTL DEF Spec, StartsSpaced

------------------------------------------------------------------------------
(* The order of starts. *)

\* The shapes a step of the gate gives the line, and what each means for it.
LEMMA LineAppends ==
  ASSUME NEW p \in Seq(Calls), NEW q \in Seq(Calls), NEW c \in Calls
  PROVE  /\ Goes(p \o q, p \o Append(q, c), 0)
         /\ Goes(p \o <<>>, Append(p, c) \o <<>>, 0)
  BY DEF Goes

LEMMA LineMoves ==
  ASSUME NEW p \in Seq(Calls), NEW q \in Seq(Calls), q # <<>>
  PROVE  Goes(p \o q, Append(p, Head(q)) \o Tail(q), 0)
  BY DEF Goes

LEMMA LineServes ==
  ASSUME NEW p \in Seq(Calls), NEW q \in Seq(Calls), p # <<>>
  PROVE  Goes(p \o q, Tail(p) \o q, 1)
  BY DEF Goes

LEMMA LineStays ==
  ASSUME NEW p \in Seq(Calls), NEW q \in Seq(Calls)
  PROVE  Goes(p \o q, p \o q, 0)
  BY DEF Goes

\* A step that does not stop the gate serves the head of the line or nobody.
LEMMA LineStep ==
  ASSUME IndInv, [Next]_vars, ~stopped'
  PROVE  \E served \in 0 .. 1 : Goes(Line, Line', served)
<1>1. chain \in Seq(Calls) /\ waiters \in Seq(Calls) /\ active \in Nat
  BY DEF IndInv, TypeOK
<1>2. ASSUME NEW c \in Calls, Acquire(c) PROVE Goes(Line, Line', 0)
  <2>1. CASE UNCHANGED <<waiters, chain>>
    BY <1>1, <2>1, LineStays DEF Line
  <2>2. CASE /\ active < Concurrency /\ chain' = Append(chain, c) /\ UNCHANGED waiters
    <3>1. waiters = <<>>
      BY <1>1, <2>2, ConcurrencyAssumption DEF IndInv, NoSlotIdle
    <3> QED
      BY <1>1, <2>2, <3>1, LineAppends DEF Line
  <2>3. CASE waiters' = Append(waiters, c) /\ UNCHANGED chain
    BY <1>1, <2>3, LineAppends DEF Line
  <2> QED
    BY <1>2, <2>1, <2>2, <2>3 DEF Acquire
<1>3. ASSUME NEW c, NEW outcome, Release(c, outcome, chain) PROVE Goes(Line, Line', 0)
  <2>1. CASE Handover
    BY <1>1, <1>3, <2>1, LineMoves DEF Release, Handover, Shift, Line
  <2>2. CASE ~Handover
    BY <1>1, <1>3, <2>2, LineStays DEF Release, Line
  <2> QED
    BY <2>1, <2>2
<1>4. ASSUME UNCHANGED <<waiters, chain>> PROVE Goes(Line, Line', 0)
  BY <1>1, <1>4, LineStays DEF Line
<1>5. ASSUME NEW s \in Singles, Call(s) PROVE Goes(Line, Line', 0)
  BY <1>2, <1>5 DEF Call, Calls
<1>6. ASSUME NEW b \in Batches, Take(b) PROVE Goes(Line, Line', 0)
  <2>1. cursor[b] \in Nat /\ Size[b] \in Nat /\ cursor[b] < Size[b]
    BY <1>6, SizeAssumption DEF Take, IndInv, TypeOK
  <2>2. <<b, cursor[b] + 1>> \in {<<b, i>> : i \in 1 .. Size[b]}
    BY <2>1
  <2> QED
    BY <1>2, <1>6, <2>2 DEF Take, Calls, Items
<1>7. ASSUME Start PROVE Goes(Line, Line', 1)
  BY <1>1, <1>7, LineServes DEF Start, Line
<1>8. ~TurnRefused /\ ~Stop
  BY DEF TurnRefused, Stop
<1>9. ASSUME NEW c \in Calls, NEW outcome \in {"sent", "failed"}, Answer(c, outcome)
      PROVE  Goes(Line, Line', 0)
  BY <1>3, <1>9 DEF Answer
<1>10. ASSUME NEW b \in Batches, Begin(b) \/ Return(b) PROVE Goes(Line, Line', 0)
  BY <1>4, <1>10 DEF Begin, Return, gate
<1>11. ASSUME Tick \/ UNCHANGED vars PROVE Goes(Line, Line', 0)
  BY <1>4, <1>11 DEF Tick, vars, gate
<1> QED
  BY <1>5, <1>6, <1>7, <1>8, <1>9, <1>10, <1>11 DEF Next

\* Calls start in the order they came, also while a slot changes hands.
THEOREM Order == Spec => NoOvertaking
<1> DEFINE A == ~stopped' => \E served \in 0 .. 1 : Goes(Line, Line', served)
<1>1. IndInv /\ [Next]_vars => [A]_vars
  BY LineStep
<1> QED
  BY <1>1, Invariance, PTL DEF Spec, NoOvertaking

------------------------------------------------------------------------------
(* One call to Telegram: what it is left with at every stage. *)

\* The largest of a set, once it is known.
LEMMA MaxIs ==
  ASSUME NEW S \in SUBSET Nat, NEW m \in S, \A y \in S : m >= y
  PROVE  Max(S) = m
<1>1. \A x \in S : (\A y \in S : x >= y) => x = m
  <2> SUFFICES ASSUME NEW x \in S, \A y \in S : x >= y PROVE x = m
    OBVIOUS
  <2>1. x >= m /\ m >= x /\ x \in Nat /\ m \in Nat
    OBVIOUS
  <2> QED BY <2>1
<1>2. m \in S /\ \A y \in S : m >= y
  OBVIOUS
<1> QED BY <1>1, <1>2 DEF Max

\* The wait before another attempt is a number of steps.
LEMMA BackoffIsNat == ASSUME NEW n \in 1 .. 4 PROVE Backoff(n) \in Nat
<1>1. 2 ^ 0 = 1 /\ 2 ^ 1 = 2 /\ 2 ^ 2 = 4 /\ 2 ^ 3 = 8
  OBVIOUS
<1>2. 2 ^ (n - 1) \in Nat
  <2>1. CASE n = 1
    <3>1. n - 1 = 0
      BY <2>1
    <3> QED BY <3>1, <1>1
  <2>2. CASE n = 2
    <3>1. n - 1 = 1
      BY <2>2
    <3> QED BY <3>1, <1>1
  <2>3. CASE n = 3
    <3>1. n - 1 = 2
      BY <2>3
    <3> QED BY <3>1, <1>1
  <2>4. CASE n = 4
    <3>1. n - 1 = 3
      BY <2>4
    <3> QED BY <3>1, <1>1
  <2> QED BY <2>1, <2>2, <2>3, <2>4
<1> DEFINE p == 2 ^ (n - 1)
<1> HIDE DEF p
<1>3. p \in Nat
  BY <1>2 DEF p
<1>4. CASE p <= 8
  <2>1. Min({p, 8}) = p
    BY <1>3, <1>4 DEF Min
  <2> QED BY <2>1, <1>3 DEF Backoff, p
<1>5. CASE ~ (p <= 8)
  <2>1. Min({p, 8}) = 8
    BY <1>3, <1>5 DEF Min
  <2> QED BY <2>1 DEF Backoff, p
<1> QED BY <1>4, <1>5

\* The wait honours both hints: it is never shorter than either asks for.
LEMMA HintsHonoured ==
  ASSUME NEW r, r.body \in Nat \union {NoDelay}, r.header \in Nat \union {NoDelay},
         call.attempt \in 1 .. 4
  PROVE  /\ Asks(r) \in Nat /\ RetryDelay(r) \in Nat
         /\ RetryDelay(r) >= Asks(r)
<1> DEFINE hints == {r.body, r.header} \ {NoDelay}
<1>1. hints \in SUBSET Nat
  OBVIOUS
<1>2. CASE hints = {}
  <2>1. Max({0} \union hints) = 0
    <3>1. {0} \union hints \in SUBSET Nat
      BY <1>1
    <3>2. 0 \in {0} \union hints /\ \A y \in {0} \union hints : 0 >= y
      BY <1>2
    <3> HIDE DEF hints
    <3> QED BY <3>1, <3>2, MaxIs
  <2>2. RetryDelay(r) = Backoff(call.attempt)
    BY <1>2 DEF RetryDelay
  <2> QED BY <2>1, <2>2, BackoffIsNat DEF Asks
<1>3. CASE hints # {}
  <2>1. PICK m \in hints : \A y \in hints : m >= y
    <3>1. CASE r.body = NoDelay
      BY <3>1, <1>3
    <3>2. CASE r.header = NoDelay
      BY <3>2, <1>3
    <3>3. CASE r.body # NoDelay /\ r.header # NoDelay /\ r.body >= r.header
      BY <3>3
    <3>4. CASE r.body # NoDelay /\ r.header # NoDelay /\ ~ (r.body >= r.header)
      BY <3>4
    <3> QED BY <3>1, <3>2, <3>3, <3>4
  <2>2. RetryDelay(r) = Max(hints)
    BY <1>3 DEF RetryDelay
  <2>3. Asks(r) = Max({0} \union hints)
    BY DEF Asks
  <2> HIDE DEF hints
  <2>4. m \in Nat
    BY <1>1, <2>1
  <2>5. Max(hints) = m
    BY <1>1, <2>1, MaxIs
  <2>6. Max({0} \union hints) = m
    <3>1. {0} \union hints \in SUBSET Nat
      BY <1>1
    <3>2. m \in {0} \union hints /\ \A y \in {0} \union hints : m >= y
      BY <2>1, <2>4
    <3> QED BY <3>1, <3>2, MaxIs
  <2> QED BY <2>2, <2>3, <2>4, <2>5, <2>6
<1> QED BY <1>2, <1>3

\* A step of the clock, for one who waits.
LEMMA OneStepLess ==
  ASSUME NEW n \in Nat
  PROVE  /\ Max({0, n - 1}) \in Nat /\ Max({0, n - 1}) <= n
         /\ n = 0 => Max({0, n - 1}) = 0
         /\ n # 0 => Max({0, n - 1}) = n - 1
<1>1. CASE n = 0
  <2>1. Max({0, n - 1}) = 0
    BY <1>1 DEF Max
  <2> QED BY <2>1, <1>1
<1>2. CASE n # 0
  <2>1. Max({0, n - 1}) = n - 1
    BY <1>2, MaxIs
  <2> QED BY <2>1, <1>2
<1> QED BY <1>1, <1>2

\* A call that has moved: its stage, attempt, wait and result are these, the rest is as it was.
Moved(stage, attempt, wait, result) ==
  /\ call' \in CallRecords /\ call'.kind = call.kind /\ call'.retries = call.retries
  /\ call'.stage = stage /\ call'.attempt = attempt /\ call'.wait = wait /\ call'.result = result

LEMMA CallMoves ==
  ASSUME call \in CallRecords, NEW stage \in CallStages, NEW attempt \in 0 .. 4, NEW wait \in Nat,
         NEW result \in CallResults
  PROVE  /\ call' = [call EXCEPT !.stage = stage] => Moved(stage, call.attempt, call.wait, call.result)
         /\ call' = [call EXCEPT !.stage = stage, !.result = result]
              => Moved(stage, call.attempt, call.wait, result)
         /\ call' = [call EXCEPT !.stage = stage, !.wait = wait]
              => Moved(stage, call.attempt, wait, call.result)
         /\ call' = [call EXCEPT !.stage = stage, !.attempt = attempt]
              => Moved(stage, attempt, call.wait, call.result)
         /\ call' = [call EXCEPT !.wait = wait] => Moved(call.stage, call.attempt, wait, call.result)
<1>1. call' = [call EXCEPT !.stage = stage] => Moved(stage, call.attempt, call.wait, call.result)
  BY DEF Moved, CallRecords
<1>2. call' = [call EXCEPT !.stage = stage, !.result = result]
        => Moved(stage, call.attempt, call.wait, result)
  BY DEF Moved, CallRecords
<1>3. call' = [call EXCEPT !.stage = stage, !.wait = wait]
        => Moved(stage, call.attempt, wait, call.result)
  BY DEF Moved, CallRecords
<1>4. call' = [call EXCEPT !.stage = stage, !.attempt = attempt]
        => Moved(stage, attempt, call.wait, call.result)
  BY DEF Moved, CallRecords
<1>5. call' = [call EXCEPT !.wait = wait] => Moved(call.stage, call.attempt, wait, call.result)
  BY DEF Moved, CallRecords
<1> QED BY <1>1, <1>2, <1>3, <1>4, <1>5

\* The parts of a call that is under way.
LEMMA CallParts ==
  ASSUME OutboundTypeOK
  PROVE  /\ call.kind \in {"query", "mutation"} /\ call.retries \in 0 .. 3 /\ call.attempt \in 0 .. 4
         /\ call.wait \in Nat /\ call.stage \in CallStages /\ call.result \in CallResults
         /\ effects \in Nat /\ asked \in Nat
         /\ answer.status \in Statuses \union {"none"}
         /\ answer.body \in Nat \union {NoDelay} /\ answer.header \in Nat \union {NoDelay}
BY OutboundAssumption DEF OutboundTypeOK, CallRecords, Answers

\* Every step of a call keeps what is known of it.
LEMMA OutboundInductive ==
  ASSUME OutboundIndInv, [OutboundNext]_outboundVars
  PROVE  OutboundIndInv'
<1>0. /\ OutboundTypeOK /\ AttemptsAllowed /\ OneOfAMessage /\ AnswersMeant /\ AskedFor
      /\ OutboundInv /\ call \in CallRecords
  BY DEF OutboundIndInv, OutboundTypeOK
<1> SUFFICES /\ OutboundTypeOK' /\ AttemptsAllowed' /\ OneOfAMessage' /\ AnswersMeant'
             /\ AskedFor' /\ OutboundInv'
  BY DEF OutboundIndInv
<1> DEFINE Kept == /\ OutboundTypeOK' /\ AttemptsAllowed' /\ OneOfAMessage' /\ AnswersMeant'
                   /\ AskedFor' /\ OutboundInv'
<1>a. /\ call.kind \in {"query", "mutation"} /\ call.retries \in 0 .. 3 /\ call.attempt \in 0 .. 4
      /\ call.wait \in Nat /\ effects \in Nat /\ asked \in Nat
      /\ call.stage \in CallStages /\ call.result \in CallResults
  BY <1>0, CallParts
<1>b. /\ {"idle", "attempting", "awaiting", "hints", "waiting", "reading", "ended"} \subseteq CallStages
      /\ {"none", "ABORTED", "TIMEOUT", "NETWORK", "TELEGRAM"} \union Statuses \subseteq CallResults
      /\ "ok" \in CallResults
  BY DEF CallStages, CallResults, Statuses
<1>1. ASSUME NEW kind \in {"query", "mutation"}, NEW retries \in Retries, BeginCall(kind, retries)
      PROVE  Kept
  <2>1. /\ call.stage = "idle" /\ UNCHANGED <<cut, wire, answer, effects, asked>>
        /\ call' \in CallRecords /\ call'.stage = "attempting" /\ call'.attempt = 1 /\ call'.result = "none"
        /\ retries \in 0 .. 3 /\ call'.retries = retries
    <3>1. call' = [kind |-> kind, retries |-> retries, stage |-> "attempting", attempt |-> 1, wait |-> 0,
                   result |-> "none"]
      BY <1>1 DEF BeginCall, Idle
    <3>2. retries \in 0 .. 3
      BY OutboundAssumption
    <3>3. call' \in CallRecords
      <4>1. "attempting" \in CallStages /\ "none" \in CallResults
        BY <1>b
      <4>2. 1 \in 0 .. 4 /\ 0 \in Nat
        OBVIOUS
      <4> QED BY <3>1, <3>2, <4>1, <4>2 DEF CallRecords
    <3>4. call.stage = "idle" /\ UNCHANGED <<cut, wire, answer, effects, asked>>
      BY <1>1 DEF BeginCall
    <3> QED BY <3>1, <3>2, <3>3, <3>4
  <2>2. OutboundTypeOK'
    BY <1>0, <1>a, <2>1 DEF OutboundTypeOK
  <2>3. AttemptsAllowed'
    BY <1>0, <1>a, <2>1 DEF AttemptsAllowed
  <2>4. OneOfAMessage'
    BY <1>0, <1>a, <2>1 DEF AttemptsAllowed, OneOfAMessage
  <2>5. AnswersMeant'
    BY <1>0, <1>a, <2>1 DEF AnswersMeant
  <2>6. AskedFor'
    BY <1>0, <1>a, <2>1 DEF AttemptsAllowed, AskedFor
  <2>7. OutboundInv'
    BY <1>0, <1>a, <2>1
      DEF AttemptsAllowed, OutboundInv, CarriedOutOnce, AnswersHold, Patient,
          AbortHeeded
  <2> QED BY <2>2, <2>3, <2>4, <2>5, <2>6, <2>7
<1>2. CASE Attempt
  <2>1. /\ call.stage = "attempting" /\ UNCHANGED <<effects, asked>>
        /\ \/ /\ Moved("ended", call.attempt, call.wait, "ABORTED")
              /\ UNCHANGED <<cut, wire, answer>>
           \/ /\ Moved("awaiting", call.attempt, call.wait, call.result)
              /\ wire' = wire \union {call.attempt} /\ answer' = NoAnswer
              /\ cut' \in [timer : BOOLEAN, abort : BOOLEAN, sent : Nat, before : Nat] /\ ~ cut'.abort
    <3>1. CASE cut.abort
      BY <1>2, <1>0, <1>a, <1>b, <3>1, CallMoves DEF Attempt, Throws
    <3>2. CASE ~ cut.abort
      <4>1. Moved("awaiting", call.attempt, call.wait, call.result)
        BY <1>2, <1>0, <1>a, <1>b, <3>2, CallMoves DEF Attempt, Reaches
      <4>2. cut \in [timer : BOOLEAN, abort : BOOLEAN, sent : Nat, before : Nat]
        BY <1>0 DEF OutboundTypeOK
      <4>3. cut' = [cut EXCEPT !.timer = FALSE, !.sent = @ + 1]
        BY <1>2, <3>2 DEF Attempt
      <4>4. cut' = [timer |-> FALSE, abort |-> cut.abort, sent |-> cut.sent + 1, before |-> cut.before]
        BY <4>2, <4>3
      <4>5. cut' \in [timer : BOOLEAN, abort : BOOLEAN, sent : Nat, before : Nat]
        BY <4>2, <4>4
      <4>6. cut'.abort = cut.abort
        BY <4>4
      <4> QED BY <1>2, <3>2, <4>1, <4>5, <4>6 DEF Attempt
    <3> QED BY <3>1, <3>2
  <2>2. /\ NoAnswer \in Answers /\ NoAnswer.status = "none"
        /\ call.attempt \in 1 .. 4
    BY <1>0, <1>a, <2>1 DEF NoAnswer, Answers, AttemptsAllowed
  <2>3. OutboundTypeOK'
    BY <1>0, <1>a, <2>1, <2>2 DEF AttemptsAllowed, Moved, OutboundTypeOK
  <2>4. AttemptsAllowed'
    BY <1>0, <1>a, <2>1, <2>2 DEF Moved, AttemptsAllowed
  <2>5. OneOfAMessage'
    BY <1>0, <1>a, <2>1, <2>2 DEF Moved, OneOfAMessage
  <2>6. AnswersMeant'
    BY <1>0, <1>a, <2>1, <2>2 DEF Moved, AnswersMeant
  <2>7. AskedFor'
    BY <1>0, <1>a, <2>1, <2>2 DEF OutboundInv, Patient, Moved, AskedFor
  <2>8. OutboundInv'
    BY <1>0, <1>a, <2>1, <2>2
      DEF Moved, OneOfAMessage, AnswersMeant, OutboundInv, CarriedOutOnce,
          AnswersHold, Patient, AbortHeeded
  <2> QED BY <2>3, <2>4, <2>5, <2>6, <2>7, <2>8
<1>3. CASE TimerFires
  <2>1. /\ call' = call /\ wire' = wire /\ answer' = answer /\ effects' = effects /\ asked' = asked
        /\ cut' \in [timer : BOOLEAN, abort : BOOLEAN, sent : Nat, before : Nat]
        /\ Asks(answer') = Asks(answer) /\ (cut'.abort => cut'.sent = cut'.before)
    BY <1>3, <1>0 DEF TimerFires, OutboundTypeOK, OutboundInv, AbortHeeded
  <2>2. OutboundTypeOK'
    BY <1>0, <1>a, <2>1 DEF OutboundTypeOK
  <2>3. AttemptsAllowed'
    BY <1>0, <1>a, <2>1 DEF AttemptsAllowed
  <2>4. OneOfAMessage'
    BY <1>0, <1>a, <2>1 DEF OneOfAMessage
  <2>5. AnswersMeant'
    BY <1>0, <1>a, <2>1 DEF AnswersMeant
  <2>6. AskedFor'
    BY <1>0, <1>a, <2>1 DEF AskedFor
  <2>7. OutboundInv'
    BY <1>0, <1>a, <2>1 DEF OutboundInv, CarriedOutOnce, AnswersHold, Patient, AbortHeeded
  <2> QED BY <2>2, <2>3, <2>4, <2>5, <2>6, <2>7
<1>4. CASE Abort
  <2>1. /\ call' = call /\ wire' = wire /\ answer' = answer /\ effects' = effects /\ asked' = asked
        /\ cut' \in [timer : BOOLEAN, abort : BOOLEAN, sent : Nat, before : Nat]
        /\ Asks(answer') = Asks(answer) /\ (cut'.abort => cut'.sent = cut'.before)
    BY <1>4, <1>0 DEF Abort, OutboundTypeOK, OutboundInv, AbortHeeded
  <2>2. OutboundTypeOK'
    BY <1>0, <1>a, <2>1 DEF OutboundTypeOK
  <2>3. AttemptsAllowed'
    BY <1>0, <1>a, <2>1 DEF AttemptsAllowed
  <2>4. OneOfAMessage'
    BY <1>0, <1>a, <2>1 DEF OneOfAMessage
  <2>5. AnswersMeant'
    BY <1>0, <1>a, <2>1 DEF AnswersMeant
  <2>6. AskedFor'
    BY <1>0, <1>a, <2>1 DEF AskedFor
  <2>7. OutboundInv'
    BY <1>0, <1>a, <2>1 DEF OutboundInv, CarriedOutOnce, AnswersHold, Patient, AbortHeeded
  <2> QED BY <2>2, <2>3, <2>4, <2>5, <2>6, <2>7
<1>5. CASE Respond
  <2>1. /\ call.stage = "awaiting" /\ answer # NoAnswer /\ asked' = Asks(answer)
        /\ UNCHANGED <<cut, wire, answer, effects>>
        /\ answer.status \in Statuses
        /\ \/ /\ answer.status \in {"ok", "unreadable"}
              /\ Moved("reading", call.attempt, call.wait, call.result)
           \/ /\ answer.status \in {"limited", "failed"}
              /\ call.kind = "mutation" => answer.status = "limited"
              /\ Moved("hints", call.attempt, call.wait, call.result)
           \/ /\ answer.status # "ok" /\ Moved("ended", call.attempt, call.wait, answer.status)
    <3>1. answer.status \in Statuses
      BY <1>5, <1>0, CallParts DEF Respond, AnswersMeant
    <3>2. CASE answer.status \in {"ok", "unreadable"}
      <4>1. Moved("reading", call.attempt, call.wait, call.result)
        <5>1. call' = [call EXCEPT !.stage = "reading"]
          BY <1>5, <3>2 DEF Respond, Reaches, Retryable
        <5> QED BY <1>0, <1>a, <1>b, <5>1, CallMoves
      <4> QED BY <1>5, <3>1, <3>2, <4>1 DEF Respond
    <3>3. CASE answer.status \notin {"ok", "unreadable"} /\ Retryable(answer.status)
      <4>1. Moved("hints", call.attempt, call.wait, call.result)
        BY <1>5, <1>0, <1>a, <1>b, <3>1, <3>3, CallMoves DEF Respond, Reaches
      <4> QED BY <1>5, <3>1, <3>3, <4>1 DEF Respond, Retryable
    <3>4. CASE answer.status \notin {"ok", "unreadable"} /\ ~ Retryable(answer.status)
      BY <1>5, <1>0, <1>a, <1>b, <3>1, <3>4, CallMoves DEF Respond, Throws
    <3> QED BY <3>2, <3>3, <3>4
  <2>2. Asks(answer) \in Nat /\ Asks(answer') = Asks(answer)
    <3>1. call.attempt \in 1 .. 4
      BY <1>0, <1>a, <2>1 DEF AttemptsAllowed
    <3> QED BY <1>0, <2>1, <3>1, CallParts, HintsHonoured
  <2>3. OutboundTypeOK'
    BY <1>0, <1>a, <2>1, <2>2 DEF Moved, OutboundTypeOK
  <2>4. AttemptsAllowed'
    BY <1>0, <1>a, <2>1, <2>2 DEF Moved, AttemptsAllowed
  <2>5. OneOfAMessage'
    BY <1>0, <1>a, <2>1, <2>2 DEF AnswersMeant, Moved, OneOfAMessage
  <2>6. AnswersMeant'
    BY <1>0, <1>a, <2>1, <2>2 DEF Moved, AnswersMeant
  <2>7. AskedFor'
    BY <1>0, <1>a, <2>1, <2>2 DEF Moved, AskedFor
  <2>8. OutboundInv'
    BY <1>0, <1>a, <2>1, <2>2
      DEF AnswersMeant, OneOfAMessage, Moved, OutboundInv, CarriedOutOnce,
          AnswersHold, Patient, AbortHeeded
  <2> QED BY <2>3, <2>4, <2>5, <2>6, <2>7, <2>8
<1>6. CASE ReadHints
  <2> DEFINE delay == RetryDelay(answer)
  <2>1. /\ Asks(answer) \in Nat /\ delay \in Nat /\ delay >= Asks(answer)
    <3>1. call.attempt \in 1 .. 4
      BY <1>0, <1>a, <1>6 DEF ReadHints, AttemptsAllowed
    <3> QED BY <1>0, <3>1, CallParts, HintsHonoured
  <2>2. /\ call.stage = "hints" /\ UNCHANGED <<cut, wire, answer, effects, asked>>
        /\ \/ call' = [call EXCEPT !.stage = "ended", !.result = "ABORTED"]
           \/ call' = [call EXCEPT !.stage = "ended", !.result = answer.status]
           \/ ~ Last /\ call' = [call EXCEPT !.stage = "waiting", !.wait = delay]
    BY <1>6 DEF ReadHints, Throws
  <2> HIDE DEF delay
  <2>3. answer.status \in {"limited", "failed"} /\ answer.status \in CallResults /\ delay >= asked
    BY <1>0, <1>a, <1>b, <2>1, <2>2 DEF AnswersMeant, AskedFor, Statuses
  <2>4. \/ Moved("ended", call.attempt, call.wait, "ABORTED")
        \/ Moved("ended", call.attempt, call.wait, answer.status)
        \/ call.attempt <= call.retries /\ Moved("waiting", call.attempt, delay, call.result)
    <3>1. CASE call' = [call EXCEPT !.stage = "ended", !.result = "ABORTED"]
      BY <1>0, <1>a, <1>b, <3>1, CallMoves
    <3>2. CASE call' = [call EXCEPT !.stage = "ended", !.result = answer.status]
      BY <1>0, <1>a, <1>b, <2>3, <3>2, CallMoves
    <3>3. CASE ~ Last /\ call' = [call EXCEPT !.stage = "waiting", !.wait = delay]
      <4>1. Moved("waiting", call.attempt, delay, call.result)
        BY <1>0, <1>a, <1>b, <2>1, <3>3, CallMoves
      <4>2. call.attempt <= call.retries
        BY <1>a, <3>3 DEF Last, MaximumAttempts
      <4> QED BY <4>1, <4>2
    <3> QED BY <2>2, <3>1, <3>2, <3>3
  <2>5. call.stage = "hints" /\ UNCHANGED <<cut, wire, answer, effects, asked>>
    BY <2>2
  <2>6. OutboundTypeOK'
    BY <1>0, <1>a, <2>1, <2>3, <2>4, <2>5 DEF Moved, OutboundTypeOK
  <2>7. AttemptsAllowed'
    BY <1>0, <1>a, <2>1, <2>3, <2>4, <2>5 DEF Moved, AttemptsAllowed
  <2>8. OneOfAMessage'
    BY <1>0, <1>a, <2>1, <2>3, <2>4, <2>5 DEF Moved, OneOfAMessage
  <2>9. AnswersMeant'
    BY <1>0, <1>a, <2>1, <2>3, <2>4, <2>5 DEF Moved, AnswersMeant
  <2>10. AskedFor'
    BY <1>0, <1>a, <2>1, <2>3, <2>4, <2>5 DEF Moved, AskedFor
  <2>11. OutboundInv'
    BY <1>0, <1>a, <2>1, <2>3, <2>4, <2>5
      DEF AnswersMeant, OneOfAMessage, Moved, OutboundInv, CarriedOutOnce,
          AnswersHold, Patient, AbortHeeded
  <2> QED BY <2>6, <2>7, <2>8, <2>9, <2>10, <2>11
<1>7. CASE Fail
  <2> DEFINE delay == Backoff(call.attempt)
  <2>1. delay \in Nat
    <3>1. call.attempt \in 1 .. 4
      BY <1>0, <1>a, <1>7 DEF Fail, AttemptsAllowed
    <3> QED BY <3>1, BackoffIsNat
  <2>2. /\ call.stage = "awaiting" /\ UNCHANGED <<cut, wire, answer, effects, asked>>
        /\ \/ call.kind = "query" /\ ~ Last /\ call' = [call EXCEPT !.stage = "waiting", !.wait = delay]
           \/ \E kind \in {"TIMEOUT", "ABORTED", "NETWORK"} :
                 call' = [call EXCEPT !.stage = "ended", !.result = kind]
    BY <1>7 DEF Fail, Throws, RetryableError
  <2> HIDE DEF delay
  <2>3. \/ /\ call.kind = "query" /\ call.attempt <= call.retries
           /\ Moved("waiting", call.attempt, delay, call.result)
        \/ /\ call'.result \in {"TIMEOUT", "ABORTED", "NETWORK"}
           /\ Moved("ended", call.attempt, call.wait, call'.result)
    <3>1. CASE \E kind \in {"TIMEOUT", "ABORTED", "NETWORK"} :
                 call' = [call EXCEPT !.stage = "ended", !.result = kind]
      <4>1. PICK kind \in {"TIMEOUT", "ABORTED", "NETWORK"} :
                   call' = [call EXCEPT !.stage = "ended", !.result = kind]
        BY <3>1
      <4>2. Moved("ended", call.attempt, call.wait, kind)
        BY <1>0, <1>a, <1>b, <4>1, CallMoves
      <4>3. call'.result = kind
        BY <4>2 DEF Moved
      <4> QED BY <4>2, <4>3
    <3>2. CASE call.kind = "query" /\ ~ Last /\ call' = [call EXCEPT !.stage = "waiting", !.wait = delay]
      <4>1. Moved("waiting", call.attempt, delay, call.result)
        BY <1>0, <1>a, <1>b, <2>1, <3>2, CallMoves
      <4>2. call.attempt <= call.retries
        BY <1>a, <3>2 DEF Last, MaximumAttempts
      <4> QED BY <3>2, <4>1, <4>2
    <3> QED BY <2>2, <3>1, <3>2
  <2>4. call.stage = "awaiting" /\ UNCHANGED <<cut, wire, answer, effects, asked>>
    BY <2>2
  <2>5. OutboundTypeOK'
    BY <1>0, <1>a, <2>1, <2>3, <2>4 DEF Moved, OutboundTypeOK
  <2>6. AttemptsAllowed'
    <3>1. call.attempt \in 1 .. (call.retries + 1)
      BY <1>0, <2>4 DEF AttemptsAllowed
    <3>2. CASE Moved("ended", call.attempt, call.wait, call'.result)
      BY <3>1, <3>2 DEF Moved, AttemptsAllowed
    <3>3. CASE call.attempt <= call.retries /\ Moved("waiting", call.attempt, delay, call.result)
      BY <3>1, <3>3 DEF Moved, AttemptsAllowed
    <3> QED BY <2>3, <3>2, <3>3
  <2>7. OneOfAMessage'
    BY <1>0, <1>a, <2>1, <2>3, <2>4 DEF Moved, OneOfAMessage
  <2>8. AnswersMeant'
    BY <1>0, <1>a, <2>1, <2>3, <2>4 DEF Moved, AnswersMeant
  <2>9. AskedFor'
    BY <1>0, <1>a, <2>1, <2>3, <2>4 DEF Moved, AskedFor
  <2>10. OutboundInv'
    BY <1>0, <1>a, <2>1, <2>3, <2>4
      DEF AskedFor, Moved, OutboundInv, CarriedOutOnce, AnswersHold, Patient,
          AbortHeeded
  <2> QED BY <2>5, <2>6, <2>7, <2>8, <2>9, <2>10
<1>8. CASE EndWait
  <2>1. /\ call.stage = "waiting" /\ UNCHANGED <<cut, wire, answer, effects, asked>>
        /\ \/ Moved("ended", call.attempt, call.wait, "ABORTED")
           \/ /\ call.wait = 0 /\ call.attempt <= call.retries
              /\ Moved("attempting", call.attempt + 1, call.wait, call.result)
    <3>1. call.attempt <= call.retries /\ call.attempt + 1 \in 0 .. 4
      BY <1>8, <1>0, <1>a DEF EndWait, AttemptsAllowed
    <3>2. CASE call' = [call EXCEPT !.stage = "ended", !.result = "ABORTED"]
      BY <1>8, <1>0, <1>a, <1>b, <3>2, CallMoves DEF EndWait
    <3>3. CASE call.wait = 0 /\ call' = [call EXCEPT !.stage = "attempting", !.attempt = @ + 1]
      <4>1. Moved("attempting", call.attempt + 1, call.wait, call.result)
        BY <1>0, <1>a, <1>b, <3>1, <3>3, CallMoves
      <4> QED BY <1>8, <3>1, <3>3, <4>1 DEF EndWait
    <3> QED BY <1>8, <3>2, <3>3 DEF EndWait, Throws
  <2>2. OutboundTypeOK'
    BY <1>0, <1>a, <2>1 DEF Moved, OutboundTypeOK
  <2>3. AttemptsAllowed'
    BY <1>0, <1>a, <2>1 DEF Moved, AttemptsAllowed
  <2>4. OneOfAMessage'
    BY <1>0, <1>a, <2>1 DEF Moved, OneOfAMessage
  <2>5. AnswersMeant'
    BY <1>0, <1>a, <2>1 DEF Moved, AnswersMeant
  <2>6. AskedFor'
    BY <1>0, <1>a, <2>1 DEF OutboundInv, Patient, Moved, AskedFor
  <2>7. OutboundInv'
    BY <1>0, <1>a, <2>1
      DEF Moved, OutboundInv, CarriedOutOnce, AnswersHold, Patient, AbortHeeded
  <2> QED BY <2>2, <2>3, <2>4, <2>5, <2>6, <2>7
<1>9. CASE ReadBody
  <2>1. /\ call.stage = "reading" /\ UNCHANGED <<cut, wire, answer, effects, asked>>
        /\ \/ answer.status = "ok" /\ Moved("ended", call.attempt, call.wait, "ok")
           \/ Moved("ended", call.attempt, call.wait, "TELEGRAM")
    BY <1>9, <1>0, <1>a, <1>b, CallMoves DEF ReadBody, Throws
  <2>2. OutboundTypeOK'
    BY <1>0, <1>a, <2>1 DEF Moved, OutboundTypeOK
  <2>3. AttemptsAllowed'
    BY <1>0, <1>a, <2>1 DEF Moved, AttemptsAllowed
  <2>4. OneOfAMessage'
    BY <1>0, <1>a, <2>1 DEF Moved, OneOfAMessage
  <2>5. AnswersMeant'
    BY <1>0, <1>a, <2>1 DEF Moved, AnswersMeant
  <2>6. AskedFor'
    BY <1>0, <1>a, <2>1 DEF Moved, AskedFor
  <2>7. OutboundInv'
    BY <1>0, <1>a, <2>1
      DEF AnswersMeant, Moved, OutboundInv, CarriedOutOnce, AnswersHold, Patient,
          AbortHeeded
  <2> QED BY <2>2, <2>3, <2>4, <2>5, <2>6, <2>7
<1>10. ASSUME NEW a \in wire, Serve(a)
       PROVE  Kept
  <2>1. PICK status \in Statuses, n \in {0, 1} :
          /\ wire' = wire \ {a} /\ effects' = effects + n /\ UNCHANGED <<call, cut, asked>>
          /\ status = "ok" => n = 1
          /\ status \in {"refused", "limited"} => n = 0
          /\ \/ answer' = answer
             \/ /\ call.stage = "awaiting" /\ call.attempt = a /\ answer'.status = status
                /\ answer' \in Answers
    BY <1>10 DEF Serve, Carried, Responses, Statuses, Answers
  <2>2. call.stage = "hints" => Asks(answer') = Asks(answer)
    BY <2>1
  <2>3. status # "none" /\ NoAnswer.status = "none"
    BY DEF Statuses, NoAnswer
  <2>4. OutboundTypeOK'
    BY <1>0, <1>a, <2>1, <2>2, <2>3 DEF OutboundTypeOK
  <2>5. AttemptsAllowed'
    BY <1>0, <1>a, <2>1, <2>2, <2>3 DEF AttemptsAllowed
  <2>6. OneOfAMessage'
    BY <1>0, <1>a, <2>1, <2>2, <2>3 DEF OneOfAMessage
  <2>7. AnswersMeant'
    <3>1. CASE answer' = answer
      BY <1>0, <1>a, <2>1, <2>3, <3>1 DEF OneOfAMessage, AnswersMeant
    <3>2. CASE answer' # answer
      BY <1>0, <1>a, <2>1, <2>3, <3>2 DEF OneOfAMessage, AnswersMeant
    <3> QED BY <3>1, <3>2
  <2>8. AskedFor'
    BY <1>0, <1>a, <2>1, <2>2, <2>3 DEF AskedFor
  <2>9. OutboundInv'
    BY <1>0, <1>a, <2>1, <2>2, <2>3
      DEF OneOfAMessage, OutboundInv, CarriedOutOnce, AnswersHold, Patient,
          AbortHeeded
  <2> QED BY <2>4, <2>5, <2>6, <2>7, <2>8, <2>9
<1>11. ASSUME NEW a \in wire, RequestLost(a)
       PROVE  Kept
  <2>1. /\ wire' = wire \ {a} /\ call' = call /\ cut' = cut /\ answer' = answer /\ effects' = effects
        /\ asked' = asked /\ Asks(answer') = Asks(answer)
    BY <1>11 DEF RequestLost
  <2>2. OutboundTypeOK'
    BY <1>0, <1>a, <2>1 DEF OutboundTypeOK
  <2>3. AttemptsAllowed'
    BY <1>0, <1>a, <2>1 DEF AttemptsAllowed
  <2>4. OneOfAMessage'
    BY <1>0, <1>a, <2>1 DEF OneOfAMessage
  <2>5. AnswersMeant'
    BY <1>0, <1>a, <2>1 DEF AnswersMeant
  <2>6. AskedFor'
    BY <1>0, <1>a, <2>1 DEF AskedFor
  <2>7. OutboundInv'
    BY <1>0, <1>a, <2>1
      DEF OneOfAMessage, OutboundInv, CarriedOutOnce, AnswersHold, Patient,
          AbortHeeded
  <2> QED BY <2>2, <2>3, <2>4, <2>5, <2>6, <2>7
<1>12. CASE OutboundTick
  <2> DEFINE w == Max({0, call.wait - 1})
             k == Max({0, asked - 1})
  <2>1. /\ call' = [call EXCEPT !.wait = w] /\ asked' = k
        /\ UNCHANGED <<cut, wire, answer, effects>> /\ Asks(answer') = Asks(answer)
    BY <1>12 DEF OutboundTick
  <2>2. /\ w \in Nat /\ w <= call.wait /\ (call.wait # 0 => w = call.wait - 1)
        /\ k \in Nat /\ k <= asked /\ (asked = 0 => k = 0) /\ (asked # 0 => k = asked - 1)
    BY <1>a, OneStepLess
  <2> HIDE DEF w, k
  <2>3. call.stage = "hints" => Asks(answer) \in Nat
    <3>1. call.stage = "hints" => call.attempt \in 1 .. 4
      BY <1>0, <1>a DEF AttemptsAllowed
    <3> QED BY <1>0, <3>1, CallParts, HintsHonoured
  <2>4. Moved(call.stage, call.attempt, w, call.result)
    BY <1>0, <1>a, <1>b, <2>1, <2>2, CallMoves
  <2>5. OutboundTypeOK'
    BY <1>0, <1>a, <2>1, <2>2, <2>3, <2>4 DEF Moved, OutboundTypeOK
  <2>6. AttemptsAllowed'
    BY <1>0, <1>a, <2>1, <2>2, <2>3, <2>4 DEF Moved, AttemptsAllowed
  <2>7. OneOfAMessage'
    BY <1>0, <1>a, <2>1, <2>2, <2>3, <2>4 DEF Moved, OneOfAMessage
  <2>8. AnswersMeant'
    BY <1>0, <1>a, <2>1, <2>2, <2>3, <2>4 DEF Moved, AnswersMeant
  <2>9. AskedFor'
    BY <1>0, <1>a, <2>1, <2>2, <2>3, <2>4 DEF Moved, AskedFor
  <2>10. OutboundInv'
    BY <1>0, <1>a, <2>1, <2>2, <2>3, <2>4
      DEF Moved, OutboundInv, CarriedOutOnce, AnswersHold, Patient, AbortHeeded
  <2> QED BY <2>5, <2>6, <2>7, <2>8, <2>9, <2>10
<1>13. CASE UNCHANGED outboundVars
  <2>1. /\ call' = call /\ cut' = cut /\ wire' = wire /\ answer' = answer /\ effects' = effects
        /\ asked' = asked /\ Asks(answer') = Asks(answer)
    BY <1>13 DEF outboundVars
  <2>2. OutboundTypeOK'
    BY <1>0, <2>1 DEF OutboundTypeOK
  <2>3. AttemptsAllowed'
    BY <1>0, <2>1 DEF AttemptsAllowed
  <2>4. OneOfAMessage'
    BY <1>0, <2>1 DEF OneOfAMessage
  <2>5. AnswersMeant'
    BY <1>0, <2>1 DEF AnswersMeant
  <2>6. AskedFor'
    BY <1>0, <2>1 DEF AskedFor
  <2>7. OutboundInv'
    BY <1>0, <2>1 DEF OutboundInv, CarriedOutOnce, AnswersHold, Patient, AbortHeeded
  <2> QED BY <2>2, <2>3, <2>4, <2>5, <2>6, <2>7
<1> QED
  BY <1>1, <1>2, <1>3, <1>4, <1>5, <1>6, <1>7, <1>8, <1>9, <1>10, <1>11, <1>12, <1>13
    DEF OutboundNext, Kind

\* One call to Telegram, whatever is lost and whenever the caller gives up.
THEOREM OutboundInvariance == OutboundSpec => []OutboundIndInv
<1>1. OutboundInit => OutboundIndInv
  <2> SUFFICES ASSUME OutboundInit PROVE OutboundIndInv
    OBVIOUS
  <2>1. /\ call = [kind |-> "query", retries |-> 0, stage |-> "idle", attempt |-> 0, wait |-> 0,
                   result |-> "none"]
        /\ cut = [timer |-> FALSE, abort |-> FALSE, sent |-> 0, before |-> 0]
        /\ wire = {} /\ answer = NoAnswer /\ effects = 0 /\ asked = 0
    BY DEF OutboundInit, Idle
  <2>2. "idle" \in CallStages /\ "none" \in CallResults
    BY DEF CallStages, CallResults
  <2>3. call \in CallRecords
    BY <2>1, <2>2 DEF CallRecords
  <2>4. NoAnswer \in Answers /\ NoAnswer.status = "none"
    BY DEF NoAnswer, Answers
  <2>5. call.stage = "idle" /\ call.result = "none" /\ ~ cut.abort
    BY <2>1
  <2>6. OutboundTypeOK
    BY <2>1, <2>3, <2>4 DEF OutboundTypeOK
  <2>7. AttemptsAllowed /\ AskedFor
    BY <2>1, <2>5 DEF AttemptsAllowed, AskedFor
  <2>8. OneOfAMessage /\ AnswersMeant
    BY <2>1, <2>4, <2>5 DEF OneOfAMessage, AnswersMeant
  <2>9. OutboundInv
    BY <2>1, <2>5 DEF OutboundInv, CarriedOutOnce, AnswersHold, Patient, AbortHeeded
  <2> QED BY <2>6, <2>7, <2>8, <2>9 DEF OutboundIndInv
<1>2. OutboundIndInv /\ [OutboundNext]_outboundVars => OutboundIndInv'
  BY OutboundInductive
<1> QED BY <1>1, <1>2, PTL DEF OutboundSpec

\* A message is carried out once at most, answers are true, Telegram is left alone for as long
\* as it asks, and nothing goes out after an abort.
THEOREM OutboundSafe == OutboundSpec => []OutboundInv
<1>1. OutboundIndInv => OutboundInv
  BY DEF OutboundIndInv
<1> QED BY <1>1, OutboundInvariance, PTL

-----------------------------------------------------------------------------
(* Releases *)

Shell == [script: {"none", "deploy", "rollback"}, stage: Stages, release: Links, from: Links]

\* What is known of a script at a place.
Fits(p) ==
    /\ p \in Shell
    /\ p.script = "deploy" => p.release # NoRelease
    /\ p.stage \notin {"idle", "unpacking", "migrating"} => p.release \in seen.passed
    /\ p.from \in (seen.passed \cap seen.current) \cup {NoRelease}
    /\ p.stage \in {"unpacking", "migrating", "recording"} => p.script = "deploy"

LEMMA AllFit == ReleasesIndInv => \A s \in Shells: Fits(shell[s])
BY DEF ReleasesIndInv, ReleasesTyped, ScriptsPassed, Fits, Shell

\* One script goes on, where nothing it is about to switch or report is at stake.
LEMMA ScriptMoves ==
    ASSUME ReleasesIndInv, NEW s \in Shells, NEW p, Fits(p),
           shell' = [shell EXCEPT ![s] = p],
           p.stage # "switching", p.stage \in {"restarting", "awaiting"} => shell[s].stage = "restarting" /\ p.release = shell[s].release /\ p.script = shell[s].script,
           UNCHANGED <<disk, schema, service, seen>>
    PROVE  ReleasesIndInv'
<1>1. /\ shell' \in [Shells -> Shell]
      /\ shell'[s] = p
      /\ \A t \in Shells \ {s}: shell'[t] = shell[t]
    BY DEF ReleasesIndInv, ReleasesTyped, Fits, Shell
<1>2. ReleasesTyped' /\ GateHeld' /\ LinksPassed'
    BY <1>1 DEF ReleasesIndInv, ReleasesTyped, GateHeld, LinksPassed, Shell
<1>3. ScriptsPassed'
    BY <1>1 DEF ReleasesIndInv, ScriptsPassed, Fits
<1>4. Untangled'
    BY <1>1 DEF ReleasesIndInv, Untangled
<1> QED BY <1>2, <1>3, <1>4 DEF ReleasesIndInv

LEMMA NothingFits == ReleasesIndInv => Fits(NoScript) /\ NoScript.stage = "idle"
BY DEF Fits, NoScript, Begun, Shell, Stages, Links

\* The steps that change nothing but the script.
LEMMA PlainSteps ==
    ASSUME ReleasesIndInv, NEW s \in Shells,
           (\E r \in Packages: CheckRelease(s, r)) \/ ReadPrevious(s) \/ ReadCurrent(s) \/ StopScript(s)
    PROVE  ReleasesIndInv'
<1> Fits(shell[s]) /\ disk.dirs \subseteq Packages
    BY AllFit DEF ReleasesIndInv, ReleasesTyped
<1>1. CASE \E r \in Packages: CheckRelease(s, r)
    <2>1. PICK r \in Packages: CheckRelease(s, r)
        BY <1>1
    <2> DEFINE p == Begun("deploy", "unpacking", r)
    <2>2. Fits(p)
        BY <2>1, ReleasesAssumption DEF Begun, Fits, Shell, Stages, Links
    <2>3. p.stage = "unpacking" BY DEF Begun
    <2>4. shell' = [shell EXCEPT ![s] = p] BY <2>1 DEF CheckRelease
    <2> HIDE DEF p
    <2> QED BY <2>1, <2>2, <2>3, <2>4, ScriptMoves DEF CheckRelease
<1>2. CASE ReadPrevious(s)
    <2> DEFINE p == Begun("rollback", "reading", disk.previous)
    <2>1. shell' = [shell EXCEPT ![s] = p] BY <1>2 DEF ReadPrevious
    <2>2. disk.previous \in seen.passed /\ disk.previous \in Links
        BY <1>2 DEF ReadPrevious, ReleasesIndInv, LinksPassed, ReleasesTyped
    <2>3. Fits(p)
        BY <2>2 DEF Begun, Fits, Shell, Stages, Links
    <2>4. p.stage = "reading" BY DEF Begun
    <2> HIDE DEF p
    <2> QED BY <1>2, <2>1, <2>3, <2>4, ScriptMoves DEF ReadPrevious
<1>3. CASE ReadCurrent(s)
    <2> DEFINE p == [shell[s] EXCEPT !.from = disk.current, !.stage = "linking"]
    <2>1. disk.current \in (seen.passed \cap seen.current) \cup {NoRelease} /\ disk.current \in Links
        BY DEF ReleasesIndInv, LinksPassed, ReleasesTyped
    <2>2. Fits(p) /\ p.stage = "linking"
        BY <1>3, <2>1 DEF ReadCurrent, Runs, Fits, Shell, Stages, Links
    <2>3. shell' = [shell EXCEPT ![s] = p]
        BY <1>3 DEF ReadCurrent, ReleasesIndInv, ReleasesTyped
    <2> HIDE DEF p
    <2> QED BY <1>3, <2>2, <2>3, ScriptMoves DEF ReadCurrent
<1>4. CASE StopScript(s)
    BY <1>4, NothingFits, ScriptMoves DEF StopScript
<1> QED BY <1>1, <1>2, <1>3, <1>4

\* A script at the next stage of itself.
LEMMA NextStage ==
    ASSUME ReleasesIndInv, NEW s \in Shells, NEW stage \in Stages, Moves(s, stage)
    PROVE  \E p \in Shell:
               /\ shell' = [shell EXCEPT ![s] = p] /\ shell' \in [Shells -> Shell]
               /\ p.script = shell[s].script /\ p.release = shell[s].release
               /\ p.from = shell[s].from /\ p.stage = stage
               /\ shell'[s] = p
               /\ \A t \in Shells \ {s}: shell'[t] = shell[t]
<1> DEFINE p == [shell[s] EXCEPT !.stage = stage]
<1>1. /\ p \in Shell /\ p.stage = stage /\ p.release = shell[s].release
      /\ p.script = shell[s].script /\ p.from = shell[s].from
    BY DEF ReleasesIndInv, ReleasesTyped, Shell
<1>2. shell' = [shell EXCEPT ![s] = p] /\ shell \in [Shells -> Shell]
    BY DEF Moves, ReleasesIndInv, ReleasesTyped, Shell
<1> HIDE DEF p
<1> QED BY <1>1, <1>2

LEMMA Unpacked == ASSUME ReleasesIndInv, NEW s \in Shells, Unpack(s) PROVE ReleasesIndInv'
<1>1. shell[s].release \in Packages /\ shell[s].script = "deploy" /\ Fits(shell[s])
    BY AllFit DEF Unpack, Runs, Fits, Shell, Links
<1>2. PICK p \in Shell:
          /\ shell' = [shell EXCEPT ![s] = p] /\ shell' \in [Shells -> Shell]
          /\ p.script = shell[s].script /\ p.release = shell[s].release
          /\ p.from = shell[s].from /\ p.stage = "migrating"
          /\ shell'[s] = p
          /\ \A t \in Shells \ {s}: shell'[t] = shell[t]
    BY NextStage DEF Unpack, Stages
<1>3. /\ disk' \in [dirs: SUBSET Packages, current: Links, next: Links, previous: Links,
                    inside: SUBSET (Links \X Links)]
      /\ disk'.current = disk.current /\ disk'.next = disk.next /\ disk'.previous = disk.previous
    BY <1>1 DEF Unpack, ReleasesIndInv, ReleasesTyped
<1>4. UNCHANGED <<schema, service, seen>>
    BY DEF Unpack
<1>5. ReleasesTyped' /\ GateHeld' /\ LinksPassed'
    BY <1>2, <1>3, <1>4 DEF ReleasesIndInv, ReleasesTyped, GateHeld, LinksPassed, Shell
<1>6. ScriptsPassed'
    BY <1>1, <1>2, <1>4 DEF ReleasesIndInv, ScriptsPassed
<1>7. Untangled'
    BY <1>2, <1>3, <1>4 DEF ReleasesIndInv, Untangled
<1> QED BY <1>5, <1>6, <1>7 DEF ReleasesIndInv

LEMMA Applied == ASSUME ReleasesIndInv, NEW s \in Shells, ApplyMigration(s) PROVE ReleasesIndInv'
<1>1. \A r \in seen.passed: LevelOf[r] \in Nat
    BY ReleasesAssumption DEF ReleasesIndInv, ReleasesTyped
<1>2. schema \in Nat /\ schema' = schema + 1
    BY DEF ApplyMigration, ReleasesIndInv, ReleasesTyped
<1>3. GateHeld'
    BY <1>1, <1>2 DEF ApplyMigration, ReleasesIndInv, GateHeld
<1>4. ReleasesTyped' /\ ScriptsPassed' /\ LinksPassed' /\ Untangled'
    BY <1>2 DEF ApplyMigration, ReleasesIndInv, ReleasesTyped, ScriptsPassed, LinksPassed, Untangled
<1> QED BY <1>3, <1>4 DEF ReleasesIndInv

LEMMA GatePassed == ASSUME ReleasesIndInv, NEW s \in Shells, PassGate(s) PROVE ReleasesIndInv'
<1>1. shell[s].release \in Packages /\ shell[s].script = "deploy"
    BY AllFit DEF PassGate, Runs, Fits, Shell, Links
<1>2. PICK p \in Shell:
          /\ shell' = [shell EXCEPT ![s] = p] /\ shell' \in [Shells -> Shell]
          /\ p.script = shell[s].script /\ p.release = shell[s].release
          /\ p.from = shell[s].from /\ p.stage = "recording"
          /\ shell'[s] = p
          /\ \A t \in Shells \ {s}: shell'[t] = shell[t]
    BY NextStage DEF PassGate, Stages
<1>3. /\ seen' \in [passed: SUBSET Packages, current: SUBSET Packages, told: SUBSET Packages,
                    tangled: BOOLEAN]
      /\ seen'.passed = seen.passed \cup {shell[s].release}
      /\ seen'.current = seen.current /\ seen'.told = seen.told /\ seen'.tangled = seen.tangled
    BY <1>1 DEF PassGate, ReleasesIndInv, ReleasesTyped
<1>4. UNCHANGED <<disk, schema, service>> /\ schema = LevelOf[shell[s].release]
    BY DEF PassGate, Migrated
<1>5. GateHeld'
    BY <1>3, <1>4 DEF ReleasesIndInv, ReleasesTyped, GateHeld
<1>6. ReleasesTyped' /\ LinksPassed'
    BY <1>2, <1>3, <1>4 DEF ReleasesIndInv, ReleasesTyped, LinksPassed, Shell
<1>7. ScriptsPassed'
    BY <1>1, <1>2, <1>3, ReleasesAssumption DEF ReleasesIndInv, ScriptsPassed
<1>8. Untangled'
    BY <1>2, <1>3, <1>4 DEF ReleasesIndInv, Untangled
<1> QED BY <1>5, <1>6, <1>7, <1>8 DEF ReleasesIndInv

\* The file that names the release before.
LEMMA PreviousWritten ==
    ASSUME ReleasesIndInv, NEW s \in Shells, RecordPrevious(s) \/ WritePrevious(s)
    PROVE  ReleasesIndInv'
<1> DEFINE was == IF Runs(s, "deploy", "recording")
                  THEN IF disk.current = NoRelease THEN disk.previous ELSE disk.current
                  ELSE shell[s].from
           stage == IF Runs(s, "deploy", "recording") THEN "linking" ELSE "restarting"
<1>1. was \in (seen.passed \cap seen.current) \cup {NoRelease} /\ was \in Links
    BY DEF ReleasesIndInv, LinksPassed, ScriptsPassed, ReleasesTyped
<1>2. /\ disk' \in [dirs: SUBSET Packages, current: Links, next: Links, previous: Links,
                    inside: SUBSET (Links \X Links)]
      /\ disk'.current = disk.current /\ disk'.next = disk.next /\ disk'.previous = was
    <2>1. disk \in [dirs: SUBSET Packages, current: Links, next: Links, previous: Links,
                    inside: SUBSET (Links \X Links)]
        BY DEF ReleasesIndInv, ReleasesTyped
    <2>2. CASE RecordPrevious(s)
        BY <1>1, <2>1, <2>2 DEF RecordPrevious
    <2>3. CASE WritePrevious(s)
        BY <1>1, <2>1, <2>3 DEF WritePrevious, Runs
    <2> QED BY <2>2, <2>3
<1>3. /\ Moves(s, stage) /\ stage \in Stages /\ UNCHANGED <<schema, service, seen>>
      /\ shell[s].stage \in {"recording", "writing"}
      /\ stage = "restarting" => shell[s].script = "rollback"
    BY DEF RecordPrevious, WritePrevious, Runs, Stages
<1>4. stage \in {"linking", "restarting"}
    OBVIOUS
<1> HIDE DEF was, stage
<1>5. PICK p \in Shell:
          /\ shell' = [shell EXCEPT ![s] = p] /\ shell' \in [Shells -> Shell]
          /\ p.script = shell[s].script /\ p.release = shell[s].release
          /\ p.from = shell[s].from /\ p.stage = stage
          /\ shell'[s] = p
          /\ \A t \in Shells \ {s}: shell'[t] = shell[t]
    BY <1>3, NextStage
<1>6. ReleasesTyped' /\ GateHeld' /\ LinksPassed'
    BY <1>1, <1>2, <1>3, <1>5 DEF ReleasesIndInv, ReleasesTyped, GateHeld, LinksPassed, Shell
<1>7. ScriptsPassed'
    BY <1>3, <1>4, <1>5 DEF ReleasesIndInv, ScriptsPassed
<1>8. Untangled'
    BY <1>2, <1>3, <1>4, <1>5 DEF ReleasesIndInv, Untangled
<1> QED BY <1>6, <1>7, <1>8 DEF ReleasesIndInv

LEMMA Stopped ==
    ASSUME ReleasesIndInv, NEW s \in Shells, shell' = [shell EXCEPT ![s] = NoScript]
    PROVE  /\ shell' \in [Shells -> Shell]
           /\ Fits(NoScript) /\ shell'[s] = NoScript
           /\ \A t \in Shells \ {s}: shell'[t] = shell[t]
BY NothingFits DEF ReleasesIndInv, ReleasesTyped, Fits, Shell

\* ln -s: beside others of its kind it may end up inside a release.
LEMMA Linked == ASSUME ReleasesIndInv, NEW s \in Shells, LinkNext(s) PROVE ReleasesIndInv'
<1>1. shell[s].release \in seen.passed /\ shell[s].release \in Links /\ shell[s].release # NoRelease
    BY ReleasesAssumption DEF LinkNext, ReleasesIndInv, ReleasesTyped, ScriptsPassed, Links
<1>2. UNCHANGED <<schema, service>> /\ shell[s].stage = "linking"
    BY DEF LinkNext
<1>3. disk \in [dirs: SUBSET Packages, current: Links, next: Links, previous: Links,
               inside: SUBSET (Links \X Links)]
    BY DEF ReleasesIndInv, ReleasesTyped
<1>4. seen \in [passed: SUBSET Packages, current: SUBSET Packages, told: SUBSET Packages,
               tangled: BOOLEAN]
    BY DEF ReleasesIndInv, ReleasesTyped
<1>5. \/ /\ Moves(s, "switching")
      \/ shell' = [shell EXCEPT ![s] = NoScript]
    BY DEF LinkNext, Moves, MovesOr, ReleasesIndInv, ReleasesTyped
<1>6. /\ shell' \in [Shells -> Shell]
      /\ Fits(shell'[s]) /\ shell'[s].stage \in {"switching", "idle"}
      /\ shell'[s].stage = "switching" => shell'[s].release = shell[s].release
      /\ \A t \in Shells \ {s}: shell'[t] = shell[t]
    <2>1. CASE Moves(s, "switching")
        <3>1. PICK p \in Shell:
                  /\ shell' = [shell EXCEPT ![s] = p] /\ shell' \in [Shells -> Shell]
                  /\ p.script = shell[s].script /\ p.release = shell[s].release
                  /\ p.from = shell[s].from /\ p.stage = "switching"
                  /\ shell'[s] = p
                  /\ \A t \in Shells \ {s}: shell'[t] = shell[t]
            BY <2>1, NextStage DEF Stages
        <3>2. Fits(shell[s]) BY AllFit
        <3> QED BY <1>1, <3>1, <3>2 DEF Fits
    <2>2. CASE shell' = [shell EXCEPT ![s] = NoScript]
        BY <2>2, Stopped, NothingFits
    <2> QED BY <1>5, <2>1, <2>2
<1>7. ScriptsPassed'
    <2>1. seen'.passed = seen.passed /\ seen'.current = seen.current
        BY <1>4 DEF LinkNext
    <2> QED BY <1>6, <2>1 DEF ReleasesIndInv, ScriptsPassed, Fits
<1>8. CASE disk.next = NoRelease
    <2>1. /\ disk' \in [dirs: SUBSET Packages, current: Links, next: Links, previous: Links,
                        inside: SUBSET (Links \X Links)]
          /\ disk'.current = disk.current /\ disk'.next = shell[s].release
          /\ disk'.previous = disk.previous /\ seen' = seen
        BY <1>1, <1>3, <1>8 DEF LinkNext
    <2>2. ReleasesTyped' /\ GateHeld' /\ LinksPassed'
        BY <1>1, <1>2, <1>6, <2>1 DEF ReleasesIndInv, ReleasesTyped, GateHeld, LinksPassed, Shell
    <2>3. ~seen.tangled => \A t \in Shells: shell[t].stage # "switching"
        BY <1>8, ReleasesAssumption DEF ReleasesIndInv, Untangled, ScriptsPassed, ReleasesTyped
    <2>4. Untangled'
        BY <1>1, <1>2, <1>6, <2>1, <2>3 DEF ReleasesIndInv, Untangled
    <2> QED BY <1>7, <2>2, <2>4 DEF ReleasesIndInv
<1>9. CASE disk.next # NoRelease
    <2>1. <<disk.next, shell[s].release>> \in Links \X Links
        BY <1>1, <1>3
    <2>2. /\ disk' \in [dirs: SUBSET Packages, current: Links, next: Links, previous: Links,
                        inside: SUBSET (Links \X Links)]
          /\ disk'.current = disk.current /\ disk'.next = disk.next
          /\ disk'.previous = disk.previous
        BY <1>3, <1>9, <2>1 DEF LinkNext
    <2>3. /\ seen' \in [passed: SUBSET Packages, current: SUBSET Packages, told: SUBSET Packages,
                        tangled: BOOLEAN]
          /\ seen'.tangled /\ seen'.passed = seen.passed /\ seen'.current = seen.current
        BY <1>4, <1>9 DEF LinkNext
    <2>4. ReleasesTyped' /\ GateHeld' /\ LinksPassed'
        BY <1>2, <1>6, <2>2, <2>3 DEF ReleasesIndInv, ReleasesTyped, GateHeld, LinksPassed, Shell
    <2>5. Untangled' BY <2>3 DEF Untangled
    <2> QED BY <1>7, <2>4, <2>5 DEF ReleasesIndInv
<1> QED BY <1>8, <1>9

\* mv -Tf: the link of whoever came last becomes the current one.
LEMMA Switched == ASSUME ReleasesIndInv, NEW s \in Shells, Switch(s) PROVE ReleasesIndInv'
<1> DEFINE stage == IF shell[s].script = "deploy" THEN "restarting" ELSE "writing"
<1>1. UNCHANGED <<schema, service>> /\ shell[s].stage = "switching" /\ Fits(shell[s])
    BY AllFit DEF Switch
<1>2. CASE disk.next = NoRelease
    <2>1. shell' = [shell EXCEPT ![s] = NoScript] /\ UNCHANGED <<disk, seen>>
        BY <1>2 DEF Switch, MovesOr
    <2> QED BY <1>1, <2>1, NothingFits, ScriptMoves
<1>3. CASE disk.next # NoRelease
    <2>1. Moves(s, stage) /\ stage \in Stages
        BY <1>3 DEF Switch, Moves, MovesOr, ReleasesIndInv, ReleasesTyped, Stages
    <2>2. stage \in {"restarting", "writing"} /\ (stage = "restarting" <=> shell[s].script = "deploy")
        OBVIOUS
    <2> HIDE DEF stage
    <2>3. PICK p \in Shell:
              /\ shell' = [shell EXCEPT ![s] = p] /\ shell' \in [Shells -> Shell]
              /\ p.script = shell[s].script /\ p.release = shell[s].release
              /\ p.from = shell[s].from /\ p.stage = stage
              /\ shell'[s] = p
              /\ \A t \in Shells \ {s}: shell'[t] = shell[t]
        BY <2>1, NextStage
    <2>4. disk.next \in seen.passed /\ disk.next \in Packages
        BY <1>3 DEF ReleasesIndInv, LinksPassed, ReleasesTyped, Links
    <2>5. /\ disk' \in [dirs: SUBSET Packages, current: Links, next: Links, previous: Links,
                        inside: SUBSET (Links \X Links)]
          /\ disk'.current = disk.next /\ disk'.next = NoRelease /\ disk'.previous = disk.previous
        <3>1. disk' = [disk EXCEPT !.current = disk.next, !.next = NoRelease]
            BY <1>3 DEF Switch
        <3>2. disk \in [dirs: SUBSET Packages, current: Links, next: Links, previous: Links,
                        inside: SUBSET (Links \X Links)]
            BY DEF ReleasesIndInv, ReleasesTyped
        <3>3. disk.next \in Links /\ NoRelease \in Links
            BY <2>4 DEF Links
        <3> QED BY <3>1, <3>2, <3>3
    <2>6. /\ seen' \in [passed: SUBSET Packages, current: SUBSET Packages, told: SUBSET Packages,
                        tangled: BOOLEAN]
          /\ seen'.passed = seen.passed /\ seen'.current = seen.current \cup {disk.next}
          /\ seen'.told = seen.told /\ seen'.tangled = seen.tangled
        BY <1>3, <2>4 DEF Switch, ReleasesIndInv, ReleasesTyped
    <2>7. ReleasesTyped' /\ GateHeld'
        BY <1>1, <2>3, <2>5, <2>6 DEF ReleasesIndInv, ReleasesTyped, GateHeld, Shell
    <2>8. LinksPassed'
        BY <1>1, <2>4, <2>5, <2>6 DEF ReleasesIndInv, LinksPassed
    <2>9. ScriptsPassed'
        BY <1>1, <2>2, <2>3, <2>6 DEF ReleasesIndInv, ScriptsPassed, Fits
    <2>10. ~seen.tangled => /\ shell[s].release = disk.next
                            /\ \A t \in Shells \ {s}: shell[t].stage # "switching"
        BY <1>1 DEF ReleasesIndInv, Untangled
    <2>11. Untangled'
        BY <2>2, <2>3, <2>6, <2>10 DEF ReleasesIndInv, Untangled
    <2> QED BY <2>7, <2>8, <2>9, <2>11 DEF ReleasesIndInv
<1> QED BY <1>2, <1>3

LEMMA Restarted == ASSUME ReleasesIndInv, NEW s \in Shells, Restart(s) PROVE ReleasesIndInv'
<1>1. PICK p \in Shell:
          /\ shell' = [shell EXCEPT ![s] = p] /\ shell' \in [Shells -> Shell]
          /\ p.script = shell[s].script /\ p.release = shell[s].release
          /\ p.from = shell[s].from /\ p.stage = "awaiting"
          /\ shell'[s] = p
          /\ \A t \in Shells \ {s}: shell'[t] = shell[t]
    BY NextStage DEF Restart, Stages
<1>2. UNCHANGED <<disk, schema, seen>> /\ service' = disk.current /\ shell[s].stage = "restarting"
    BY DEF Restart
<1>3. ReleasesTyped' /\ GateHeld' /\ LinksPassed'
    BY <1>1, <1>2 DEF ReleasesIndInv, ReleasesTyped, GateHeld, LinksPassed, Shell
<1>4. ScriptsPassed'
    BY <1>1, <1>2 DEF ReleasesIndInv, ScriptsPassed
<1>5. Untangled'
    BY <1>1, <1>2 DEF ReleasesIndInv, Untangled
<1> QED BY <1>3, <1>4, <1>5 DEF ReleasesIndInv

LEMMA Reported == ASSUME ReleasesIndInv, NEW s \in Shells, ReportDeployed(s) PROVE ReleasesIndInv'
<1>1. /\ shell' \in [Shells -> Shell]
      /\ Fits(NoScript) /\ shell'[s] = NoScript
      /\ \A t \in Shells \ {s}: shell'[t] = shell[t]
    BY Stopped DEF ReportDeployed
<1>2. UNCHANGED <<disk, schema, service>> /\ shell[s].stage = "awaiting"
    BY DEF ReportDeployed
<1>3. shell[s].script = "deploy" => shell[s].release \in Packages
    BY DEF ReleasesIndInv, ReleasesTyped, ScriptsPassed, Links
<1>4. /\ seen' \in [passed: SUBSET Packages, current: SUBSET Packages, told: SUBSET Packages,
                    tangled: BOOLEAN]
      /\ seen'.passed = seen.passed /\ seen'.current = seen.current /\ seen'.tangled = seen.tangled
      /\ seen'.told \subseteq seen.told \cup {r \in {shell[s].release}: shell[s].script = "deploy"}
    BY <1>3 DEF ReportDeployed, ReleasesIndInv, ReleasesTyped
<1>5. ReleasesTyped' /\ GateHeld' /\ LinksPassed'
    BY <1>1, <1>2, <1>4 DEF ReleasesIndInv, ReleasesTyped, GateHeld, LinksPassed, Shell
<1>6. ScriptsPassed'
    BY <1>1, <1>4, NothingFits DEF ReleasesIndInv, ScriptsPassed, Fits
<1>7. Untangled'
    BY <1>1, <1>2, <1>4, NothingFits DEF ReleasesIndInv, Untangled
<1> QED BY <1>5, <1>6, <1>7 DEF ReleasesIndInv

LEMMA ReleasesStart == ReleasesInit => ReleasesIndInv
<1> SUFFICES ASSUME ReleasesInit PROVE ReleasesIndInv
    OBVIOUS
<1>1. \A s \in Shells: shell[s] = NoScript
    BY DEF ReleasesInit
<1>2. ReleasesTyped
    BY DEF ReleasesInit, ReleasesTyped, NoScript, Begun, Stages, Links
<1>3. GateHeld /\ LinksPassed
    BY DEF ReleasesInit, GateHeld, LinksPassed
<1>4. ScriptsPassed /\ Untangled
    BY <1>1 DEF ReleasesInit, ScriptsPassed, Untangled, NoScript, Begun
<1> QED BY <1>2, <1>3, <1>4 DEF ReleasesIndInv

LEMMA ReleasesStep == ReleasesIndInv /\ [ReleasesNext]_releaseVars => ReleasesIndInv'
<1> SUFFICES ASSUME ReleasesIndInv, [ReleasesNext]_releaseVars PROVE ReleasesIndInv'
    OBVIOUS
<1>1. ASSUME NEW s \in Shells,
             \/ (\E r \in Packages: CheckRelease(s, r)) \/ ReadPrevious(s) \/ ReadCurrent(s) \/ StopScript(s)
             \/ Unpack(s) \/ ApplyMigration(s) \/ PassGate(s) \/ RecordPrevious(s) \/ WritePrevious(s)
             \/ LinkNext(s) \/ Switch(s) \/ Restart(s) \/ ReportDeployed(s)
      PROVE  ReleasesIndInv'
    BY <1>1, PlainSteps, Unpacked, Applied, GatePassed, PreviousWritten, Linked, Switched,
       Restarted, Reported
<1>2. CASE ServiceStarts \/ UNCHANGED releaseVars
    <2>1. UNCHANGED <<shell, disk, schema, seen>> /\ service' \in {service, disk.current}
        BY <1>2 DEF ServiceStarts, releaseVars
    <2>2. ReleasesTyped' /\ GateHeld' /\ LinksPassed' /\ ScriptsPassed' /\ Untangled'
        BY <2>1 DEF ReleasesIndInv, ReleasesTyped, GateHeld, LinksPassed, ScriptsPassed, Untangled
    <2> QED BY <2>2 DEF ReleasesIndInv
<1> QED BY <1>1, <1>2 DEF ReleasesNext

\* deploy-release.sh, rollback.sh: nothing runs ahead of its migrations, whatever script
\* stops where, and beside how many others.
THEOREM ReleasesSafe == ReleasesSpec => []ReleasesInv
<1>1. ReleasesIndInv => ReleasesInv
    BY DEF ReleasesIndInv, ReleasesInv, GateHeld, LinksPassed, NeverAhead, RollbackKnown,
           ReportsHold, Untangled
<1> QED BY <1>1, ReleasesStart, ReleasesStep, PTL DEF ReleasesSpec

-----------------------------------------------------------------------------
(* The environment *)

LEMMA AcceptedLoads ==
    ASSUME NEW e \in Contents, Accepts(e), ValuesParse(e)
    PROVE  Loads(e, TRUE)
BY DEF Accepts, Loads, Contents, Words, KeyParses, FlagsParse, On, IsLoopbackHost

LEMMA EnvironmentStarts == EnvironmentInit => EnvironmentIndInv
BY DEF EnvironmentInit, EnvironmentIndInv, EnvironmentInv, InstalledStarts, ServesSafely

LEMMA EnvironmentSteps == EnvironmentIndInv /\ [EnvironmentNext]_environmentVars => EnvironmentIndInv'
<1> SUFFICES ASSUME EnvironmentIndInv, [EnvironmentNext]_environmentVars
             PROVE  EnvironmentIndInv'
    OBVIOUS
<1> USE DEF EnvironmentIndInv, EnvironmentInv
<1>1. CASE InstallEnvironment
    BY <1>1, AcceptedLoads DEF InstallEnvironment, InstalledStarts, ServesSafely
<1>2. CASE ConfigureLocalBind
    <2>1. installed' \in Contents
        BY <1>2 DEF ConfigureLocalBind, Contents
    <2>2. ValuesParse(installed') => Loads(installed', TRUE)
        BY <1>2 DEF ConfigureLocalBind, InstalledStarts, ValuesParse, Loads, Contents, KeyParses,
                    FlagsParse, On, IsLoopbackHost
    <2> QED
        BY <1>2, <2>1, <2>2 DEF ConfigureLocalBind, InstalledStarts, ServesSafely
<1>3. CASE StartService
    BY <1>3 DEF StartService, InstalledStarts, ServesSafely, Loads
<1>4. CASE StartDevelopment
    BY <1>4 DEF StartDevelopment, InstalledStarts, ServesSafely, Loads
<1>5. CASE UNCHANGED environmentVars
    BY <1>5 DEF environmentVars, InstalledStarts, ServesSafely
<1> QED
    BY <1>1, <1>2, <1>3, <1>4, <1>5 DEF EnvironmentNext

\* install-env.sh, config/env.ts: what the script lets through starts, and serves safely.
THEOREM EnvironmentSafe == EnvironmentSpec => []EnvironmentInv
<1>1. EnvironmentIndInv => EnvironmentInv BY DEF EnvironmentIndInv
<1> QED BY <1>1, EnvironmentStarts, EnvironmentSteps, PTL DEF EnvironmentSpec

-----------------------------------------------------------------------------
(* Backups *)

LEMMA BackupsStart == BackupsInit => BackupsIndInv
<1> SUFFICES ASSUME BackupsInit PROVE BackupsIndInv
    OBVIOUS
<1> USE BackupsAssumption
<1>1. NoFile \in Files /\ NoFile.manifest = "none" /\ NoFile.data = Nil
    BY DEF NoFile, Files, Names
<1>2. file \in [Archives -> Files] /\ \A b \in Archives: file[b] = NoFile
    BY <1>1 DEF BackupsInit
<1>3. BackupsTyped
    BY <1>2 DEF BackupsInit, BackupsTyped, Taking, Restoring
<1>4. FilesWhole
    BY <1>1, <1>2 DEF BackupsInit, FilesWhole, Taking
<1>5. RestoreInHand /\ TargetWhole /\ LossIsLate /\ RestoresHold
    BY DEF BackupsInit, RestoreInHand, TargetWhole, LossIsLate, RestoresHold, Restoring
<1> QED BY <1>3, <1>4, <1>5 DEF BackupsIndInv

\* What is said of a restore, and of its target, as long as neither changes.
RestoreHolds == RestoreInHand /\ TargetWhole /\ LossIsLate /\ RestoresHold

LEMMA RestoreRests ==
    ASSUME BackupsIndInv, UNCHANGED <<source, target, restoring>> PROVE RestoreHolds'
BY DEF BackupsIndInv, RestoreHolds, RestoreInHand, TargetWhole, LossIsLate, RestoresHold, Restoring

LEMMA SourceMoves == ASSUME BackupsIndInv, SourceChanges PROVE BackupsIndInv'
<1>1. /\ source \in Nat /\ source' \in 0..MaxContents /\ source' = source + 1
      /\ UNCHANGED <<file, taking, target, restoring>>
    BY BackupsAssumption DEF SourceChanges, BackupsIndInv, BackupsTyped
<1>2. 0..source \subseteq 0..source' /\ Usable..source \subseteq Usable..source'
    BY <1>1, BackupsAssumption
<1>3. BackupsTyped'
    BY <1>1 DEF BackupsIndInv, BackupsTyped, Taking, Restoring
<1>4. FilesWhole'
    BY <1>1, <1>2 DEF BackupsIndInv, FilesWhole, Taking
<1>5. RestoreInHand' /\ TargetWhole' /\ LossIsLate' /\ RestoresHold'
    BY <1>1, <1>2 DEF BackupsIndInv, RestoreInHand, TargetWhole, LossIsLate, RestoresHold, Restoring
<1> QED BY <1>3, <1>4, <1>5 DEF BackupsIndInv

\* One file changes to f while the source stays as it is.
FileFits(f) ==
    /\ f \in Files
    /\ f.data \in 0..source \cup {Nil, Damaged}
    /\ f.manifest # "none" => f.sum \in 0..source

TakingFits(stage, f) ==
    /\ stage = "describing" => f.dump = "partial" /\ f.data \in 0..source
    /\ stage \in {"naming", "finishing"} => f.manifest # "none"

LEMMA FileChanges ==
    ASSUME BackupsIndInv, NEW b \in Archives, NEW f, FileFits(f),
           NEW stage \in {"idle", "dumping", "describing", "naming", "finishing"},
           file' = [file EXCEPT ![b] = f],
           taking' = [stage |-> stage, of |-> b], TakingFits(stage, f),
           UNCHANGED <<source, target, restoring>>
    PROVE  BackupsIndInv'
<1>1. /\ file' \in [Archives -> Files] /\ file'[b] = f
      /\ \A c \in Archives \ {b}: file'[c] = file[c]
    BY DEF BackupsIndInv, BackupsTyped, FileFits
<1>2. BackupsTyped'
    BY <1>1 DEF BackupsIndInv, BackupsTyped, Taking, Restoring
<1>3. FilesWhole'
    BY <1>1 DEF BackupsIndInv, FilesWhole, FileFits, TakingFits, Taking
<1>4. RestoreHolds'
    BY RestoreRests
<1> QED BY <1>2, <1>3, <1>4 DEF BackupsIndInv, RestoreHolds

\* The backup under way, and its file.
LEMMA InHand ==
    ASSUME BackupsIndInv, NEW stage \in {"dumping", "describing", "naming", "finishing"}, Taking(stage)
    PROVE  /\ taking.of \in Archives /\ taking.stage = stage
           /\ FileFits(file[taking.of]) /\ TakingFits(stage, file[taking.of])
BY DEF BackupsIndInv, BackupsTyped, FilesWhole, FileFits, TakingFits, Taking

LEMMA Staged ==
    ASSUME BackupsIndInv, NEW stage, Takes(stage)
    PROVE  taking' = [stage |-> stage, of |-> taking.of]
BY DEF BackupsIndInv, BackupsTyped, Takes

LEMMA NothingFiled == BackupsIndInv => FileFits(NoFile)
BY BackupsAssumption DEF FileFits, NoFile, Files, Names

LEMMA BackupSteps ==
    ASSUME BackupsIndInv,
           \/ (\E b \in Archives: StartBackup(b)) \/ OpenDump \/ WriteManifest \/ NameDump
           \/ NameManifest \/ BackupFails
    PROVE  BackupsIndInv'
<1> USE BackupsAssumption
<1>1. CASE \E b \in Archives: StartBackup(b)
    <2>1. PICK b \in Archives: StartBackup(b)
        BY <1>1
    <2>2. TakingFits("dumping", NoFile)
        BY DEF TakingFits
    <2> QED BY <2>1, <2>2, NothingFiled, FileChanges DEF StartBackup
<1>2. CASE OpenDump
    <2> DEFINE f == [file[taking.of] EXCEPT !.dump = "partial", !.data = source]
    <2>1. taking.of \in Archives /\ FileFits(file[taking.of])
        BY <1>2, InHand DEF OpenDump
    <2>2. source \in 0..Damaged /\ source \in 0..source
        BY DEF BackupsIndInv, BackupsTyped, Damaged
    <2>3. FileFits(f) /\ TakingFits("describing", f)
        <3>1. f \in Files
            BY <2>1, <2>2 DEF FileFits, Files, Names
        <3>2. /\ f.data = source /\ f.dump = "partial"
              /\ f.manifest = file[taking.of].manifest /\ f.sum = file[taking.of].sum
            BY <2>1 DEF FileFits, Files
        <3> HIDE DEF f
        <3> QED BY <2>1, <2>2, <3>1, <3>2 DEF FileFits, TakingFits
    <2>4. file' = [file EXCEPT ![taking.of] = f]
        BY <1>2, <2>1 DEF OpenDump, FileFits, Files, BackupsIndInv, BackupsTyped
    <2>5. taking' = [stage |-> "describing", of |-> taking.of]
        BY <1>2, Staged DEF OpenDump
    <2> HIDE DEF f
    <2> QED BY <1>2, <2>1, <2>3, <2>4, <2>5, FileChanges DEF OpenDump
<1>3. CASE WriteManifest
    <2> DEFINE f == [file[taking.of] EXCEPT !.manifest = "partial", !.sum = file[taking.of].data]
    <2>1. taking.of \in Archives /\ FileFits(file[taking.of]) /\ TakingFits("describing", file[taking.of])
        BY <1>3, InHand DEF WriteManifest
    <2>2. FileFits(f) /\ TakingFits("naming", f)
        BY <2>1 DEF FileFits, TakingFits, Files, Names
    <2>3. file' = [file EXCEPT ![taking.of] = f]
        BY <1>3, <2>1 DEF WriteManifest, FileFits, Files, BackupsIndInv, BackupsTyped
    <2>4. taking' = [stage |-> "naming", of |-> taking.of]
        BY <1>3, Staged DEF WriteManifest
    <2> HIDE DEF f
    <2> QED BY <1>3, <2>1, <2>2, <2>3, <2>4, FileChanges DEF WriteManifest
<1>4. CASE NameDump
    <2> DEFINE f == [file[taking.of] EXCEPT !.dump = "final"]
    <2>1. taking.of \in Archives /\ FileFits(file[taking.of]) /\ TakingFits("naming", file[taking.of])
        BY <1>4, InHand DEF NameDump
    <2>2. FileFits(f) /\ TakingFits("finishing", f)
        BY <2>1 DEF FileFits, TakingFits, Files, Names
    <2>3. file' = [file EXCEPT ![taking.of] = f]
        BY <1>4, <2>1 DEF NameDump, FileFits, Files, BackupsIndInv, BackupsTyped
    <2>4. taking' = [stage |-> "finishing", of |-> taking.of]
        BY <1>4, Staged DEF NameDump
    <2> HIDE DEF f
    <2> QED BY <1>4, <2>1, <2>2, <2>3, <2>4, FileChanges DEF NameDump
<1>5. CASE NameManifest
    <2> DEFINE f == [file[taking.of] EXCEPT !.manifest = "final"]
    <2>1. taking.of \in Archives /\ FileFits(file[taking.of]) /\ TakingFits("finishing", file[taking.of])
        BY <1>5, InHand DEF NameManifest
    <2>2. FileFits(f) /\ TakingFits("idle", f)
        BY <2>1 DEF FileFits, TakingFits, Files, Names
    <2>3. file' = [file EXCEPT ![taking.of] = f]
        BY <1>5, <2>1 DEF NameManifest, FileFits, Files, BackupsIndInv, BackupsTyped
    <2>4. taking' = [stage |-> "idle", of |-> taking.of]
        BY <1>5, Staged DEF NameManifest
    <2> HIDE DEF f
    <2> QED BY <1>5, <2>1, <2>2, <2>3, <2>4, FileChanges DEF NameManifest
<1>6. CASE BackupFails
    <2>1. taking.of \in Archives
        BY <1>6 DEF BackupFails, BackupsIndInv, BackupsTyped
    <2>2. TakingFits("idle", NoFile)
        BY DEF TakingFits
    <2>3. taking' = [stage |-> "idle", of |-> taking.of]
        BY <1>6, Staged DEF BackupFails
    <2> QED BY <1>6, <2>1, <2>2, <2>3, NothingFiled, FileChanges DEF BackupFails
<1> QED BY <1>1, <1>2, <1>3, <1>4, <1>5, <1>6

LEMMA Killed == ASSUME BackupsIndInv, BackupKilled PROVE BackupsIndInv'
<1> USE BackupsAssumption
<1>1. /\ taking.of \in Archives /\ taking' = [stage |-> "idle", of |-> taking.of]
      /\ UNCHANGED <<source, target, restoring>>
    BY Staged DEF BackupKilled, BackupsIndInv, BackupsTyped
<1>2. CASE file' = file
    <2>1. BackupsTyped'
        BY <1>1, <1>2 DEF BackupsIndInv, BackupsTyped, Taking, Restoring
    <2>2. FilesWhole'
        BY <1>1, <1>2 DEF BackupsIndInv, FilesWhole, Taking
    <2>3. RestoreHolds'
        BY <1>1, RestoreRests
    <2> QED BY <2>1, <2>2, <2>3 DEF BackupsIndInv, RestoreHolds
<1>3. CASE file' # file
    <2> DEFINE f == [file[taking.of] EXCEPT !.dump = "partial", !.data = Damaged]
    <2>1. FileFits(file[taking.of])
        BY <1>1 DEF FileFits, BackupsIndInv, BackupsTyped, FilesWhole
    <2>2. FileFits(f) /\ TakingFits("idle", f)
        <3>1. Damaged \in 0..Damaged
            BY DEF Damaged
        <3>2. f \in Files
            BY <2>1, <3>1 DEF FileFits, Files, Names
        <3>3. /\ f.data = Damaged
              /\ f.manifest = file[taking.of].manifest /\ f.sum = file[taking.of].sum
            BY <2>1 DEF FileFits, Files
        <3> HIDE DEF f
        <3> QED BY <2>1, <3>2, <3>3 DEF FileFits, TakingFits
    <2>3. file' = [file EXCEPT ![taking.of] = f]
        BY <1>1, <1>3, <2>1 DEF BackupKilled, FileFits, Files, BackupsIndInv, BackupsTyped
    <2> HIDE DEF f
    <2> QED BY <1>1, <2>2, <2>3, FileChanges
<1> QED BY <1>2, <1>3

\* A dump that has its name is no longer read by the backup that made it.
LEMMA DamageDone == ASSUME BackupsIndInv, NEW b \in Archives, Damage(b) PROVE BackupsIndInv'
<1> USE BackupsAssumption
<1> DEFINE f == [file[b] EXCEPT !.data = Damaged]
<1>1. FileFits(file[b]) /\ file[b].dump = "final"
    BY DEF Damage, FileFits, BackupsIndInv, BackupsTyped, FilesWhole
<1>2. FileFits(f) /\ f.manifest = file[b].manifest
    BY <1>1 DEF FileFits, Files, Damaged
<1>3. file' = [file EXCEPT ![b] = f] /\ UNCHANGED <<source, taking, target, restoring>>
    BY <1>1 DEF Damage, FileFits, Files, BackupsIndInv, BackupsTyped
<1> HIDE DEF f
<1>4. /\ file' \in [Archives -> Files] /\ file'[b] = f
      /\ \A c \in Archives \ {b}: file'[c] = file[c]
    BY <1>2, <1>3 DEF BackupsIndInv, BackupsTyped, FileFits
<1>5. BackupsTyped'
    BY <1>3, <1>4 DEF BackupsIndInv, BackupsTyped, Taking, Restoring
<1>6. FilesWhole'
    BY <1>1, <1>2, <1>3, <1>4 DEF BackupsIndInv, FilesWhole, FileFits, Taking
<1>7. RestoreHolds'
    BY <1>3, RestoreRests
<1> QED BY <1>5, <1>6, <1>7 DEF BackupsIndInv, RestoreHolds

\* A restore goes on, in a target that stays or in another.
RestoreFits(r, t) ==
    /\ r \in [stage: {"idle", "looking", "converting", "loading", "checking"},
             of: Archives \cup {Nil}, data: 0..MaxContents \cup {Nil},
             told: {"nothing", "refused", "failed", "restored"}]
    /\ t \in [rows: 0..MaxContents \cup {Nil}, strange: {"none", "before", "after"},
             lost: {"none", "before", "after"}]
    /\ r.stage # "idle" => r.of \in Archives /\ r.told = "nothing"
    /\ r.stage \in {"looking", "converting"} => r.data = Nil
    /\ r.stage \in {"converting", "loading"} => t.strange # "before"
    /\ r.stage \in {"loading", "checking"} => r.data \in 0..source
    /\ r.stage = "checking" => t.rows = r.data
    /\ t.rows = Nil \/ t.rows \in Usable..source
    /\ t.lost # "before"
    /\ r.told = "restored" => t.rows = r.data
    /\ r.told = "refused" => r.data = Nil

LEMMA RestoreFitted == BackupsIndInv => RestoreFits(restoring, target)
BY DEF BackupsIndInv, BackupsTyped, RestoreInHand, TargetWhole, LossIsLate, RestoresHold, RestoreFits,
       Restoring

LEMMA RestoreChanges ==
    ASSUME BackupsIndInv, RestoreFits(restoring', target'), UNCHANGED <<source, file, taking>>
    PROVE  BackupsIndInv'
<1>1. BackupsTyped'
    BY DEF BackupsIndInv, BackupsTyped, RestoreFits, Taking, Restoring
<1>2. FilesWhole'
    BY DEF BackupsIndInv, FilesWhole, Taking
<1>3. RestoreInHand' /\ TargetWhole' /\ LossIsLate' /\ RestoresHold'
    BY DEF RestoreFits, RestoreInHand, TargetWhole, LossIsLate, RestoresHold, Restoring
<1> QED BY <1>1, <1>2, <1>3 DEF BackupsIndInv

\* The answers with which a restore may end, at any time.
LEMMA RestoreEnds ==
    ASSUME BackupsIndInv, NEW told \in {"refused", "failed", "restored"}, Tells(told),
           told = "restored" => target.rows = restoring.data,
           told = "refused" => restoring.data = Nil,
           UNCHANGED target
    PROVE  RestoreFits(restoring', target')
<1>1. RestoreFits(restoring, target)
    BY RestoreFitted
<1>2. restoring' = [restoring EXCEPT !.stage = "idle", !.told = told]
    BY DEF Tells
<1> QED BY <1>1, <1>2 DEF RestoreFits

LEMMA RestoreSteps ==
    ASSUME BackupsIndInv,
           \/ (\E b \in Archives: StartRestore(b)) \/ Look \/ Convert \/ Load \/ CheckAgain
           \/ RestoreBreaks \/ StrangeWrite
    PROVE  BackupsIndInv'
<1> USE BackupsAssumption
<1>1. RestoreFits(restoring, target)
    BY RestoreFitted
<1>2. CASE \E b \in Archives: StartRestore(b)
    <2>1. PICK b \in Archives: StartRestore(b)
        BY <1>2
    <2>2. /\ restoring' = [stage |-> "looking", of |-> b, data |-> Nil, told |-> "nothing"]
          /\ UNCHANGED <<source, file, taking, target>>
        BY <2>1 DEF StartRestore
    <2>3. RestoreFits(restoring', target')
        BY <1>1, <2>2 DEF RestoreFits
    <2> QED BY <2>2, <2>3, RestoreChanges
<1>3. CASE Look
    <2>1. UNCHANGED <<source, file, taking, target>> /\ restoring.stage = "looking"
        BY <1>3 DEF Look, Restoring
    <2>2. CASE Empty
        <3>1. restoring' = [restoring EXCEPT !.stage = "converting"] /\ target.strange = "none"
            BY <1>3, <2>2 DEF Look, Restores, Empty
        <3>2. RestoreFits(restoring', target')
            BY <1>1, <2>1, <3>1 DEF RestoreFits
        <3> QED BY <2>1, <3>2, RestoreChanges
    <2>3. CASE ~Empty
        <3>1. Tells("refused") /\ restoring.data = Nil
            BY <1>1, <1>3, <2>1, <2>3 DEF Look, RestoreFits
        <3>2. RestoreFits(restoring', target')
            BY <2>1, <3>1, RestoreEnds
        <3> QED BY <2>1, <3>2, RestoreChanges
    <2> QED BY <2>2, <2>3
<1>4. CASE Convert
    <2>1. UNCHANGED <<source, file, taking, target>> /\ restoring.stage = "converting"
        BY <1>4 DEF Convert, Restoring
    <2>2. CASE file[restoring.of].data \in {Damaged, Nil}
        <3>1. Tells("failed")
            BY <1>4, <2>2 DEF Convert
        <3>2. RestoreFits(restoring', target')
            BY <2>1, <3>1, RestoreEnds
        <3> QED BY <2>1, <3>2, RestoreChanges
    <2>3. CASE file[restoring.of].data \notin {Damaged, Nil}
        <3>1. restoring' = [restoring EXCEPT !.stage = "loading", !.data = file[restoring.of].data]
            BY <1>4, <2>3 DEF Convert
        <3>2. restoring.of \in Archives
            BY <1>1, <2>1 DEF RestoreFits
        <3>3. file[restoring.of].data \in 0..source /\ source \in 0..MaxContents
            BY <2>3, <3>2 DEF BackupsIndInv, FilesWhole, BackupsTyped
        <3>4. file[restoring.of].data \in 0..MaxContents
            BY <3>3
        <3>5. RestoreFits(restoring', target')
            BY <1>1, <2>1, <3>1, <3>3, <3>4 DEF RestoreFits
        <3> QED BY <2>1, <3>5, RestoreChanges
    <2> QED BY <2>2, <2>3
<1>5. CASE Load
    <2>1. UNCHANGED <<source, file, taking>> /\ restoring.stage = "loading"
        BY <1>5 DEF Load, Restoring
    <2>2. restoring.data \in 0..source /\ source \in 0..MaxContents /\ target.strange # "before"
        BY <1>1, <2>1 DEF RestoreFits, BackupsIndInv, BackupsTyped
    <2>3. CASE restoring.data >= Usable
        <3>1. /\ target' = [rows |-> restoring.data, strange |-> "none",
                            lost |-> IF target.strange = "none" THEN target.lost ELSE target.strange]
              /\ restoring' = [restoring EXCEPT !.stage = "checking"]
            BY <1>5, <2>3 DEF Load, Restores
        <3>2. /\ restoring.data \in Usable..source /\ restoring.data \in 0..MaxContents
            BY <2>2, <2>3
        <3>3. RestoreFits(restoring', target')
            BY <1>1, <2>1, <2>2, <3>1, <3>2 DEF RestoreFits
        <3> QED BY <2>1, <3>3, RestoreChanges
    <2>4. CASE ~(restoring.data >= Usable)
        <3>1. Tells("failed") /\ UNCHANGED target
            BY <1>5, <2>4 DEF Load
        <3>2. RestoreFits(restoring', target')
            BY <3>1, RestoreEnds
        <3> QED BY <2>1, <3>2, RestoreChanges
    <2> QED BY <2>3, <2>4
<1>6. CASE CheckAgain \/ RestoreBreaks
    <2>1. /\ UNCHANGED <<source, file, taking, target>>
          /\ Tells("failed") \/ (Tells("restored") /\ target.rows = restoring.data)
        BY <1>1, <1>6 DEF CheckAgain, RestoreBreaks, Restoring, RestoreFits
    <2>2. RestoreFits(restoring', target')
        BY <2>1, RestoreEnds
    <2> QED BY <2>1, <2>2, RestoreChanges
<1>7. CASE StrangeWrite
    <2>1. /\ UNCHANGED <<source, file, taking, restoring>>
          /\ target' = [target EXCEPT !.strange =
                 IF @ = "before" \/ restoring.stage \in {"idle", "looking"} THEN "before" ELSE "after"]
        BY <1>7 DEF StrangeWrite
    <2>2. RestoreFits(restoring', target')
        BY <1>1, <2>1 DEF RestoreFits
    <2> QED BY <2>1, <2>2, RestoreChanges
<1> QED BY <1>2, <1>3, <1>4, <1>5, <1>6, <1>7

LEMMA BackupsSteps == BackupsIndInv /\ [BackupsNext]_backupVars => BackupsIndInv'
<1> SUFFICES ASSUME BackupsIndInv, [BackupsNext]_backupVars PROVE BackupsIndInv'
    OBVIOUS
<1>1. CASE UNCHANGED backupVars
    <2>1. UNCHANGED <<source, file, taking, target, restoring>>
        BY <1>1 DEF backupVars
    <2>2. RestoreFits(restoring', target')
        BY <2>1, RestoreFitted DEF RestoreFits
    <2> QED BY <2>1, <2>2, RestoreChanges
<1> QED
    BY <1>1, SourceMoves, BackupSteps, Killed, DamageDone, RestoreSteps DEF BackupsNext

\* backup-recovery.ts: what passes its verification is whole, a restore leaves all or nothing
\* of it, and what is reported of a restore is so, wherever it stops.
THEOREM BackupsSafe == BackupsSpec => []BackupsInv
<1>1. ASSUME BackupsIndInv PROVE BackupsInv
    <2>1. VerifiedWhole
        <3>1. ASSUME NEW b \in Archives, Verified(b) PROVE file[b].data \in 0..source
            BY <1>1, <3>1 DEF BackupsIndInv, FilesWhole, Verified
        <3> QED BY <3>1 DEF VerifiedWhole
    <2> QED BY <1>1, <2>1 DEF BackupsIndInv, BackupsInv
<1> QED BY <1>1, BackupsStart, BackupsSteps, PTL DEF BackupsSpec

-----------------------------------------------------------------------------
(* Readiness *)

LEMMA ReadinessStarts == ReadinessInit => ReadinessIndInv
<1> SUFFICES ASSUME ReadinessInit PROVE ReadinessIndInv
    OBVIOUS
<1>1. Longest \in Nat /\ cache.left + MaxSetBack = 0
    BY ReadinessAssumption DEF ReadinessInit, Longest
<1>2. ReadinessTyped
    BY <1>1, ReadinessAssumption DEF ReadinessInit, ReadinessTyped, Findings
<1>3. ProbeRecent /\ CacheRecent
    BY <1>1 DEF ReadinessInit, ProbeRecent, CacheRecent
<1>4. ReadinessInv
    BY DEF ReadinessInit, ReadinessInv, RepliesRecent, NobodyForgotten
<1> QED BY <1>2, <1>3, <1>4 DEF ReadinessIndInv

LEMMA Asked == ASSUME ReadinessIndInv, NEW m \in Monitors, Check(m) PROVE ReadinessIndInv'
<1> USE ReadinessAssumption
<1>1. CASE ~Current
    <2>1. /\ probe' \in [age: 0..Timeout, found: Findings] /\ probe' # NoProbe
          /\ probe' = probe \/ probe'.found = "none"
        <3>1. [age |-> 0, found |-> "none"] \in [age: 0..Timeout, found: Findings]
            BY DEF Findings
        <3>2. CASE probe = NoProbe
            BY <1>1, <3>1, <3>2 DEF Check, Findings
        <3>3. CASE probe # NoProbe
            BY <1>1, <3>3 DEF Check, ReadinessIndInv, ReadinessTyped
        <3> QED BY <3>2, <3>3
    <2>2. UNCHANGED <<health, cache, turns, setBack, ago, reply>>
        BY <1>1 DEF Check
    <2>3. ReadinessTyped' /\ ProbeRecent' /\ CacheRecent'
        BY <2>1, <2>2 DEF ReadinessIndInv, ReadinessTyped, ProbeRecent, CacheRecent
    <2>4. ReadinessInv'
        BY <2>1, <2>2 DEF ReadinessIndInv, ReadinessInv, RepliesRecent, NobodyForgotten
    <2> QED BY <2>3, <2>4 DEF ReadinessIndInv
<1>2. CASE Current
    <2>1. /\ UNCHANGED <<health, probe, cache, waiting, turns, setBack, ago>>
          /\ reply' = [found |-> cache.found, ago |-> IF cache.found = "none" THEN 0 ELSE ago[cache.found]]
        BY <1>2 DEF Check, Replies
    <2>2. cache.left \in Int /\ cache.left > 0 /\ setBack \in 0..MaxSetBack
        BY <1>2 DEF Current, ReadinessIndInv, ReadinessTyped
    <2>3. ~(cache.left + MaxSetBack <= setBack)
        BY <2>2
    <2>4. /\ cache.found \in Findings
          /\ cache.found # "none" => ago[cache.found] + cache.left <= Timeout + CacheFor + setBack
        BY <2>3 DEF ReadinessIndInv, ReadinessTyped, CacheRecent
    <2> DEFINE howLong == IF cache.found = "none" THEN 0 ELSE ago[cache.found]
    <2>5. howLong \in Nat
        BY <2>4 DEF ReadinessIndInv, ReadinessTyped, Findings
    <2>6. reply'.found # "none" =>
              reply'.ago <= Timeout + (IF CacheFor = 0 THEN 0 ELSE CacheFor - 1) + setBack
        <3>1. cache.found # "none" => howLong + cache.left <= Timeout + CacheFor + setBack
            BY <2>4
        <3> HIDE DEF howLong
        <3>2. reply'.found = cache.found /\ reply'.ago = howLong
            BY <2>1 DEF howLong
        <3>3. CASE CacheFor = 0
            BY <2>2, <2>5, <3>1, <3>2, <3>3
        <3>4. CASE CacheFor # 0
            BY <2>2, <2>5, <3>1, <3>2, <3>4
        <3> QED BY <3>3, <3>4
    <2>7. ReadinessTyped'
        <3>1. reply' = [found |-> cache.found, ago |-> howLong]
            BY <2>1
        <3> HIDE DEF howLong
        <3> QED BY <2>1, <2>4, <2>5, <3>1 DEF ReadinessIndInv, ReadinessTyped
    <2>8. ProbeRecent' /\ CacheRecent' /\ ReadinessInv'
        BY <2>1, <2>6 DEF ReadinessIndInv, ProbeRecent, CacheRecent, ReadinessInv, RepliesRecent,
                          NobodyForgotten
    <2> QED BY <2>7, <2>8 DEF ReadinessIndInv
<1> QED BY <1>1, <1>2

LEMMA Found == ASSUME ReadinessIndInv, Probed PROVE ReadinessIndInv'
<1> USE ReadinessAssumption
<1>1. probe \in [age: 0..Timeout, found: Findings] /\ probe' = [probe EXCEPT !.found = health]
    BY DEF Probed, ReadinessIndInv, ReadinessTyped
<1>2. /\ probe' \in [age: 0..Timeout, found: Findings]
      /\ probe'.found = health /\ probe'.age = probe.age
    BY <1>1 DEF ReadinessIndInv, ReadinessTyped, Findings
<1>3. probe' # NoProbe
    BY <1>2 DEF Findings
<1>4. UNCHANGED <<health, cache, waiting, turns, setBack, ago, reply>>
    BY DEF Probed
<1>5. ReadinessTyped' /\ ProbeRecent' /\ CacheRecent'
    BY <1>2, <1>4 DEF ReadinessIndInv, ReadinessTyped, ProbeRecent, CacheRecent
<1>6. ReadinessInv'
    BY <1>3, <1>4 DEF ReadinessIndInv, ReadinessInv, RepliesRecent, NobodyForgotten
<1> QED BY <1>5, <1>6 DEF ReadinessIndInv

LEMMA Concluded ==
    ASSUME ReadinessIndInv, ProbeAnswers \/ ProbeBreaks \/ ProbeTimesOut PROVE ReadinessIndInv'
<1> USE ReadinessAssumption
<1>1. probe \in [age: 0..Timeout, found: Findings]
    BY DEF ProbeAnswers, ProbeBreaks, ProbeTimesOut, ReadinessIndInv, ReadinessTyped
<1>2. PICK found \in Findings:
          /\ Evaluated(found)
          /\ found # "none" => ago[found] <= Timeout
    <2>1. CASE ProbeAnswers
        BY <1>1, <2>1 DEF ProbeAnswers, ReadinessIndInv, ReadinessTyped, ProbeRecent, Findings
    <2>2. CASE ProbeBreaks \/ ProbeTimesOut
        BY <2>2 DEF ProbeBreaks, ProbeTimesOut, Findings
    <2> QED BY <2>1, <2>2
<1> DEFINE howLong == IF found = "none" THEN 0 ELSE ago[found]
<1>3. howLong \in 0..Timeout
    BY <1>2 DEF ReadinessIndInv, ReadinessTyped, Findings
<1>4. /\ probe' = NoProbe /\ waiting' = {} /\ cache' = [found |-> found, left |-> CacheFor]
      /\ reply' = [found |-> found, ago |-> howLong]
      /\ UNCHANGED <<health, turns, setBack, ago>>
    BY <1>2 DEF Evaluated, Replies
<1>5. ReadinessTyped'
    <2> HIDE DEF howLong
    <2> QED BY <1>3, <1>4 DEF ReadinessIndInv, ReadinessTyped
<1>6. cache'.found # "nothing" /\ (cache'.found # "none" => ago[cache'.found] + cache'.left <= Timeout + CacheFor + setBack)
    BY <1>2, <1>3, <1>4 DEF ReadinessIndInv, ReadinessTyped, Findings
<1>7. ProbeRecent' /\ CacheRecent' /\ NobodyForgotten'
    BY <1>4, <1>6 DEF ReadinessIndInv, ProbeRecent, CacheRecent, NobodyForgotten
<1>8. RepliesRecent'
    <2> HIDE DEF howLong
    <2>1. reply'.ago <= Timeout /\ reply'.ago \in Nat /\ setBack' = setBack /\ setBack \in Nat
        BY <1>3, <1>4 DEF ReadinessIndInv, ReadinessTyped
    <2> QED BY <2>1 DEF RepliesRecent
<1> QED BY <1>5, <1>7, <1>8 DEF ReadinessIndInv, ReadinessInv

LEMMA Ticked == ASSUME ReadinessIndInv, ReadinessTick PROVE ReadinessIndInv'
<1> USE ReadinessAssumption
<1>1. /\ health \in {"good", "bad"} /\ ago \in [{"good", "bad"} -> Nat]
      /\ setBack \in 0..MaxSetBack
    BY DEF ReadinessIndInv, ReadinessTyped
<1>2. /\ ago' \in [{"good", "bad"} -> Nat] /\ ago'[health] = 0
      /\ \A h \in {"good", "bad"}: ago'[h] <= ago[h] + 1
    <2>1. DOMAIN ago = {"good", "bad"} BY <1>1
    <2>2. ago' = [h \in {"good", "bad"} |-> IF h = health THEN 0 ELSE Later(ago[h])]
        BY <2>1 DEF ReadinessTick
    <2>3. \A h \in {"good", "bad"}: Later(ago[h]) \in Nat /\ Later(ago[h]) <= ago[h] + 1
        BY <1>1 DEF Later
    <2> QED BY <1>1, <2>2, <2>3
<1>3. /\ UNCHANGED <<health, waiting, turns, setBack, reply>>
      /\ cache' = [cache EXCEPT !.left = IF @ = -MaxSetBack THEN @ ELSE @ - 1]
      /\ cache \in [found: Findings \cup {"nothing"}, left: Int]
    BY DEF ReadinessTick, ReadinessIndInv, ReadinessTyped
<1>4. /\ cache' \in [found: Findings \cup {"nothing"}, left: Int] /\ cache'.found = cache.found
      /\ cache'.left = IF cache.left = -MaxSetBack THEN cache.left ELSE cache.left - 1
    BY <1>3
<1>5. /\ probe' \in [age: 0..Timeout, found: Findings] \cup {NoProbe}
      /\ probe = NoProbe => probe' = NoProbe
      /\ probe # NoProbe => /\ probe' # NoProbe /\ probe'.age = probe.age + 1
                            /\ probe'.found = probe.found
    <2>1. CASE probe = NoProbe
        BY <2>1 DEF ReadinessTick
    <2>2. CASE probe # NoProbe
        <3>1. /\ probe \in [age: 0..Timeout, found: Findings] /\ probe.age < Timeout
              /\ probe' = [probe EXCEPT !.age = @ + 1]
            BY <2>2 DEF ReadinessTick, ReadinessIndInv, ReadinessTyped
        <3>2. probe.age + 1 \in 0..Timeout
            BY <3>1
        <3>3. /\ probe' \in [age: 0..Timeout, found: Findings]
              /\ probe'.age = probe.age + 1 /\ probe'.found = probe.found
            BY <3>1, <3>2
        <3> QED BY <2>2, <3>3 DEF Findings
    <2> QED BY <2>1, <2>2
<1>6. ReadinessTyped'
    BY <1>2, <1>3, <1>4, <1>5 DEF ReadinessIndInv, ReadinessTyped
<1>7. ProbeRecent'
    <2>1. health' = health /\ ago'[health] = 0
        BY <1>2, <1>3
    <2>2. ASSUME probe' # NoProbe, probe'.found # "none" PROVE ago'[probe'.found] <= probe'.age
        <3>1. /\ probe # NoProbe /\ probe.found # "none" /\ probe'.found = probe.found
              /\ probe'.age = probe.age + 1
            BY <1>5, <2>2
        <3>2. probe.found \in {"good", "bad"} /\ probe.age \in Nat /\ ago[probe.found] <= probe.age
            BY <3>1 DEF ReadinessIndInv, ReadinessTyped, ProbeRecent, Findings
        <3> QED BY <1>1, <1>2, <3>1, <3>2
    <2> QED BY <2>1, <2>2 DEF ProbeRecent
<1>8. CacheRecent'
    <2>1. CASE cache.left + MaxSetBack <= setBack
        BY <1>1, <1>3, <1>4, <2>1 DEF CacheRecent
    <2>2. CASE ~(cache.left + MaxSetBack <= setBack)
        <3>1. cache'.left = cache.left - 1 /\ cache.left \in Int
            BY <1>1, <1>3, <1>4, <2>2
        <3>2. /\ cache.found # "nothing"
              /\ cache.found # "none" => ago[cache.found] + cache.left <= Timeout + CacheFor + setBack
            BY <2>2 DEF ReadinessIndInv, CacheRecent
        <3>3. ASSUME cache.found # "none"
              PROVE  ago'[cache.found] + cache'.left <= Timeout + CacheFor + setBack
            <4>1. cache.found \in {"good", "bad"}
                BY <1>3, <3>2, <3>3 DEF Findings
            <4> QED BY <1>1, <1>2, <3>1, <3>2, <3>3, <4>1
        <3> QED BY <1>3, <1>4, <3>2, <3>3 DEF CacheRecent
    <2> QED BY <2>1, <2>2
<1>9. ReadinessInv'
    BY <1>3, <1>5 DEF ReadinessIndInv, ReadinessInv, RepliesRecent, NobodyForgotten
<1> QED BY <1>6, <1>7, <1>8, <1>9 DEF ReadinessIndInv

LEMMA Turned == ASSUME ReadinessIndInv, DatabaseTurns PROVE ReadinessIndInv'
<1> USE ReadinessAssumption
<1>1. PICK h \in {"good", "bad"}: health' = h /\ ago' = [ago EXCEPT ![h] = 0]
    BY DEF DatabaseTurns
<1>2. UNCHANGED <<probe, cache, waiting, setBack, reply>>
    BY DEF DatabaseTurns
<1>3. /\ ago' \in [{"good", "bad"} -> Nat] /\ ago'[h] = 0
      /\ \A g \in {"good", "bad"}: ago'[g] <= ago[g]
    BY <1>1 DEF ReadinessIndInv, ReadinessTyped
<1>4. ReadinessTyped'
    BY <1>1, <1>2, <1>3 DEF ReadinessIndInv, ReadinessTyped
<1>5. ASSUME probe # NoProbe, probe.found # "none" PROVE ago'[probe.found] <= probe.age
    <2>1. probe.found \in {"good", "bad"} /\ probe.age \in Nat /\ ago[probe.found] <= probe.age
        BY <1>5 DEF ReadinessIndInv, ReadinessTyped, ProbeRecent, Findings
    <2> QED BY <1>3, <2>1 DEF ReadinessIndInv, ReadinessTyped
<1>6. ProbeRecent'
    BY <1>1, <1>2, <1>3, <1>5 DEF ProbeRecent
<1>7. CacheRecent'
    <2>1. CASE cache.left + MaxSetBack <= setBack
        BY <1>2, <2>1 DEF CacheRecent
    <2>2. CASE ~(cache.left + MaxSetBack <= setBack)
        <3>1. /\ cache.found # "nothing" /\ cache.left \in Int /\ setBack \in Nat
              /\ cache.found # "none" => /\ cache.found \in {"good", "bad"}
                                         /\ ago[cache.found] \in Nat /\ ago'[cache.found] \in Nat
                                         /\ ago[cache.found] + cache.left <= Timeout + CacheFor + setBack
            BY <1>3, <2>2 DEF ReadinessIndInv, ReadinessTyped, CacheRecent, Findings
        <3>2. cache.found # "none" => ago'[cache.found] + cache.left <= Timeout + CacheFor + setBack
            BY <1>3, <3>1
        <3> QED BY <1>2, <3>1, <3>2 DEF CacheRecent
    <2> QED BY <2>1, <2>2
<1>8. ReadinessInv'
    BY <1>2 DEF ReadinessIndInv, ReadinessInv, RepliesRecent, NobodyForgotten
<1> QED BY <1>4, <1>6, <1>7, <1>8 DEF ReadinessIndInv

LEMMA SetBack == ASSUME ReadinessIndInv, ClockSetBack PROVE ReadinessIndInv'
<1> USE ReadinessAssumption
<1>1. /\ UNCHANGED <<health, probe, waiting, turns, ago, reply>>
      /\ setBack' = setBack + 1 /\ setBack' \in 0..MaxSetBack /\ setBack \in Nat
      /\ cache.left \in Int
      /\ cache' \in [found: Findings \cup {"nothing"}, left: Int]
      /\ cache'.found = cache.found /\ cache'.left = cache.left + 1 /\ cache.found # "nothing"
    BY DEF ClockSetBack, ReadinessIndInv, ReadinessTyped
<1>2. ReadinessTyped' /\ ProbeRecent' /\ NobodyForgotten'
    BY <1>1 DEF ReadinessIndInv, ReadinessTyped, ProbeRecent, ReadinessInv, NobodyForgotten
<1>3. CacheRecent'
    <2>1. CASE cache.left + MaxSetBack <= setBack
        BY <1>1, <2>1 DEF CacheRecent
    <2>2. CASE cache.found # "none" => ago[cache.found] + cache.left <= Timeout + CacheFor + setBack
        <3>1. cache.found # "none" => ago[cache.found] \in Nat
            BY <1>1 DEF ReadinessIndInv, ReadinessTyped, Findings
        <3> QED BY <1>1, <2>2, <3>1 DEF CacheRecent
    <2> QED BY <2>1, <2>2 DEF ReadinessIndInv, CacheRecent
<1>4. RepliesRecent'
    <2>1. reply.ago \in Nat /\ UNCHANGED reply /\ setBack' = setBack + 1 /\ setBack \in Nat
        BY <1>1 DEF ReadinessIndInv, ReadinessTyped
    <2>2. CASE CacheFor = 0
        BY <2>1, <2>2 DEF ReadinessIndInv, ReadinessInv, RepliesRecent
    <2>3. CASE CacheFor # 0
        BY <2>1, <2>3 DEF ReadinessIndInv, ReadinessInv, RepliesRecent
    <2> QED BY <2>2, <2>3
<1> QED BY <1>2, <1>3, <1>4 DEF ReadinessIndInv, ReadinessInv

LEMMA ReadinessSteps == ReadinessIndInv /\ [ReadinessNext]_readinessVars => ReadinessIndInv'
<1> SUFFICES ASSUME ReadinessIndInv, [ReadinessNext]_readinessVars PROVE ReadinessIndInv'
    OBVIOUS
<1>1. CASE UNCHANGED readinessVars
    BY <1>1 DEF readinessVars, ReadinessIndInv, ReadinessInv, RepliesRecent, NobodyForgotten,
                ReadinessTyped, ProbeRecent, CacheRecent
<1> QED
    BY <1>1, Asked, Found, Concluded, Ticked, Turned, SetBack DEF ReadinessNext

\* readiness.service.ts: an answer is as recent as the timeout and the cache allow, whoever
\* shared whose probe, and nobody waits for a probe that has ended.
THEOREM ReadinessSafe == ReadinessSpec => []ReadinessInv
<1>1. ReadinessIndInv => ReadinessInv
    BY DEF ReadinessIndInv
<1> QED BY <1>1, ReadinessStarts, ReadinessSteps, PTL DEF ReadinessSpec

-----------------------------------------------------------------------------
(* All of it *)

\* What operators rely on, whatever they do and wherever it stops: no release ahead of its
\* migrations, an environment the service starts with, whole backups, recent answers.
THEOREM OperationsSafe == OperationsSpec => []OperationsInv
<1>1. ReleasesInv /\ EnvironmentInv /\ BackupsInv /\ ReadinessInv => OperationsInv
    BY DEF OperationsInv
<1> QED
    BY <1>1, ReleasesSafe, EnvironmentSafe, BackupsSafe, ReadinessSafe, PTL DEF OperationsSpec

==============================================================================
