----------------------------- MODULE FleetProofs -----------------------------
(***************************************************************************)
(* TLAPS proofs about FleetDelivery, for any number of workers, calls and  *)
(* payload slots.                                                          *)
(***************************************************************************)
EXTENDS FleetDelivery, FiniteSetTheorems, WellFoundedInduction, TLAPS

-----------------------------------------------------------------------------
\* The call budget: a turn was asked for by spawn_agent or by a call, a queued
\* steer by a call that no turn has used up yet.
Budget(l, c) == IF l.next THEN l.turn + 1 <= c + 1 ELSE l.turn <= c + 1

\* A record nobody has collected and the cap has not compacted is pinned, and its
\* session is in the store.
Pinned(l, o) ==
    o.in /\ ~o.collected /\ ~o.tomb => o.pinHeld /\ l.st # "absent"

RecordOK(l, o, c) ==
    /\ l \in Lanes
    /\ o \in Overlays
    /\ Budget(l, c)
    /\ Pinned(l, o)

\* The inductive invariant of the lanes and the mailbox.
Inv == TypeOK /\ \A i \in Ids : Budget(lanes[i], calls) /\ Pinned(lanes[i], box[i])

-----------------------------------------------------------------------------
LEMMA ConstantFacts ==
    N \in Nat /\ MaxCalls \in Nat /\ MaxRecords \in Nat /\ MaxRecords # 0
BY FleetAssumption

LEMMA StatusTypes ==
    ASSUME NEW l \in Lanes, NEW o \in Overlays
    PROVE  /\ LaneStatus(l) \in WaitStatuses
           /\ Projected(l, o) \in WaitStatuses
BY DEF Lanes, Overlays, LaneStatus, Projected, WaitStatus, WaitStatuses, EndedWait,
       States

LEMMA TakeKeeps ==
    ASSUME NEW l \in Lanes, NEW o \in Overlays
    PROVE  /\ Take(l, o) \in Overlays
           /\ Pinned(l, o) => Pinned(l, Take(l, o))
           /\ IsPayload(l, Take(l, o)) => IsPayload(l, o)
<1>1. CASE ~Uncollected(l, o)
  BY <1>1 DEF Take
<1>2. CASE Uncollected(l, o)
  <2>1. Projected(l, o) \in EndedWait
    BY <1>2 DEF Uncollected
  <2> DEFINE t == Take(l, o)
  <2>2. PICK h \in BOOLEAN :
           t = [o EXCEPT !.frozen = Projected(l, o), !.collected = TRUE,
                         !.handed = h, !.pinHeld = FALSE]
    BY <1>2 DEF Take, Overlays
  <2>3. t \in Overlays /\ t.collected /\ ~t.pinHeld
    BY <2>1, <2>2, ZenonT(60) DEF Overlays
  <2>4. QED
    BY <2>3 DEF Pinned, IsPayload
<1>3. QED
  BY <1>1, <1>2

LEMMA CompactedKeeps ==
    ASSUME NEW l \in Lanes, NEW o \in Overlays, IsPayload(l, o)
    PROVE  /\ Compacted(l, o) \in Overlays
           /\ Pinned(l, Compacted(l, o))
           /\ ~IsPayload(l, Compacted(l, o))
<1>1. Projected(l, o) \in EndedWait
  BY DEF IsPayload, Uncollected
<1> DEFINE p == Projected(l, o)
           c == [o EXCEPT !.frozen = p, !.tomb = TRUE, !.reply = 0, !.pinHeld = FALSE]
<1>2. c \in Overlays /\ c.tomb
  <2>1. 0 \in Turns
    BY ConstantFacts DEF Turns
  <2> HIDE DEF p
  <2>2. QED
    BY <1>1, <2>1 DEF Overlays, p
<1>3. QED
  BY <1>2 DEF Pinned, IsPayload, Compacted

\* Of a finite set of numbers, those with at most max members at or above them
\* are at most max many: all of them lie at or above the least one.
LEMMA NewestFew ==
    ASSUME NEW S \in SUBSET Ids, NEW max \in Nat
    PROVE  Cardinality({i \in S : ~(Cardinality({j \in S : j >= i}) > max)}) <= max
<1> DEFINE K == {i \in S : ~(Cardinality({j \in S : j >= i}) > max)}
<1>1. IsFiniteSet(S)
  <2>1. IsFiniteSet(1..N)
    BY ConstantFacts, FS_Interval
  <2>2. QED
    BY <2>1, FS_Subset DEF Ids
<1>2. CASE K = {}
  <2>1. Cardinality(K) = 0
    BY <1>2, FS_EmptySet
  <2>2. QED
    BY <2>1
<1>3. CASE K # {}
  <2>1. K \subseteq Nat
    <3>1. S \subseteq Nat
      BY ConstantFacts DEF Ids
    <3>2. K \subseteq S
      BY Zenon
    <3> QED
      BY <3>1, <3>2, Zenon
  <2>2. PICK m \in K : \A k \in K : m <= k
    <3> HIDE DEF K
    <3>1. PICK m \in K : \A k \in K : <<k, m>> \notin OpToRel(<, Nat)
      BY <1>3, <2>1, NatLessThanWellFounded, WFMin, Zenon
    <3>2. \A k \in K : ~(k < m)
      BY <2>1, <3>1 DEF OpToRel
    <3>3. QED
      BY <2>1, <3>2
  <2> DEFINE A == {j \in S : j >= m}
  <2>3. K \subseteq A
    BY <2>1, <2>2
  <2>4. IsFiniteSet(A)
    BY <1>1, FS_Subset
  <2>5. Cardinality(A) \in Nat /\ Cardinality(K) \in Nat /\ Cardinality(K) <= Cardinality(A)
    <3> HIDE DEF K, A
    <3> QED
      BY <2>3, <2>4, FS_Subset, FS_CardinalityType
  <2>6. ~(Cardinality(A) > max)
    BY <2>2
  <2> HIDE DEF K, A
  <2>7. QED
    BY <2>5, <2>6 DEF K
<1>4. QED
  BY <1>2, <1>3

\* enforceCap leaves typed, pinned overlays with at most MaxRecords payloads.
LEMMA CapKeeps ==
    ASSUME NEW ls \in [Ids -> Lanes], NEW bx \in [Ids -> Overlays],
           \A i \in Ids : Pinned(ls[i], bx[i])
    PROVE  LET cb == EnforceCap(ls, bx, MaxRecords)
           IN  /\ cb \in [Ids -> Overlays]
               /\ \A i \in Ids : Pinned(ls[i], cb[i])
               /\ Cardinality({i \in Ids : IsPayload(ls[i], cb[i])}) <= MaxRecords
<1> DEFINE held == {i \in Ids : IsPayload(ls[i], bx[i])}
           over == {i \in held : Cardinality({j \in held : j >= i}) > MaxRecords}
           cb == [i \in Ids |-> IF i \in over THEN Compacted(ls[i], bx[i]) ELSE bx[i]]
<1>1. EnforceCap(ls, bx, MaxRecords) = cb
  <2>1. DOMAIN bx = Ids
    OBVIOUS
  <2>2. QED
    BY <2>1, Zenon DEF EnforceCap
<1>2. ASSUME NEW i \in Ids
      PROVE  /\ cb[i] \in Overlays
             /\ Pinned(ls[i], cb[i])
             /\ IsPayload(ls[i], cb[i]) <=> i \in held \ over
  <2>1. ls[i] \in Lanes /\ bx[i] \in Overlays /\ Pinned(ls[i], bx[i])
    OBVIOUS
  <2>2. CASE i \in over
    <3>1. IsPayload(ls[i], bx[i]) /\ cb[i] = Compacted(ls[i], bx[i])
      BY <2>2
    <3>2. QED
      BY <2>1, <2>2, <3>1, CompactedKeeps
  <2>3. CASE i \notin over
    <3>1. cb[i] = bx[i]
      BY <2>3
    <3> HIDE DEF cb, over
    <3>2. QED
      BY <2>1, <2>3, <3>1
  <2>4. QED
    BY <2>2, <2>3
<1>3. {i \in Ids : IsPayload(ls[i], cb[i])}
        = {i \in held : ~(Cardinality({j \in held : j >= i}) > MaxRecords)}
  <2>1. \A i \in Ids : IsPayload(ls[i], cb[i]) <=> i \in held \ over
    BY <1>2
  <2> HIDE DEF cb
  <2>2. QED
    BY <2>1, Zenon
<1>4. Cardinality({i \in Ids : IsPayload(ls[i], cb[i])}) <= MaxRecords
  <2>1. held \in SUBSET Ids /\ MaxRecords \in Nat
    BY ConstantFacts
  <2> HIDE DEF held, cb
  <2>2. QED
    BY <1>3, <2>1, NewestFew
<1>5. cb \in [Ids -> Overlays]
  BY <1>2
<1> HIDE DEF cb
<1>6. QED
  BY <1>1, <1>2, <1>4, <1>5

-----------------------------------------------------------------------------
\* A store change that gives worker i a lane and an overlay in order keeps the
\* invariant, and the cap, which the mailbox enforces in the same step.
LEMMA NotifyKeeps ==
    ASSUME Inv, NEW i \in Ids, NEW l, NEW o, RecordOK(l, o, calls'),
           calls' \in 0..MaxCalls, calls <= calls', Notify(i, l, o)
    PROVE  Inv' /\ PayloadsCapped'
<1> DEFINE ls == [lanes EXCEPT ![i] = l]
           bx == [box EXCEPT ![i] = o]
<1>1. /\ lanes \in [Ids -> Lanes] /\ box \in [Ids -> Overlays]
      /\ calls \in Nat /\ calls' \in Nat
  BY ConstantFacts DEF Inv, TypeOK
<1>2. ls \in [Ids -> Lanes] /\ bx \in [Ids -> Overlays]
  BY <1>1 DEF RecordOK
<1>3. \A j \in Ids : Budget(ls[j], calls') /\ Pinned(ls[j], bx[j])
  <2> SUFFICES ASSUME NEW j \in Ids PROVE Budget(ls[j], calls') /\ Pinned(ls[j], bx[j])
    OBVIOUS
  <2>1. CASE j = i
    BY <1>1, <2>1 DEF RecordOK
  <2>2. CASE j # i
    <3>1. ls[j] = lanes[j] /\ bx[j] = box[j] /\ lanes[j] \in Lanes
      BY <1>1, <2>2
    <3>2. Budget(lanes[j], calls) /\ Pinned(lanes[j], box[j])
      BY DEF Inv
    <3>3. lanes[j].turn \in Nat
      BY <3>1, ConstantFacts DEF Lanes, Turns
    <3>4. Budget(lanes[j], calls')
      BY <1>1, <3>2, <3>3 DEF Budget
    <3>5. QED
      BY <3>1, <3>2, <3>4
  <2>3. QED
    BY <2>1, <2>2
<1>4. lanes' = ls /\ box' = EnforceCap(ls, bx, MaxRecords)
  BY DEF Notify
<1> HIDE DEF ls, bx
<1>5. /\ box' \in [Ids -> Overlays]
      /\ \A j \in Ids : Pinned(ls[j], box'[j])
      /\ Cardinality({j \in Ids : IsPayload(ls[j], box'[j])}) <= MaxRecords
  BY <1>2, <1>3, <1>4, CapKeeps
<1>6. PayloadsCapped'
  BY <1>4, <1>5 DEF PayloadsCapped
<1>7. TypeOK'
  <2>1. drove' \in BOOLEAN
    BY Zenon DEF Notify, FleetEvent
  <2>2. QED
    BY <1>2, <1>4, <1>5, <2>1 DEF Inv, TypeOK, Notify
<1>8. QED
  BY <1>3, <1>4, <1>5, <1>6, <1>7 DEF Inv

\* What a lane's own transitions keep: its type, its budget and its place in the
\* store.
LaneOK(l, c) == l \in Lanes /\ Budget(l, c)
Stays(l, m, c) == LaneOK(m, c) /\ (l.st # "absent" => m.st # "absent")

LEMMA OverKeeps ==
    ASSUME NEW l, NEW c \in 0..MaxCalls, LaneOK(l, c)
    PROVE  /\ Stays(l, Over(l), c) /\ Over(l).st = l.st
           /\ \A s \in States \ {"absent"}, b \in BOOLEAN :
                 /\ Stays(l, [Over(l) EXCEPT !.st = s], c)
                 /\ Stays(l, [Over(l) EXCEPT !.st = s, !.ready = b], c)
                 /\ Stays(l, [Over(l) EXCEPT !.st = s, !.rep = l.turn, !.ready = b], c)
           /\ \A r \in Turns : Stays(l, [Over(l) EXCEPT !.rep = r], c)
           /\ \A b \in BOOLEAN : Stays(l, [Over(l) EXCEPT !.inFlight = b], c)
<1> DEFINE m == Over(l)
<1>1. /\ l \in Lanes /\ l.turn \in Turns /\ l.turn \in Nat /\ c \in Nat
  BY ConstantFacts DEF LaneOK, Lanes, Turns
<1>2. l.turn <= c + 1
  BY <1>1 DEF LaneOK, Budget
<1>3. /\ m \in Lanes /\ m.turn = l.turn /\ ~m.next /\ m.st = l.st
  BY <1>1 DEF Over, Lanes
<1> HIDE DEF m
<1>4. Stays(l, m, c)
  BY <1>2, <1>3 DEF Stays, LaneOK, Budget
<1>5. ASSUME NEW s \in States \ {"absent"}, NEW b \in BOOLEAN
      PROVE  /\ Stays(l, [m EXCEPT !.st = s], c)
             /\ Stays(l, [m EXCEPT !.st = s, !.ready = b], c)
             /\ Stays(l, [m EXCEPT !.st = s, !.rep = l.turn, !.ready = b], c)
  <2>1. Stays(l, [m EXCEPT !.st = s], c)
    BY <1>1, <1>2, <1>3 DEF Stays, LaneOK, Budget, Lanes
  <2>2. Stays(l, [m EXCEPT !.st = s, !.ready = b], c)
    BY <1>1, <1>2, <1>3 DEF Stays, LaneOK, Budget, Lanes
  <2>3. Stays(l, [m EXCEPT !.st = s, !.rep = l.turn, !.ready = b], c)
    BY <1>1, <1>2, <1>3 DEF Stays, LaneOK, Budget, Lanes
  <2>4. QED
    BY <2>1, <2>2, <2>3
<1>6. ASSUME NEW r \in Turns PROVE Stays(l, [m EXCEPT !.rep = r], c)
  BY <1>1, <1>2, <1>3 DEF Stays, LaneOK, Budget, Lanes
<1>7. ASSUME NEW b \in BOOLEAN PROVE Stays(l, [m EXCEPT !.inFlight = b], c)
  BY <1>1, <1>2, <1>3 DEF Stays, LaneOK, Budget, Lanes
<1>8. QED
  BY <1>3, <1>4, <1>5, <1>6, <1>7, Zenon DEF m

LEMMA HandoffKeeps ==
    ASSUME NEW l, NEW c \in 0..MaxCalls, LaneOK(l, c), l.next
    PROVE  Stays(l, Handoff(l), c) /\ Stays(l, [Handoff(l) EXCEPT !.rep = l.turn], c)
<1> DEFINE m == Handoff(l)
<1>1. /\ l \in Lanes /\ l.turn \in Turns /\ l.turn \in Nat /\ c \in Nat
  BY ConstantFacts DEF LaneOK, Lanes, Turns
<1>2. l.turn + 1 <= c + 1 /\ l.turn + 1 \in Turns
  BY <1>1, ConstantFacts DEF LaneOK, Budget, Turns
<1>3. m \in Lanes /\ m.turn = l.turn + 1 /\ ~m.next /\ m.st = "running"
  BY <1>1, <1>2 DEF Handoff, Lanes, States
<1> HIDE DEF m
<1>4. Stays(l, m, c)
  BY <1>2, <1>3 DEF Stays, LaneOK, Budget
<1>5. Stays(l, [m EXCEPT !.rep = l.turn], c)
  BY <1>1, <1>2, <1>3 DEF Stays, LaneOK, Budget, Lanes
<1>6. QED
  BY <1>4, <1>5 DEF m

LEMMA RepliedKeeps ==
    ASSUME NEW l, NEW c \in 0..MaxCalls, LaneOK(l, c), NEW keeps \in BOOLEAN
    PROVE  Stays(l, Replied(l, keeps), c)
<1>1. CASE l.st \notin RunEligible
  <2>1. (l.inFlight /\ l.src = "run") \in BOOLEAN
    OBVIOUS
  <2>2. Stays(l, [Over(l) EXCEPT !.inFlight = l.inFlight /\ l.src = "run"], c)
    BY <2>1, OverKeeps, Zenon
  <2>3. QED
    BY <1>1, <2>2, Zenon DEF Replied
<1>2. CASE l.st \in RunEligible /\ l.next /\ keeps
  BY <1>2, HandoffKeeps DEF Replied
<1>3. CASE l.st \in RunEligible /\ ~(l.next /\ keeps)
  <2>1. "completed" \in States \ {"absent"}
    BY DEF States
  <2>2. Stays(l, [Over(l) EXCEPT !.st = "completed", !.rep = l.turn, !.ready = keeps], c)
    BY <2>1, OverKeeps, Zenon
  <2>3. QED
    BY <1>3, <2>2, Zenon DEF Replied
<1>4. QED
  BY <1>1, <1>2, <1>3

\* The overlay operations that neither collect, compact nor pin.
SameRecord(o, p) ==
    /\ p \in Overlays
    /\ p.in = o.in /\ p.collected = o.collected /\ p.tomb = o.tomb
    /\ p.pinHeld = o.pinHeld

LEMMA OverlayOps ==
    ASSUME NEW o \in Overlays, NEW turn \in Turns
    PROVE  /\ SameRecord(o, o)
           /\ SameRecord(o, ClearQueued(o))
           /\ SameRecord(o, Interrupt(o))
           /\ SameRecord(o, NoteFollowup(o))
           /\ SameRecord(o, CompleteAfterInterrupt(o, turn))
<1>1. SameRecord(o, o)
  BY DEF SameRecord
<1>2. SameRecord(o, ClearQueued(o))
  BY DEF SameRecord, ClearQueued, Overlays
<1>3. SameRecord(o, Interrupt(o))
  BY DEF SameRecord, Interrupt, Overlays
<1>4. SameRecord(o, NoteFollowup(o))
  BY DEF SameRecord, NoteFollowup, Overlays
<1>5. SameRecord(o, CompleteAfterInterrupt(o, turn))
  BY DEF SameRecord, CompleteAfterInterrupt, Overlays
<1>6. QED
  BY <1>1, <1>2, <1>3, <1>4, <1>5

LEMMA RegisterOps ==
    /\ Register \in Overlays /\ Register.pinHeld
    /\ MarkQueued(Register) \in Overlays /\ MarkQueued(Register).pinHeld
<1>1. 0 \in Turns
  BY ConstantFacts DEF Turns
<1>2. NoOverlay \in Overlays /\ NoOverlay.collected = FALSE
  BY <1>1 DEF NoOverlay, Overlays
<1>3. Register \in Overlays /\ Register.pinHeld /\ ~Register.collected
  BY <1>2 DEF Register, Overlays
<1>4. MarkQueued(Register) = [Register EXCEPT !.queued = TRUE]
  BY <1>3 DEF MarkQueued
<1>5. MarkQueued(Register) \in Overlays /\ MarkQueued(Register).pinHeld
  BY <1>3, <1>4 DEF Overlays
<1>6. QED
  BY <1>3, <1>5

\* A worker that keeps its place in the store and its record stays in order.
LEMMA StaysInOrder ==
    ASSUME NEW l, NEW o, NEW m, NEW p, NEW c,
           Pinned(l, o), Stays(l, m, c), SameRecord(o, p)
    PROVE  RecordOK(m, p, c)
BY DEF Pinned, Stays, LaneOK, SameRecord, RecordOK

\* A worker that is registered anew is in order once its session is there.
LEMMA RegisteredInOrder ==
    ASSUME NEW m, NEW p \in Overlays, NEW c, LaneOK(m, c), m.st # "absent", p.pinHeld
    PROVE  RecordOK(m, p, c)
BY DEF Pinned, LaneOK, RecordOK

LEMMA InvFacts ==
    ASSUME Inv, NEW i \in Ids
    PROVE  /\ lanes[i] \in Lanes /\ box[i] \in Overlays
           /\ LaneOK(lanes[i], calls) /\ Pinned(lanes[i], box[i])
           /\ calls \in 0..MaxCalls /\ calls \in Nat
BY ConstantFacts DEF Inv, TypeOK, LaneOK

-----------------------------------------------------------------------------
\* Every step of a worker is one store change that keeps it in order.
LEMMA WorkerKeeps ==
    ASSUME Inv, NEW i \in Ids, WorkerSteps(i)
    PROVE  Inv' /\ PayloadsCapped'
<1> DEFINE l == lanes[i]
           o == box[i]
           c == calls
<1>1. /\ l \in Lanes /\ o \in Overlays /\ LaneOK(l, c) /\ Pinned(l, o)
      /\ c \in 0..MaxCalls /\ c \in Nat
  BY InvFacts
<1>2. /\ l.turn \in Turns /\ l.rep \in Turns /\ l.turn \in Nat /\ l.st \in States
      /\ l.ready \in BOOLEAN /\ l.inFlight \in BOOLEAN /\ l.next \in BOOLEAN
      /\ l.closer \in {"idle", "waiting", "closing"} /\ 0 \in Turns
  BY <1>1, ConstantFacts DEF Lanes, Turns
<1>3. SUFFICES \E m, p : RecordOK(m, p, c) /\ Notify(i, m, p)
  <2>1. calls' = calls /\ calls' \in 0..MaxCalls /\ calls <= calls'
    BY <1>1 DEF WorkerSteps
  <2>2. QED
    BY <2>1, NotifyKeeps
<1>4. \A m : Stays(l, m, c) => RecordOK(m, o, c)
  BY <1>1, <1>2, OverlayOps, StaysInOrder
<1>5. \A m, q : Stays(l, m, c) /\ SameRecord(o, q) => RecordOK(m, q, c)
  BY <1>1, StaysInOrder
<1> HIDE DEF l, o, c
<1>a. CASE Admit(i)
  <2>1. CASE l.src = "run"
    <3>1. Started(l) = [l EXCEPT !.pc = "setup", !.inFlight = TRUE]
      BY <2>1 DEF Started
    <3>2. Stays(l, Started(l), c)
      BY <1>1, <3>1 DEF Stays, LaneOK, Lanes, Budget
    <3>3. Notify(i, Started(l), ClearQueued(o))
      BY <1>a, <2>1 DEF Admit, l, o
    <3>4. SameRecord(o, ClearQueued(o))
      BY <1>1, <1>2, OverlayOps
    <3>5. QED
      BY <1>5, <3>2, <3>3, <3>4
  <2>2. CASE l.src # "run"
    <3>1. Started(l) = [l EXCEPT !.pc = "turn", !.inFlight = TRUE, !.st = "running"]
      BY <2>2 DEF Started
    <3>2. LaneOK(Started(l), c) /\ Started(l).st # "absent"
      BY <1>1, <3>1 DEF LaneOK, Lanes, Budget, States
    <3>3. Notify(i, Started(l), Register)
      BY <1>a, <2>2 DEF Admit, l, o
    <3>4. QED
      BY <3>2, <3>3, RegisterOps, RegisteredInOrder
  <2>3. QED
    BY <2>1, <2>2
<1>b. CASE Launch(i)
  <2>1. \/ Notify(i, [l EXCEPT !.pc = "turn", !.ready = TRUE, !.st = "running"], o)
        \/ Notify(i, [l EXCEPT !.pc = "over", !.st = "failed", !.inFlight = FALSE], o)
        \/ Notify(i, Over(l), o)
    BY <1>b, Zenon DEF Launch, l, o
  <2>2. Stays(l, [l EXCEPT !.pc = "turn", !.ready = TRUE, !.st = "running"], c)
    BY <1>1 DEF Stays, LaneOK, Lanes, Budget, States
  <2>3. Stays(l, [l EXCEPT !.pc = "over", !.st = "failed", !.inFlight = FALSE], c)
    BY <1>1 DEF Stays, LaneOK, Lanes, Budget, States
  <2>4. Stays(l, Over(l), c)
    BY <1>1, OverKeeps
  <2>5. QED
    BY <1>4, <2>1, <2>2, <2>3, <2>4
<1>c. CASE TurnReplies(i)
  <2>1. PICK keeps \in {TRUE, l.src # "run"} :
           Notify(i, Replied(l, keeps /\ l.ready),
                  IF l.src = "steer" /\ l.st \in RunEligible
                  THEN CompleteAfterInterrupt(o, l.turn) ELSE o)
    BY <1>c, Zenon DEF TurnReplies, l, o
  <2>2. (keeps /\ l.ready) \in BOOLEAN
    OBVIOUS
  <2>3. Stays(l, Replied(l, keeps /\ l.ready), c)
    BY <1>1, <2>2, RepliedKeeps, Zenon
  <2>4. SameRecord(o, o) /\ SameRecord(o, CompleteAfterInterrupt(o, l.turn))
    BY <1>1, <1>2, OverlayOps
  <2>5. QED
    BY <1>5, <2>1, <2>3, <2>4, Zenon
<1>d. CASE RunStops(i)
  <2>1. \/ Notify(i, [Over(l) EXCEPT !.rep = IF @ = 0 THEN l.turn ELSE @], o)
        \/ l.next /\ Notify(i, [Handoff(l) EXCEPT !.rep = l.turn], o)
    BY <1>d, SMTT(60) DEF RunStops, l, o
  <2>2. Stays(l, [Over(l) EXCEPT !.rep = IF @ = 0 THEN l.turn ELSE @], c)
    <3>1. Over(l).rep = l.rep
      BY <1>1 DEF Over, Lanes
    <3>2. PICK r \in Turns :
             [Over(l) EXCEPT !.rep = IF @ = 0 THEN l.turn ELSE @]
               = [Over(l) EXCEPT !.rep = r]
      BY <1>2, <3>1
    <3>3. QED
      BY <1>1, <3>2, OverKeeps
  <2>3. l.next => Stays(l, [Handoff(l) EXCEPT !.rep = l.turn], c)
    BY <1>1, HandoffKeeps
  <2>4. QED
    BY <1>4, <2>1, <2>2, <2>3
<1>e. CASE TurnFails(i)
  <2> DEFINE failed == [Over(l) EXCEPT !.st = "failed", !.ready = FALSE]
             s == IF l.st \in RunEligible THEN "interrupted" ELSE l.st
  <2>1. \/ Notify(i, failed, o)
        \/ Notify(i, Over(l), o)
        \/ l.next /\ Notify(i, Handoff(l), CompleteAfterInterrupt(o, 0))
        \/ Notify(i, [Over(l) EXCEPT !.st = IF @ \in RunEligible THEN "interrupted" ELSE @],
                  CompleteAfterInterrupt(o, 0))
    BY <1>e, Zenon DEF TurnFails, l, o
  <2>2. Stays(l, failed, c) /\ Stays(l, Over(l), c) /\ Over(l).st = l.st
    <3>1. "failed" \in States \ {"absent"}
      BY DEF States
    <3>2. QED
      BY <1>1, <3>1, OverKeeps, Zenon
  <2>3. Stays(l, [Over(l) EXCEPT !.st = IF @ \in RunEligible THEN "interrupted" ELSE @], c)
    <3>1. [Over(l) EXCEPT !.st = IF @ \in RunEligible THEN "interrupted" ELSE @]
             = [Over(l) EXCEPT !.st = s]
      BY <2>2
    <3>2. CASE s \in States \ {"absent"}
      BY <1>1, <3>1, <3>2, OverKeeps, Zenon
    <3>3. CASE s \notin States \ {"absent"}
      <4>1. s = l.st
        BY <1>2, <3>3 DEF States
      <4>2. [Over(l) EXCEPT !.st = s] = Over(l)
        BY <1>1, <2>2, <4>1 DEF Over, Lanes
      <4>3. QED
        BY <2>2, <3>1, <4>2
    <3>4. QED
      BY <3>2, <3>3
  <2>4. SameRecord(o, CompleteAfterInterrupt(o, 0))
    BY <1>1, <1>2, OverlayOps
  <2>5. l.next => Stays(l, Handoff(l), c)
    BY <1>1, HandoffKeeps
  <2> HIDE DEF failed
  <2>6. QED
    BY <1>4, <1>5, <2>1, <2>2, <2>3, <2>4, <2>5, Zenon
<1>f. CASE TurnIsCut(i)
  <2>1. \/ Notify(i, [Over(l) EXCEPT !.st = "failed"], o)
        \/ Notify(i, [Over(l) EXCEPT !.st = "cancelled"], o)
        \/ Notify(i, Replied(l, FALSE), o)
        \/ Notify(i, Over(l), o)
    BY <1>f, Zenon DEF TurnIsCut, l, o
  <2>2. {"failed", "cancelled"} \subseteq States \ {"absent"}
    BY DEF States
  <2>3. /\ Stays(l, [Over(l) EXCEPT !.st = "failed"], c)
        /\ Stays(l, [Over(l) EXCEPT !.st = "cancelled"], c)
        /\ Stays(l, Over(l), c)
    BY <1>1, <2>2, OverKeeps, Zenon
  <2>4. Stays(l, Replied(l, FALSE), c)
    BY <1>1, RepliedKeeps
  <2>5. QED
    BY <1>4, <2>1, <2>3, <2>4, Zenon
<1>g. CASE Evict(i)
  <2> DEFINE m == [NoLane EXCEPT !.turn = l.turn, !.pc = "over", !.closer = l.closer]
  <2>1. Notify(i, m, o) /\ ~o.pinHeld
    BY <1>g DEF Evict, l, o
  <2>2. NoLane \in Lanes /\ ~NoLane.next
    BY <1>2 DEF NoLane, Lanes, States
  <2>3. m \in Lanes /\ m.turn = l.turn /\ ~m.next
    BY <1>2, <2>2 DEF Lanes
  <2>4. Budget(m, c)
    BY <1>1, <1>2, <2>3 DEF Budget, LaneOK
  <2>5. Pinned(m, o)
    BY <1>1, <2>1 DEF Pinned
  <2> HIDE DEF m
  <2>6. QED
    BY <1>1, <2>1, <2>3, <2>4, <2>5 DEF RecordOK
<1>h. CASE CloseProceeds(i)
  <2>1. \/ Notify(i, [l EXCEPT !.closer = "closing", !.ready = FALSE], o)
        \/ Notify(i, [l EXCEPT !.closer = "idle"], o)
        \/ Notify(i, [l EXCEPT !.closer = "idle", !.st = "shutdown", !.next = FALSE,
                               !.inFlight = FALSE], o)
    BY <1>h, Zenon DEF CloseProceeds, l, o
  <2>2. Stays(l, [l EXCEPT !.closer = "closing", !.ready = FALSE], c)
    BY <1>1 DEF Stays, LaneOK, Lanes, Budget
  <2>3. Stays(l, [l EXCEPT !.closer = "idle"], c)
    BY <1>1 DEF Stays, LaneOK, Lanes, Budget
  <2>4. Stays(l, [l EXCEPT !.closer = "idle", !.st = "shutdown", !.next = FALSE,
                           !.inFlight = FALSE], c)
    <3> DEFINE m == [l EXCEPT !.closer = "idle", !.st = "shutdown", !.next = FALSE,
                              !.inFlight = FALSE]
    <3>1. m \in Lanes /\ m.st = "shutdown" /\ ~m.next /\ m.turn = l.turn
      BY <1>1 DEF Lanes, States
    <3>2. l.turn <= c + 1
      BY <1>1, <1>2 DEF LaneOK, Budget
    <3> HIDE DEF m
    <3>3. Stays(l, m, c)
      BY <3>1, <3>2 DEF Stays, LaneOK, Budget
    <3>4. QED
      BY <3>3 DEF m
  <2>5. QED
    BY <1>4, <2>1, <2>2, <2>3, <2>4, Zenon
<1>9. QED
  BY <1>a, <1>b, <1>c, <1>d, <1>e, <1>f, <1>g, <1>h DEF WorkerSteps

\* So is every verb of the parent; a call adds one to the budget.
LEMMA VerbKeeps ==
    ASSUME Inv, NEW i \in Ids, VerbSteps(i)
    PROVE  Inv' /\ PayloadsCapped'
<1> DEFINE l == lanes[i]
           o == box[i]
           c == calls'
<1>1. /\ l \in Lanes /\ o \in Overlays /\ LaneOK(l, calls) /\ Pinned(l, o)
      /\ calls \in 0..MaxCalls /\ calls \in Nat
  BY InvFacts
<1>2. /\ l.turn \in Turns /\ l.turn \in Nat /\ l.st \in States /\ l.next \in BOOLEAN
      /\ 0 \in Turns /\ 1 \in Turns
  BY <1>1, ConstantFacts DEF Lanes, Turns
<1>3. c \in 0..MaxCalls /\ calls <= c /\ c \in Nat
  BY <1>1, ConstantFacts DEF VerbSteps
<1>4. SUFFICES \E m, p : RecordOK(m, p, c) /\ Notify(i, m, p)
  BY <1>3, NotifyKeeps
<1>5. l.turn <= calls + 1 /\ l.turn <= c + 1 /\ LaneOK(l, c)
  BY <1>1, <1>2, <1>3 DEF LaneOK, Budget
<1>6. \A m, q : Stays(l, m, c) /\ SameRecord(o, q) => RecordOK(m, q, c)
  BY <1>1, StaysInOrder
<1>7. SameRecord(o, Interrupt(o)) /\ SameRecord(o, NoteFollowup(o))
  BY <1>1, <1>2, OverlayOps
<1>8. \A m : LaneOK(m, c) /\ m.st # "absent" =>
             RecordOK(m, Register, c) /\ RecordOK(m, MarkQueued(Register), c)
  BY RegisterOps, RegisteredInOrder
<1> HIDE DEF l, o, c
<1>a. ASSUME NEW admitted \in BOOLEAN, Spawn(i, admitted)
      PROVE  \E m, p : RecordOK(m, p, c) /\ Notify(i, m, p)
  <2> DEFINE n == [NoLane EXCEPT !.st = "pending_init", !.turn = 1]
  <2>1. \/ Notify(i, [n EXCEPT !.pc = "setup", !.inFlight = TRUE], Register)
        \/ Notify(i, [n EXCEPT !.pc = "queued"], MarkQueued(Register))
    BY <1>a, Zenon DEF Spawn
  <2>2. NoLane \in Lanes /\ ~NoLane.next
    BY <1>2 DEF NoLane, Lanes, States
  <2>3. n \in Lanes /\ n.st = "pending_init" /\ n.turn = 1 /\ ~n.next
    BY <1>2, <2>2 DEF Lanes, States
  <2> HIDE DEF n
  <2>4. LaneOK([n EXCEPT !.pc = "setup", !.inFlight = TRUE], c)
        /\ [n EXCEPT !.pc = "setup", !.inFlight = TRUE].st # "absent"
    <3> DEFINE m == [n EXCEPT !.pc = "setup", !.inFlight = TRUE]
    <3>1. m \in Lanes /\ m.st = "pending_init" /\ m.turn = 1 /\ ~m.next
      BY <2>3 DEF Lanes
    <3> HIDE DEF m
    <3>2. LaneOK(m, c) /\ m.st # "absent"
      BY <1>3, <3>1 DEF LaneOK, Budget
    <3>3. QED
      BY <3>2 DEF m
  <2>5. LaneOK([n EXCEPT !.pc = "queued"], c) /\ [n EXCEPT !.pc = "queued"].st # "absent"
    BY <1>3, <2>3 DEF LaneOK, Lanes, Budget
  <2>6. QED
    BY <1>8, <2>1, <2>4, <2>5, Zenon
<1>b. ASSUME c = calls + 1, NEW admitted \in BOOLEAN, ResumeAgent(i, admitted)
      PROVE  \E m, p : RecordOK(m, p, c) /\ Notify(i, m, p)
  <2> DEFINE r == Resumed(l)
             q == [r EXCEPT !.pc = "queued", !.st = "pending_init"]
             s == [r EXCEPT !.pc = "turn", !.inFlight = TRUE, !.st = "running"]
  <2>1. Notify(i, Started(r), Register) \/ Notify(i, q, MarkQueued(Register))
    BY <1>b, Zenon DEF ResumeAgent, l
  <2>2. l.turn + 1 \in Turns /\ (l.next => l.turn + 2 <= c + 1) /\ l.turn + 1 <= c + 1
    BY <1>1, <1>2, <1>3, <1>5, <1>b, ConstantFacts DEF Turns, LaneOK, Budget
  <2>3. r \in Lanes /\ r.src = "resume" /\ r.turn = l.turn + 1 /\ r.next = l.next
    BY <1>1, <2>2 DEF Resumed, Lanes
  <2>4. Started(r) = s
    BY <2>3 DEF Started
  <2> HIDE DEF r
  <2>5. LaneOK(q, c) /\ q.st # "absent"
    <3>1. /\ q \in Lanes /\ q.st = "pending_init"
          /\ q.turn = l.turn + 1 /\ q.next = l.next
      BY <2>3 DEF Lanes, States
    <3> HIDE DEF q
    <3>2. QED
      BY <1>2, <1>3, <2>2, <3>1 DEF LaneOK, Budget
  <2>6. LaneOK(s, c) /\ s.st # "absent"
    <3>1. /\ s \in Lanes /\ s.st = "running"
          /\ s.turn = l.turn + 1 /\ s.next = l.next
      BY <2>3 DEF Lanes, States
    <3> HIDE DEF s
    <3>2. QED
      BY <1>2, <1>3, <2>2, <3>1 DEF LaneOK, Budget
  <2> HIDE DEF q, s
  <2>7. QED
    BY <1>8, <2>1, <2>4, <2>5, <2>6, Zenon
<1>c. ASSUME InterruptAgent(i)
      PROVE  \E m, p : RecordOK(m, p, c) /\ Notify(i, m, p)
  <2> DEFINE stopped == [l EXCEPT !.st = "interrupted", !.next = FALSE]
  <2>1. \/ Notify(i, stopped, Interrupt(o))
        \/ Notify(i, [stopped EXCEPT !.inFlight = FALSE,
                                     !.pc = IF @ = "queued" THEN "over" ELSE @],
                  Interrupt(o))
    BY <1>c, Zenon DEF InterruptAgent, l, o
  <2>2. /\ stopped \in Lanes /\ stopped.turn = l.turn /\ ~stopped.next
        /\ stopped.st = "interrupted"
    BY <1>1 DEF Lanes, States
  <2> HIDE DEF stopped
  <2>3. Stays(l, stopped, c)
    BY <1>5, <2>2 DEF Stays, LaneOK, Budget
  <2>4. Stays(l, [stopped EXCEPT !.inFlight = FALSE,
                                 !.pc = IF @ = "queued" THEN "over" ELSE @], c)
    BY <1>5, <2>2 DEF Stays, LaneOK, Budget, Lanes
  <2>5. QED
    BY <1>6, <1>7, <2>1, <2>3, <2>4, Zenon
<1>d. ASSUME CloseAgent(i)
      PROVE  \E m, p : RecordOK(m, p, c) /\ Notify(i, m, p)
  <2> DEFINE closing == [l EXCEPT !.closer = "closing", !.ready = FALSE]
             waiting == [l EXCEPT !.closer = "waiting"]
             shut == [Over(l) EXCEPT !.st = "shutdown"]
  <2>1. \E m \in {closing, l, shut, waiting} :
           Notify(i, [m EXCEPT !.next = FALSE], Interrupt(o))
    BY <1>d, Zenon DEF CloseAgent, l, o
  <2>2. Stays(l, closing, c)
    BY <1>5 DEF Stays, LaneOK, Lanes, Budget
  <2>3. Stays(l, waiting, c)
    BY <1>5 DEF Stays, LaneOK, Lanes, Budget
  <2>4. Stays(l, shut, c)
    <3>1. "shutdown" \in States \ {"absent"}
      BY DEF States
    <3>2. QED
      BY <1>3, <1>5, <3>1, OverKeeps, Zenon
  <2>5. Stays(l, l, c)
    BY <1>5 DEF Stays
  <2>6. ASSUME NEW m, Stays(l, m, c) PROVE Stays(l, [m EXCEPT !.next = FALSE], c)
    <3>1. m \in Lanes /\ m.turn \in Nat /\ m.next \in BOOLEAN
      BY <2>6, ConstantFacts DEF Stays, LaneOK, Lanes, Turns
    <3>2. m.turn <= c + 1
      BY <1>3, <2>6, <3>1 DEF Stays, LaneOK, Budget
    <3>3. QED
      BY <2>6, <3>1, <3>2 DEF Stays, LaneOK, Lanes, Budget
  <2> HIDE DEF closing, waiting, shut
  <2>7. QED
    BY <1>6, <1>7, <2>1, <2>2, <2>3, <2>4, <2>5, <2>6, Zenon
<1>e. ASSUME c = calls + 1, SendInput(i)
      PROVE  \E m, p : RecordOK(m, p, c) /\ Notify(i, m, p)
  <2>1. Notify(i, [l EXCEPT !.next = TRUE], NoteFollowup(o)) /\ ~l.next
    BY <1>e DEF SendInput, l, o
  <2>2. l.turn + 1 <= c + 1
    BY <1>1, <1>2, <1>5, <1>e
  <2>3. Stays(l, [l EXCEPT !.next = TRUE], c)
    BY <1>1, <2>2 DEF Stays, LaneOK, Lanes, Budget
  <2>4. QED
    BY <1>6, <1>7, <2>1, <2>3
<1>9. QED
  BY <1>a, <1>b, <1>c, <1>d, <1>e DEF VerbSteps, c

-----------------------------------------------------------------------------
LEMMA QuotedType ==
    ASSUME Inv, NEW i \in Ids, NEW fallback \in BOOLEAN
    PROVE  Quoted(i, fallback) \in Turns
<1>1. lanes[i] \in Lanes /\ box[i] \in Overlays
  BY InvFacts
<1>2. lanes[i].turn \in Turns /\ lanes[i].rep \in Turns /\ box[i].reply \in Turns
  BY <1>1 DEF Lanes, Overlays
<1>3. 0 \in Turns
  BY ConstantFacts DEF Turns
<1>4. SnapReport(lanes[i], box[i]) \in Turns
  BY <1>2, <1>3, Zenon DEF SnapReport
<1>5. QED
  BY <1>2, <1>3, <1>4, Zenon DEF Quoted

LEMMA SnapshotType ==
    ASSUME Inv
    PROVE  Snapshot \in SUBSET Snaps
<1> SUFFICES ASSUME NEW s \in Snapshot PROVE s \in Snaps
  OBVIOUS
<1>1. PICK i \in Uncollecteds : s = [id |-> i, body |-> Quoted(i, TRUE)]
  BY Zenon DEF Snapshot
<1>2. i \in Ids
  BY DEF Uncollecteds
<1>3. QED
  BY <1>1, <1>2, QuotedType DEF Snaps

LEMMA HandedType ==
    ASSUME NEW snap \in SUBSET Snaps
    PROVE  Handed(snap) \subseteq Ids
BY DEF Handed, Snaps

\* Collecting any of the workers keeps every record in order and adds no payload.
LEMMA TakesKeep ==
    ASSUME Inv, PayloadsCapped, UNCHANGED <<lanes, calls>>, NEW S,
           box' = [i \in Ids |-> IF i \in S THEN Take(lanes[i], box[i]) ELSE box[i]]
    PROVE  /\ box' \in [Ids -> Overlays]
           /\ \A i \in Ids : Budget(lanes'[i], calls') /\ Pinned(lanes'[i], box'[i])
           /\ PayloadsCapped'
<1>1. ASSUME NEW i \in Ids
      PROVE  /\ box'[i] \in Overlays /\ Pinned(lanes[i], box'[i])
             /\ Budget(lanes[i], calls)
             /\ IsPayload(lanes[i], box'[i]) => IsPayload(lanes[i], box[i])
  <2>1. lanes[i] \in Lanes /\ box[i] \in Overlays /\ Pinned(lanes[i], box[i])
        /\ Budget(lanes[i], calls)
    BY InvFacts DEF LaneOK
  <2>2. box'[i] = Take(lanes[i], box[i]) \/ box'[i] = box[i]
    OBVIOUS
  <2>3. QED
    BY <2>1, <2>2, TakeKeeps, Zenon
<1> DEFINE old == {i \in Ids : IsPayload(lanes[i], box[i])}
           new == {i \in Ids : IsPayload(lanes[i], box'[i])}
<1>2. new \subseteq old
  BY <1>1
<1>3. IsFiniteSet(old)
  <2>1. IsFiniteSet(1..N)
    BY ConstantFacts, FS_Interval
  <2>2. QED
    BY <2>1, FS_Subset DEF Ids
<1>4. Cardinality(new) <= MaxRecords
  <2>1. Cardinality(old) <= MaxRecords
    BY DEF PayloadsCapped
  <2> HIDE DEF new, old
  <2>2. Cardinality(new) <= Cardinality(old) /\ Cardinality(new) \in Nat
        /\ Cardinality(old) \in Nat
    BY <1>2, <1>3, FS_Subset, FS_CardinalityType
  <2>3. QED
    BY <2>1, <2>2, ConstantFacts
<1>5. box' \in [Ids -> Overlays]
  BY <1>1
<1>6. QED
  BY <1>1, <1>4, <1>5 DEF PayloadsCapped

\* The parent's steps: they change no lane, and a record only by collecting it.
LEMMA ParentKeeps ==
    ASSUME Inv, PayloadsCapped, ParentSteps
    PROVE  Inv' /\ PayloadsCapped'
<1>1. /\ mail \in Drives /\ dry \in Drives /\ delivering \subseteq Ids /\ read \subseteq Ids
      /\ op \in BOOLEAN /\ busy \in BOOLEAN /\ paused \in BOOLEAN /\ drove \in BOOLEAN
      /\ run \in {"idle", "busy"} /\ surface \in {"tui", "exec"}
  BY DEF Inv, TypeOK
<1>2. Snapshot \in SUBSET Snaps
  BY SnapshotType
<1>3. /\ mail.snap \in SUBSET Snaps /\ dry.snap \in SUBSET Snaps
      /\ IdsOf(mail) \subseteq Ids /\ IdsOf(dry) \subseteq Ids
      /\ Handed(mail.snap) \subseteq Ids /\ Handed(dry.snap) \subseteq Ids
  <2>1. mail.snap \in SUBSET Snaps /\ dry.snap \in SUBSET Snaps
    BY <1>1 DEF Drives
  <2>2. IdsOf(mail) \subseteq Ids /\ IdsOf(dry) \subseteq Ids
    BY <2>1 DEF IdsOf, Snaps
  <2>3. QED
    BY <2>1, <2>2, HandedType
<1>4. IdleDrive \in Drives
  BY DEF IdleDrive, Drives
<1>5. SUFFICES /\ UNCHANGED <<lanes, calls, surface>>
               /\ \/ box' = box
                  \/ \E S : box' = [i \in Ids |-> IF i \in S THEN Take(lanes[i], box[i])
                                                 ELSE box[i]]
               /\ mail' \in Drives /\ dry' \in Drives
               /\ delivering' \subseteq Ids /\ read' \subseteq Ids
               /\ op' \in BOOLEAN /\ busy' \in BOOLEAN /\ paused' \in BOOLEAN
               /\ drove' \in BOOLEAN /\ run' \in {"idle", "busy"}
  <2>1. /\ box' \in [Ids -> Overlays]
        /\ \A i \in Ids : Budget(lanes'[i], calls') /\ Pinned(lanes'[i], box'[i])
        /\ PayloadsCapped'
    <3>1. CASE box' = box
      BY <1>5, <3>1 DEF Inv, TypeOK, PayloadsCapped
    <3>2. CASE \E S : box' = [i \in Ids |-> IF i \in S THEN Take(lanes[i], box[i])
                                            ELSE box[i]]
      BY <1>5, <3>2, TakesKeep
    <3>3. QED
      BY <1>5, <3>1, <3>2
  <2>2. TypeOK'
    BY <1>1, <1>5, <2>1 DEF Inv, TypeOK
  <2>3. QED
    BY <2>1, <2>2 DEF Inv
<1>a. CASE MailReads
  BY <1>a, <1>1, <1>2 DEF MailReads, parent, Drives
<1>b. CASE MailClaims
  <2>1. \/ mail' = IdleDrive /\ delivering' = delivering
        \/ mail' = [pc |-> "digest", snap |-> Fresh(mail)]
           /\ delivering' = delivering \cup IdsOf(mail')
    BY <1>b, Zenon DEF MailClaims
  <2>2. Fresh(mail) \in SUBSET Snaps
    BY <1>3 DEF Fresh
  <2>3. mail' \in Drives /\ delivering' \subseteq Ids
    BY <1>1, <1>4, <2>1, <2>2 DEF Drives, IdsOf, Snaps
  <2>4. QED
    BY <1>b, <1>1, <2>3 DEF MailClaims, parent
<1>c. CASE MailSends
  BY <1>c, <1>1, <1>4 DEF MailSends, BeginContinuation, Drives
<1>d. CASE MailAccepted
  <2>1. busy' \in BOOLEAN
    BY <1>d, Zenon DEF MailAccepted
  <2>2. QED
    BY <1>d, <1>1, <1>3, <1>4, <2>1 DEF MailAccepted, Collect
<1>e. CASE MailFails
  BY <1>e, <1>1, <1>4 DEF MailFails, AbortContinuation
<1>f. CASE DryReads
  BY <1>f, <1>1, <1>2 DEF DryReads, Drives
<1>g. CASE DryClaims
  <2>1. Fresh(dry) \in SUBSET Snaps
    BY <1>3 DEF Fresh
  <2>2. dry' \in Drives /\ delivering' \subseteq Ids
    BY <1>g, <1>1, <2>1 DEF DryClaims, Drives, IdsOf, Snaps
  <2>3. QED
    BY <1>g, <1>1, <2>2 DEF DryClaims, parent
<1>h. CASE DrySends
  BY <1>h, <1>1, <1>4 DEF DrySends, DryGivesUp, BeginContinuation, AbortContinuation,
                          Drives
<1>i. CASE DryAccepted
  <2>1. busy' \in BOOLEAN
    BY <1>i, Zenon DEF DryAccepted
  <2>2. QED
    BY <1>i, <1>1, <1>3, <1>4, <2>1 DEF DryAccepted, Collect
<1>j. CASE DryFails
  BY <1>j, <1>1, <1>4 DEF DryFails, DryGivesUp, AbortContinuation
<1>k. CASE OperatorSends
  BY <1>k, <1>1 DEF OperatorSends
<1>l. CASE OperatorTurnEnds
  <2>1. busy' \in BOOLEAN
    BY <1>l, Zenon DEF OperatorTurnEnds
  <2>2. QED
    BY <1>l, <1>1, <2>1 DEF OperatorTurnEnds
<1>m. CASE OperatorInterrupts
  BY <1>m, <1>1 DEF OperatorInterrupts
<1>n. CASE ReleaseRun
  BY <1>n, <1>1 DEF ReleaseRun
<1>9. QED
  BY <1>a, <1>b, <1>c, <1>d, <1>e, <1>f, <1>g, <1>h, <1>i, <1>j, <1>k, <1>l, <1>m, <1>n
  DEF ParentSteps

LEMMA WaitKeeps ==
    ASSUME Inv, PayloadsCapped, NEW w \in Ids, WaitAgents(w)
    PROVE  Inv' /\ PayloadsCapped'
<1>1. Quoted(w, FALSE) \in Turns
  BY QuotedType
<1>2. {[id |-> w, body |-> Quoted(w, FALSE)]} \in SUBSET Snaps
  <2>1. [id |-> w, body |-> Quoted(w, FALSE)] \in Snaps
    BY <1>1 DEF Snaps
  <2>2. QED
    BY <2>1, Zenon
<1>3. read' \subseteq Ids
  BY <1>2, HandedType DEF WaitAgents, Inv, TypeOK
<1>4. UNCHANGED <<lanes, calls>>
  BY DEF WaitAgents
<1>5. box' = [i \in Ids |-> IF i \in {w} THEN Take(lanes[i], box[i]) ELSE box[i]]
  BY DEF WaitAgents, Inv, TypeOK
<1>6. /\ box' \in [Ids -> Overlays]
      /\ \A i \in Ids : Budget(lanes'[i], calls') /\ Pinned(lanes'[i], box'[i])
      /\ PayloadsCapped'
  BY <1>4, <1>5, TakesKeep
<1>7. TypeOK'
  BY <1>3, <1>6 DEF WaitAgents, parent, Inv, TypeOK
<1>8. QED
  BY <1>6, <1>7 DEF Inv

-----------------------------------------------------------------------------
\* The lanes, overlays and drives keep their types, the turns their budget, and
\* every uncollected record its pin and its session, in every step.
THEOREM InvHolds == Spec => [](Inv /\ PayloadsCapped)
<1>1. Init => Inv /\ PayloadsCapped
  <2> SUFFICES ASSUME Init PROVE Inv /\ PayloadsCapped
    OBVIOUS
  <2>1. 0 \in Turns /\ 0 \in 0..MaxCalls
    BY ConstantFacts DEF Turns
  <2>2. NoLane \in Lanes /\ NoOverlay \in Overlays /\ IdleDrive \in Drives
    BY <2>1 DEF NoLane, Lanes, States, NoOverlay, Overlays, IdleDrive, Drives
  <2>3. TypeOK
    BY <2>1, <2>2 DEF Init, TypeOK
  <2>4. \A i \in Ids : lanes[i] = NoLane /\ box[i] = NoOverlay
    BY DEF Init
  <2>5. Budget(NoLane, 0) /\ Pinned(NoLane, NoOverlay) /\ ~IsPayload(NoLane, NoOverlay)
    BY DEF NoLane, NoOverlay, Budget, Pinned, IsPayload, Uncollected
  <2>6. Cardinality({}) = 0
    BY FS_EmptySet
  <2>7. PayloadsCapped
    <3>1. {i \in Ids : IsPayload(lanes[i], box[i])} = {}
      BY <2>4, <2>5
    <3>2. QED
      BY <2>6, <3>1, ConstantFacts DEF PayloadsCapped
  <2>8. QED
    BY <2>3, <2>4, <2>5, <2>7 DEF Inv, Init
<1>2. Inv /\ PayloadsCapped /\ [Next]_vars => (Inv /\ PayloadsCapped)'
  <2> SUFFICES ASSUME Inv, PayloadsCapped, [Next]_vars PROVE Inv' /\ PayloadsCapped'
    OBVIOUS
  <2>1. CASE ParentSteps
    BY <2>1, ParentKeeps
  <2>2. CASE \E i \in Ids : WorkerSteps(i) \/ VerbSteps(i) \/ WaitAgents(i)
    BY <2>2, WorkerKeeps, VerbKeeps, WaitKeeps
  <2>3. CASE UNCHANGED vars
    BY <2>3 DEF vars, parent, Inv, TypeOK, PayloadsCapped
  <2>4. QED
    BY <2>1, <2>2, <2>3 DEF Next
<1>3. QED
  BY <1>1, <1>2, PTL DEF Spec

\* Type correctness of FleetDelivery; that turn numbers stay in Turns rests on the
\* call budget.
THEOREM TypeCorrect == Spec => []TypeOK
<1>1. Inv => TypeOK
  BY DEF Inv
<1>2. QED
  BY <1>1, InvHolds, PTL

\* However many workers there are and in whatever order they end, a result that
\* nobody has collected is never pruned from the store.
THEOREM ResultsSurvive == Spec => []PinnedResultSurvives
<1>1. Inv => PinnedResultSurvives
  BY DEF Inv, Pinned, PinnedResultSurvives
<1>2. QED
  BY <1>1, InvHolds, PTL

\* The mailbox never pins more than MaxRecords uncollected payloads.
THEOREM CapHolds == Spec => []PayloadsCapped
BY InvHolds, PTL

\* No worker is carried by two drives at once, and every claim has a drive that
\* will release it.
THEOREM ClaimsAreExclusive == Spec => []OneClaimEach
<1>1. Init => OneClaimEach
  BY DEF Init, OneClaimEach, Claimed, IdleDrive
<1>2. TypeOK /\ OneClaimEach /\ [Next]_vars => OneClaimEach'
  <2> SUFFICES ASSUME TypeOK, OneClaimEach, [Next]_vars PROVE OneClaimEach'
    OBVIOUS
  <2>1. mail \in Drives /\ dry \in Drives
    BY DEF TypeOK
  <2>2. CASE UNCHANGED <<mail, dry, delivering>>
    BY <2>2, SMTT(60) DEF OneClaimEach, Claimed, IdsOf
  <2>3. ASSUME NEW i \in Ids, WorkerSteps(i) \/ VerbSteps(i) \/ WaitAgents(i)
        PROVE  UNCHANGED <<mail, dry, delivering>>
    BY <2>3 DEF WorkerSteps, VerbSteps, WaitAgents, Admit, Launch, TurnReplies, RunStops,
                TurnFails, TurnIsCut, Evict, CloseProceeds, Spawn, ResumeAgent,
                InterruptAgent, CloseAgent, SendInput, Notify
  <2>a. CASE MailReads
    BY <2>a, <2>1 DEF MailReads, OneClaimEach, Claimed, IdsOf, Drives
  <2>b. CASE MailClaims
    <3>1. Claimed(mail) = {} /\ dry' = dry
      BY <2>b DEF MailClaims, Claimed
    <3>2. CASE mail' = IdleDrive /\ delivering' = delivering
      BY <3>1, <3>2 DEF OneClaimEach, Claimed, IdsOf, IdleDrive
    <3>3. CASE /\ mail' = [pc |-> "digest", snap |-> Fresh(mail)]
               /\ delivering' = delivering \cup IdsOf(mail')
      <4>1. Claimed(mail') = IdsOf(mail') /\ IdsOf(mail') \cap delivering = {}
        BY <3>3 DEF Claimed, IdsOf, Fresh
      <4>2. QED
        BY <3>1, <3>3, <4>1 DEF OneClaimEach, Claimed, IdsOf
    <3>4. QED
      BY <2>b, <3>2, <3>3, Zenon DEF MailClaims
  <2>c. CASE MailSends
    BY <2>c, <2>1 DEF MailSends, OneClaimEach, Claimed, IdsOf, Drives, IdleDrive
  <2>d. CASE MailAccepted
    BY <2>d, <2>1 DEF MailAccepted, Collect, OneClaimEach, Claimed, IdsOf, Drives, IdleDrive
  <2>e. CASE MailFails
    BY <2>e, <2>1 DEF MailFails, OneClaimEach, Claimed, IdsOf, Drives, IdleDrive
  <2>f. CASE DryReads
    BY <2>f, <2>1 DEF DryReads, OneClaimEach, Claimed, IdsOf, Drives
  <2>g. CASE DryClaims
    BY <2>g, <2>1 DEF DryClaims, OneClaimEach, Claimed, IdsOf, Drives, Fresh
  <2>h. CASE DrySends
    BY <2>h, <2>1 DEF DrySends, DryGivesUp, OneClaimEach, Claimed, IdsOf, Drives, IdleDrive
  <2>i. CASE DryAccepted
    BY <2>i, <2>1 DEF DryAccepted, Collect, OneClaimEach, Claimed, IdsOf, Drives, IdleDrive
  <2>j. CASE DryFails
    BY <2>j, <2>1 DEF DryFails, DryGivesUp, OneClaimEach, Claimed, IdsOf, Drives, IdleDrive
  <2>k. CASE OperatorSends \/ OperatorTurnEnds \/ OperatorInterrupts \/ ReleaseRun
    BY <2>k, <2>2 DEF OperatorSends, OperatorTurnEnds, OperatorInterrupts, ReleaseRun
  <2>9. QED
    BY <2>2, <2>3, <2>a, <2>b, <2>c, <2>d, <2>e, <2>f, <2>g, <2>h, <2>i, <2>j, <2>k
    DEF Next, ParentSteps, vars
<1>3. QED
  BY <1>1, <1>2, TypeCorrect, PTL DEF Spec
=============================================================================
