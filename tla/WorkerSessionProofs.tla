------------------------- MODULE WorkerSessionProofs -------------------------
(***************************************************************************)
(* TLAPS proofs about WorkerSession, for any number of inputs and whether  *)
(* or not the admission window can be full.                                *)
(*                                                                         *)
(* First what each transition of the store does to a lane, then what       *)
(* storing the lane does to the worker, then one step per action.          *)
(***************************************************************************)
EXTENDS WorkerSession, TLAPS

-----------------------------------------------------------------------------
(* Lanes inside a transition: hooks called, steers sent, a cause pending. *)

Hooks == {"abort", "close", "dequeue", "interrupt"}

Lanes ==
    [st : States, retained : BOOLEAN, report : BOOLEAN, error : BOOLEAN,
     stop : Stops, failure : FailureRecords \cup {NoRecord}, inFlight : BOOLEAN,
     followups : BOOLEAN, ask : BOOLEAN, trace : Handoffs,
     caught : Handoffs \cup {"unset"}, cause : Causes,
     turnHooks : BOOLEAN, closeHook : BOOLEAN,
     cancelHook : {"none", "abort", "dequeue"},
     stash : Seq(1..MaxInputs), calls : SUBSET Hooks, launch : Seq(1..MaxInputs)]

\* RecordMatchesLane of a lane.
Recorded(s) ==
    /\ s.st \in {"failed", "cancelled", "interrupted"} => s.failure # NoRecord
    /\ s.st \in RunEligible => s.failure = NoRecord

\* What most store functions leave alone.
Same(s, t) ==
    /\ t.st = s.st /\ t.retained = s.retained /\ t.stop = s.stop
    /\ t.followups = s.followups /\ t.turnHooks = s.turnHooks
    /\ t.closeHook = s.closeHook /\ t.cancelHook = s.cancelHook
    /\ t.calls = s.calls /\ t.launch = s.launch

\* A record stands, and a retryable one is stamped with a retryable cause and the
\* lane's followups.
Stamps(s, t) ==
    /\ t.cause \in {s.cause, "unset"}
    /\ t.failure.class = "retryable" =>
          t.failure = s.failure
          \/ /\ s.cause = "retryable" /\ t.failure.followup = s.followups
             /\ s.st \in {"failed", "interrupted"}
    /\ s.failure # NoRecord /\ s.st \notin RunEligible => t.failure = s.failure

\* A lane whose record, if it has none, the next reconciliation can stamp.
Stampable(s) ==
    s.st = "interrupted" /\ s.failure = NoRecord
        => s.stop \in ForcedStops \/ s.cause # "unset"

LEMMA ClassOK ==
  ASSUME NEW s \in Lanes
  PROVE  /\ FailureClass(s) \in Classes \cup {"none"}
         /\ FailureClass(s) = "retryable"
                => s.cause = "retryable" /\ s.st \in {"failed", "interrupted"}
         /\ s.st \in {"failed", "cancelled"} => FailureClass(s) # "none"
         /\ s.st = "interrupted" /\ (s.stop \in ForcedStops \/ s.cause # "unset")
                => FailureClass(s) # "none"
<1>1. s.st \in States /\ s.stop \in Stops /\ s.cause \in Causes
  BY DEF Lanes
<1>2. QED
  BY <1>1 DEF FailureClass, Classes, Causes, ForcedStops, States, Stops

LEMMA ReconcileOK ==
  ASSUME NEW s \in Lanes
  PROVE  /\ Reconcile(s) \in Lanes
         /\ Same(s, Reconcile(s)) /\ Reconcile(s).stash = s.stash
         /\ Stamps(s, Reconcile(s))
         /\ Stampable(s) => Recorded(Reconcile(s))
<1>1. /\ FailureClass(s) = "none" \/ FailureClass(s) \in Classes
      /\ CurrentHandoff(s) \in Handoffs
  BY ClassOK DEF CurrentHandoff, Lanes, Handoffs
<1> DEFINE record == IF FailureClass(s) = "none" THEN NoRecord
                     ELSE [class |-> FailureClass(s), followup |-> s.followups,
                           handoff |-> IF s.caught = "unset"
                                       THEN CurrentHandoff(s) ELSE s.caught]
           live == [s EXCEPT !.failure = NoRecord]
           stamped == [s EXCEPT !.failure = record, !.caught = "unset", !.cause = "unset"]
<1>2. /\ record \in FailureRecords \cup {NoRecord}
      /\ record.class = "retryable" => /\ s.cause = "retryable" /\ record.followup = s.followups
                                       /\ s.st \in {"failed", "interrupted"}
      /\ record = NoRecord <=> FailureClass(s) = "none"
  <2>1. "none" \notin Classes
    BY DEF Classes, ForcedStops
  <2>2. CASE FailureClass(s) = "none"
    BY <2>2 DEF NoRecord
  <2>3. CASE FailureClass(s) # "none"
    BY <1>1, <2>1, <2>3, ClassOK DEF FailureRecords, Lanes, NoRecord
  <2>4. QED
    BY <2>2, <2>3
<1>3. Reconcile(s) = IF s.st \in RunEligible THEN live
                     ELSE IF s.failure # NoRecord THEN s ELSE stamped
  BY DEF Reconcile
<1> HIDE DEF record
<1>4. CASE s.st \in RunEligible
  <2>1. live \in Lanes /\ Same(s, live) /\ live.stash = s.stash /\ live.failure = NoRecord
        /\ live.cause = s.cause
    BY DEF Lanes, Same
  <2>2. Stamps(s, live) /\ Recorded(live)
    BY <1>4, <2>1 DEF Stamps, Recorded, Same, NoRecord, RunEligible
  <2>3. QED
    BY <1>3, <1>4, <2>1, <2>2
<1>5. CASE s.st \notin RunEligible /\ s.failure # NoRecord
  BY <1>3, <1>5 DEF Same, Stamps, Recorded
<1>6. CASE s.st \notin RunEligible /\ s.failure = NoRecord
  <2>1. stamped \in Lanes
    BY <1>2 DEF Lanes, Causes
  <2>2. Same(s, stamped) /\ stamped.stash = s.stash /\ stamped.failure = record
        /\ stamped.cause = "unset"
    BY DEF Lanes, Same
  <2>3. Stamps(s, stamped)
    BY <1>2, <1>6, <2>2 DEF Stamps
  <2>4. Stampable(s) => Recorded(stamped)
    BY <1>2, <1>6, <2>2, ClassOK DEF Stampable, Recorded, Same, RunEligible
  <2>5. QED
    BY <1>3, <1>6, <2>1, <2>2, <2>3, <2>4
<1>7. QED
  BY <1>4, <1>5, <1>6

LEMMA UpdateOK ==
  ASSUME NEW s \in Lanes, NEW t \in Lanes, s.st # "absent"
  PROVE  /\ Update(s, t) \in Lanes
         /\ Same(t, Update(s, t)) /\ Update(s, t).stash = t.stash
         /\ Stamps(t, Update(s, t))
         /\ Stampable(t) => Recorded(Update(s, t))
<1> DEFINE r == Reconcile(t)
           e == [r EXCEPT !.inFlight = FALSE]
<1>1. /\ r \in Lanes /\ Same(t, r) /\ r.stash = t.stash /\ Stamps(t, r)
      /\ Stampable(t) => Recorded(r)
  BY ReconcileOK
<1>2. Update(s, t) \in {r, e}
  BY DEF Update, EnforceSettled
<1> HIDE DEF r
<1>3. /\ e \in Lanes /\ Same(r, e) /\ e.stash = r.stash /\ e.failure = r.failure
      /\ e.cause = r.cause
  BY <1>1, ZenonT(60) DEF Lanes, Same
<1> HIDE DEF e
<1>4. Same(t, e)
  BY <1>1, <1>3 DEF Same
<1>5. Stamps(t, e)
  BY <1>1, <1>3 DEF Stamps
<1>6. Stampable(t) => Recorded(e)
  BY <1>1, <1>3 DEF Recorded, Same
<1>7. QED
  BY <1>1, <1>2, <1>3, <1>4, <1>5, <1>6

\* Asks, reports and the in-flight marker are no part of what is proved here.
Quiet(s, t) == Same(s, t) /\ t.stash = s.stash /\ t.failure = s.failure /\ t.cause = s.cause

\* The steers of a lane, launched and queued, and their order.
Steers(s) == {s.stash[k] : k \in DOMAIN s.stash} \cup {s.launch[k] : k \in DOMAIN s.launch}

Sorted(s) ==
    /\ \A j, k \in DOMAIN s.stash : j < k => s.stash[j] < s.stash[k]
    /\ \A j, k \in DOMAIN s.launch : j < k => s.launch[j] < s.launch[k]
    /\ \A j \in DOMAIN s.launch, k \in DOMAIN s.stash : s.launch[j] < s.stash[k]

SteersKept(s, t) == Steers(t) \subseteq Steers(s) /\ (Sorted(s) => Sorted(t))

LEMMA SettleAsksOK ==
  ASSUME NEW s \in Lanes
  PROVE  /\ SettleAsks(s) \in Lanes /\ Quiet(s, SettleAsks(s))
         /\ [s EXCEPT !.ask = FALSE] \in Lanes /\ Quiet(s, [s EXCEPT !.ask = FALSE])
         /\ \A b \in BOOLEAN : /\ [s EXCEPT !.inFlight = b] \in Lanes
                               /\ Quiet(s, [s EXCEPT !.inFlight = b])
<1>1. CurrentHandoff(s) \in Handoffs
  BY DEF CurrentHandoff, Lanes, Handoffs
<1>2. QED
  BY <1>1 DEF SettleAsks, Lanes, Quiet, Same

LEMMA DropStashOK ==
  ASSUME NEW s \in Lanes
  PROVE  /\ DropStash(s) \in Lanes /\ Same(s, DropStash(s)) /\ DropStash(s).stash = <<>>
         /\ Stamps(s, DropStash(s)) /\ SteersKept(s, DropStash(s))
         /\ Recorded(s) => Recorded(DropStash(s))
<1>1. CASE s.stash = <<>>
  BY <1>1 DEF DropStash, Same, Stamps, SteersKept
<1>2. CASE s.stash # <<>>
  <2> DEFINE t == [s EXCEPT !.stash = <<>>]
  <2>1. DropStash(s) = Update(t, t)
    BY <1>2 DEF DropStash
  <2>2. t \in Lanes /\ Same(s, t) /\ t.stash = <<>> /\ t.failure = s.failure /\ t.cause = s.cause
    <3>1. <<>> \in Seq(1..MaxInputs)
      OBVIOUS
    <3>2. QED
      BY <3>1 DEF Lanes, Same
  <2> HIDE DEF t
  <2>3. /\ Update(t, t) \in Lanes /\ Same(t, Update(t, t)) /\ Update(t, t).stash = <<>>
        /\ Stamps(t, Update(t, t)) /\ (Recorded(t) => Recorded(Update(t, t)))
    <3>1. CASE t.st = "absent"
      BY <2>2, <3>1 DEF Update, Same, Stamps
    <3>2. CASE t.st # "absent"
      BY <2>2, <3>2, UpdateOK DEF Recorded, Stampable
    <3>3. QED
      BY <3>1, <3>2
  <2>4. SteersKept(s, Update(t, t))
    BY <2>2, <2>3 DEF SteersKept, Steers, Sorted, Same
  <2>5. QED
    BY <2>1, <2>2, <2>3, <2>4 DEF Same, Stamps, Recorded
<1>3. QED
  BY <1>1, <1>2

-----------------------------------------------------------------------------
(* What a transition that takes no worker up again does to its lane. *)

Fixed(s, t) ==
    /\ t.st = s.st /\ t.retained = s.retained /\ t.stop = s.stop
    /\ t.turnHooks = s.turnHooks /\ t.closeHook = s.closeHook
    /\ t.cancelHook = s.cancelHook /\ t.calls = s.calls

\* A lane no run may be attached to stays so and sends nothing, a hook or the
\* retention is not taken back, and a launch notes the follow-up turn.  Forgetting
\* the session is such a change too.
Changes(s, t) ==
    /\ s.st = "absent" => t.st = "absent"
    /\ s.st \notin RunEligible => t.st \notin RunEligible /\ t.launch = s.launch
    /\ t.retained => s.retained
    /\ s.followups => t.followups \/ t.st = "absent"
    /\ t.launch = s.launch \/ ((t.followups \/ t.st = "absent") /\ s.turnHooks)
    /\ s.calls \subseteq t.calls
    /\ t.turnHooks => s.turnHooks
    /\ SteersKept(s, t)

Over == {"failed", "cancelled", "shutdown"}
Paused == {"completed", "interrupted"}

\* A paused worker only ends, and one that is over only closes.
Ends(s, t) ==
    /\ s.st = "absent" <=> t.st = "absent"
    /\ s.st \in Paused => t.st \in {s.st} \cup Over
    /\ s.st \in Over => t.st \in {s.st, "shutdown"}

Moves(s, t) == Changes(s, t) /\ Ends(s, t)

LEMMA ChangesCompose ==
  ASSUME NEW s, NEW t, NEW u, Changes(s, t), Changes(t, u)
  PROVE  Changes(s, u)
BY DEF Changes, SteersKept

LEMMA MovesCompose ==
  ASSUME NEW s, NEW t, NEW u, Moves(s, t), Moves(t, u)
  PROVE  Moves(s, u)
<1>1. Ends(s, u)
  BY DEF Moves, Ends, Paused, Over
<1>2. QED
  BY <1>1, ChangesCompose DEF Moves

LEMMA SameMoves ==
  ASSUME NEW s, NEW t, Same(s, t), SteersKept(s, t)
  PROVE  Moves(s, t) /\ Fixed(s, t)
BY DEF Moves, Changes, Ends, Paused, Over, Same, Fixed

LEMMA QuietMoves ==
  ASSUME NEW s, NEW t, Quiet(s, t)
  PROVE  /\ Moves(s, t) /\ Fixed(s, t) /\ Stamps(s, t) /\ Same(s, t)
         /\ Recorded(s) <=> Recorded(t)
<1>1. SteersKept(s, t)
  BY DEF Quiet, Same, SteersKept, Steers, Sorted
<1>2. QED
  BY <1>1, SameMoves DEF Quiet, Same, Stamps, Recorded

\* The head of the queue of steers goes out after what went out before it.
LEMMA LaunchSteers ==
  ASSUME NEW s \in Lanes, NEW t, s.stash # <<>>,
         t.stash = Tail(s.stash), t.launch = Append(s.launch, Head(s.stash))
  PROVE  SteersKept(s, t)
<1> DEFINE q == s.stash
           l == s.launch
           n == Len(l)
<1>1. q \in Seq(1..MaxInputs) /\ l \in Seq(1..MaxInputs) /\ Len(q) \in Nat \ {0} /\ n \in Nat
  BY DEF Lanes
<1>2. /\ Len(Tail(q)) = Len(q) - 1 /\ DOMAIN Tail(q) = 1..(Len(q) - 1)
      /\ \A k \in 1..(Len(q) - 1) : Tail(q)[k] = q[k + 1]
      /\ Head(q) = q[1] /\ DOMAIN q = 1..Len(q)
  BY <1>1
<1>3. /\ DOMAIN l = 1..n /\ DOMAIN Append(l, Head(q)) = 1..(n + 1)
      /\ \A k \in 1..n : Append(l, Head(q))[k] = l[k]
      /\ Append(l, Head(q))[n + 1] = q[1]
  BY <1>1, <1>2
<1>4. t.stash = Tail(q) /\ t.launch = Append(l, Head(q))
  OBVIOUS
<1> HIDE DEF q, l, n
<1>5. /\ DOMAIN t.stash = 1..(Len(q) - 1) /\ \A k \in 1..(Len(q) - 1) : t.stash[k] = q[k + 1]
      /\ DOMAIN t.launch = 1..(n + 1) /\ t.launch[n + 1] = q[1]
      /\ \A k \in 1..n : t.launch[k] = l[k]
  BY <1>2, <1>3, <1>4
<1>6. Steers(t) \subseteq Steers(s)
  <2>1. ASSUME NEW k \in DOMAIN t.stash
        PROVE  t.stash[k] \in {q[j] : j \in DOMAIN q}
    <3>1. k + 1 \in DOMAIN q /\ t.stash[k] = q[k + 1]
      BY <1>1, <1>2, <1>5
    <3>2. QED
      BY <3>1
  <2>2. ASSUME NEW k \in DOMAIN t.launch
        PROVE  t.launch[k] \in {q[j] : j \in DOMAIN q} \cup {l[j] : j \in DOMAIN l}
    <3>1. (k \in DOMAIN l /\ t.launch[k] = l[k]) \/ (1 \in DOMAIN q /\ t.launch[k] = q[1])
      BY <1>1, <1>2, <1>3, <1>5
    <3>2. QED
      BY <3>1
  <2>3. QED
    BY <2>1, <2>2 DEF Steers, q, l
<1>7. ASSUME Sorted(s)
      PROVE  Sorted(t)
  <2>1. /\ \A j, k \in 1..Len(q) : j < k => q[j] < q[k]
        /\ \A j, k \in 1..n : j < k => l[j] < l[k]
        /\ \A j \in 1..n, k \in 1..Len(q) : l[j] < q[k]
    BY <1>2, <1>3, <1>7 DEF Sorted, q, l
  <2>2. ASSUME NEW j \in DOMAIN t.stash, NEW k \in DOMAIN t.stash, j < k
        PROVE  t.stash[j] < t.stash[k]
    <3>1. j \in 1..(Len(q) - 1) /\ k \in 1..(Len(q) - 1)
      BY <1>5
    <3>2. j + 1 \in 1..Len(q) /\ k + 1 \in 1..Len(q) /\ j + 1 < k + 1
      BY <1>1, <2>2, <3>1
    <3>3. t.stash[j] = q[j + 1] /\ t.stash[k] = q[k + 1]
      BY <1>5, <3>1
    <3>4. QED
      BY <2>1, <3>2, <3>3
  <2>3. ASSUME NEW j \in DOMAIN t.launch, NEW k \in DOMAIN t.launch, j < k
        PROVE  t.launch[j] < t.launch[k]
    <3>1. j \in 1..n /\ 1 \in 1..Len(q) /\ (k \in 1..n \/ k = n + 1)
      BY <1>1, <1>5, <2>3
    <3>2. QED
      BY <1>5, <2>1, <2>3, <3>1
  <2>4. ASSUME NEW j \in DOMAIN t.launch, NEW k \in DOMAIN t.stash
        PROVE  t.launch[j] < t.stash[k]
    <3>1. /\ j \in 1..n \/ j = n + 1
          /\ 1 \in 1..Len(q) /\ k + 1 \in 1..Len(q) /\ 1 < k + 1 /\ t.stash[k] = q[k + 1]
      BY <1>1, <1>5, SMTT(60)
    <3>2. QED
      BY <1>5, <2>1, <3>1
  <2>5. QED
    BY <2>2, <2>3, <2>4 DEF Sorted
<1>8. QED
  BY <1>6, <1>7 DEF SteersKept

-----------------------------------------------------------------------------
(* The store's transitions, from a lane with no cause pending. *)

Stores(s, t) ==
    t \in Lanes /\ Moves(s, t) /\ Stamps(s, t) /\ (Recorded(s) => Recorded(t))

\* A worker whose agent lives can still be closed, resumed and read; a transition
\* that ends it calls the abort or the close handle.
OpenLane(s) ==
    /\ s.closeHook /\ s.retained
    /\ s.st \in {"pending_init", "running", "completed", "interrupted"}

Closes(s) == "abort" \in s.calls \/ "close" \in s.calls

StaysOpen(s, t) == OpenLane(s) \/ Closes(s) => OpenLane(t) \/ Closes(t)

LEMMA StoresCompose ==
  ASSUME NEW s, NEW t, NEW u, s.cause = "unset", Stores(s, t), Stores(t, u)
  PROVE  Stores(s, u) /\ t.cause = "unset" /\ u.cause = "unset"
<1>1. Moves(s, u)
  BY MovesCompose DEF Stores
<1>2. Stamps(s, u) /\ t.cause = "unset" /\ u.cause = "unset"
  BY DEF Stores, Stamps, Moves, Changes, Ends, Paused, Over
<1>3. QED
  BY <1>1, <1>2 DEF Stores

\* What a step may do to the outcome and the record of a worker that is not taken up
\* again: no way back from a pause or an end, and a record stands until it is
\* forgotten, but for a failed restore of an interrupted worker, which restamps it.
Abides(s, t) ==
    /\ s.st = "absent" => t.st = "absent"
    /\ s.st \in RunEligible => t.st # "absent"
    /\ s.st \in Paused => t.st \in {s.st, "absent"} \cup Over
    /\ s.st \in Over => t.st \in {s.st, "shutdown", "absent"}
    /\ s.failure # NoRecord /\ s.st \notin RunEligible /\ t.st # "absent" =>
          t.failure = s.failure \/ (s.st = "interrupted" /\ t.st = "failed")

LEMMA MovesAbide ==
  ASSUME NEW s, NEW t, Moves(s, t),
         s.failure # NoRecord /\ s.st \notin RunEligible =>
            t.failure = s.failure \/ (s.st = "interrupted" /\ t.st = "failed")
  PROVE  Abides(s, t)
BY DEF Abides, Moves, Ends, Paused, Over, RunEligible

LEMMA FixedOpen ==
  ASSUME NEW s, NEW t, Fixed(s, t)
  PROVE  StaysOpen(s, t)
BY DEF Fixed, StaysOpen, OpenLane, Closes

LEMMA QuietStores ==
  ASSUME NEW s, NEW t \in Lanes, Quiet(s, t)
  PROVE  Stores(s, t) /\ Fixed(s, t)
BY QuietMoves DEF Stores

LEMMA DropStashStores ==
  ASSUME NEW s \in Lanes
  PROVE  Stores(s, DropStash(s)) /\ Same(s, DropStash(s)) /\ Fixed(s, DropStash(s))
BY DropStashOK, SameMoves DEF Stores

LEMMA HeadTailOK ==
  ASSUME NEW S, NEW q \in Seq(S), q # <<>>
  PROVE  Head(q) \in S /\ Tail(q) \in Seq(S)
OBVIOUS

LEMMA ElementOK ==
  ASSUME NEW S, NEW q \in Seq(S), NEW k \in 1..Len(q)
  PROVE  q[k] \in S
OBVIOUS

LEMMA LaunchNextOK ==
  ASSUME NEW s \in Lanes
  PROVE  Stores(s, LaunchNext(s)) /\ Fixed(s, LaunchNext(s))
<1>1. ASSUME NEW t \in Lanes, Moves(s, t), Fixed(s, t), Stamps(s, t), Recorded(s) => Recorded(t),
             t.cause = "unset" \/ t.followups = s.followups
      PROVE  LET d == [DropStash(t) EXCEPT !.inFlight = FALSE]
             IN  Stores(s, d) /\ Fixed(s, d)
  <2> DEFINE d == DropStash(t)
             e == [d EXCEPT !.inFlight = FALSE]
  <2>1. d \in Lanes /\ Same(t, d) /\ Stores(t, d)
    BY DropStashOK, DropStashStores
  <2>2. e \in Lanes /\ Quiet(d, e)
    BY <2>1, SettleAsksOK
  <2> HIDE DEF d, e
  <2>3. Moves(d, e) /\ Stamps(d, e) /\ (Recorded(d) => Recorded(e)) /\ Same(d, e)
    BY <2>2, QuietMoves
  <2>4. Moves(s, e)
    BY <1>1, <2>1, <2>3, MovesCompose DEF Stores
  <2>5. Stamps(s, e)
    <3>1. e.cause = d.cause /\ e.failure = d.failure
      BY <2>2 DEF Quiet
    <3>2. Stamps(t, d)
      BY <2>1 DEF Stores
    <3>3. s.st \notin RunEligible => t.st \notin RunEligible
      BY <1>1 DEF Moves, Changes, Ends, Paused, Over
    <3>4. t.st = s.st
      BY <1>1 DEF Fixed
    <3>5. QED
      BY <1>1, <3>1, <3>2, <3>3, <3>4 DEF Stamps
  <2>6. Fixed(s, e)
    BY <1>1, <2>1, <2>3 DEF Fixed, Same
  <2>7. QED
    BY <1>1, <2>1, <2>2, <2>3, <2>4, <2>5, <2>6 DEF Stores, d, e
<1>2. Stores(s, s) /\ Moves(s, s) /\ Fixed(s, s) /\ Stamps(s, s)
  BY DEF Stores, Moves, Changes, Ends, Paused, Over, Fixed, Stamps, SteersKept
<1>3. CASE s.st \notin RunEligible
  BY <1>1, <1>2, <1>3 DEF LaunchNext
<1>4. CASE s.st \in RunEligible /\ s.stash = <<>>
  BY <1>2, <1>4 DEF LaunchNext
<1>5. CASE s.st \in RunEligible /\ s.stash # <<>>
  <2> DEFINE t == [ResetTrace(s) EXCEPT !.followups = TRUE]
             u == [t EXCEPT !.stash = Tail(@), !.launch = Append(@, Head(s.stash))]
  <2>1. /\ t \in Lanes /\ Fixed(s, t) /\ t.followups = TRUE /\ t.failure = s.failure
        /\ t.stash = s.stash /\ t.launch = s.launch /\ t.cause = "unset"
    BY DEF ResetTrace, Lanes, Fixed, Handoffs, Causes
  <2>2. /\ Tail(s.stash) \in Seq(1..MaxInputs)
        /\ Append(s.launch, Head(s.stash)) \in Seq(1..MaxInputs)
    <3>1. s.stash \in Seq(1..MaxInputs) /\ s.launch \in Seq(1..MaxInputs)
      BY DEF Lanes
    <3>2. Head(s.stash) \in 1..MaxInputs /\ Tail(s.stash) \in Seq(1..MaxInputs)
      BY <1>5, <3>1, HeadTailOK
    <3>3. QED
      BY <3>1, <3>2
  <2>3. /\ u \in Lanes /\ Fixed(s, u) /\ u.followups = TRUE /\ u.failure = s.failure
        /\ u.stash = Tail(s.stash) /\ u.launch = Append(s.launch, Head(s.stash))
        /\ u.cause = "unset"
    <3>1. u = [t EXCEPT !.stash = Tail(s.stash), !.launch = Append(s.launch, Head(s.stash))]
      BY <2>1
    <3> HIDE DEF t
    <3>2. QED
      BY <2>1, <2>2, <3>1 DEF Lanes, Fixed
  <2>4. LaunchNext(s) = IF ~s.turnHooks THEN [DropStash(t) EXCEPT !.inFlight = FALSE] ELSE u
    BY <1>5 DEF LaunchNext
  <2> HIDE DEF t, u
  <2>5. CASE ~s.turnHooks
    <3>1. SteersKept(s, t)
      BY <2>1 DEF SteersKept, Steers, Sorted
    <3>2. Moves(s, t) /\ Stamps(s, t) /\ (Recorded(s) => Recorded(t))
      BY <2>1, <3>1 DEF Moves, Changes, Ends, Paused, Over, Stamps, Recorded, Fixed
    <3>3. QED
      BY <1>1, <2>1, <2>4, <2>5, <3>2
  <2>6. CASE s.turnHooks
    <3>1. SteersKept(s, u)
      BY <1>5, <2>3, LaunchSteers
    <3>2. Moves(s, u) /\ Stamps(s, u) /\ (Recorded(s) => Recorded(u))
      BY <1>5, <2>3, <2>6, <3>1 DEF Moves, Changes, Ends, Paused, Over, Stamps, Recorded, Fixed
    <3>3. QED
      BY <2>3, <2>4, <2>6, <3>2 DEF Stores
  <2>7. QED
    BY <2>5, <2>6 DEF Lanes
<1>6. QED
  BY <1>3, <1>4, <1>5

LEMMA ReleaseHandlesOK ==
  ASSUME NEW s \in Lanes
  PROVE  /\ Stores(s, ReleaseHandles(s)) /\ StaysOpen(s, ReleaseHandles(s))
         /\ ReleaseHandles(s).st = s.st /\ ReleaseHandles(s).retained = s.retained
         /\ ~ReleaseHandles(s).turnHooks /\ ~ReleaseHandles(s).closeHook
         /\ ReleaseHandles(s).followups = s.followups /\ ReleaseHandles(s).launch = s.launch
         /\ ReleaseHandles(s).stop = s.stop /\ ReleaseHandles(s).stash = <<>>
         /\ ReleaseHandles(s).calls = IF s.closeHook THEN s.calls \cup {"close"} ELSE s.calls
<1> DEFINE t == [s EXCEPT !.ask = FALSE, !.closeHook = FALSE, !.turnHooks = FALSE,
                          !.cancelHook = "none",
                          !.calls = IF s.closeHook THEN @ \cup {"close"} ELSE @]
<1>1. ReleaseHandles(s) = DropStash(t)
  BY DEF ReleaseHandles
<1>2. /\ t \in Lanes /\ t.st = s.st /\ t.retained = s.retained /\ ~t.turnHooks /\ ~t.closeHook
      /\ t.followups = s.followups /\ t.launch = s.launch /\ t.stash = s.stash
      /\ t.stop = s.stop /\ t.failure = s.failure /\ t.cause = s.cause
      /\ t.calls = IF s.closeHook THEN s.calls \cup {"close"} ELSE s.calls
  BY ZenonT(60) DEF Lanes, Hooks
<1> HIDE DEF t
<1>3. /\ DropStash(t) \in Lanes /\ Same(t, DropStash(t)) /\ Stamps(t, DropStash(t))
      /\ (Recorded(t) => Recorded(DropStash(t))) /\ Moves(t, DropStash(t))
      /\ DropStash(t).stash = <<>>
  BY <1>2, DropStashOK, DropStashStores DEF Stores
<1>4. SteersKept(s, t)
  BY <1>2 DEF SteersKept, Steers, Sorted
<1>5. Moves(s, t)
  BY <1>2, <1>4 DEF Moves, Changes, Ends, Paused, Over
<1>6. Moves(s, DropStash(t))
  BY <1>3, <1>5, MovesCompose
<1>7. Stamps(s, DropStash(t)) /\ (Recorded(s) => Recorded(DropStash(t)))
  BY <1>2, <1>3 DEF Stamps, Recorded
<1>8. StaysOpen(s, DropStash(t))
  BY <1>2, <1>3 DEF StaysOpen, OpenLane, Closes, Same
<1>9. QED
  BY <1>1, <1>2, <1>3, <1>6, <1>7, <1>8 DEF Stores, Same

\* Storing a lane whose steers are those it had.
LEMMA UpdateStores ==
  ASSUME NEW s \in Lanes, NEW t \in Lanes, s.st # "absent", Moves(s, t), t.failure = s.failure,
         s.cause = "unset", t.cause = "unset",
         Recorded(s) => Stampable(t)
  PROVE  Stores(s, Update(s, t)) /\ Same(t, Update(s, t)) /\ Update(s, t).stash = t.stash
<1> DEFINE u == Update(s, t)
<1>1. /\ u \in Lanes /\ Same(t, u) /\ u.stash = t.stash /\ Stamps(t, u)
      /\ Stampable(t) => Recorded(u)
  BY UpdateOK
<1> HIDE DEF u
<1>2. SteersKept(t, u)
  BY <1>1 DEF SteersKept, Steers, Sorted, Same
<1>3. Moves(s, u)
  BY <1>1, <1>2, SameMoves, MovesCompose
<1>4. Stamps(s, u)
  BY <1>1 DEF Stamps, Moves, Changes, Ends, Paused, Over
<1>5. QED
  BY <1>1, <1>3, <1>4 DEF Stores, u

LEMMA CompleteOK ==
  ASSUME NEW s \in Lanes, s.cause = "unset", NEW keep \in BOOLEAN, NEW stop \in Stops
  PROVE  /\ Stores(s, Complete(s, keep, stop))
         /\ keep => StaysOpen(s, Complete(s, keep, stop))
<1> DEFINE a == SettleAsks(s)
           wins == a.st \in RunEligible
           c == [a EXCEPT !.st = "completed", !.retained = @ /\ keep, !.report = TRUE,
                          !.stop = IF stop = "none" THEN @ ELSE stop,
                          !.cancelHook = "none", !.closeHook = @ /\ keep]
           delivers == wins /\ c.stash # <<>> /\ c.retained /\ c.turnHooks
           r == [c EXCEPT !.st = "running", !.stop = "none", !.inFlight = TRUE]
           e == [c EXCEPT !.inFlight = FALSE]
           d == IF ~wins THEN a ELSE IF delivers THEN r ELSE e
           m == Update(a, d)
<1>1. /\ Complete(s, keep, stop) \in {LaunchNext(m), DropStash(m)}
  BY DEF Complete
<1>2. a \in Lanes /\ Stores(s, a) /\ Fixed(s, a) /\ a.cause = "unset"
  BY SettleAsksOK, QuietStores, StoresCompose DEF Quiet
<1> HIDE DEF a
<1>3. /\ c \in Lanes /\ c.st = "completed" /\ c.retained = (a.retained /\ keep)
      /\ c.closeHook = (a.closeHook /\ keep) /\ c.turnHooks = a.turnHooks
      /\ c.calls = a.calls /\ c.launch = a.launch /\ c.stash = a.stash
      /\ c.followups = a.followups /\ c.failure = a.failure /\ c.cause = a.cause
  <2> DEFINE retained == a.retained /\ keep
             closeHook == a.closeHook /\ keep
             stops == IF stop = "none" THEN a.stop ELSE stop
  <2>1. retained \in BOOLEAN /\ closeHook \in BOOLEAN /\ stops \in Stops /\ "completed" \in States
    BY <1>2 DEF Lanes, States
  <2>2. c = [a EXCEPT !.st = "completed", !.retained = retained, !.report = TRUE,
                      !.stop = stops, !.cancelHook = "none", !.closeHook = closeHook]
    OBVIOUS
  <2> HIDE DEF retained, closeHook, stops, c
  <2>3. c \in Lanes
    BY <1>2, <2>1, <2>2, ZenonT(60) DEF Lanes
  <2>4. /\ c.st = "completed" /\ c.retained = retained /\ c.closeHook = closeHook
        /\ c.turnHooks = a.turnHooks
        /\ c.calls = a.calls /\ c.launch = a.launch /\ c.stash = a.stash
        /\ c.followups = a.followups /\ c.failure = a.failure /\ c.cause = a.cause
    BY <1>2, <2>2 DEF Lanes
  <2>5. QED
    BY <2>3, <2>4 DEF retained, closeHook
<1> HIDE DEF c
<1>4. ASSUME NEW v \in {r, e}
      PROVE  /\ v \in Lanes /\ v.st \in {"running", "completed"} /\ v.retained = c.retained
             /\ v.closeHook = c.closeHook /\ v.turnHooks = c.turnHooks
             /\ v.calls = c.calls /\ v.launch = c.launch /\ v.stash = c.stash
             /\ v.followups = c.followups /\ v.failure = c.failure /\ v.cause = c.cause
  <2>1. c \in Lanes /\ "running" \in States /\ "none" \in Stops
    BY <1>3 DEF States, Stops
  <2>2. CASE v = r
    <3>1. r \in Lanes
      BY <2>1 DEF Lanes
    <3>2. QED
      BY <1>3, <2>1, <2>2, <3>1 DEF Lanes
  <2>3. CASE v = e
    <3>1. e \in Lanes
      BY <2>1 DEF Lanes
    <3>2. QED
      <4>1. /\ e.st = c.st /\ e.retained = c.retained
            /\ e.closeHook = c.closeHook /\ e.turnHooks = c.turnHooks
            /\ e.calls = c.calls /\ e.launch = c.launch /\ e.stash = c.stash
            /\ e.followups = c.followups /\ e.failure = c.failure /\ e.cause = c.cause
        BY <2>1 DEF Lanes
      <4> HIDE DEF e
      <4>2. QED
        BY <1>3, <2>3, <3>1, <4>1
  <2>4. QED
    BY <2>2, <2>3
<1>5. d \in Lanes /\ Moves(a, d) /\ d.failure = a.failure /\ d.cause = a.cause
      /\ (Recorded(a) => Stampable(d)) /\ (keep => StaysOpen(a, d))
  <2>1. CASE ~wins
    <3>1. d = a
      BY <2>1
    <3>2. QED
      BY <1>2, <3>1 DEF Moves, Changes, Ends, Paused, Over, SteersKept, Recorded, Stampable, StaysOpen
  <2>2. CASE wins
    <3>1. d \in {r, e}
      BY <2>2
    <3> HIDE DEF d, r, e
    <3>2. SteersKept(a, d)
      BY <1>3, <1>4, <3>1 DEF SteersKept, Steers, Sorted
    <3>3. QED
      BY <1>2, <1>3, <1>4, <2>2, <3>1, <3>2 DEF Moves, Changes, Ends, Paused, Over, Stampable, StaysOpen, OpenLane, Closes,
         RunEligible
  <2>3. QED
    BY <2>1, <2>2
<1>6. Stores(a, m) /\ (keep => StaysOpen(a, m)) /\ m \in Lanes
  <2>1. CASE a.st = "absent"
    <3>1. m = a
      BY <2>1 DEF Update
    <3>2. QED
      BY <1>2, <3>1 DEF Stores, Moves, Changes, Ends, Paused, Over, SteersKept, StaysOpen, Stamps
  <2>2. CASE a.st # "absent"
    <3> HIDE DEF d
    <3>1. Stores(a, m) /\ Same(d, m)
      BY <1>2, <1>5, <2>2, UpdateStores
    <3>2. QED
      BY <1>5, <3>1 DEF Stores, Same, StaysOpen, OpenLane, Closes
  <2>3. QED
    BY <2>1, <2>2
<1> HIDE DEF m
<1>7. Stores(s, m) /\ m.cause = "unset" /\ (keep => StaysOpen(s, m))
  <2>1. s.cause = "unset" /\ Stores(s, a) /\ Stores(a, m)
    BY <1>2, <1>6
  <2>2. Stores(s, m) /\ m.cause = "unset"
    BY <2>1, StoresCompose
  <2>3. StaysOpen(s, a)
    BY <1>2, FixedOpen
  <2>4. QED
    BY <1>6, <2>2, <2>3 DEF StaysOpen
<1>8. ASSUME NEW z \in {LaunchNext(m), DropStash(m)}
      PROVE  Stores(s, z) /\ (keep => StaysOpen(s, z))
  <2>1. Stores(m, z) /\ Fixed(m, z)
    BY <1>6, LaunchNextOK, DropStashStores
  <2>2. QED
    BY <1>7, <2>1, StoresCompose, FixedOpen DEF StaysOpen
<1>9. QED
  BY <1>1, <1>8

LEMMA SettleRunOK ==
  ASSUME NEW s \in Lanes, s.cause = "unset"
  PROVE  Stores(s, SettleRun(s)) /\ Fixed(s, SettleRun(s))
<1> DEFINE a == [s EXCEPT !.ask = FALSE]
           d == DropStash(a)
           e == [d EXCEPT !.inFlight = FALSE]
<1>1. a \in Lanes /\ Stores(s, a) /\ Fixed(s, a)
  BY SettleAsksOK, QuietStores
<1> HIDE DEF a
<1>2. d \in Lanes /\ Stores(a, d) /\ Fixed(a, d)
  BY <1>1, DropStashStores DEF Stores
<1> HIDE DEF d
<1>3. Stores(d, e) /\ Fixed(d, e)
  BY <1>2, SettleAsksOK, QuietStores
<1>4. SettleRun(s) = e
  BY DEF SettleRun, e, d, a
<1> HIDE DEF e
<1>5. Stores(s, d) /\ d.cause = "unset"
  BY <1>1, <1>2, StoresCompose
<1>6. Stores(s, e)
  BY <1>3, <1>5, StoresCompose
<1>7. QED
  BY <1>1, <1>2, <1>3, <1>4, <1>6 DEF Fixed

LEMMA StampsCompose ==
  ASSUME NEW s, NEW t, NEW u, Stamps(s, t), Stamps(t, u), t.followups = s.followups, t.st = s.st
  PROVE  Stamps(s, u)
BY DEF Stamps

LEMMA FailOK ==
  ASSUME NEW s \in Lanes, s.cause = "unset", NEW cause \in Causes, Recorded(s)
  PROVE  LET t == Fail(s, cause)
         IN  /\ t \in Lanes /\ Moves(s, t) /\ Recorded(t) /\ StaysOpen(s, t)
             /\ t.cause = "unset" /\ t.launch = s.launch
             /\ t.failure.class = "retryable"
                   => t.failure = s.failure
                      \/ (s.st # "absent" /\ t.failure.followup = s.followups /\ ~t.retained)
             /\ s.failure # NoRecord /\ s.st \notin RunEligible => t.failure = s.failure
<1> DEFINE w == [s EXCEPT !.cause = cause]
           a == SettleAsks(w)
           f == [a EXCEPT !.st = "failed", !.retained = FALSE, !.error = TRUE,
                          !.inFlight = FALSE]
           b == DropStash(f)
           c == ReleaseHandles(b)
           m == IF a.st \in LiveStrip THEN Update(a, c) ELSE Update(a, a)
           e == [m EXCEPT !.cause = "unset"]
<1>1. Fail(s, cause) = e
  BY DEF Fail
<1>2. w \in Lanes /\ Same(s, w) /\ w.stash = s.stash /\ w.failure = s.failure /\ w.cause = cause
  BY DEF Lanes, Same
<1> HIDE DEF w
<1>3. a \in Lanes /\ Same(s, a) /\ a.stash = s.stash /\ a.failure = s.failure /\ a.cause = cause
  BY <1>2, SettleAsksOK DEF Quiet, Same
<1> HIDE DEF a
<1>4. Moves(s, a) /\ Recorded(a) /\ StaysOpen(s, a)
  <2>1. SteersKept(s, a)
    BY <1>3 DEF SteersKept, Steers, Sorted, Same
  <2>2. QED
    BY <1>3, <2>1, SameMoves, FixedOpen DEF Recorded, Same
<1>5. /\ m \in Lanes /\ Moves(a, m) /\ Recorded(m) /\ StaysOpen(a, m)
      /\ m.launch = a.launch
      /\ m.failure.class = "retryable"
             => m.failure = a.failure
                \/ (a.st # "absent" /\ m.failure.followup = a.followups /\ ~m.retained)
      /\ a.failure # NoRecord /\ a.st \notin RunEligible => m.failure = a.failure
  <2>1. CASE a.st \in LiveStrip
    <3>1. /\ f \in Lanes /\ f.st = "failed" /\ ~f.retained /\ f.failure = a.failure
          /\ f.followups = a.followups /\ f.launch = a.launch /\ f.calls = a.calls
          /\ f.turnHooks = a.turnHooks /\ f.closeHook = a.closeHook /\ f.stash = a.stash
          /\ f.cause = a.cause
      <4>1. f \in Lanes
        BY <1>3, ZenonT(60) DEF Lanes, States
      <4>2. QED
        BY <1>3, <4>1 DEF Lanes
    <3> HIDE DEF f
    <3>2. SteersKept(a, f)
      BY <3>1 DEF SteersKept, Steers, Sorted
    <3>3. Moves(a, f)
      BY <2>1, <3>1, <3>2 DEF Moves, Changes, Ends, Paused, Over, RunEligible, LiveStrip
    <3>4. b \in Lanes /\ Moves(f, b) /\ Same(f, b) /\ Stamps(f, b)
      BY <3>1, DropStashStores DEF Stores
    <3> HIDE DEF b
    <3>5. /\ c \in Lanes /\ Moves(b, c) /\ Stamps(b, c) /\ StaysOpen(b, c) /\ ~c.closeHook
          /\ c.st = b.st /\ c.retained = b.retained /\ c.followups = b.followups
          /\ c.launch = b.launch /\ c.calls = IF b.closeHook THEN b.calls \cup {"close"} ELSE b.calls
      BY <3>4, ReleaseHandlesOK DEF Stores
    <3> HIDE DEF c
    <3>6. /\ m \in Lanes /\ Same(c, m) /\ m.stash = c.stash /\ Stamps(c, m)
          /\ Stampable(c) => Recorded(m)
      <4>1. a.st # "absent"
        BY <2>1 DEF LiveStrip, RunEligible
      <4>2. m = Update(a, c)
        BY <2>1
      <4>3. QED
        BY <1>3, <3>5, <4>1, <4>2, UpdateOK
    <3> HIDE DEF m
    <3>7. Recorded(m)
      BY <3>1, <3>4, <3>5, <3>6 DEF Stampable, Same
    <3>8. Moves(a, m)
      <4>1. SteersKept(c, m)
        BY <3>6 DEF SteersKept, Steers, Sorted, Same
      <4>2. Moves(c, m)
        BY <3>6, <4>1, SameMoves
      <4>3. Moves(a, b)
        BY <3>3, <3>4, MovesCompose
      <4>4. Moves(a, c)
        BY <3>5, <4>3, MovesCompose
      <4>5. QED
        BY <4>2, <4>4, MovesCompose
    <3>9. Stamps(f, m)
      <4>1. Stamps(f, c)
        BY <3>4, <3>5, StampsCompose DEF Same
      <4>2. QED
        BY <3>4, <3>5, <3>6, <4>1, StampsCompose DEF Same
    <3>10. StaysOpen(a, m)
      BY <3>1, <3>4, <3>5, <3>6 DEF StaysOpen, OpenLane, Closes, Same
    <3>11. m.launch = a.launch /\ ~m.retained
      BY <3>1, <3>4, <3>5, <3>6 DEF Same
    <3>12. QED
      BY <2>1, <3>1, <3>6, <3>7, <3>8, <3>9, <3>10, <3>11 DEF Stamps, RunEligible, LiveStrip
  <2>2. CASE a.st \notin LiveStrip /\ a.st # "absent"
    <3>1. Stampable(a) /\ m = Update(a, a) /\ SteersKept(a, a)
      BY <2>2 DEF Stampable, LiveStrip, SteersKept
    <3>2. /\ m \in Lanes /\ Same(a, m) /\ m.stash = a.stash /\ Stamps(a, m) /\ Recorded(m)
      BY <1>3, <2>2, <3>1, UpdateOK
    <3> HIDE DEF m
    <3>3. SteersKept(a, m)
      BY <3>2 DEF SteersKept, Steers, Sorted, Same
    <3>4. Moves(a, m) /\ StaysOpen(a, m)
      BY <3>2, <3>3, SameMoves, FixedOpen
    <3>5. m.failure.class = "retryable" => m.failure = a.failure
      <4>1. a.st \in {"failed", "interrupted"} => a.failure # NoRecord
        BY <1>4 DEF Recorded
      <4>2. QED
        BY <3>2, <4>1 DEF Stamps, RunEligible
    <3>6. QED
      BY <3>2, <3>4, <3>5 DEF Same, Stamps
  <2>3. CASE a.st = "absent"
    <3>1. m = a
      BY <2>3 DEF Update, LiveStrip, RunEligible
    <3>2. QED
      BY <1>3, <1>4, <3>1 DEF Moves, Changes, Ends, Paused, Over, StaysOpen, SteersKept
  <2>4. QED
    BY <2>1, <2>2, <2>3
<1> HIDE DEF m
<1>6. /\ e \in Lanes /\ Same(m, e) /\ e.stash = m.stash /\ e.failure = m.failure
      /\ e.cause = "unset"
  BY <1>5 DEF Lanes, Same, Causes
<1> HIDE DEF e
<1>7. Moves(m, e) /\ StaysOpen(m, e) /\ Recorded(e)
  <2>1. SteersKept(m, e)
    BY <1>6 DEF SteersKept, Steers, Sorted, Same
  <2>2. QED
    BY <1>5, <1>6, <2>1, SameMoves, FixedOpen DEF Recorded, Same
<1>8. Moves(s, e)
  BY <1>4, <1>5, <1>7, MovesCompose
<1>9. StaysOpen(s, e)
  BY <1>4, <1>5, <1>7 DEF StaysOpen
<1>10. QED
  BY <1>1, <1>3, <1>5, <1>6, <1>7, <1>8, <1>9 DEF Same

\* UpdateStores for a lane that differs in what Moves and StaysOpen do not read.
LEMMA RewriteOK ==
  ASSUME NEW s \in Lanes, s.cause = "unset", NEW t \in Lanes, s.st # "absent",
         t.st # "absent", s.st \in RunEligible \/ t.st = s.st, t.retained = s.retained,
         t.followups = s.followups, t.turnHooks = s.turnHooks,
         t.closeHook = s.closeHook, s.calls \subseteq t.calls, t.launch = s.launch,
         t.stash = s.stash, t.failure = s.failure, t.cause = s.cause,
         Recorded(s) => Stampable(t)
  PROVE  /\ Stores(s, Update(s, t)) /\ Same(t, Update(s, t))
         /\ t.st \in {s.st, "running", "completed", "interrupted"} => StaysOpen(s, Update(s, t))
<1>1. SteersKept(s, t)
  BY DEF SteersKept, Steers, Sorted
<1>2. Moves(s, t)
  BY <1>1 DEF Moves, Changes, Ends, Paused, Over, RunEligible
<1>3. Stores(s, Update(s, t)) /\ Same(t, Update(s, t))
  BY <1>2, UpdateStores
<1>4. QED
  BY <1>3 DEF Same, StaysOpen, OpenLane, Closes

LEMMA AttachReportOK ==
  ASSUME NEW s \in Lanes, s.cause = "unset", NEW stop \in Stops,
         stop \in ForcedStops \/ s.st \notin RunEligible
  PROVE  Stores(s, AttachReport(s, stop)) /\ StaysOpen(s, AttachReport(s, stop))
<1> DEFINE hands == s.st \in RunEligible /\ s.stash # <<>>
           stops == IF stop = "none" THEN s.stop ELSE stop
           r == [s EXCEPT !.report = TRUE, !.stop = stops]
           q == [r EXCEPT !.st = "running", !.stop = "none"]
           i == [r EXCEPT !.st = "interrupted"]
           t == IF s.st \in {"completed", "failed"} THEN s
                ELSE IF hands THEN q
                ELSE IF s.st \in RunEligible THEN i
                ELSE IF s.report THEN s ELSE r
           u == [t EXCEPT !.inFlight = hands /\ @]
           m == Update(s, u)
<1>1. AttachReport(s, stop) \in {LaunchNext(m), DropStash(m)}
  BY DEF AttachReport
<1>2. stops \in Stops /\ r \in Lanes
  <2>1. stops \in Stops
    BY DEF Lanes
  <2> HIDE DEF stops
  <2>2. QED
    BY <2>1 DEF Lanes
<1>3. ASSUME NEW v \in {s, q, i, r}
      PROVE  /\ v \in Lanes /\ v.retained = s.retained /\ v.closeHook = s.closeHook
             /\ v.turnHooks = s.turnHooks /\ v.calls = s.calls /\ v.launch = s.launch
             /\ v.stash = s.stash /\ v.followups = s.followups /\ v.failure = s.failure
             /\ v.cause = s.cause
  <2>1. /\ r.retained = s.retained /\ r.closeHook = s.closeHook
        /\ r.turnHooks = s.turnHooks /\ r.calls = s.calls /\ r.launch = s.launch
        /\ r.stash = s.stash /\ r.followups = s.followups /\ r.failure = s.failure
        /\ r.cause = s.cause
    BY DEF Lanes
  <2> HIDE DEF r
  <2>2. {"running", "interrupted"} \subseteq States /\ "none" \in Stops
    BY DEF States, Stops
  <2>3. CASE v = q
    <3>1. q \in Lanes
      BY <1>2, <2>2 DEF Lanes
    <3>2. QED
      BY <1>2, <2>1, <2>3, <3>1 DEF Lanes
  <2>4. CASE v = i
    <3>1. i \in Lanes
      BY <1>2, <2>2 DEF Lanes
    <3>2. /\ i.retained = r.retained /\ i.closeHook = r.closeHook
          /\ i.turnHooks = r.turnHooks /\ i.calls = r.calls /\ i.launch = r.launch
          /\ i.stash = r.stash /\ i.followups = r.followups /\ i.failure = r.failure
          /\ i.cause = r.cause
      BY <1>2 DEF Lanes
    <3> HIDE DEF i
    <3>3. QED
      BY <2>1, <2>4, <3>1, <3>2
  <2>5. QED
    BY <1>2, <2>1, <2>3, <2>4
<1>4. /\ t \in {s, q, i, r}
      /\ t.st = s.st \/ (s.st \in RunEligible /\ t.st \in {"running", "interrupted"})
      /\ t.st = "interrupted" => s.st = "interrupted" \/ t.stop \in ForcedStops
  <2>1. /\ r.st = s.st /\ r.stop = stops
        /\ q.st = "running" /\ i.st = "interrupted" /\ i.stop = stops
    BY DEF Lanes
  <2>2. /\ stop \in ForcedStops => stops \in ForcedStops
        /\ hands => s.st \in RunEligible
    BY DEF ForcedStops
  <2> HIDE DEF r, q, i, stops, hands
  <2>3. QED
    BY <2>1, <2>2 DEF RunEligible
<1> HIDE DEF q, i, r
<1>5. /\ u \in Lanes /\ u.st = t.st /\ u.stop = t.stop /\ u.retained = s.retained
      /\ u.closeHook = s.closeHook
      /\ u.turnHooks = s.turnHooks /\ u.calls = s.calls /\ u.launch = s.launch
      /\ u.stash = s.stash /\ u.followups = s.followups /\ u.failure = s.failure
      /\ u.cause = s.cause
  <2>1. t \in Lanes /\ hands \in BOOLEAN
    BY <1>3, <1>4
  <2>2. /\ t.retained = s.retained /\ t.closeHook = s.closeHook
        /\ t.turnHooks = s.turnHooks /\ t.calls = s.calls /\ t.launch = s.launch
        /\ t.stash = s.stash /\ t.followups = s.followups /\ t.failure = s.failure
        /\ t.cause = s.cause
    BY <1>3, <1>4
  <2> DEFINE flag == hands /\ t.inFlight
  <2>3. flag \in BOOLEAN /\ u = [t EXCEPT !.inFlight = flag]
    OBVIOUS
  <2> HIDE DEF t, hands, flag, u
  <2>4. u \in Lanes
    BY <2>1, <2>3 DEF Lanes
  <2>5. QED
    BY <2>1, <2>2, <2>3, <2>4 DEF Lanes
<1> HIDE DEF t, u
<1>6. Stores(s, m) /\ StaysOpen(s, m)
  <2>1. CASE s.st = "absent"
    <3>1. m = s
      BY <2>1 DEF Update
    <3>2. QED
      BY <3>1 DEF Stores, Moves, Changes, Ends, Paused, Over, SteersKept, StaysOpen, Stamps
  <2>2. CASE s.st # "absent"
    <3>1. Recorded(s) => Stampable(u)
      BY <1>4, <1>5 DEF Recorded, Stampable
    <3>2. /\ u.st # "absent" /\ (s.st \in RunEligible \/ u.st = s.st)
          /\ u.st \in {s.st, "running", "completed", "interrupted"}
      BY <1>4, <1>5, <2>2
    <3> HIDE DEF m
    <3>3. QED
      BY <1>5, <2>2, <3>1, <3>2, RewriteOK DEF m
  <2>3. QED
    BY <2>1, <2>2
<1> HIDE DEF m
<1>7. ASSUME NEW z \in {LaunchNext(m), DropStash(m)}
      PROVE  Stores(s, z) /\ StaysOpen(s, z)
  <2>1. Stores(m, z) /\ Fixed(m, z)
    BY <1>6, LaunchNextOK, DropStashStores DEF Stores
  <2>2. StaysOpen(m, z)
    BY <2>1, FixedOpen
  <2>3. QED
    BY <1>6, <2>1, <2>2, StoresCompose DEF StaysOpen
<1>8. QED
  BY <1>1, <1>7

LEMMA CancelOK ==
  ASSUME NEW s \in Lanes, s.cause = "unset"
  PROVE  LET t == Cancel(s)
         IN  /\ Stores(s, t) /\ t.retained = (s.retained /\ s.st \notin LiveStrip)
             /\ t.closeHook = s.closeHook /\ t.turnHooks = s.turnHooks
             /\ t.launch = s.launch /\ t.followups = s.followups
             /\ t.st = IF s.st \in LiveStrip THEN "cancelled" ELSE s.st
             /\ s.st \in LiveStrip /\ s.cancelHook = "abort" => Closes(t)
<1> DEFINE w == SettleAsks(s)
           a == DropStash(w)
           k == CallCancelHook(a)
           d == [k EXCEPT !.st = "cancelled", !.retained = FALSE, !.error = TRUE,
                          !.stop = "cancelled", !.cancelHook = "none"]
           r == Reconcile(d)
<1>1. Cancel(s) = IF a.st \notin LiveStrip THEN a ELSE r
  BY DEF Cancel
<1>2. w \in Lanes /\ Stores(s, w) /\ Same(s, w)
  BY SettleAsksOK, QuietStores, QuietMoves
<1> HIDE DEF w
<1>3. a \in Lanes /\ Stores(w, a) /\ Same(w, a)
  BY <1>2, DropStashStores DEF Stores
<1> HIDE DEF a
<1>4. Stores(s, a) /\ a.cause = "unset" /\ Same(s, a)
  BY <1>2, <1>3, StoresCompose DEF Same
<1>5. CASE a.st \notin LiveStrip
  BY <1>1, <1>4, <1>5 DEF Same, Lanes
<1>6. CASE a.st \in LiveStrip
  <2> DEFINE calls == IF a.cancelHook = "none" THEN a.calls ELSE a.calls \cup {a.cancelHook}
  <2>1. calls \in SUBSET Hooks /\ k = [a EXCEPT !.calls = calls]
    BY <1>3 DEF CallCancelHook, Lanes, Hooks
  <2> HIDE DEF k
  <2>2. k \in Lanes
    <3> HIDE DEF calls
    <3>1. QED
      BY <1>3, <2>1 DEF Lanes
  <2>3. d \in Lanes
    <3>1. "cancelled" \in States /\ "cancelled" \in Stops
      BY DEF States, Stops, ForcedStops
    <3>2. QED
      BY <2>2, <3>1 DEF Lanes
  <2>4. /\ d.st = "cancelled" /\ d.retained = FALSE /\ d.failure = a.failure
        /\ d.followups = a.followups /\ d.launch = a.launch /\ d.stash = a.stash
        /\ d.turnHooks = a.turnHooks /\ d.closeHook = a.closeHook /\ d.cause = a.cause
        /\ d.calls = calls
    <3> HIDE DEF calls
    <3>1. QED
      BY <1>3, <2>1, <2>2 DEF Lanes
  <2> HIDE DEF d
  <2>5. /\ r \in Lanes /\ Same(d, r) /\ r.stash = d.stash /\ Stamps(d, r) /\ Recorded(r)
    BY <2>3, <2>4, ReconcileOK DEF Stampable
  <2> HIDE DEF r
  <2>6. SteersKept(a, r)
    BY <2>4, <2>5 DEF SteersKept, Steers, Sorted, Same
  <2>7. Moves(a, r)
    BY <1>6, <2>4, <2>5, <2>6 DEF Moves, Changes, Ends, Paused, Over, Same, RunEligible, LiveStrip
  <2>8. Stores(a, r)
    BY <1>4, <1>6, <2>4, <2>5, <2>7 DEF Stores, Stamps, RunEligible, LiveStrip
  <2>9. Stores(s, r)
    BY <1>4, <2>8, StoresCompose
  <2>10. s.cancelHook = "abort" => Closes(r)
    BY <1>4, <2>4, <2>5 DEF Closes, Same
  <2>11. QED
    BY <1>1, <1>4, <1>6, <2>4, <2>5, <2>9, <2>10 DEF Same
<1>7. QED
  BY <1>5, <1>6

LEMMA SettleReplyOK ==
  ASSUME NEW s \in Lanes, s.cause = "unset", NEW src \in Sources
  PROVE  Stores(s, SettleReply(s, src)) /\ StaysOpen(s, SettleReply(s, src))
<1> DEFINE idle == [s EXCEPT !.inFlight = FALSE]
           told == [s EXCEPT !.report = TRUE]
           over == [s EXCEPT !.st = "completed", !.report = TRUE, !.stop = "none"]
           m == Update(s, told)
           n == Update(s, over)
           e == [n EXCEPT !.inFlight = FALSE]
<1>1. ASSUME NEW t \in Lanes, t.cause = "unset"
      PROVE  Stores(t, OnReply(t, src)) /\ StaysOpen(t, OnReply(t, src))
  <2>1. Stores(t, t) /\ StaysOpen(t, t)
    BY DEF Stores, Moves, Changes, Ends, Paused, Over, Stamps, SteersKept, StaysOpen
  <2>2. Stores(t, Complete(t, TRUE, "none")) /\ StaysOpen(t, Complete(t, TRUE, "none"))
    BY <1>1, CompleteOK DEF Stops
  <2>3. QED
    BY <2>1, <2>2 DEF OnReply
<1>2. /\ "completed" \in States /\ "none" \in Stops
  BY DEF States, Stops
<1>3. CASE s.st \notin RunEligible \cup {"completed"}
  <2>1. SettleReply(s, src) = DropStash(idle)
    BY <1>3 DEF SettleReply
  <2>2. idle \in Lanes /\ Stores(s, idle) /\ Fixed(s, idle)
    BY SettleAsksOK, QuietStores
  <2> HIDE DEF idle
  <2>3. Stores(idle, DropStash(idle)) /\ Fixed(idle, DropStash(idle))
    BY <2>2, DropStashStores
  <2>4. QED
    BY <2>1, <2>2, <2>3, StoresCompose, FixedOpen DEF StaysOpen
<1>4. CASE s.st \in RunEligible \cup {"completed"} /\ s.stash # <<>>
  <2>1. SettleReply(s, src) = LaunchNext(OnReply(m, src))
    BY <1>4 DEF SettleReply
  <2>2. told \in Lanes /\ Quiet(s, told)
    BY DEF Lanes, Quiet, Same
  <2>3. Stores(s, m) /\ StaysOpen(s, m) /\ m \in Lanes /\ m.cause = "unset"
    <3> HIDE DEF told
    <3>1. s.st # "absent" /\ (Recorded(s) => Stampable(told))
      BY <1>4, <2>2 DEF RunEligible, Recorded, Stampable, Quiet, Same
    <3>2. Stores(s, Update(s, told)) /\ StaysOpen(s, Update(s, told))
      BY <2>2, <3>1, RewriteOK DEF Quiet, Same
    <3>3. QED
      BY <3>2 DEF Stores, Stamps
  <2> HIDE DEF m
  <2> DEFINE r == OnReply(m, src)
  <2>4. Stores(m, r) /\ StaysOpen(m, r)
    BY <1>1, <2>3
  <2> HIDE DEF r
  <2>5. Stores(s, r) /\ StaysOpen(s, r) /\ r.cause = "unset" /\ r \in Lanes
    BY <2>3, <2>4, StoresCompose DEF StaysOpen, Stores
  <2>6. Stores(r, LaunchNext(r)) /\ StaysOpen(r, LaunchNext(r))
    BY <2>5, LaunchNextOK, FixedOpen
  <2>7. QED
    BY <2>1, <2>5, <2>6, StoresCompose DEF StaysOpen, r
<1>5. CASE s.st \in RunEligible \cup {"completed"} /\ s.stash = <<>>
  <2>1. SettleReply(s, src) = OnReply(e, src)
    BY <1>5 DEF SettleReply
  <2>2. over \in Lanes
    BY <1>2 DEF Lanes
  <2>3. /\ over.st = "completed" /\ over.retained = s.retained /\ over.closeHook = s.closeHook
        /\ over.turnHooks = s.turnHooks /\ over.calls = s.calls /\ over.launch = s.launch
        /\ over.stash = s.stash /\ over.followups = s.followups /\ over.failure = s.failure
        /\ over.cause = s.cause
    BY DEF Lanes
  <2>4. Stores(s, n) /\ StaysOpen(s, n) /\ n \in Lanes /\ n.cause = "unset"
    <3> HIDE DEF over
    <3>1. s.st # "absent" /\ (Recorded(s) => Stampable(over))
      BY <1>5, <2>3 DEF RunEligible, Stampable
    <3>2. s.st \in RunEligible \/ over.st = s.st
      BY <1>5, <2>3
    <3>3. Stores(s, Update(s, over)) /\ StaysOpen(s, Update(s, over))
      BY <2>2, <2>3, <3>1, <3>2, RewriteOK
    <3>4. QED
      BY <3>3 DEF Stores, Stamps
  <2> HIDE DEF n
  <2>5. e \in Lanes /\ Stores(n, e) /\ StaysOpen(n, e)
    BY <2>4, SettleAsksOK, QuietStores, FixedOpen
  <2> HIDE DEF e
  <2>6. Stores(s, e) /\ StaysOpen(s, e) /\ e.cause = "unset"
    BY <2>4, <2>5, StoresCompose DEF StaysOpen
  <2>7. Stores(e, OnReply(e, src)) /\ StaysOpen(e, OnReply(e, src))
    BY <1>1, <2>5, <2>6
  <2>8. QED
    BY <2>1, <2>6, <2>7, StoresCompose DEF StaysOpen
<1>6. QED
  BY <1>3, <1>4, <1>5

\* A follow-up turn begins: the worker runs again, its record is withdrawn.
LEMMA BeginFollowupOK ==
  ASSUME NEW s \in Lanes
  PROVE  LET t == BeginFollowup(s)
         IN  /\ t \in Lanes /\ t.cause = "unset" /\ t.followups
             /\ t.retained = s.retained /\ t.turnHooks = s.turnHooks
             /\ t.closeHook = s.closeHook /\ t.cancelHook = s.cancelHook
             /\ t.calls = s.calls /\ t.launch = s.launch /\ t.stash = s.stash
             /\ t.st = IF s.st = "absent" THEN "absent" ELSE "running"
             /\ t.failure = IF s.st = "absent" THEN s.failure ELSE NoRecord
<1> DEFINE w == [ResetTrace(s) EXCEPT !.followups = TRUE, !.inFlight = TRUE]
           r == [w EXCEPT !.st = "running", !.stop = "none"]
           u == Update(w, r)
<1>1. BeginFollowup(s) = u
  BY DEF BeginFollowup
<1>2. w \in Lanes
  BY DEF ResetTrace, Lanes, Handoffs, Causes
<1>3. /\ w.st = s.st /\ w.cause = "unset" /\ w.followups
      /\ w.retained = s.retained /\ w.turnHooks = s.turnHooks
      /\ w.closeHook = s.closeHook /\ w.cancelHook = s.cancelHook
      /\ w.calls = s.calls /\ w.launch = s.launch /\ w.stash = s.stash
      /\ w.failure = s.failure
  BY DEF ResetTrace, Lanes
<1> HIDE DEF w
<1>4. r \in Lanes
  <2>1. "running" \in States /\ "none" \in Stops
    BY DEF States, Stops
  <2>2. QED
    BY <1>2, <2>1 DEF Lanes
<1>5. /\ r.st = "running" /\ r.cause = w.cause /\ r.followups = w.followups
      /\ r.retained = w.retained /\ r.turnHooks = w.turnHooks
      /\ r.closeHook = w.closeHook /\ r.cancelHook = w.cancelHook
      /\ r.calls = w.calls /\ r.launch = w.launch /\ r.stash = w.stash
  BY <1>2 DEF Lanes
<1> HIDE DEF r
<1>6. CASE s.st = "absent"
  <2>1. u = w
    BY <1>3, <1>6 DEF Update
  <2>2. QED
    BY <1>1, <1>2, <1>3, <1>6, <2>1
<1>7. CASE s.st # "absent"
  <2>1. /\ u \in Lanes /\ Same(r, u) /\ u.stash = r.stash /\ Stamps(r, u) /\ Recorded(u)
    BY <1>2, <1>3, <1>4, <1>5, <1>7, UpdateOK DEF Stampable
  <2> HIDE DEF u
  <2>2. u.failure = NoRecord
    BY <1>5, <2>1 DEF Recorded, Same, RunEligible
  <2>3. QED
    BY <1>1, <1>3, <1>5, <1>7, <2>1, <2>2 DEF Same, Stamps
<1>8. QED
  BY <1>6, <1>7

\* endFollowupTurn restores the state the turn started from.
LEMMA EndFollowupOK ==
  ASSUME NEW s \in Lanes, NEW restore \in {"completed", "interrupted"}, Recorded(s)
  PROVE  LET t == EndFollowup(s, restore)
         IN  /\ t \in Lanes /\ Moves(s, t) /\ Recorded(t) /\ StaysOpen(s, t)
             /\ t.launch = s.launch /\ t.cause \in {s.cause, "unset"}
             /\ t.failure.class = "retryable"
                   => t.failure = s.failure
                      \/ /\ s.st # "absent"
                         /\ s.cause = "retryable" /\ t.failure.followup = s.followups
             /\ s.failure # NoRecord /\ s.st \notin RunEligible => t.failure = s.failure
             /\ t.st = (IF s.st \in RunEligible THEN restore ELSE s.st)
             /\ t.closeHook = s.closeHook /\ t.retained = s.retained /\ t.followups = s.followups
<1> DEFINE stops == IF s.st \in RunEligible
                    THEN IF restore = "interrupted" THEN restore ELSE s.stop
                    ELSE IF restore = "interrupted" /\ s.stop = "none" THEN restore ELSE s.stop
           st == IF s.st \in RunEligible THEN restore ELSE s.st
           x == [s EXCEPT !.st = st, !.stop = stops]
           u == Update(s, x)
<1>1. EndFollowup(s, restore) = u
  <2>1. s.st \notin RunEligible => x = [s EXCEPT !.stop = stops]
    BY DEF Lanes
  <2>2. QED
    BY <2>1 DEF EndFollowup
<1>2. st \in States /\ stops \in Stops
  BY DEF Lanes, States, Stops, ForcedStops
<1>3. s.st \in RunEligible /\ st = "interrupted" => stops = "interrupted"
  OBVIOUS
<1>4. /\ x \in Lanes /\ x.st = st /\ x.stop = stops /\ x.cause = s.cause
      /\ x.followups = s.followups /\ x.retained = s.retained
      /\ x.turnHooks = s.turnHooks /\ x.closeHook = s.closeHook /\ x.cancelHook = s.cancelHook
      /\ x.calls = s.calls /\ x.launch = s.launch /\ x.stash = s.stash /\ x.failure = s.failure
  <2> HIDE DEF st, stops
  <2>1. x \in Lanes
    BY <1>2 DEF Lanes
  <2>2. QED
    BY <1>2, <2>1 DEF Lanes
<1>5. st = IF s.st \in RunEligible THEN restore ELSE s.st
  OBVIOUS
<1> HIDE DEF x, st, stops
<1>6. CASE s.st = "absent"
  <2>1. u = s
    BY <1>6 DEF Update
  <2>2. QED
    BY <1>1, <1>6, <2>1 DEF Moves, Changes, Ends, Paused, Over, SteersKept, StaysOpen, RunEligible
<1>7. CASE s.st # "absent"
  <2>1. Stampable(x)
    BY <1>3, <1>4, <1>5 DEF Stampable, Recorded, ForcedStops
  <2>2. /\ u \in Lanes /\ Same(x, u) /\ u.stash = x.stash /\ Stamps(x, u) /\ Recorded(u)
    BY <1>4, <1>7, <2>1, UpdateOK
  <2> HIDE DEF u
  <2>3. SteersKept(s, u)
    BY <1>4, <2>2 DEF SteersKept, Steers, Sorted, Same
  <2>4. Moves(s, u)
    BY <1>4, <1>5, <1>7, <2>2, <2>3 DEF Moves, Changes, Ends, Paused, Over, Same, RunEligible
  <2>5. StaysOpen(s, u)
    BY <1>4, <1>5, <2>2 DEF StaysOpen, OpenLane, Closes, Same
  <2>6. QED
    BY <1>1, <1>4, <1>5, <1>7, <2>2, <2>4, <2>5 DEF Same, Stamps
<1>8. QED
  BY <1>6, <1>7

LEMMA RestoreLaneOK ==
  ASSUME NEW s \in Lanes, s.cause = "unset", NEW prior \in {"completed", "interrupted"},
         NEW cause \in Causes, Recorded(s)
  PROVE  LET t == RestoreLane(s, prior, cause)
         IN  /\ t \in Lanes /\ Moves(s, t) /\ Recorded(t) /\ StaysOpen(s, t)
             /\ t.launch = s.launch /\ t.cause = "unset"
             /\ t.failure.class = "retryable"
                   => t.failure = s.failure
                      \/ (s.st # "absent" /\ t.failure.followup = s.followups)
             /\ s.failure # NoRecord /\ s.st \notin RunEligible => t.failure = s.failure
<1> DEFINE w == IF prior = "interrupted" THEN [s EXCEPT !.cause = cause] ELSE s
           e == EndFollowup(w, prior)
           r == [e EXCEPT !.cause = "unset"]
<1>1. RestoreLane(s, prior, cause) = r
  BY DEF RestoreLane
<1>2. w \in Lanes /\ Same(s, w) /\ w.stash = s.stash /\ w.failure = s.failure
  <2>1. w = [s EXCEPT !.cause = IF prior = "interrupted" THEN cause ELSE @]
    BY DEF Lanes
  <2> HIDE DEF w
  <2>2. QED
    BY <2>1 DEF Lanes, Same
<1> HIDE DEF w
<1>3. SteersKept(s, w) /\ Recorded(s) = Recorded(w)
  BY <1>2 DEF SteersKept, Steers, Sorted, Same, Recorded
<1>4. Moves(s, w) /\ StaysOpen(s, w)
  BY <1>2, <1>3, SameMoves, FixedOpen
<1>5. /\ e \in Lanes /\ Moves(w, e) /\ Recorded(e) /\ StaysOpen(w, e) /\ e.launch = w.launch
      /\ e.failure.class = "retryable"
            => e.failure = w.failure \/ (w.st # "absent" /\ e.failure.followup = w.followups)
      /\ w.failure # NoRecord /\ w.st \notin RunEligible => e.failure = w.failure
  BY <1>2, <1>3, EndFollowupOK
<1> HIDE DEF e
<1>6. r \in Lanes /\ Same(e, r) /\ r.stash = e.stash /\ r.failure = e.failure /\ r.cause = "unset"
  BY <1>5 DEF Lanes, Same, Causes
<1> HIDE DEF r
<1>7. SteersKept(e, r) /\ Recorded(r)
  BY <1>5, <1>6 DEF SteersKept, Steers, Sorted, Same, Recorded
<1>8. Moves(e, r) /\ StaysOpen(e, r)
  BY <1>6, <1>7, SameMoves, FixedOpen
<1>9. Moves(s, r)
  BY <1>4, <1>5, <1>8, MovesCompose
<1>10. StaysOpen(s, r)
  BY <1>4, <1>5, <1>8 DEF StaysOpen
<1>11. QED
  BY <1>1, <1>2, <1>5, <1>6, <1>7, <1>9, <1>10 DEF Same

LEMMA FailClosedOK ==
  ASSUME NEW s \in Lanes, s.cause = "unset", Recorded(s)
  PROVE  LET t == FailClosed(s)
         IN  /\ t \in Lanes /\ Moves(s, t) /\ Recorded(t) /\ StaysOpen(s, t)
             /\ t.launch = s.launch /\ t.cause = "unset"
             /\ t.failure.class = "retryable" => t.failure = s.failure
             /\ s.failure # NoRecord /\ s.st \notin RunEligible =>
                   t.failure = s.failure \/ (s.st = "interrupted" /\ t.st = "failed")
<1> DEFINE e == EndFollowup(s, "interrupted")
           w == SettleAsks(e)
           a == DropStash(w)
           d == [a EXCEPT !.failure = NoRecord, !.st = "failed", !.error = TRUE, !.stop = "error"]
           f == IF a.st \notin LiveStrip THEN a ELSE d
           u == Update(a, f)
           r == ReleaseHandles(u)
<1>1. FailClosed(s) = r
  BY DEF FailClosed
<1>2. /\ e \in Lanes /\ Moves(s, e) /\ Recorded(e) /\ StaysOpen(s, e) /\ e.launch = s.launch
      /\ e.cause = "unset" /\ (e.failure.class = "retryable" => e.failure = s.failure)
      /\ s.failure # NoRecord /\ s.st \notin RunEligible => e.failure = s.failure /\ e.st = s.st
  BY EndFollowupOK
<1> HIDE DEF e
<1>3. w \in Lanes /\ Stores(e, w) /\ Same(e, w)
  BY <1>2, SettleAsksOK, QuietStores, QuietMoves
<1> HIDE DEF w
<1>4. a \in Lanes /\ Stores(w, a) /\ Same(w, a)
  BY <1>3, DropStashStores DEF Stores
<1> HIDE DEF a
<1>5. Stores(e, a) /\ a.cause = "unset" /\ Same(e, a)
  BY <1>2, <1>3, <1>4, StoresCompose DEF Same
<1>6. /\ u \in Lanes /\ Moves(a, u) /\ Recorded(u) /\ u.launch = a.launch /\ u.cause = "unset"
      /\ u.calls = a.calls /\ u.closeHook = a.closeHook
      /\ u.failure.class = "retryable" => u.failure = a.failure
      /\ a.failure # NoRecord /\ a.st \notin RunEligible =>
            u.failure = a.failure \/ (a.st = "interrupted" /\ u.st = "failed")
  <2>1. Recorded(a)
    BY <1>2, <1>5 DEF Stores
  <2>2. CASE a.st = "absent"
    <3>1. u = a
      BY <2>2 DEF Update
    <3>2. QED
      BY <1>4, <1>5, <2>1, <3>1 DEF Moves, Changes, Ends, Paused, Over, SteersKept
  <2>3. CASE a.st \notin LiveStrip /\ a.st # "absent"
    <3>1. u = Update(a, a) /\ Stampable(a)
      BY <2>3 DEF Stampable, LiveStrip
    <3>2. Moves(a, a)
      BY DEF Moves, Changes, Ends, Paused, Over, SteersKept
    <3>3. Stores(a, u) /\ Same(a, u)
      BY <1>4, <1>5, <2>3, <3>1, <3>2, UpdateStores
    <3>4. QED
      BY <1>5, <2>1, <3>3 DEF Stores, Same, Stamps
  <2>4. CASE a.st \in LiveStrip
    <3>1. /\ d.st = "failed" /\ d.failure = NoRecord /\ d.cause = a.cause
          /\ d.followups = a.followups /\ d.retained = a.retained
          /\ d.turnHooks = a.turnHooks /\ d.closeHook = a.closeHook
          /\ d.calls = a.calls /\ d.launch = a.launch /\ d.stash = a.stash
      BY <1>4 DEF Lanes
    <3>2. d \in Lanes
      <4>1. "failed" \in States /\ "error" \in Stops
        BY DEF States, Stops
      <4>2. QED
        BY <1>4, <4>1 DEF Lanes
    <3> HIDE DEF d
    <3>3. u = Update(a, d) /\ a.st # "absent"
      BY <2>4 DEF LiveStrip, RunEligible
    <3>4. /\ u \in Lanes /\ Same(d, u) /\ u.stash = d.stash /\ Stamps(d, u) /\ Recorded(u)
      BY <1>4, <3>1, <3>2, <3>3, UpdateOK DEF Stampable
    <3> HIDE DEF u
    <3>5. SteersKept(a, u)
      BY <3>1, <3>4 DEF SteersKept, Steers, Sorted, Same
    <3>6. Moves(a, u)
      BY <2>4, <3>1, <3>3, <3>4, <3>5 DEF Moves, Changes, Ends, Paused, Over, Same, LiveStrip, RunEligible
    <3>7. QED
      BY <1>5, <2>4, <3>1, <3>4, <3>6 DEF Same, Stamps, NoRecord, LiveStrip
  <2>5. QED
    BY <2>2, <2>3, <2>4
<1> HIDE DEF u
<1>7. /\ Stores(u, r) /\ r.launch = u.launch /\ r.st = u.st
      /\ r.calls = IF u.closeHook THEN u.calls \cup {"close"} ELSE u.calls
  BY <1>6, ReleaseHandlesOK
<1> HIDE DEF r
<1>8. Moves(s, r)
  <2>1. Moves(s, a)
    BY <1>2, <1>5, MovesCompose DEF Stores
  <2>2. Moves(s, u)
    BY <1>6, <2>1, MovesCompose
  <2>3. QED
    BY <1>7, <2>2, MovesCompose DEF Stores
<1>9. StaysOpen(s, r)
  BY <1>2, <1>5, <1>6, <1>7 DEF StaysOpen, OpenLane, Closes, Same
<1>10. r \in Lanes /\ Recorded(r) /\ r.cause = "unset"
  BY <1>6, <1>7 DEF Stores, Stamps
<1>11. r.failure.class = "retryable" => r.failure = s.failure
  BY <1>2, <1>5, <1>6, <1>7 DEF Stores, Stamps
<1>12. s.failure # NoRecord /\ s.st \notin RunEligible =>
          r.failure = s.failure \/ (s.st = "interrupted" /\ r.st = "failed")
  <2>1. s.failure # NoRecord /\ s.st \notin RunEligible =>
          a.failure = s.failure /\ a.st = s.st
    BY <1>2, <1>5 DEF Stores, Stamps, Same
  <2>2. /\ r.st = u.st
        /\ u.failure # NoRecord /\ u.st \notin RunEligible => r.failure = u.failure
    BY <1>7 DEF Stores, Stamps
  <2>3. u.failure # NoRecord => u.st \notin RunEligible
    BY <1>6 DEF Recorded
  <2>4. QED
    BY <1>6, <2>1, <2>2, <2>3
<1>13. QED
  BY <1>1, <1>2, <1>5, <1>6, <1>7, <1>8, <1>9, <1>10, <1>11, <1>12 DEF Same

LEMMA SendInterruptOK ==
  ASSUME NEW s \in Lanes, s.cause = "unset", s.st # "absent", NEW msg \in 1..MaxInputs
  PROVE  LET t == SendInterrupt(s, msg)
         IN  /\ t \in Lanes /\ t.cause = "unset" /\ (Recorded(s) => Recorded(t))
             /\ Stamps(s, t) /\ t.st = s.st /\ t.retained = s.retained
             /\ t.followups = s.followups /\ t.turnHooks = s.turnHooks
             /\ t.closeHook = s.closeHook /\ t.launch = s.launch /\ s.calls \subseteq t.calls
             /\ t.stash = Append(s.stash, msg)
<1> DEFINE a == SettleAsks(s)
           calls == IF a.stash = <<>> THEN a.calls \cup {"interrupt"} ELSE a.calls
           stash == Append(a.stash, msg)
           w == [a EXCEPT !.stash = stash, !.calls = calls]
           x == [w EXCEPT !.stop = "interrupted"]
           u == Update(w, x)
<1>1. SendInterrupt(s, msg) = u
  <2>1. w = [a EXCEPT !.stash = Append(@, msg),
                      !.calls = IF a.stash = <<>> THEN @ \cup {"interrupt"} ELSE @]
    BY SettleAsksOK DEF Lanes
  <2>2. QED
    BY <2>1 DEF SendInterrupt
<1>2. a \in Lanes /\ Quiet(s, a)
  BY SettleAsksOK
<1> HIDE DEF a
<1>3. stash \in Seq(1..MaxInputs) /\ calls \in SUBSET Hooks /\ a.calls \subseteq calls
  <2>1. a.stash \in Seq(1..MaxInputs) /\ a.calls \in SUBSET Hooks
    BY <1>2 DEF Lanes
  <2>2. QED
    BY <2>1 DEF Hooks
<1>4. stash = Append(s.stash, msg)
  BY <1>2 DEF Quiet
<1> HIDE DEF stash, calls
<1>5. w \in Lanes
  BY <1>2, <1>3 DEF Lanes
<1>6. /\ w.stash = stash /\ w.calls = calls /\ w.st = a.st /\ w.retained = a.retained
      /\ w.followups = a.followups /\ w.turnHooks = a.turnHooks /\ w.closeHook = a.closeHook
      /\ w.launch = a.launch /\ w.failure = a.failure /\ w.cause = a.cause
  BY <1>2 DEF Lanes
<1> HIDE DEF w
<1>7. x \in Lanes
  <2>1. "interrupted" \in Stops
    BY DEF Stops, ForcedStops
  <2>2. QED
    BY <1>5, <2>1 DEF Lanes
<1>8. /\ x.stash = w.stash /\ x.calls = w.calls /\ x.st = w.st /\ x.retained = w.retained
      /\ x.followups = w.followups /\ x.turnHooks = w.turnHooks /\ x.closeHook = w.closeHook
      /\ x.launch = w.launch /\ x.failure = w.failure /\ x.cause = w.cause
      /\ x.stop = "interrupted"
  BY <1>5 DEF Lanes
<1> HIDE DEF x
<1>9. /\ u \in Lanes /\ Same(x, u) /\ u.stash = x.stash /\ Stamps(x, u)
      /\ (Stampable(x) => Recorded(u))
  BY <1>2, <1>5, <1>6, <1>7, UpdateOK DEF Quiet, Same
<1> HIDE DEF u
<1>10. Stampable(x)
  BY <1>8 DEF Stampable, ForcedStops
<1>11. QED
  BY <1>1, <1>2, <1>3, <1>4, <1>6, <1>8, <1>9, <1>10 DEF Quiet, Same, Stamps

LEMMA CallCancelHookOK ==
  ASSUME NEW s \in Lanes
  PROVE  LET t == CallCancelHook(s)
         IN  /\ t \in Lanes /\ t.st = s.st /\ t.retained = s.retained /\ t.stop = s.stop
             /\ t.followups = s.followups /\ t.turnHooks = s.turnHooks
             /\ t.closeHook = s.closeHook /\ t.cancelHook = s.cancelHook
             /\ t.launch = s.launch /\ t.stash = s.stash /\ t.failure = s.failure
             /\ t.cause = s.cause /\ s.calls \subseteq t.calls
             /\ s.cancelHook = "abort" => Closes(t)
<1> DEFINE calls == IF s.cancelHook = "none" THEN s.calls ELSE s.calls \cup {s.cancelHook}
           t == [s EXCEPT !.calls = calls]
<1>1. CallCancelHook(s) = t
  BY DEF CallCancelHook, Lanes
<1>2. calls \in SUBSET Hooks /\ s.calls \subseteq calls /\ (s.cancelHook = "abort" => "abort" \in calls)
  BY DEF Lanes, Hooks
<1> HIDE DEF calls
<1>3. t \in Lanes
  BY <1>2 DEF Lanes
<1>4. QED
  BY <1>1, <1>2, <1>3, SMTT(60) DEF Lanes, Closes

LEMMA InterruptOneOK ==
  ASSUME NEW s \in Lanes, s.cause = "unset"
  PROVE  LET t == InterruptOne(s)
         IN  /\ Stores(s, t) /\ StaysOpen(s, t) /\ t.launch = s.launch
             /\ s.st = "pending_init" /\ s.cancelHook = "abort" /\ ~s.turnHooks => Closes(t)
<1> DEFINE d == DropStash(s)
           a == SettleAsks(d)
           w == [a EXCEPT !.calls = @ \cup {"interrupt"}]
           k == CallCancelHook(d)
           v == [k EXCEPT !.inFlight = FALSE]
           stopped(t) == Update(t, [t EXCEPT !.st = "interrupted", !.stop = "interrupted"])
<1>1. InterruptOne(s) = IF d.st \notin LiveStrip THEN s
                        ELSE IF d.turnHooks THEN stopped(w)
                        ELSE IF d.st = "pending_init" THEN stopped(v)
                        ELSE d
  BY DEF InterruptOne
<1>2. d \in Lanes /\ Stores(s, d) /\ Same(s, d) /\ d.cause = "unset"
  BY DropStashStores DEF Stores, Stamps
<1> HIDE DEF d
<1>3. ASSUME NEW t \in Lanes, t.st \in LiveStrip, t.cause = "unset", t.failure = d.failure,
             t.st = d.st, t.retained = d.retained, t.followups = d.followups,
             t.turnHooks = d.turnHooks, t.closeHook = d.closeHook, t.launch = d.launch,
             t.stash = d.stash, d.calls \subseteq t.calls
      PROVE  /\ Stores(s, stopped(t)) /\ StaysOpen(s, stopped(t))
             /\ stopped(t).launch = s.launch /\ stopped(t).calls = t.calls
  <2> DEFINE x == [t EXCEPT !.st = "interrupted", !.stop = "interrupted"]
  <2>1. x \in Lanes
    <3>1. "interrupted" \in States /\ "interrupted" \in Stops
      BY DEF States, Stops, ForcedStops
    <3>2. QED
      BY <3>1 DEF Lanes
  <2>2. /\ x.st = "interrupted" /\ x.stop = "interrupted" /\ x.cause = "unset"
        /\ x.failure = d.failure /\ x.retained = d.retained /\ x.followups = d.followups
        /\ x.turnHooks = d.turnHooks /\ x.closeHook = d.closeHook /\ x.launch = d.launch
        /\ x.stash = d.stash /\ x.calls = t.calls
    BY <1>3 DEF Lanes
  <2> DEFINE z == stopped(t)
  <2>2a. z = Update(t, x)
    OBVIOUS
  <2> HIDE DEF x, z
  <2>3. Stampable(x)
    BY <2>2 DEF Stampable, ForcedStops
  <2>4. d.st # "absent" /\ t.st # "absent"
    BY <1>3 DEF LiveStrip, RunEligible
  <2>5. Update(t, x) = Update(d, x)
    BY <2>4 DEF Update
  <2>6. /\ Stores(d, Update(d, x)) /\ Same(x, Update(d, x)) /\ StaysOpen(d, Update(d, x))
    <3>1. d.st \in RunEligible \/ x.st = d.st
      BY <1>3, <2>2 DEF LiveStrip
    <3>2. QED
      BY <1>2, <1>3, <2>1, <2>2, <2>3, <2>4, <3>1, RewriteOK
  <2>7. Stores(s, Update(d, x))
    BY <1>2, <2>6, StoresCompose
  <2>8. StaysOpen(s, d)
    BY <1>2 DEF Same, StaysOpen, OpenLane, Closes
  <2>9. Stores(s, z) /\ StaysOpen(s, z) /\ z.launch = s.launch /\ z.calls = t.calls
    BY <1>2, <2>2, <2>5, <2>6, <2>7, <2>8, <2>2a DEF StaysOpen, Same
  <2>10. QED
    BY <2>9 DEF z
<1>4. CASE d.st \notin LiveStrip
  <2>1. InterruptOne(s) = s /\ s.st \notin LiveStrip
    BY <1>1, <1>2, <1>4 DEF Same
  <2>2. QED
    BY <2>1 DEF Stores, Moves, Changes, Ends, Paused, Over, Stamps, SteersKept, StaysOpen, LiveStrip, RunEligible
<1>5. CASE d.st \in LiveStrip /\ d.turnHooks
  <2>1. a \in Lanes /\ Quiet(d, a)
    BY <1>2, SettleAsksOK
  <2> HIDE DEF a
  <2>2. w \in Lanes
    BY <2>1 DEF Lanes, Hooks
  <2>3. /\ w.st = d.st /\ w.retained = d.retained /\ w.followups = d.followups
        /\ w.turnHooks = d.turnHooks /\ w.closeHook = d.closeHook /\ w.launch = d.launch
        /\ w.stash = d.stash /\ w.failure = d.failure /\ w.cause = d.cause
        /\ d.calls \subseteq w.calls
    BY <2>1 DEF Lanes, Quiet, Same
  <2> HIDE DEF w
  <2>4. Stores(s, stopped(w)) /\ StaysOpen(s, stopped(w)) /\ stopped(w).launch = s.launch
    BY <1>2, <1>3, <1>5, <2>2, <2>3
  <2> HIDE DEF stopped
  <2>5. QED
    BY <1>1, <1>2, <1>5, <2>4 DEF Same
<1>6. CASE d.st \in LiveStrip /\ ~d.turnHooks /\ d.st = "pending_init"
  <2>1. /\ k \in Lanes /\ k.st = d.st /\ k.retained = d.retained /\ k.followups = d.followups
        /\ k.turnHooks = d.turnHooks /\ k.closeHook = d.closeHook /\ k.launch = d.launch
        /\ k.stash = d.stash /\ k.failure = d.failure /\ k.cause = d.cause
        /\ d.calls \subseteq k.calls /\ (d.cancelHook = "abort" => Closes(k))
    BY <1>2, CallCancelHookOK
  <2> HIDE DEF k
  <2>2. v \in Lanes /\ Quiet(k, v)
    BY <2>1, SettleAsksOK
  <2> HIDE DEF v
  <2>3. /\ Stores(s, stopped(v)) /\ StaysOpen(s, stopped(v)) /\ stopped(v).launch = s.launch
        /\ stopped(v).calls = v.calls
    <3>1. /\ v.st = d.st /\ v.retained = d.retained /\ v.followups = d.followups
          /\ v.turnHooks = d.turnHooks /\ v.closeHook = d.closeHook /\ v.launch = d.launch
          /\ v.stash = d.stash /\ v.failure = d.failure /\ v.cause = d.cause
          /\ d.calls \subseteq v.calls
      BY <2>1, <2>2 DEF Quiet, Same
    <3>2. QED
      BY <1>2, <1>3, <1>6, <2>2, <3>1
  <2>4. d.cancelHook = "abort" => Closes(stopped(v))
    BY <2>1, <2>2, <2>3 DEF Closes, Quiet, Same
  <2> HIDE DEF stopped
  <2>5. QED
    BY <1>1, <1>2, <1>6, <2>3, <2>4 DEF Same
<1>7. CASE d.st \in LiveStrip /\ ~d.turnHooks /\ d.st # "pending_init"
  <2>1. InterruptOne(s) = d
    BY <1>1, <1>7
  <2>2. StaysOpen(s, d)
    BY <1>2 DEF Same, StaysOpen, OpenLane, Closes
  <2>3. QED
    BY <1>2, <1>7, <2>1, <2>2 DEF Same
<1>8. QED
  BY <1>4, <1>5, <1>6, <1>7

\* closeOne's last update and the hooks it forgets; the agent is closed by then.
LEMMA ShutdownOK ==
  ASSUME NEW s \in Lanes, s.cause = "unset"
  PROVE  Stores(s, Shutdown(s)) /\ Shutdown(s).launch = s.launch /\ Shutdown(s).calls = s.calls
<1> DEFINE over == s.error \/ s.st \in LiveStrip
           x == [s EXCEPT !.st = "shutdown", !.retained = FALSE, !.error = over]
<1>1. Shutdown(s) = Update(s, x) /\ over \in BOOLEAN /\ "shutdown" \in States
  BY DEF Shutdown, Lanes, States
<1> HIDE DEF over
<1>2. x \in Lanes
  BY <1>1 DEF Lanes
<1>3. /\ x.st = "shutdown" /\ x.retained = FALSE /\ x.cause = s.cause /\ x.failure = s.failure
      /\ x.followups = s.followups /\ x.turnHooks = s.turnHooks
      /\ x.launch = s.launch /\ x.stash = s.stash /\ x.calls = s.calls
  BY DEF Lanes
<1> HIDE DEF x
<1>4. CASE s.st = "absent"
  <2>1. Shutdown(s) = s
    BY <1>1, <1>4 DEF Update
  <2>2. QED
    BY <2>1 DEF Stores, Moves, Changes, Ends, Paused, Over, Stamps, SteersKept
<1>5. CASE s.st # "absent"
  <2>1. SteersKept(s, x)
    BY <1>3 DEF SteersKept, Steers, Sorted
  <2>2. Moves(s, x) /\ Stampable(x)
    BY <1>3, <1>5, <2>1 DEF Moves, Changes, Ends, Paused, Over, Stampable, RunEligible
  <2>3. Stores(s, Update(s, x)) /\ Same(x, Update(s, x))
    BY <1>2, <1>3, <1>5, <2>2, UpdateStores
  <2>4. QED
    BY <1>1, <1>3, <2>3 DEF Same
<1>6. QED
  BY <1>4, <1>5

LEMMA ForgetHooksOK ==
  ASSUME NEW s \in Lanes, s.cause = "unset"
  PROVE  Stores(s, ForgetHooks(s)) /\ ForgetHooks(s).launch = s.launch /\ ForgetHooks(s).calls = s.calls
<1> DEFINE w == [s EXCEPT !.cancelHook = "none", !.turnHooks = FALSE]
           d == DropStash(w)
           e == [d EXCEPT !.inFlight = FALSE]
<1>1. ForgetHooks(s) = e
  BY DEF ForgetHooks
<1>2. w \in Lanes
  BY DEF Lanes
<1>3. /\ w.st = s.st /\ w.retained = s.retained /\ w.cause = s.cause /\ w.failure = s.failure
      /\ w.followups = s.followups /\ w.turnHooks = FALSE
      /\ w.launch = s.launch /\ w.stash = s.stash /\ w.calls = s.calls
  BY DEF Lanes
<1> HIDE DEF w
<1>4. SteersKept(s, w)
  BY <1>3 DEF SteersKept, Steers, Sorted
<1>5. Stores(s, w)
  BY <1>2, <1>3, <1>4 DEF Stores, Moves, Changes, Ends, Paused, Over, Stamps, Recorded
<1>6. d \in Lanes /\ Stores(w, d) /\ Same(w, d)
  BY <1>2, DropStashStores DEF Stores
<1> HIDE DEF d
<1>7. Stores(d, e) /\ Same(d, e)
  BY <1>6, SettleAsksOK, QuietStores DEF Quiet
<1> HIDE DEF e
<1>8. Stores(s, d) /\ d.cause = "unset"
  BY <1>5, <1>6, StoresCompose
<1>9. Stores(s, e)
  BY <1>7, <1>8, StoresCompose
<1>10. QED
  BY <1>1, <1>3, <1>6, <1>7, <1>9 DEF Same

-----------------------------------------------------------------------------
(* What storing a lane does to the worker. *)

\* The turns' owners of a slot, sources and messages stay; a settlement only
\* changes the phase of a follow-up.
TurnsLike(ts) ==
    /\ ts \in Seq(Turn) /\ Len(ts) = Len(turns)
    /\ \A i \in 1..Len(turns) :
          /\ ts[i].src = turns[i].src /\ ts[i].msg = turns[i].msg /\ ts[i].slot = turns[i].slot
          /\ ts[i].slot => (ts[i].phase = "done" <=> turns[i].phase = "done")
    /\ turns # <<>> => ts[1].phase = turns[1].phase

LEMMA HitOK ==
  ASSUME NEW ts \in Seq(Turn)
  PROVE  /\ Hit(ts) \in Seq(Turn) /\ Len(Hit(ts)) = Len(ts)
         /\ \A i \in 1..Len(ts) :
               /\ Hit(ts)[i].src = ts[i].src /\ Hit(ts)[i].msg = ts[i].msg
               /\ Hit(ts)[i].slot = ts[i].slot /\ Hit(ts)[i].phase = ts[i].phase
<1>1. CASE ts = <<>>
  BY <1>1 DEF Hit
<1>2. CASE ts # <<>>
  <2> DEFINE n == Len(ts)
             last == [ts[n] EXCEPT !.hit = TRUE]
  <2>1. n \in 1..Len(ts) /\ n \in DOMAIN ts /\ ts[n] \in Turn
    BY <1>2
  <2>2. last \in Turn /\ last.src = ts[n].src /\ last.msg = ts[n].msg
        /\ last.slot = ts[n].slot /\ last.phase = ts[n].phase
    BY <2>1 DEF Turn
  <2>3. Hit(ts) = [ts EXCEPT ![n] = last]
    BY <1>2 DEF Hit
  <2> HIDE DEF n, last
  <2>4. [ts EXCEPT ![n] = last] \in Seq(Turn) /\ Len([ts EXCEPT ![n] = last]) = Len(ts)
    BY <2>1, <2>2
  <2>5. QED
    BY <2>1, <2>2, <2>3, <2>4
<1>3. QED
  BY <1>1, <1>2

LEMMA LaunchedOK ==
  ASSUME NEW msgs \in Seq(1..MaxInputs), NEW dead \in BOOLEAN
  PROVE  /\ Launched(msgs, dead) \in Seq(Turn) /\ Len(Launched(msgs, dead)) = Len(msgs)
         /\ \A k \in 1..Len(msgs) :
               /\ Launched(msgs, dead)[k].src = "steer" /\ Launched(msgs, dead)[k].msg = msgs[k]
               /\ ~Launched(msgs, dead)[k].slot
               /\ Launched(msgs, dead)[k].phase \in {"sent", "shut"}
<1>1. \A k \in 1..Len(msgs) :
         LET t == NewTurn("steer", msgs[k], "interrupted", FALSE, dead)
         IN  /\ t \in Turn /\ t.src = "steer" /\ t.msg = msgs[k] /\ ~t.slot
             /\ t.phase \in {"sent", "shut"}
  <2> SUFFICES ASSUME NEW k \in 1..Len(msgs)
               PROVE  LET t == NewTurn("steer", msgs[k], "interrupted", FALSE, dead)
                      IN  /\ t \in Turn /\ t.src = "steer" /\ t.msg = msgs[k] /\ ~t.slot
                          /\ t.phase \in {"sent", "shut"}
    OBVIOUS
  <2>1. msgs[k] \in 0..MaxInputs
    <3>1. msgs[k] \in 1..MaxInputs
      BY ElementOK
    <3>2. QED
      BY <3>1, ConstantsAssumption
  <2>2. QED
    BY <2>1 DEF NewTurn, Turn, Sources, Phases
<1> DEFINE f(k) == NewTurn("steer", msgs[k], "interrupted", FALSE, dead)
<1>2. Launched(msgs, dead) = [k \in 1..Len(msgs) |-> f(k)]
  BY DEF Launched
<1>3. ASSUME NEW k \in 1..Len(msgs)
      PROVE  /\ f(k) \in Turn /\ f(k).src = "steer" /\ f(k).msg = msgs[k] /\ ~f(k).slot
             /\ f(k).phase \in {"sent", "shut"}
  BY <1>1
<1> HIDE DEF f
<1>4. Len(msgs) \in Nat
  OBVIOUS
<1>5. QED
  BY <1>2, <1>3, <1>4

\* The turns after a commit: those given, then the steers launched.
LEMMA CommitTurns ==
  ASSUME NEW s \in Lanes, NEW ts \in Seq(Turn), NEW sl, closed \in BOOLEAN, Commit(s, ts, sl)
  PROVE  /\ turns' \in Seq(Turn) /\ Len(turns') = Len(ts) + Len(s.launch)
         /\ \A i \in 1..Len(ts) :
               /\ turns'[i].src = ts[i].src /\ turns'[i].msg = ts[i].msg
               /\ turns'[i].slot = ts[i].slot /\ turns'[i].phase = ts[i].phase
         /\ \A i \in 1..Len(turns') : i > Len(ts) =>
               /\ i - Len(ts) \in 1..Len(s.launch)
               /\ turns'[i].src = "steer" /\ turns'[i].msg = s.launch[i - Len(ts)]
               /\ ~turns'[i].slot /\ turns'[i].phase \in {"sent", "shut"}
<1> DEFINE dead == closed \/ "abort" \in s.calls \/ "close" \in s.calls
           q == IF "interrupt" \in s.calls THEN Hit(ts) ELSE ts
           l == Launched(s.launch, dead)
<1>1. turns' = q \o l
  BY DEF Commit
<1>2. dead \in BOOLEAN /\ s.launch \in Seq(1..MaxInputs)
  BY DEF Lanes
<1>3. /\ q \in Seq(Turn) /\ Len(q) = Len(ts)
      /\ \A i \in 1..Len(ts) : /\ q[i].src = ts[i].src /\ q[i].msg = ts[i].msg
                               /\ q[i].slot = ts[i].slot /\ q[i].phase = ts[i].phase
  BY HitOK
<1>4. /\ l \in Seq(Turn) /\ Len(l) = Len(s.launch)
      /\ \A k \in 1..Len(l) : /\ l[k].src = "steer" /\ l[k].msg = s.launch[k]
                              /\ ~l[k].slot /\ l[k].phase \in {"sent", "shut"}
  <2> HIDE DEF dead
  <2>1. QED
    BY <1>2, LaunchedOK
<1> HIDE DEF q, l
<1>5. /\ q \o l \in Seq(Turn) /\ Len(q \o l) = Len(q) + Len(l)
      /\ \A i \in 1..Len(q) : (q \o l)[i] = q[i]
      /\ \A i \in 1..Len(q \o l) : i > Len(q) => /\ i - Len(q) \in 1..Len(l)
                                                /\ (q \o l)[i] = l[i - Len(q)]
  <2>1. q \o l \in Seq(Turn) /\ Len(q \o l) = Len(q) + Len(l) /\ Len(q) \in Nat /\ Len(l) \in Nat
    <3>1. q \in Seq(Turn) /\ l \in Seq(Turn)
      BY <1>3, <1>4
    <3>2. QED
      BY <3>1
  <2>2. ASSUME NEW i \in 1..Len(q)
        PROVE  (q \o l)[i] = q[i]
    BY <1>3, <1>4
  <2>3. ASSUME NEW i \in 1..Len(q \o l), i > Len(q)
        PROVE  i - Len(q) \in 1..Len(l) /\ (q \o l)[i] = l[i - Len(q)]
    BY <1>3, <1>4, <2>1, <2>3
  <2>4. QED
    BY <2>1, <2>2, <2>3
<1>6. \A i \in 1..Len(ts) :
         /\ turns'[i].src = ts[i].src /\ turns'[i].msg = ts[i].msg
         /\ turns'[i].slot = ts[i].slot /\ turns'[i].phase = ts[i].phase
  BY <1>1, <1>3, <1>5
<1>7. \A i \in 1..Len(turns') : i > Len(ts) =>
         /\ i - Len(ts) \in 1..Len(s.launch)
         /\ turns'[i].src = "steer" /\ turns'[i].msg = s.launch[i - Len(ts)]
         /\ ~turns'[i].slot /\ turns'[i].phase \in {"sent", "shut"}
  BY <1>1, <1>3, <1>4, <1>5
<1>8. QED
  BY <1>1, <1>3, <1>4, <1>5, <1>6, <1>7

LEMMA CommitLane ==
  ASSUME NEW s \in Lanes, NEW ts, NEW sl, closed \in BOOLEAN, Commit(s, ts, sl)
  PROVE  /\ lane' \in Lanes /\ lane'.st = s.st /\ lane'.retained = s.retained
         /\ lane'.failure = s.failure /\ lane'.followups = s.followups /\ lane'.cause = s.cause
         /\ lane'.turnHooks = s.turnHooks /\ lane'.closeHook = s.closeHook
         /\ lane'.cancelHook = s.cancelHook /\ lane'.stash = s.stash
         /\ lane'.calls = {} /\ lane'.launch = <<>>
         /\ closed' = (closed \/ Closes(s))
         /\ slot' \in {sl, "free"} /\ (sl # "queued" => slot' = sl)
<1> DEFINE ask == s.ask /\ ~(closed \/ "abort" \in s.calls \/ "close" \in s.calls)
                      /\ "interrupt" \notin s.calls
<1>1. /\ lane' = [s EXCEPT !.calls = {}, !.launch = <<>>, !.ask = ask]
      /\ closed' = (closed \/ Closes(s))
      /\ slot' \in {sl, "free"} /\ (sl # "queued" => slot' = sl)
  BY DEF Commit, Closes, Lanes
<1>2. ask \in BOOLEAN /\ <<>> \in Seq(1..MaxInputs)
  BY DEF Lanes
<1> HIDE DEF ask
<1>3. lane' \in Lanes
  BY <1>1, <1>2 DEF Lanes
<1>4. QED
  BY <1>1, <1>3 DEF Lanes

-----------------------------------------------------------------------------
(* The inductive invariant. *)

Running == pc \notin {"idle", "queued", "done"}
Early == {"idle", "queued", "worktree", "setup"}

\* A chain that runs holds the slot, a resumed turn that will release one has it,
\* and only a worker that has had a turn waits for a slot to resume.
Slots ==
    /\ Running => slot = "held"
    /\ \A i \in DOMAIN turns : HoldsSlot(i) => slot = "held"
    /\ \A i \in DOMAIN turns : turns[i].slot => turns[i].src = "resume"
    /\ pc = "idle" => slot = "free"
    /\ slot = "queued" /\ pc # "queued" => turns # <<>>

\* The run's own turn is the first, and exists once the agent was ready.
Begun ==
    /\ pc \in Early => turns = <<>>
    /\ pc \in ({"turn"} \cup Outcomes) \ {"aborted", "threw"} => turns # <<>>

Started ==
    /\ turns = <<>> => ~lane.turnHooks
    /\ turns # <<>> => turns[1].src = "run" /\ turns[1].phase \in {"sent", "done"}

\* An agent that was built and not closed has a session that can close it.
Kept == turns # <<>> /\ ~closed => OpenLane(lane)

\* Before that the cancel handle is the one that can.
Cancellable(s) == s.st = "pending_init" /\ s.retained /\ s.cancelHook = "abort"

Closings ==
    /\ pc \in {"salvaged", "deadline", "aborted", "threw"} => closed
    /\ closer = "closing" => closed
    /\ pc \in {"queued", "worktree", "setup"} /\ ~closed => Cancellable(lane)
    /\ pc = "idle" => lane.st = "absent"

\* A worker whose brief could be replayed is not taken up again, and one that has
\* had a second turn is noted as such.
Fresh ==
    /\ lane.failure.class = "retryable" /\ ~lane.failure.followup
          => ~lane.retained /\ slot # "queued"
    /\ Len(turns) >= 2 /\ lane.st # "absent" => lane.followups

\* Steers are inputs that were accepted.
Known ==
    /\ \A k \in DOMAIN lane.stash : lane.stash[k] <= inputs
    /\ \A i \in DOMAIN turns : turns[i].src = "steer" => turns[i].msg <= inputs

LaneInv ==
    /\ lane \in Lanes /\ lane.calls = {} /\ lane.launch = <<>> /\ lane.cause = "unset"
    /\ turns \in Seq(Turn) /\ inputs \in 0..MaxInputs /\ closed \in BOOLEAN
    /\ Recorded(lane) /\ RetryableMeansFresh /\ Fresh
    /\ SteersInOrder /\ Known
    /\ Started /\ Kept

ChainInv ==
    /\ pc \in {"idle", "queued", "worktree", "setup", "turn", "finally", "done"} \cup Outcomes
    /\ slot \in {"free", "queued", "held"}
    /\ job \in [msg : 0..MaxInputs, prior : {"completed", "interrupted"}]
    /\ cancelSignal \in BOOLEAN /\ closer \in {"idle", "waiting", "closing"}
    /\ keepFailed \in BOOLEAN /\ answered \in BOOLEAN
    /\ SlotHasOneOwner /\ Slots /\ Begun /\ Closings

WorkerInv == LaneInv /\ ChainInv

LEMMA LaneTyped == WorkerInv => TypeOK
<1> SUFFICES ASSUME WorkerInv PROVE TypeOK
  OBVIOUS
<1>1. lane \in [st : States, retained : BOOLEAN, report : BOOLEAN,
                 error : BOOLEAN, stop : Stops,
                 failure : FailureRecords \cup {NoRecord}, inFlight : BOOLEAN,
                 followups : BOOLEAN, ask : BOOLEAN, trace : Handoffs,
                 caught : Handoffs \cup {"unset"}, cause : {"unset"},
                 turnHooks : BOOLEAN, closeHook : BOOLEAN,
                 cancelHook : {"none", "abort", "dequeue"},
                 stash : Seq(1..MaxInputs), calls : {{}}, launch : {<<>>}]
  BY DEF WorkerInv, LaneInv, Lanes
<1>2. QED
  BY <1>1 DEF TypeOK, WorkerInv, LaneInv, ChainInv

LEMMA OrderKept ==
  ASSUME LaneInv, NEW s \in Lanes, NEW ts \in Seq(Turn), NEW sl, Commit(s, ts, sl),
         \A i \in 1..Len(ts) : ts[i].src = "steer" =>
            i \in 1..Len(turns) /\ turns[i].src = "steer" /\ ts[i].msg = turns[i].msg,
         Sorted(s), inputs' \in 0..MaxInputs, inputs <= inputs',
         \A m \in Steers(s) : m \in Steers(lane) \/ (inputs < m /\ m <= inputs')
  PROVE  SteersInOrder' /\ Known'
<1>1. /\ turns' \in Seq(Turn)
      /\ \A i \in 1..Len(ts) : turns'[i].src = ts[i].src /\ turns'[i].msg = ts[i].msg
      /\ \A i \in 1..Len(turns') : i > Len(ts) =>
             /\ i - Len(ts) \in 1..Len(s.launch) /\ turns'[i].msg = s.launch[i - Len(ts)]
  BY CommitTurns, SMTT(60) DEF LaneInv
<1>2. lane'.stash = s.stash
  BY CommitLane DEF LaneInv
<1>3. /\ s.launch \in Seq(1..MaxInputs) /\ s.stash \in Seq(1..MaxInputs)
      /\ lane.stash \in Seq(1..MaxInputs) /\ turns \in Seq(Turn)
      /\ MaxInputs \in Nat /\ inputs \in Nat /\ inputs' \in Nat
  BY ConstantsAssumption DEF LaneInv, Lanes
<1>4. \A i \in 1..Len(turns) : turns[i].msg \in Nat
  <2>1. \A i \in 1..Len(turns) : turns[i] \in Turn
    BY <1>3, ElementOK
  <2>2. QED
    BY <1>3, <2>1 DEF Turn
<1>5. Steers(s) \subseteq Nat
  <2>1. \A k \in DOMAIN s.stash : s.stash[k] \in 1..MaxInputs
    BY <1>3, ElementOK
  <2>2. \A k \in DOMAIN s.launch : s.launch[k] \in 1..MaxInputs
    BY <1>3, ElementOK, SMTT(60)
  <2>3. QED
    BY <1>3, <2>1, <2>2 DEF Steers
<1>6. ASSUME NEW m \in Steers(s)
      PROVE  /\ m <= inputs'
             /\ \A i \in 1..Len(ts) : ts[i].src = "steer" => ts[i].msg < m
  <2>1. CASE inputs < m /\ m <= inputs'
    <3>1. ASSUME NEW i \in 1..Len(turns), turns[i].src = "steer"
          PROVE  turns[i].msg <= inputs
      BY <1>3, <3>1 DEF LaneInv, Known
    <3>2. m \in Nat /\ m <= inputs'
      BY <1>5, <2>1
    <3>3. ASSUME NEW i \in 1..Len(ts), ts[i].src = "steer"
          PROVE  ts[i].msg < m
      <4>1. i \in 1..Len(turns) /\ turns[i].src = "steer" /\ ts[i].msg = turns[i].msg
        BY <3>3
      <4>2. turns[i].msg <= inputs /\ turns[i].msg \in Nat
        BY <1>4, <3>1, <4>1
      <4>3. QED
        BY <1>3, <2>1, <3>2, <4>1, <4>2
    <3>4. QED
      BY <3>2, <3>3
  <2>2. CASE m \in Steers(lane)
    <3>1. PICK k \in DOMAIN lane.stash : m = lane.stash[k]
      BY <2>2 DEF Steers, LaneInv
    <3>2. m <= inputs
      BY <3>1 DEF LaneInv, Known
    <3>3. ASSUME NEW i \in 1..Len(turns), turns[i].src = "steer"
          PROVE  turns[i].msg < m
      BY <1>3, <3>1, <3>3 DEF LaneInv, SteersInOrder
    <3>4. m <= inputs'
      BY <1>3, <1>5, <3>2
    <3>5. QED
      BY <3>3, <3>4
  <2>3. QED
    BY <2>1, <2>2
<1>7. \A i \in 1..Len(s.launch) : s.launch[i] \in Steers(s)
  BY <1>3 DEF Steers
<1>8. \A i \in DOMAIN s.stash : s.stash[i] \in Steers(s)
  BY DEF Steers
<1>9. ASSUME NEW i \in 1..Len(turns'), turns'[i].src = "steer", NEW m, m \in Steers(s)
      PROVE  i <= Len(ts) => turns'[i].msg < m
  BY <1>1, <1>6, <1>9
<1>10. Len(ts) \in Nat /\ Len(turns') \in Nat /\ DOMAIN turns' = 1..Len(turns')
       /\ Len(s.launch) \in Nat /\ DOMAIN s.launch = 1..Len(s.launch)
  BY <1>1, <1>3
<1>11. ASSUME NEW i \in DOMAIN turns', NEW j \in DOMAIN turns', i < j,
              turns'[i].src = "steer", turns'[j].src = "steer"
       PROVE  turns'[i].msg < turns'[j].msg
  <2>1. CASE j <= Len(ts)
    <3>1. i \in 1..Len(ts) /\ j \in 1..Len(ts)
      BY <1>10, <1>11, <2>1
    <3>2. /\ i \in DOMAIN turns /\ turns[i].src = "steer" /\ turns'[i].msg = turns[i].msg
          /\ j \in DOMAIN turns /\ turns[j].src = "steer" /\ turns'[j].msg = turns[j].msg
      <4>1. ts[i].src = "steer" /\ ts[j].src = "steer"
        BY <1>1, <1>11, <3>1
      <4>2. /\ i \in 1..Len(turns) /\ turns[i].src = "steer" /\ ts[i].msg = turns[i].msg
            /\ j \in 1..Len(turns) /\ turns[j].src = "steer" /\ ts[j].msg = turns[j].msg
        BY <3>1, <4>1
      <4>3. turns'[i].msg = ts[i].msg /\ turns'[j].msg = ts[j].msg /\ DOMAIN turns = 1..Len(turns)
        BY <1>1, <1>3, <3>1
      <4>4. QED
        BY <4>2, <4>3
    <3>3. QED
      BY <1>11, <3>2 DEF LaneInv, SteersInOrder
  <2>2. CASE j > Len(ts)
    <3>1. j - Len(ts) \in 1..Len(s.launch) /\ turns'[j].msg = s.launch[j - Len(ts)]
      BY <1>1, <1>10, <2>2
    <3>2. CASE i <= Len(ts)
      BY <1>7, <1>9, <1>10, <1>11, <3>1, <3>2
    <3>3. CASE i > Len(ts)
      <4>1. i - Len(ts) \in 1..Len(s.launch) /\ turns'[i].msg = s.launch[i - Len(ts)]
        BY <1>1, <1>10, <3>3
      <4>2. i - Len(ts) < j - Len(ts)
        BY <1>10, <1>11
      <4>3. QED
        BY <1>10, <3>1, <4>1, <4>2 DEF Sorted
    <3>4. QED
      BY <1>10, <3>2, <3>3
  <2>3. QED
    BY <1>10, <2>1, <2>2
<1>12. ASSUME NEW i \in DOMAIN turns', turns'[i].src = "steer", NEW k \in DOMAIN s.stash
       PROVE  turns'[i].msg < s.stash[k]
  <2>1. CASE i <= Len(ts)
    BY <1>8, <1>9, <1>10, <1>12, <2>1
  <2>2. CASE i > Len(ts)
    BY <1>1, <1>10, <1>12, <2>2 DEF Sorted
  <2>3. QED
    BY <1>10, <2>1, <2>2
<1>13. ASSUME NEW i \in DOMAIN turns', turns'[i].src = "steer"
       PROVE  turns'[i].msg <= inputs'
  <2>1. CASE i <= Len(ts)
    <3>1. i \in 1..Len(turns) /\ turns[i].src = "steer" /\ turns'[i].msg = turns[i].msg
      BY <1>1, <1>10, <1>13, <2>1
    <3>2. turns[i].msg <= inputs
      BY <1>3, <3>1 DEF LaneInv, Known
    <3>3. QED
      BY <1>3, <1>4, <3>1, <3>2
  <2>2. CASE i > Len(ts)
    BY <1>1, <1>6, <1>7, <1>10, <1>13, <2>2
  <2>3. QED
    BY <1>10, <2>1, <2>2
<1>14. SteersInOrder'
  BY <1>2, <1>11, <1>12 DEF SteersInOrder, Sorted
<1>15. Known'
  BY <1>2, <1>6, <1>8, <1>13 DEF Known
<1>16. QED
  BY <1>14, <1>15

-----------------------------------------------------------------------------
(* A commit whose turns are those there were keeps the invariant. *)

\* The lane a step may store.
Carries(s) ==
    /\ s \in Lanes /\ Changes(lane, s) /\ Abides(lane, s) /\ Recorded(s) /\ s.cause = "unset"
    /\ closed \/ StaysOpen(lane, s)
    /\ s.failure.class = "retryable" =>
          \/ s.failure = lane.failure
          \/ /\ lane.st # "absent" /\ s.launch = lane.launch
             /\ s.failure.followup = lane.followups
             /\ lane.followups \/ (~s.retained /\ slot = "held")

LEMMA StoresCarry ==
  ASSUME LaneInv, NEW s, Stores(lane, s), closed \/ StaysOpen(lane, s)
  PROVE  Carries(s)
<1>1. Changes(lane, s) /\ Abides(lane, s)
  BY MovesAbide DEF Stores, Stamps, Moves
<1>2. QED
  BY <1>1 DEF LaneInv, Stores, Stamps, Carries

LEMMA LaneCarries == LaneInv => Stores(lane, lane) /\ StaysOpen(lane, lane) /\ Carries(lane)
<1>1. LaneInv => Stores(lane, lane) /\ StaysOpen(lane, lane)
  BY DEF LaneInv, Stores, Stamps, Moves, Changes, Ends, Paused, Over, SteersKept, StaysOpen
<1>2. QED
  BY <1>1, StoresCarry

LEMMA TurnsAreLike == LaneInv => TurnsLike(turns)
BY DEF LaneInv, TurnsLike

LEMMA LaneKept ==
  ASSUME LaneInv, NEW s, NEW ts, NEW sl, Carries(s), TurnsLike(ts), Commit(s, ts, sl),
         sl = "queued" => slot = "queued", inputs' = inputs
  PROVE  LaneInv' /\ (turns = <<>> => turns' = <<>>)
<1>1. s \in Lanes /\ ts \in Seq(Turn) /\ closed \in BOOLEAN /\ s.launch \in Seq(1..MaxInputs)
  BY DEF Carries, TurnsLike, LaneInv, Lanes
<1>2. /\ lane' \in Lanes /\ lane'.st = s.st /\ lane'.retained = s.retained
      /\ lane'.failure = s.failure /\ lane'.followups = s.followups /\ lane'.cause = "unset"
      /\ lane'.turnHooks = s.turnHooks /\ lane'.closeHook = s.closeHook
      /\ lane'.calls = {} /\ lane'.launch = <<>>
      /\ closed' = (closed \/ Closes(s))
      /\ slot' \in {sl, "free"}
  BY <1>1, CommitLane DEF Carries
<1>3. /\ turns' \in Seq(Turn) /\ Len(turns') = Len(turns) + Len(s.launch)
      /\ Len(turns) \in Nat /\ Len(s.launch) \in Nat
      /\ Len(turns) >= 1 => /\ turns'[1].src = turns[1].src
                            /\ turns'[1].phase = turns[1].phase
  <2>1. Len(ts) = Len(turns) /\ Len(turns) \in Nat
    BY DEF TurnsLike, LaneInv
  <2>2. /\ turns' \in Seq(Turn) /\ Len(turns') = Len(ts) + Len(s.launch)
        /\ \A i \in 1..Len(ts) : /\ turns'[i].src = ts[i].src
                                 /\ turns'[i].phase = ts[i].phase
    BY <1>1, CommitTurns
  <2>3. Len(turns) >= 1 => /\ turns # <<>> /\ 1 \in 1..Len(turns)
    BY <2>1 DEF LaneInv
  <2>4. QED
    BY <1>1, <2>1, <2>2, <2>3 DEF TurnsLike
<1>4. SteersInOrder' /\ Known'
  <2>1. \A i \in 1..Len(ts) : ts[i].src = "steer" =>
           i \in 1..Len(turns) /\ turns[i].src = "steer" /\ ts[i].msg = turns[i].msg
    BY DEF TurnsLike
  <2>2. Sorted(lane)
    BY DEF LaneInv, SteersInOrder, Sorted
  <2>3. Sorted(s) /\ Steers(s) \subseteq Steers(lane)
    BY <2>2 DEF Carries, Moves, Changes, Ends, Paused, Over, SteersKept
  <2>4. inputs \in 0..MaxInputs /\ inputs <= inputs'
    BY ConstantsAssumption DEF LaneInv
  <2>5. QED
    BY <1>1, <2>1, <2>3, <2>4, OrderKept
<1>5. Len(s.launch) # 0 => /\ s.followups \/ s.st = "absent"
                           /\ lane.turnHooks /\ lane.failure = NoRecord
  BY <1>1 DEF LaneInv, Carries, Moves, Changes, Ends, Paused, Over, Recorded
<1>6. turns = <<>> => turns' = <<>> /\ Len(s.launch) = 0
  BY <1>1, <1>3, <1>5 DEF LaneInv, Started
<1>7. /\ s.failure.class = "retryable" /\ ~s.failure.followup => Len(turns') <= 1
      /\ s.failure.class = "retryable" /\ ~s.failure.followup => ~s.retained /\ slot' # "queued"
  <2> SUFFICES ASSUME s.failure.class = "retryable", ~s.failure.followup
               PROVE  Len(turns') <= 1 /\ ~s.retained /\ slot' # "queued"
    OBVIOUS
  <2>1. CASE s.failure = lane.failure
    <3>1. lane.failure # NoRecord
      BY <2>1 DEF NoRecord
    <3>2. Len(turns) <= 1 /\ ~lane.retained /\ slot # "queued"
      BY <2>1 DEF LaneInv, RetryableMeansFresh, Fresh
    <3>3. QED
      BY <1>2, <1>3, <1>5, <3>1, <3>2 DEF Carries, Moves, Changes, Ends, Paused, Over
  <2>2. CASE s.failure # lane.failure
    <3>1. /\ lane.st # "absent" /\ s.launch = lane.launch
          /\ ~lane.followups /\ ~s.retained /\ slot = "held"
      BY <2>2 DEF Carries
    <3>2. ~(Len(turns) >= 2) /\ Len(s.launch) = 0
      BY <3>1 DEF LaneInv, Fresh
    <3>3. QED
      BY <1>2, <1>3, <3>1, <3>2
  <2>3. QED
    BY <2>1, <2>2
<1>8. Len(turns') >= 2 /\ s.st # "absent" => s.followups
  BY <1>1, <1>3, <1>5 DEF Carries, Moves, Changes, Ends, Paused, Over, LaneInv, Fresh
<1>9. Started'
  <2>1. turns' = <<>> => turns = <<>>
    BY <1>3 DEF LaneInv
  <2>2. turns' = <<>> => ~lane'.turnHooks
    BY <1>2, <2>1 DEF Carries, Moves, Changes, Ends, Paused, Over, LaneInv, Started
  <2>3. turns # <<>> => Len(turns) >= 1
    BY <1>3 DEF LaneInv
  <2>4. turns' # <<>> => turns'[1].src = "run" /\ turns'[1].phase \in {"sent", "done"}
    BY <1>3, <1>6, <2>3 DEF LaneInv, Started
  <2>5. QED
    BY <2>2, <2>4 DEF Started
<1>10. Kept'
  <2>1. turns' # <<>> /\ ~closed' => OpenLane(s)
    BY <1>2, <1>6 DEF Carries, LaneInv, Kept, StaysOpen
  <2>2. QED
    BY <1>2, <2>1 DEF Kept, OpenLane
<1>11. Recorded(lane')
  BY <1>2 DEF Carries, Recorded
<1>12. RetryableMeansFresh' /\ Fresh'
  BY <1>2, <1>7, <1>8 DEF RetryableMeansFresh, Fresh
<1>13. closed' \in BOOLEAN /\ inputs' \in 0..MaxInputs
  BY <1>2 DEF LaneInv, Closes
<1>14. QED
  BY <1>2, <1>3, <1>4, <1>6, <1>9, <1>10, <1>11, <1>12, <1>13 DEF LaneInv, Recorded

\* The turns that hold the slot are those that held it.
OwnersKept ==
    /\ \A i \in DOMAIN turns' : turns'[i].slot /\ turns'[i].phase # "done"
                                  => i \in DOMAIN turns /\ HoldsSlot(i)
    /\ \A i \in DOMAIN turns : HoldsSlot(i) =>
          i \in DOMAIN turns' /\ turns'[i].slot /\ turns'[i].phase # "done"
    /\ \A i \in DOMAIN turns' : turns'[i].slot => turns'[i].src = "resume"

LEMMA CommitOwners ==
  ASSUME WorkerInv, NEW s \in Lanes, NEW ts, NEW sl, TurnsLike(ts), Commit(s, ts, sl)
  PROVE  OwnersKept /\ Len(turns') >= Len(turns)
<1>1. /\ ts \in Seq(Turn) /\ Len(ts) = Len(turns) /\ turns \in Seq(Turn)
      /\ DOMAIN turns = 1..Len(turns) /\ Len(turns) \in Nat /\ closed \in BOOLEAN
  BY DEF TurnsLike, WorkerInv, LaneInv
<1>2. /\ turns' \in Seq(Turn) /\ Len(turns') = Len(ts) + Len(s.launch)
      /\ \A i \in 1..Len(ts) :
            /\ turns'[i].src = ts[i].src
            /\ turns'[i].slot = ts[i].slot /\ turns'[i].phase = ts[i].phase
      /\ \A i \in 1..Len(turns') : i > Len(ts) => ~turns'[i].slot
  BY <1>1, CommitTurns
<1>3. DOMAIN turns' = 1..Len(turns') /\ Len(turns') \in Nat /\ Len(turns') >= Len(turns)
  <2>1. Len(s.launch) \in Nat
    BY DEF Lanes
  <2>2. QED
    BY <1>1, <1>2, <2>1
<1>4. ASSUME NEW i \in DOMAIN turns', turns'[i].slot
      PROVE  /\ i \in DOMAIN turns /\ turns[i].slot /\ turns'[i].src = "resume"
             /\ turns'[i].phase # "done" => turns[i].phase # "done"
  <2>1. i \in 1..Len(turns)
    BY <1>1, <1>2, <1>3, <1>4
  <2>2. /\ ts[i].slot /\ turns[i].slot /\ turns'[i].src = turns[i].src
        /\ turns'[i].phase = ts[i].phase /\ (ts[i].phase = "done" <=> turns[i].phase = "done")
    BY <1>1, <1>2, <1>4, <2>1 DEF TurnsLike
  <2>3. turns[i].src = "resume"
    BY <1>1, <2>1, <2>2 DEF WorkerInv, ChainInv, Slots
  <2>4. QED
    BY <1>1, <2>1, <2>2, <2>3
<1>5. ASSUME NEW i \in DOMAIN turns, HoldsSlot(i)
      PROVE  i \in DOMAIN turns' /\ turns'[i].slot /\ turns'[i].phase # "done"
  <2>1. i \in 1..Len(turns) /\ i \in DOMAIN turns'
    BY <1>1, <1>3
  <2>2. ts[i].slot /\ ts[i].phase # "done"
    BY <1>5, <2>1 DEF TurnsLike, HoldsSlot
  <2>3. QED
    BY <1>1, <1>2, <2>1, <2>2
<1>6. QED
  BY <1>3, <1>4, <1>5 DEF OwnersKept, HoldsSlot

LEMMA SlotsKept ==
  ASSUME WorkerInv, OwnersKept, slot' = slot, pc' = pc, turns # <<>> => turns' # <<>>
  PROVE  SlotHasOneOwner' /\ Slots'
<1>1. SlotHasOneOwner'
  BY DEF WorkerInv, ChainInv, SlotHasOneOwner, OwnersKept, HoldsSlot
<1>2. Slots'
  BY DEF WorkerInv, ChainInv, Slots, OwnersKept, HoldsSlot, Running
<1>3. QED
  BY <1>1, <1>2

\* The slot of a queued worker leaves the queue: nothing held it.
LEMMA SlotFreed ==
  ASSUME WorkerInv, OwnersKept, slot = "queued", slot' = "free", pc' = pc
  PROVE  SlotHasOneOwner' /\ Slots'
<1>1. ~Running /\ \A i \in DOMAIN turns : ~HoldsSlot(i)
  BY DEF WorkerInv, ChainInv, Slots
<1>2. SlotHasOneOwner'
  BY <1>1 DEF SlotHasOneOwner, OwnersKept, HoldsSlot, Running
<1>3. Slots'
  BY <1>1 DEF WorkerInv, ChainInv, Slots, OwnersKept, HoldsSlot, Running
<1>4. QED
  BY <1>2, <1>3

\* A worker is taken up again from a pause only, and begins once.
Honest ==
    \/ Abides(lane, lane')
    \/ lane.st \in {"absent"} \cup Paused /\ lane'.st \in RunEligible

LEMMA CommitHonest ==
  ASSUME LaneInv, NEW s, NEW ts, NEW sl, Carries(s), Commit(s, ts, sl)
  PROVE  Honest
<1>1. lane'.st = s.st /\ lane'.failure = s.failure
  BY CommitLane DEF Carries, LaneInv
<1>2. QED
  BY <1>1 DEF Carries, Honest, Abides

LEMMA SameHonest ==
  ASSUME lane'.st = lane.st, lane'.failure = lane.failure
  PROVE  Honest
BY DEF Honest, Abides, RunEligible

LEMMA StepKept ==
  ASSUME WorkerInv, NEW s, NEW ts, Carries(s), TurnsLike(ts), Commit(s, ts, slot),
         pc' = pc, job' = job, inputs' = inputs, keepFailed' \in BOOLEAN,
         closer' \in {"idle", "waiting", "closing"},
         closer' = "closing" => closed \/ Closes(s),
         pc \in {"queued", "worktree", "setup"} => closed \/ Cancellable(s) \/ Closes(s)
  PROVE  WorkerInv' /\ Honest
<1>1. LaneInv' /\ (turns = <<>> => turns' = <<>>)
  BY LaneKept DEF WorkerInv
<1>2. OwnersKept /\ Len(turns') >= Len(turns)
  BY CommitOwners DEF Carries
<1>3. /\ closed' = (closed \/ Closes(s)) /\ lane'.st = s.st /\ lane'.retained = s.retained
      /\ lane'.cancelHook = s.cancelHook
      /\ slot' \in {slot, "free"} /\ (slot # "queued" => slot' = slot)
  BY CommitLane DEF Carries, WorkerInv, LaneInv
<1>4. turns # <<>> => turns' # <<>>
  BY <1>2 DEF WorkerInv, LaneInv
<1>5. SlotHasOneOwner' /\ Slots'
  <2>1. CASE slot' = slot
    BY <1>2, <1>4, <2>1, SlotsKept
  <2>2. CASE slot' # slot
    BY <1>2, <1>3, <2>2, SlotFreed
  <2>3. QED
    BY <2>1, <2>2
<1>6. Begun'
  BY <1>1, <1>4 DEF WorkerInv, ChainInv, Begun, Early
<1>7. Closings'
  <2>1. pc = "idle" => lane.st = "absent"
    BY DEF WorkerInv, ChainInv, Closings
  <2>2. pc' = "idle" => lane'.st = "absent"
    BY <1>3, <2>1 DEF Carries, Changes
  <2>3. QED
    BY <1>3, <2>2 DEF WorkerInv, ChainInv, Closings, Cancellable
<1>8. cancelSignal' \in BOOLEAN /\ answered' \in BOOLEAN /\ slot' \in {"free", "queued", "held"}
  BY <1>3 DEF WorkerInv, ChainInv, Commit
<1>9. Honest
  BY CommitHonest DEF WorkerInv
<1>10. QED
  BY <1>1, <1>5, <1>6, <1>7, <1>8, <1>9 DEF WorkerInv, ChainInv

\* A step that stores the lane itself and sends nothing.
LEMMA DirectKept ==
  ASSUME LaneInv, Stores(lane, lane'), lane'.st = lane.st, Fixed(lane, lane'),
         lane'.launch = <<>>, turns' \in Seq(Turn), Len(turns') = Len(turns),
         \A i \in 1..Len(turns) : turns'[i].src = turns[i].src /\ turns'[i].msg = turns[i].msg,
         turns # <<>> => turns'[1].phase \in {"sent", "done"},
         inputs' = inputs, closed => closed', closed' \in BOOLEAN,
         slot' = "queued" => slot = "queued"
  PROVE  LaneInv' /\ (turns = <<>> <=> turns' = <<>>)
<1>1. /\ lane' \in Lanes /\ Recorded(lane') /\ lane'.cause = "unset" /\ lane'.calls = {}
      /\ lane'.failure.class = "retryable" => lane'.failure = lane.failure
      /\ lane'.retained = lane.retained /\ lane'.turnHooks = lane.turnHooks
      /\ lane.followups => lane'.followups \/ lane'.st = "absent"
      /\ OpenLane(lane) => OpenLane(lane')
  BY DEF LaneInv, Stores, Stamps, Fixed, Moves, Changes, Ends, Paused, Over, OpenLane
<1>2. /\ turns \in Seq(Turn) /\ Len(turns) \in Nat /\ (turns = <<>> <=> turns' = <<>>)
      /\ DOMAIN turns = 1..Len(turns) /\ DOMAIN turns' = 1..Len(turns)
  BY DEF LaneInv
<1>3. SteersInOrder' /\ Known'
  <2>1. Sorted(lane)
    BY DEF LaneInv, SteersInOrder, Sorted
  <2>2. Sorted(lane') /\ Steers(lane') \subseteq Steers(lane)
    BY <2>1 DEF Stores, Moves, Changes, Ends, Paused, Over, SteersKept
  <2>3. \A k \in DOMAIN lane'.stash : \E j \in DOMAIN lane.stash : lane'.stash[k] = lane.stash[j]
    <3>1. \A m \in Steers(lane) : \E j \in DOMAIN lane.stash : m = lane.stash[j]
      BY DEF Steers, LaneInv
    <3>2. \A k \in DOMAIN lane'.stash : lane'.stash[k] \in Steers(lane')
      BY DEF Steers
    <3>3. QED
      BY <2>2, <3>1, <3>2
  <2>4. Known'
    <3>1. \A k \in DOMAIN lane'.stash : lane'.stash[k] <= inputs
      BY <2>3 DEF LaneInv, Known
    <3>2. \A i \in DOMAIN turns' : turns'[i].src = "steer" => turns'[i].msg <= inputs
      BY <1>2 DEF LaneInv, Known
    <3>3. QED
      BY <3>1, <3>2 DEF Known
  <2>5. \A i, j \in DOMAIN turns' :
           turns'[i].src = "steer" /\ turns'[j].src = "steer" /\ i < j
              => turns'[i].msg < turns'[j].msg
    BY <1>2 DEF LaneInv, SteersInOrder
  <2>6. \A i \in DOMAIN turns' : turns'[i].src = "steer" =>
           \A k \in DOMAIN lane'.stash : turns'[i].msg < lane'.stash[k]
    BY <1>2, <2>3 DEF LaneInv, SteersInOrder
  <2>7. SteersInOrder'
    BY <2>2, <2>5, <2>6 DEF SteersInOrder, Sorted
  <2>8. QED
    BY <2>4, <2>7
<1>4. RetryableMeansFresh' /\ Fresh'
  BY <1>1 DEF LaneInv, RetryableMeansFresh, Fresh
<1>5. Started'
  BY <1>1, <1>2 DEF LaneInv, Started
<1>6. Kept'
  BY <1>1, <1>2 DEF LaneInv, Kept
<1>7. inputs' \in 0..MaxInputs
  BY DEF LaneInv
<1>8. QED
  BY <1>1, <1>2, <1>3, <1>4, <1>5, <1>6, <1>7 DEF LaneInv

LEMMA LaneStays ==
  ASSUME LaneInv, Quiet(lane, lane'), lane' \in Lanes
  PROVE  Stores(lane, lane') /\ Fixed(lane, lane') /\ lane'.st = lane.st /\ lane'.launch = <<>>
<1>1. lane \in Lanes /\ lane.launch = <<>>
  BY DEF LaneInv
<1>2. QED
  BY <1>1, QuietStores DEF Quiet, Same

\* A settlement that changes the phase of one follow-up.
LEMMA InPhaseOK ==
  ASSUME LaneInv, NEW i \in DOMAIN turns, NEW phase \in Phases
  PROVE  /\ InPhase(i, phase) \in Seq(Turn) /\ Len(InPhase(i, phase)) = Len(turns)
         /\ \A j \in 1..Len(turns) :
               /\ InPhase(i, phase)[j].src = turns[j].src /\ InPhase(i, phase)[j].msg = turns[j].msg
               /\ InPhase(i, phase)[j].slot = turns[j].slot
               /\ j # i => InPhase(i, phase)[j].phase = turns[j].phase
         /\ InPhase(i, phase)[i].phase = phase
<1> DEFINE t == [turns[i] EXCEPT !.phase = phase]
<1>1. turns \in Seq(Turn) /\ i \in 1..Len(turns) /\ turns[i] \in Turn
  BY DEF LaneInv
<1>2. /\ t \in Turn /\ t.src = turns[i].src /\ t.msg = turns[i].msg /\ t.slot = turns[i].slot
      /\ t.phase = phase
  BY <1>1 DEF Turn
<1>3. InPhase(i, phase) = [turns EXCEPT ![i] = t]
  BY DEF InPhase
<1> HIDE DEF t
<1>4. QED
  BY <1>1, <1>2, <1>3

LEMMA InPhaseLike ==
  ASSUME LaneInv, NEW i \in DOMAIN turns, NEW phase \in Phases, i # 1,
         turns[i].slot => (phase = "done" <=> turns[i].phase = "done")
  PROVE  TurnsLike(InPhase(i, phase))
<1>2. turns # <<>> => 1 \in 1..Len(turns)
  BY DEF LaneInv
<1>3. QED
  BY <1>2, InPhaseOK DEF TurnsLike

-----------------------------------------------------------------------------
(* The lanes the settlements store. *)

LEMMA QuietCarries ==
  ASSUME LaneInv, NEW t \in Lanes, Quiet(lane, t), NEW u \in Lanes,
         Moves(t, u), Recorded(u), u.cause = "unset", StaysOpen(t, u),
         t.failure # NoRecord /\ t.st \notin RunEligible =>
            u.failure = t.failure \/ (t.st = "interrupted" /\ u.st = "failed"),
         u.failure.class = "retryable" =>
            \/ u.failure = t.failure
            \/ /\ t.st # "absent" /\ u.launch = t.launch /\ u.failure.followup = t.followups
               /\ lane.followups \/ (~u.retained /\ slot = "held")
  PROVE  Carries(u)
<1>1. Moves(lane, t) /\ Same(lane, t) /\ t.failure = lane.failure
  BY QuietMoves DEF Quiet
<1>2. Moves(lane, u)
  BY <1>1, MovesCompose
<1>3. StaysOpen(lane, u)
  BY <1>1 DEF StaysOpen, OpenLane, Closes, Same
<1>4. Changes(lane, u) /\ Abides(lane, u)
  BY <1>1, <1>2, MovesAbide DEF Moves, Same
<1>5. QED
  BY <1>1, <1>3, <1>4 DEF Carries, Same

LEMMA FailCarries ==
  ASSUME LaneInv, NEW t \in Lanes, Quiet(lane, t), NEW cause \in Causes,
         lane.st = "absent" \/ lane.followups \/ slot = "held"
  PROVE  Carries(Fail(t, cause))
<1> DEFINE u == Fail(t, cause)
<1>1. t.cause = "unset" /\ Recorded(t) /\ Same(lane, t)
  BY QuietMoves DEF LaneInv, Quiet
<1>2. /\ u \in Lanes /\ Moves(t, u) /\ Recorded(u) /\ StaysOpen(t, u)
      /\ u.cause = "unset" /\ u.launch = t.launch
      /\ u.failure.class = "retryable"
            => u.failure = t.failure
               \/ (t.st # "absent" /\ u.failure.followup = t.followups /\ ~u.retained)
      /\ t.failure # NoRecord /\ t.st \notin RunEligible => u.failure = t.failure
  BY <1>1, FailOK
<1> HIDE DEF u
<1>3. Carries(u)
  BY <1>1, <1>2, QuietCarries DEF Same
<1>4. QED
  BY <1>3 DEF u

LEMMA RestoreLaneCarries ==
  ASSUME LaneInv, NEW prior \in {"completed", "interrupted"}, NEW cause \in Causes,
         lane.st = "absent" \/ lane.followups
  PROVE  Carries(RestoreLane(lane, prior, cause))
<1> DEFINE u == RestoreLane(lane, prior, cause)
<1>1. lane \in Lanes /\ lane.cause = "unset" /\ Recorded(lane) /\ Quiet(lane, lane)
  BY DEF LaneInv, Quiet, Same
<1>2. /\ u \in Lanes /\ Moves(lane, u) /\ Recorded(u) /\ StaysOpen(lane, u)
      /\ u.cause = "unset" /\ u.launch = lane.launch
      /\ u.failure.class = "retryable"
            => u.failure = lane.failure
               \/ (lane.st # "absent" /\ u.failure.followup = lane.followups)
      /\ lane.failure # NoRecord /\ lane.st \notin RunEligible => u.failure = lane.failure
  BY <1>1, RestoreLaneOK
<1> HIDE DEF u
<1>3. Carries(u)
  BY <1>1, <1>2, QuietCarries
<1>4. QED
  BY <1>3 DEF u

LEMMA FailClosedCarries ==
  ASSUME LaneInv
  PROVE  Carries(FailClosed(lane))
<1> DEFINE u == FailClosed(lane)
<1>1. lane \in Lanes /\ lane.cause = "unset" /\ Recorded(lane) /\ Quiet(lane, lane)
  BY DEF LaneInv, Quiet, Same
<1>2. /\ u \in Lanes /\ Moves(lane, u) /\ Recorded(u) /\ StaysOpen(lane, u)
      /\ u.cause = "unset" /\ u.launch = lane.launch
      /\ u.failure.class = "retryable" => u.failure = lane.failure
      /\ lane.failure # NoRecord /\ lane.st \notin RunEligible =>
            u.failure = lane.failure \/ (lane.st = "interrupted" /\ u.st = "failed")
  BY <1>1, FailClosedOK
<1> HIDE DEF u
<1>3. Carries(u)
  BY <1>1, <1>2, QuietCarries
<1>4. QED
  BY <1>3 DEF u

-----------------------------------------------------------------------------
(* One step per action: those that leave the chain where it is. *)

LEMMA FollowupOK ==
  ASSUME WorkerInv, NEW i \in DOMAIN turns, turns[i].phase \notin {"sent", "done"}
  PROVE  /\ i # 1 /\ pc \notin Early /\ turns[i] \in Turn
         /\ lane.st = "absent" \/ lane.followups
         /\ TurnsLike(Chained(i))
         /\ \A phase \in Phases \ {"done"} : TurnsLike(InPhase(i, phase))
<1>1. turns \in Seq(Turn) /\ turns # <<>> /\ i \in 1..Len(turns) /\ Len(turns) \in Nat
  BY DEF WorkerInv, LaneInv
<1>2. i # 1 /\ Len(turns) >= 2
  <2>1. turns[1].phase \in {"sent", "done"}
    BY <1>1 DEF WorkerInv, LaneInv, Started
  <2>2. QED
    BY <1>1, <2>1
<1>3. pc \notin Early /\ (lane.st = "absent" \/ lane.followups)
  BY <1>1, <1>2 DEF WorkerInv, LaneInv, ChainInv, Begun, Fresh
<1>4. ASSUME NEW phase \in Phases \ {"done"}
      PROVE  TurnsLike(InPhase(i, phase))
  BY <1>2, InPhaseLike DEF WorkerInv
<1>5. TurnsLike(Chained(i))
  <2>1. CASE turns[i].src = "resume"
    <3>1. "finally" \in Phases \ {"done"}
      BY DEF Phases
    <3>2. QED
      BY <1>4, <2>1, <3>1 DEF Chained
  <2>2. CASE turns[i].src # "resume"
    <3>1. ~turns[i].slot /\ "done" \in Phases
      BY <2>2 DEF WorkerInv, ChainInv, Slots, Phases, Turn, LaneInv
    <3>2. QED
      BY <1>2, <2>2, <3>1, InPhaseLike DEF Chained, WorkerInv
  <2>3. QED
    BY <2>1, <2>2
<1>6. turns[i] \in Turn
  BY <1>1
<1>7. QED
  BY <1>2, <1>3, <1>4, <1>5, <1>6

LEMMA FollowupStepKept ==
  ASSUME WorkerInv, NEW s, NEW ts, Carries(s), TurnsLike(ts), Commit(s, ts, slot),
         pc \notin Early, UNCHANGED <<pc, job, closer, keepFailed, inputs>>
  PROVE  WorkerInv' /\ Honest
<1>1. /\ keepFailed' \in BOOLEAN /\ closer' \in {"idle", "waiting", "closing"}
      /\ closer' = "closing" => closed
  BY DEF WorkerInv, ChainInv, Closings
<1>2. pc \notin {"queued", "worktree", "setup"}
  BY DEF Early
<1>3. QED
  BY <1>1, <1>2, StepKept

LEMMA TurnSettlesKept ==
  ASSUME WorkerInv, NEW i \in DOMAIN turns, TurnSettles(i)
  PROVE  WorkerInv' /\ Honest
<1> DEFINE down == [lane EXCEPT !.inFlight = FALSE]
           src == turns[i].src
<1>1. turns[i].phase \notin {"sent", "done"}
  BY DEF TurnSettles
<1>2. /\ pc \notin Early /\ src \in Sources /\ TurnsLike(Chained(i))
      /\ lane.st = "absent" \/ lane.followups
      /\ \A phase \in Phases \ {"done"} : TurnsLike(InPhase(i, phase))
  BY <1>1, FollowupOK DEF Turn
<1>3. LaneInv /\ lane \in Lanes /\ lane.cause = "unset"
  BY DEF WorkerInv, LaneInv
<1>4. UNCHANGED <<pc, job, closer, keepFailed, inputs>>
  BY DEF TurnSettles
<1>5. ASSUME NEW t \in {lane, down}
      PROVE  Carries(OnFail(t, src, "error"))
  <2>1. t \in Lanes /\ Quiet(lane, t)
    <3>1. down \in Lanes /\ Quiet(lane, down)
      BY <1>3, SettleAsksOK
    <3>2. Quiet(lane, lane)
      BY DEF Quiet, Same
    <3> HIDE DEF down
    <3>3. QED
      BY <1>3, <3>1, <3>2
  <2>2. Carries(t)
    BY <1>3, <2>1, QuietStores, FixedOpen, StoresCarry
  <2>3. Carries(Fail(t, "error"))
    BY <1>2, <1>3, <2>1, FailCarries DEF Causes
  <2>4. QED
    BY <2>2, <2>3 DEF OnFail
<1>6. CASE turns[i].phase = "replied" /\ Commit(SettleReply(lane, src), Chained(i), slot)
  <2>1. Carries(SettleReply(lane, src))
    BY <1>2, <1>3, SettleReplyOK, StoresCarry
  <2>2. QED
    BY <1>2, <1>4, <1>6, <2>1, FollowupStepKept
<1>7. CASE Commit(OnFail(lane, src, "error"), InPhase(i, "handoff"), slot)
  <2>1. "handoff" \in Phases \ {"done"}
    BY DEF Phases
  <2>2. QED
    BY <1>2, <1>4, <1>5, <1>7, <2>1, FollowupStepKept
<1>8. CASE Commit(OnFail(down, src, "error"), InPhase(i, "restore"), slot)
  <2>1. "restore" \in Phases \ {"done"}
    BY DEF Phases
  <2>2. QED
    BY <1>2, <1>4, <1>5, <1>8, <2>1, FollowupStepKept
<1>9. CASE Commit(OnFail(down, src, "error"), InPhase(i, "restore_shut"), slot)
  <2>1. "restore_shut" \in Phases \ {"done"}
    BY DEF Phases
  <2>2. QED
    BY <1>2, <1>4, <1>5, <1>9, <2>1, FollowupStepKept
<1>10. QED
  BY <1>6, <1>7, <1>8, <1>9 DEF TurnSettles

LEMMA TurnAfterOnFailKept ==
  ASSUME WorkerInv, NEW i \in DOMAIN turns, TurnAfterOnFail(i)
  PROVE  WorkerInv' /\ Honest
<1>1. turns[i].phase \notin {"sent", "done"}
  BY DEF TurnAfterOnFail
<1>2. /\ pc \notin Early /\ turns[i].prior \in {"completed", "interrupted"}
      /\ TurnsLike(Chained(i)) /\ (lane.st = "absent" \/ lane.followups)
  BY <1>1, FollowupOK DEF Turn
<1>3. LaneInv /\ lane \in Lanes
  BY DEF WorkerInv, LaneInv
<1>4. UNCHANGED <<pc, job, closer, keepFailed, inputs>>
  BY DEF TurnAfterOnFail
<1>5. CASE Commit(LaunchNext(lane), Chained(i), slot)
  <2>1. Carries(LaunchNext(lane))
    BY <1>3, LaunchNextOK, FixedOpen, StoresCarry
  <2>2. QED
    BY <1>2, <1>4, <1>5, <2>1, FollowupStepKept
<1>6. ASSUME NEW cause \in {"error", "retryable"},
             Commit(RestoreLane(lane, turns[i].prior, cause), Chained(i), slot)
      PROVE  WorkerInv' /\ Honest
  <2>1. Carries(RestoreLane(lane, turns[i].prior, cause))
    BY <1>2, <1>3, RestoreLaneCarries DEF Causes
  <2>2. QED
    BY <1>2, <1>4, <1>6, <2>1, FollowupStepKept
<1>7. CASE Commit(FailClosed(lane), Chained(i), slot)
  <2>1. Carries(FailClosed(lane))
    BY <1>3, FailClosedCarries
  <2>2. QED
    BY <1>2, <1>4, <1>7, <2>1, FollowupStepKept
<1>8. QED
  BY <1>5, <1>6, <1>7 DEF TurnAfterOnFail

LEMMA EarlyOK ==
  ASSUME WorkerInv
  PROVE  /\ LaneInv /\ lane \in Lanes /\ lane.cause = "unset" /\ lane.calls = {}
         /\ Recorded(lane)
         /\ pc \in {"queued", "worktree", "setup"}
               => (closed \/ Cancellable(lane)) /\ turns = <<>> /\ ~lane.turnHooks
BY DEF WorkerInv, LaneInv, ChainInv, Begun, Early, Closings, Started

\* A verb's commit: the turns as they are, unless steers are launched.
LEMMA VerbKept ==
  ASSUME WorkerInv, NEW s, Carries(s), Commit(s, turns, slot),
         UNCHANGED <<pc, job, inputs>>, keepFailed' \in BOOLEAN,
         closer' \in {"idle", "waiting", "closing"},
         closer' = "closing" => closed \/ Closes(s),
         pc \in {"queued", "worktree", "setup"} => closed \/ Cancellable(s) \/ Closes(s)
  PROVE  WorkerInv' /\ Honest
<1>1. TurnsLike(turns)
  BY TurnsAreLike, EarlyOK
<1>2. QED
  BY <1>1, StepKept

LEMMA CloserTyped ==
  ASSUME WorkerInv, UNCHANGED <<closer, keepFailed>>
  PROVE  /\ keepFailed' \in BOOLEAN /\ closer' \in {"idle", "waiting", "closing"}
         /\ closer' = "closing" => closed
BY DEF WorkerInv, ChainInv, Closings

LEMMA InterruptAgentKept == WorkerInv /\ InterruptAgent => WorkerInv' /\ Honest
<1> SUFFICES ASSUME WorkerInv, InterruptAgent PROVE WorkerInv' /\ Honest
  OBVIOUS
<1> DEFINE t == InterruptOne(lane)
<1>1. /\ Stores(lane, t) /\ StaysOpen(lane, t)
      /\ lane.st = "pending_init" /\ lane.cancelHook = "abort" /\ ~lane.turnHooks => Closes(t)
  BY InterruptOneOK, EarlyOK
<1>2. Carries(t) /\ Commit(t, turns, slot) /\ UNCHANGED <<pc, job, inputs, closer, keepFailed>>
  BY <1>1, StoresCarry, EarlyOK DEF InterruptAgent
<1> HIDE DEF t
<1>3. QED
  BY <1>1, <1>2, CloserTyped, EarlyOK, VerbKept DEF Cancellable

LEMMA AskDirectorKept == WorkerInv /\ AskDirector => WorkerInv' /\ Honest
<1> SUFFICES ASSUME WorkerInv, AskDirector PROVE WorkerInv' /\ Honest
  OBVIOUS
<1> DEFINE asked == [lane EXCEPT !.ask = TRUE]
           t == Update(lane, asked)
<1>1. lane \in Lanes /\ lane.cause = "unset" /\ lane.st = "running"
  BY EarlyOK DEF AskDirector
<1>2. asked \in Lanes
  BY <1>1 DEF Lanes
<1>3. Quiet(lane, asked)
  BY <1>1 DEF Lanes, Quiet, Same
<1> HIDE DEF asked
<1>4. Stores(lane, t) /\ Same(asked, t)
  <2>1. Moves(lane, asked) /\ Stampable(asked)
    BY <1>1, <1>3, QuietMoves DEF Quiet, Same, Stampable
  <2>2. QED
    BY <1>1, <1>2, <1>3, <2>1, UpdateStores DEF Quiet
<1>5. StaysOpen(lane, t)
  BY <1>3, <1>4 DEF Quiet, Same, StaysOpen, OpenLane, Closes
<1>6. Carries(t) /\ Commit(t, turns, slot) /\ UNCHANGED <<pc, job, inputs, closer, keepFailed>>
  BY <1>4, <1>5, StoresCarry, EarlyOK DEF AskDirector, asked
<1> HIDE DEF t
<1>7. pc \notin {"queued", "worktree", "setup"}
  BY <1>1, EarlyOK DEF AskDirector, Cancellable
<1>8. QED
  BY <1>6, <1>7, CloserTyped, VerbKept

-----------------------------------------------------------------------------
(* Closing a worker. *)

LEMMA TakeCloseHook ==
  ASSUME NEW s \in Lanes, s.cause = "unset"
  PROVE  LET t == [s EXCEPT !.closeHook = FALSE, !.calls = @ \cup {"close"}]
         IN  Stores(s, t) /\ Closes(t)
<1> DEFINE t == [s EXCEPT !.closeHook = FALSE, !.calls = @ \cup {"close"}]
<1>1. t \in Lanes
  BY DEF Lanes, Hooks
<1>2. /\ t.st = s.st /\ t.retained = s.retained /\ t.followups = s.followups
      /\ t.turnHooks = s.turnHooks /\ t.launch = s.launch /\ t.stash = s.stash
      /\ t.failure = s.failure /\ t.cause = s.cause /\ t.calls = s.calls \cup {"close"}
  BY DEF Lanes
<1> HIDE DEF t
<1>3. QED
  BY <1>1, <1>2 DEF t, Stores, Moves, Changes, Ends, Paused, Over, SteersKept, Steers, Sorted, Stamps, Recorded, Closes

LEMMA CloseKept ==
  ASSUME WorkerInv, NEW s, Stores(lane, s), BeginClose(s), UNCHANGED <<pc, job, inputs>>
  PROVE  WorkerInv' /\ Honest
<1> DEFINE t == [s EXCEPT !.closeHook = FALSE, !.calls = @ \cup {"close"}]
<1>1. s \in Lanes /\ s.cause = "unset"
  BY EarlyOK DEF Stores, Stamps
<1>2. Stores(s, t) /\ Closes(t)
  BY <1>1, TakeCloseHook
<1>3. Commit(t, turns, slot) /\ closer' = "closing" /\ keepFailed' \in BOOLEAN
  BY DEF BeginClose
<1> HIDE DEF t
<1>4. Stores(lane, t)
  BY <1>1, <1>2, EarlyOK, StoresCompose
<1>5. Carries(t)
  BY <1>2, <1>4, EarlyOK, StoresCarry DEF StaysOpen
<1>6. QED
  BY <1>2, <1>3, <1>5, VerbKept

LEMMA CancelAndForgetOK ==
  ASSUME NEW s \in Lanes, s.cause = "unset"
  PROVE  LET t == ForgetHooks(Shutdown(CallCancelHook(s)))
         IN  Stores(s, t) /\ (s.cancelHook = "abort" => Closes(t))
<1> DEFINE k == CallCancelHook(s)
           d == Shutdown(k)
           t == ForgetHooks(d)
<1>1. /\ k \in Lanes /\ k.st = s.st /\ k.retained = s.retained /\ k.followups = s.followups
      /\ k.turnHooks = s.turnHooks /\ k.launch = s.launch /\ k.stash = s.stash
      /\ k.failure = s.failure /\ k.cause = s.cause /\ s.calls \subseteq k.calls
      /\ s.cancelHook = "abort" => Closes(k)
  BY CallCancelHookOK
<1> HIDE DEF k
<1>2. Stores(s, k)
  BY <1>1 DEF Stores, Moves, Changes, Ends, Paused, Over, SteersKept, Steers, Sorted, Stamps, Recorded
<1>3. Stores(k, d) /\ d.calls = k.calls
  BY <1>1, ShutdownOK
<1> HIDE DEF d
<1>4. Stores(s, d) /\ d.cause = "unset" /\ d \in Lanes
  BY <1>2, <1>3, StoresCompose DEF Stores
<1>5. Stores(d, t) /\ t.calls = d.calls
  BY <1>4, ForgetHooksOK
<1> HIDE DEF t
<1>6. Stores(s, t)
  BY <1>4, <1>5, StoresCompose
<1>7. QED
  BY <1>1, <1>3, <1>5, <1>6 DEF Closes, t, d, k

LEMMA CloseAgentKept == WorkerInv /\ CloseAgent => WorkerInv' /\ Honest
<1> SUFFICES ASSUME WorkerInv, CloseAgent PROVE WorkerInv' /\ Honest
  OBVIOUS
<1> DEFINE a == SettleAsks(lane)
           s == DropStash(a)
           t == ForgetHooks(Shutdown(CallCancelHook(s)))
<1>1. a \in Lanes /\ Quiet(lane, a)
  BY EarlyOK, SettleAsksOK
<1>2. Stores(lane, s) /\ Same(lane, s) /\ s \in Lanes /\ s.cause = "unset"
  <2> HIDE DEF a
  <2>1. Stores(lane, a) /\ Same(lane, a)
    BY <1>1, EarlyOK, QuietStores DEF Quiet
  <2>2. Stores(a, s) /\ Same(a, s)
    BY <1>1, DropStashStores
  <2> HIDE DEF s
  <2>3. Stores(lane, s) /\ s.cause = "unset"
    BY <2>1, <2>2, EarlyOK, StoresCompose
  <2>4. QED
    BY <2>1, <2>2, <2>3 DEF Same, Stores
<1>3. \/ s.closeHook /\ BeginClose(s)
      \/ Commit(s, turns, slot) /\ UNCHANGED <<closer, keepFailed>>
      \/ ~s.closeHook /\ Commit(t, turns, slot) /\ UNCHANGED <<closer, keepFailed>>
      \/ Commit(s, turns, slot) /\ closer' = "waiting" /\ UNCHANGED keepFailed
  BY DEF CloseAgent
<1>4. UNCHANGED <<pc, job, inputs>>
  BY DEF CloseAgent
<1> HIDE DEF a, s
<1>5. StaysOpen(lane, s) /\ (Cancellable(lane) => Cancellable(s))
  BY <1>2 DEF Same, StaysOpen, OpenLane, Closes, Cancellable
<1>6. Carries(s)
  BY <1>2, <1>5, EarlyOK, StoresCarry
<1>7. CASE BeginClose(s)
  BY <1>2, <1>4, <1>7, CloseKept
<1>8. CASE Commit(s, turns, slot) /\ UNCHANGED <<closer, keepFailed>>
  BY <1>4, <1>5, <1>6, <1>8, CloserTyped, EarlyOK, VerbKept
<1>9. CASE ~s.closeHook /\ Commit(t, turns, slot) /\ UNCHANGED <<closer, keepFailed>>
  <2>1. Stores(s, t) /\ (s.cancelHook = "abort" => Closes(t))
    BY <1>2, CancelAndForgetOK
  <2> HIDE DEF t
  <2>2. Stores(lane, t)
    BY <1>2, <2>1, EarlyOK, StoresCompose
  <2>3. StaysOpen(lane, t)
    BY <1>2, <1>9, EarlyOK DEF Same, StaysOpen, OpenLane, Closes
  <2>4. Carries(t)
    BY <2>2, <2>3, EarlyOK, StoresCarry
  <2>5. pc \in {"queued", "worktree", "setup"} => closed \/ Closes(t)
    BY <1>2, <2>1, EarlyOK DEF Cancellable, Same
  <2>6. QED
    BY <1>4, <1>9, <2>4, <2>5, CloserTyped, VerbKept
<1>10. CASE Commit(s, turns, slot) /\ closer' = "waiting" /\ UNCHANGED keepFailed
  <2>1. keepFailed' \in BOOLEAN
    BY <1>10 DEF WorkerInv, ChainInv
  <2>2. QED
    BY <1>4, <1>5, <1>6, <1>10, <2>1, EarlyOK, VerbKept
<1>11. QED
  BY <1>3, <1>7, <1>8, <1>9, <1>10

LEMMA CloseStopsWaitingKept == WorkerInv /\ CloseStopsWaiting => WorkerInv' /\ Honest
<1> SUFFICES ASSUME WorkerInv, CloseStopsWaiting PROVE WorkerInv' /\ Honest
  OBVIOUS
<1>1. UNCHANGED <<pc, job, inputs>> /\ Stores(lane, lane) /\ Carries(lane)
  BY EarlyOK, LaneCarries DEF CloseStopsWaiting
<1>2. CASE BeginClose(lane)
  BY <1>1, <1>2, CloseKept
<1>3. CASE closer' = "idle" /\ Commit(lane, turns, slot) /\ UNCHANGED keepFailed
  <2>1. keepFailed' \in BOOLEAN
    BY <1>3 DEF WorkerInv, ChainInv
  <2>2. QED
    BY <1>1, <1>3, <2>1, EarlyOK, VerbKept
<1>4. QED
  BY <1>2, <1>3 DEF CloseStopsWaiting

LEMMA CloseEndsKept == WorkerInv /\ CloseEnds => WorkerInv' /\ Honest
<1> SUFFICES ASSUME WorkerInv, CloseEnds PROVE WorkerInv' /\ Honest
  OBVIOUS
<1> DEFINE d == IF keepFailed THEN lane ELSE Shutdown(lane)
           t == ForgetHooks(d)
<1>1. Stores(lane, d) /\ d \in Lanes /\ d.cause = "unset"
  <2>1. Stores(lane, lane) /\ Stores(lane, Shutdown(lane))
    BY EarlyOK, LaneCarries, ShutdownOK
  <2>2. QED
    BY <2>1, EarlyOK DEF Stores, Stamps
<1>2. Commit(t, turns, slot) /\ closer' = "idle" /\ UNCHANGED <<pc, job, keepFailed, inputs>>
  BY DEF CloseEnds
<1> HIDE DEF d
<1>3. Stores(lane, t)
  BY <1>1, EarlyOK, ForgetHooksOK, StoresCompose
<1> HIDE DEF t
<1>4. closed /\ keepFailed' \in BOOLEAN
  BY <1>2 DEF CloseEnds, WorkerInv, ChainInv, Closings
<1>5. Carries(t)
  BY <1>3, <1>4, EarlyOK, StoresCarry
<1>6. QED
  BY <1>2, <1>4, <1>5, VerbKept

-----------------------------------------------------------------------------
(* Cancelling, forgetting and pruning a worker. *)

LEMMA CancelAllKept == WorkerInv /\ CancelAll => WorkerInv' /\ Honest
<1> SUFFICES ASSUME WorkerInv, CancelAll PROVE WorkerInv' /\ Honest
  OBVIOUS
<1> DEFINE c == IF lane.st \in LiveStrip THEN Cancel(lane) ELSE lane
           h == ReleaseHandles(c)
           x == [h EXCEPT !.st = "shutdown", !.retained = FALSE]
           gone == lane.retained /\ lane.st # "shutdown" /\ c.st # "shutdown"
           t == IF gone THEN Update(h, x) ELSE c
<1>1. Commit(t, turns, slot) /\ UNCHANGED <<pc, job, closer, keepFailed, inputs>> /\ lane.st # "absent"
  BY DEF CancelAll, ReleaseHandles
<1>2. /\ Stores(lane, c) /\ c.closeHook = lane.closeHook /\ c.followups = lane.followups
      /\ c.st = IF lane.st \in LiveStrip THEN "cancelled" ELSE lane.st
      /\ lane.st \in LiveStrip /\ lane.cancelHook = "abort" => Closes(c)
      /\ c \in Lanes /\ c.cause = "unset"
  BY EarlyOK, LaneCarries, CancelOK DEF Stores, Stamps
<1> HIDE DEF c
<1>3. /\ Stores(c, h) /\ h.st = c.st /\ h \in Lanes /\ h.cause = "unset"
      /\ h.calls = IF c.closeHook THEN c.calls \cup {"close"} ELSE c.calls
  BY <1>2, ReleaseHandlesOK DEF Stores, Stamps
<1> HIDE DEF h
<1>4. Stores(lane, h)
  BY <1>2, <1>3, EarlyOK, StoresCompose
<1>5. h.st # "absent" /\ x \in Lanes
  <2>1. "shutdown" \in States
    BY DEF States
  <2>2. QED
    BY <1>1, <1>2, <1>3, <2>1 DEF Lanes
<1>6. /\ x.st = "shutdown" /\ x.retained = FALSE /\ x.followups = h.followups
      /\ x.turnHooks = h.turnHooks /\ x.launch = h.launch /\ x.stash = h.stash
      /\ x.failure = h.failure /\ x.cause = h.cause /\ x.calls = h.calls
  BY <1>3 DEF Lanes
<1> HIDE DEF x
<1>7. Stores(h, Update(h, x)) /\ Same(x, Update(h, x))
  <2>1. SteersKept(h, x)
    BY <1>6 DEF SteersKept, Steers, Sorted
  <2>2. Moves(h, x) /\ Stampable(x)
    BY <1>5, <1>6, <2>1 DEF Moves, Changes, Ends, Paused, Over, Stampable, RunEligible
  <2>3. QED
    BY <1>3, <1>5, <1>6, <2>2, UpdateStores
<1>8. Stores(lane, t)
  BY <1>2, <1>3, <1>4, <1>7, EarlyOK, StoresCompose
<1>9. c.closeHook /\ gone => Closes(t)
  BY <1>3, <1>6, <1>7 DEF Same, Closes
<1>10. OpenLane(lane) => Closes(t) \/ OpenLane(t)
  <2>1. OpenLane(lane) => lane.retained /\ lane.closeHook /\ lane.st # "shutdown"
    BY DEF OpenLane
  <2>2. c.st = "shutdown" => lane.st = "shutdown"
    BY <1>2
  <2>3. QED
    BY <1>2, <1>9, <2>1, <2>2
<1>11. Carries(t)
  <2>1. StaysOpen(lane, t)
    BY <1>10, EarlyOK DEF StaysOpen, Closes
  <2>2. QED
    BY <1>8, <2>1, EarlyOK, StoresCarry
<1>12. Cancellable(lane) => Closes(t)
  <2>1. Cancellable(lane) => Closes(c)
    BY <1>2 DEF Cancellable, LiveStrip, RunEligible
  <2>2. Closes(c) => Closes(t)
    BY <1>3, <1>6, <1>7 DEF Closes, Same
  <2>3. QED
    BY <2>1, <2>2
<1> HIDE DEF t
<1>13. QED
  BY <1>1, <1>11, <1>12, CloserTyped, EarlyOK, VerbKept

LEMMA TeardownKept == WorkerInv /\ Teardown => WorkerInv' /\ Honest
<1> SUFFICES ASSUME WorkerInv, Teardown PROVE WorkerInv' /\ Honest
  OBVIOUS
<1> DEFINE calls == IF lane.closeHook THEN {"close"} ELSE {}
           t == [Unstarted EXCEPT !.calls = calls]
<1>1. calls \in SUBSET Hooks /\ (lane.closeHook => "close" \in calls)
  BY DEF Hooks
<1> HIDE DEF calls
<1>2. t \in Lanes
  <2>1. /\ "absent" \in States /\ "none" \in Stops /\ "none" \in Handoffs
        /\ "unset" \in Causes /\ <<>> \in Seq(1..MaxInputs)
    BY DEF States, Stops, Handoffs, Causes
  <2>2. QED
    BY <1>1, <2>1 DEF Unstarted, Lanes
<1>3. /\ t.st = "absent" /\ t.retained = FALSE /\ t.launch = <<>> /\ t.stash = <<>>
      /\ t.calls = calls /\ t.turnHooks = FALSE /\ t.cause = "unset" /\ t.failure = NoRecord
  BY DEF Unstarted
<1> HIDE DEF t
<1>4. Changes(lane, t) /\ Abides(lane, t)
  <2>1. SteersKept(lane, t)
    BY <1>3 DEF SteersKept, Steers, Sorted
  <2>2. lane.calls = {} /\ lane.launch = <<>> /\ lane.st \notin RunEligible
    BY DEF WorkerInv, LaneInv, Teardown, LiveStrip
  <2>3. QED
    BY <1>1, <1>3, <2>1, <2>2 DEF Changes, Abides, RunEligible
<1>5. StaysOpen(lane, t)
  BY <1>1, <1>3, EarlyOK DEF StaysOpen, OpenLane, Closes
<1>6. Carries(t)
  BY <1>2, <1>3, <1>4, <1>5 DEF Carries, Recorded, NoRecord, RunEligible
<1>7. pc \in {"queued", "worktree", "setup"} => closed
  BY EarlyOK DEF Teardown, Cancellable, LiveStrip, RunEligible
<1>8. Commit(t, turns, slot) /\ UNCHANGED <<pc, job, closer, keepFailed, inputs>>
  BY DEF Teardown, t, calls
<1>9. QED
  BY <1>6, <1>7, <1>8, CloserTyped, VerbKept

LEMMA PruneKept == WorkerInv /\ Prune => WorkerInv' /\ Honest
<1> SUFFICES ASSUME WorkerInv, Prune PROVE WorkerInv' /\ Honest
  OBVIOUS
<1> DEFINE r == ReleaseHandles(lane)
           t == [r EXCEPT !.st = "absent"]
<1>1. /\ Stores(lane, r) /\ StaysOpen(lane, r) /\ r.st = lane.st /\ ~r.closeHook
      /\ r.launch = lane.launch /\ (r.failure = lane.failure \/ r.failure.class # "retryable")
      /\ r \in Lanes /\ r.cause = "unset"
  BY ReleaseHandlesOK, EarlyOK DEF Stores, Stamps
<1> HIDE DEF r
<1>2. t \in Lanes
  <2>1. "absent" \in States
    BY DEF States
  <2>2. QED
    BY <1>1, <2>1 DEF Lanes
<1>3. /\ t.st = "absent" /\ t.retained = r.retained /\ t.followups = r.followups
      /\ t.turnHooks = r.turnHooks /\ t.launch = r.launch /\ t.stash = r.stash
      /\ t.failure = r.failure /\ t.cause = r.cause /\ t.calls = r.calls
  BY <1>1 DEF Lanes
<1>4. Commit(t, turns, slot) /\ UNCHANGED <<pc, job, closer, keepFailed, inputs>>
      /\ lane.st \notin RunEligible
  BY DEF Prune, r
<1> HIDE DEF t
<1>5. Changes(lane, t) /\ Abides(lane, t)
  <2>1. Changes(r, t)
    BY <1>1, <1>3, <1>4 DEF Changes, SteersKept, Steers, Sorted, RunEligible
  <2>2. Changes(lane, r)
    BY <1>1 DEF Stores, Moves
  <2>3. Abides(lane, t)
    BY <1>3, <1>4 DEF Abides
  <2>4. QED
    BY <2>1, <2>2, <2>3, ChangesCompose
<1>6. StaysOpen(lane, t)
  BY <1>1, <1>3 DEF StaysOpen, OpenLane, Closes
<1>7. Stamps(lane, r)
  BY <1>1 DEF Stores
<1>8. t.failure.class = "retryable" => t.failure = lane.failure
  BY <1>3, <1>7, EarlyOK DEF Stamps
<1>9. Carries(t)
  BY <1>1, <1>2, <1>3, <1>5, <1>6, <1>8 DEF Carries, Recorded, RunEligible
<1>10. pc \in {"queued", "worktree", "setup"} => closed
  BY <1>4, EarlyOK DEF Cancellable, RunEligible
<1>11. QED
  BY <1>4, <1>9, <1>10, CloserTyped, VerbKept

-----------------------------------------------------------------------------
(* Answers to a worker's question. *)

LEMMA AskStepKept ==
  ASSUME WorkerInv, Stores(lane, lane'), Fixed(lane, lane'), lane'.launch = <<>>,
         UNCHANGED <<turns, pc, slot, job, closed, cancelSignal, closer, keepFailed, inputs>>,
         answered' \in BOOLEAN
  PROVE  WorkerInv' /\ Honest
<1>1. LaneInv'
  <2>1. turns' \in Seq(Turn) /\ closed' \in BOOLEAN /\ lane'.st = lane.st
    BY DEF WorkerInv, LaneInv, Fixed
  <2>2. turns # <<>> => turns'[1].phase \in {"sent", "done"}
    BY DEF WorkerInv, LaneInv, Started
  <2>3. QED
    BY <2>1, <2>2, DirectKept DEF WorkerInv
<1>2. SlotHasOneOwner' /\ Slots' /\ Begun'
  BY DEF WorkerInv, ChainInv, SlotHasOneOwner, Slots, Begun, HoldsSlot, Running
<1>3. Closings'
  BY DEF WorkerInv, ChainInv, Closings, Cancellable, Fixed
<1>4. Honest
  BY MovesAbide DEF Stores, Stamps, Honest
<1>5. QED
  BY <1>1, <1>2, <1>3, <1>4 DEF WorkerInv, ChainInv

LEMMA AnswerAskKept ==
  ASSUME WorkerInv, NEW structured \in BOOLEAN, AnswerAsk(structured)
  PROVE  WorkerInv' /\ Honest
<1> DEFINE trace == IF structured THEN lane.trace ELSE "submitted"
<1>1. lane \in Lanes /\ trace \in Handoffs /\ lane' = [lane EXCEPT !.ask = FALSE, !.trace = trace]
  BY EarlyOK DEF AnswerAsk, Lanes, Handoffs
<1> HIDE DEF trace
<1>2. lane' \in Lanes /\ Quiet(lane, lane')
  BY <1>1 DEF Lanes, Quiet, Same
<1>3. QED
  BY <1>2, EarlyOK, LaneStays, AskStepKept DEF AnswerAsk

LEMMA ExpireStaleAskKept == WorkerInv /\ ExpireStaleAsk => WorkerInv' /\ Honest
<1> SUFFICES ASSUME WorkerInv, ExpireStaleAsk PROVE WorkerInv' /\ Honest
  OBVIOUS
<1>1. lane' \in Lanes /\ Quiet(lane, lane')
  BY EarlyOK, SettleAsksOK DEF ExpireStaleAsk
<1>2. answered' \in BOOLEAN
  BY DEF ExpireStaleAsk, WorkerInv, ChainInv
<1>3. QED
  BY <1>1, <1>2, EarlyOK, LaneStays, AskStepKept DEF ExpireStaleAsk

LEMMA ConsumeAnswerKept == WorkerInv /\ ConsumeAnswer => WorkerInv' /\ Honest
<1> SUFFICES ASSUME WorkerInv, ConsumeAnswer PROVE WorkerInv' /\ Honest
  OBVIOUS
<1> DEFINE trace == IF lane.trace = "submitted" /\ lane.st \in LiveStrip
                    THEN "delivered" ELSE lane.trace
           t == [lane EXCEPT !.trace = trace]
<1>1. lane \in Lanes /\ trace \in Handoffs /\ lane' = Update(lane, t)
  BY EarlyOK DEF ConsumeAnswer, Lanes, Handoffs
<1> HIDE DEF trace
<1>2. t \in Lanes /\ Quiet(lane, t)
  BY <1>1 DEF Lanes, Quiet, Same
<1> HIDE DEF t
<1>3. Stores(lane, lane') /\ Fixed(lane, lane') /\ lane'.launch = <<>>
  <2>1. lane.launch = <<>>
    BY DEF WorkerInv, LaneInv
  <2>2. CASE lane.st = "absent"
    <3>1. lane' = lane
      BY <1>1, <2>2 DEF Update
    <3>2. QED
      BY <2>1, <3>1, EarlyOK, LaneCarries DEF Fixed
  <2>3. CASE lane.st # "absent"
    <3>1. Stores(lane, lane') /\ Same(t, lane')
      BY <1>1, <1>2, <2>3, EarlyOK, QuietMoves, UpdateStores DEF Quiet, Same, Stampable, Recorded
    <3>2. QED
      BY <1>2, <2>1, <3>1 DEF Fixed, Same, Quiet
  <2>4. QED
    BY <2>2, <2>3
<1>4. QED
  BY <1>3, AskStepKept DEF ConsumeAnswer

-----------------------------------------------------------------------------
(* A send ends. *)

LEMMA LaneUnchanged ==
  ASSUME LaneInv, lane' = lane
  PROVE  Stores(lane, lane') /\ Fixed(lane, lane') /\ lane'.st = lane.st /\ lane'.launch = <<>>
BY LaneStays DEF LaneInv, Quiet, Same

\* The chain goes on and keeps the slot.
LEMMA RunSlots ==
  ASSUME WorkerInv, OwnersKept, Running, Running', slot' = slot
  PROVE  SlotHasOneOwner' /\ Slots'
<1>1. SlotHasOneOwner' /\ slot = "held"
  BY DEF WorkerInv, ChainInv, SlotHasOneOwner, Slots, OwnersKept, HoldsSlot, Running
<1>2. Slots'
  BY <1>1 DEF WorkerInv, ChainInv, Slots, OwnersKept, HoldsSlot, Running
<1>3. QED
  BY <1>1, <1>2

\* A follow-up changes its phase, the lane does not.
LEMMA PhaseKept ==
  ASSUME WorkerInv, NEW i \in DOMAIN turns, i # 1, NEW phase \in Phases, turns' = InPhase(i, phase),
         UNCHANGED <<lane, pc, job, closed, cancelSignal, closer, keepFailed, answered, inputs>>,
         slot' = "queued" => slot = "queued"
  PROVE  /\ LaneInv' /\ (turns = <<>> <=> turns' = <<>>) /\ Begun' /\ Closings'
         /\ DOMAIN turns' = DOMAIN turns /\ i \in DOMAIN turns'
         /\ \A j \in DOMAIN turns : /\ turns'[j].src = turns[j].src /\ turns'[j].slot = turns[j].slot
                                    /\ j # i => turns'[j].phase = turns[j].phase
         /\ turns'[i].phase = phase
<1>1. /\ LaneInv /\ turns \in Seq(Turn) /\ Len(turns) \in Nat
      /\ turns # <<>> => 1 \in 1..Len(turns) /\ turns[1].phase \in {"sent", "done"}
  BY DEF WorkerInv, LaneInv, Started
<1>2. /\ turns' \in Seq(Turn) /\ Len(turns') = Len(turns)
      /\ \A j \in 1..Len(turns) :
            /\ turns'[j].src = turns[j].src /\ turns'[j].msg = turns[j].msg
            /\ turns'[j].slot = turns[j].slot
            /\ j # i => turns'[j].phase = turns[j].phase
      /\ turns'[i].phase = phase
  BY <1>1, InPhaseOK
<1>3. LaneInv' /\ (turns = <<>> <=> turns' = <<>>)
  <2>1. turns # <<>> => turns'[1].phase \in {"sent", "done"}
    BY <1>1, <1>2
  <2>2. closed' \in BOOLEAN
    BY <1>1 DEF LaneInv
  <2>3. QED
    BY <1>1, <1>2, <2>1, <2>2, LaneUnchanged, DirectKept
<1>4. Begun' /\ Closings'
  BY <1>3 DEF WorkerInv, ChainInv, Begun, Closings, Early
<1>5. DOMAIN turns' = DOMAIN turns
  BY <1>1, <1>2
<1>6. QED
  BY <1>1, <1>2, <1>3, <1>4, <1>5

LEMMA TurnEndsKept ==
  ASSUME WorkerInv, NEW i \in DOMAIN turns, NEW phase \in {"replied", "threw", "shut"},
         TurnEnds(i, phase)
  PROVE  WorkerInv' /\ Honest
<1>1. phase \in Phases /\ phase # "done" /\ turns[i].phase # "done" /\ turns' = InPhase(i, phase)
  BY DEF Phases, TurnEnds, InPhase
<1>2. i # 1
  BY DEF TurnEnds, WorkerInv, LaneInv, Started
<1>3. /\ LaneInv' /\ (turns = <<>> <=> turns' = <<>>) /\ Begun' /\ Closings'
      /\ DOMAIN turns' = DOMAIN turns
      /\ \A j \in DOMAIN turns : /\ turns'[j].src = turns[j].src /\ turns'[j].slot = turns[j].slot
                                 /\ j # i => turns'[j].phase = turns[j].phase
      /\ turns'[i].phase = phase
  BY <1>1, <1>2, PhaseKept DEF TurnEnds
<1>4. OwnersKept
  BY <1>1, <1>3 DEF OwnersKept, HoldsSlot, WorkerInv, ChainInv, Slots
<1>5. SlotHasOneOwner' /\ Slots'
  BY <1>3, <1>4, SlotsKept DEF TurnEnds
<1>6. Honest
  BY SameHonest DEF TurnEnds
<1>7. QED
  BY <1>3, <1>5, <1>6 DEF TurnEnds, WorkerInv, ChainInv

LEMMA TurnFinallyKept ==
  ASSUME WorkerInv, NEW i \in DOMAIN turns, TurnFinally(i)
  PROVE  WorkerInv' /\ Honest
<1>1. /\ "done" \in Phases /\ turns[i].phase = "finally" /\ turns' = InPhase(i, "done")
      /\ slot' = IF turns[i].slot THEN Released ELSE slot
      /\ slot' \in {slot, "free"}
  BY DEF Phases, TurnFinally, Released
<1>2. i # 1
  <2>1. turns # <<>>
    BY DEF WorkerInv, LaneInv
  <2>2. QED
    BY <1>1, <2>1 DEF WorkerInv, LaneInv, Started
<1>3. /\ LaneInv' /\ (turns = <<>> <=> turns' = <<>>) /\ Begun' /\ Closings'
      /\ DOMAIN turns' = DOMAIN turns
      /\ \A j \in DOMAIN turns : /\ turns'[j].src = turns[j].src /\ turns'[j].slot = turns[j].slot
                                 /\ j # i => turns'[j].phase = turns[j].phase
      /\ turns'[i].phase = "done"
  BY <1>1, <1>2, PhaseKept DEF TurnFinally
<1>4. SlotHasOneOwner' /\ Slots'
  <2>1. CASE ~turns[i].slot
    <3>1. OwnersKept
      BY <1>1, <1>3, <2>1 DEF OwnersKept, HoldsSlot, WorkerInv, ChainInv, Slots
    <3>2. QED
      BY <1>1, <1>3, <2>1, <3>1, SlotsKept DEF TurnFinally
  <2>2. CASE turns[i].slot
    <3>1. HoldsSlot(i) /\ slot = "held" /\ slot' = "free"
      BY <1>1, <2>2 DEF HoldsSlot, WorkerInv, ChainInv, Slots, Released
    <3>2. ~Running /\ (\A j \in DOMAIN turns : HoldsSlot(j) => j = i) /\ pc' = pc
      BY <3>1 DEF WorkerInv, ChainInv, SlotHasOneOwner, Running, TurnFinally
    <3>3. \A j \in DOMAIN turns' : ~(turns'[j].slot /\ turns'[j].phase # "done")
      BY <1>3, <3>2 DEF HoldsSlot
    <3>4. SlotHasOneOwner'
      BY <3>1, <3>2, <3>3 DEF SlotHasOneOwner, HoldsSlot, Running
    <3>5. Slots'
      BY <1>3, <3>1, <3>2, <3>3 DEF Slots, HoldsSlot, Running, WorkerInv, ChainInv
    <3>6. QED
      BY <3>4, <3>5
  <2>3. QED
    BY <2>1, <2>2
<1>5. Honest
  BY SameHonest DEF TurnFinally
<1>6. QED
  BY <1>1, <1>3, <1>4, <1>5 DEF TurnFinally, WorkerInv, ChainInv

LEMMA RunFinallyKept == WorkerInv /\ RunFinally => WorkerInv' /\ Honest
<1> SUFFICES ASSUME WorkerInv, RunFinally PROVE WorkerInv' /\ Honest
  OBVIOUS
<1>1. /\ Running /\ slot = "held" /\ slot' = "free" /\ pc' = "done"
      /\ \A i \in DOMAIN turns : ~HoldsSlot(i)
  BY DEF RunFinally, Running, WorkerInv, ChainInv, Slots, SlotHasOneOwner, Released
<1>2. LaneInv'
  BY <1>1 DEF RunFinally, WorkerInv, LaneInv, RetryableMeansFresh, Fresh, SteersInOrder, Known,
              Started, Kept, OpenLane
<1>3. SlotHasOneOwner' /\ Slots'
  BY <1>1 DEF RunFinally, WorkerInv, ChainInv, SlotHasOneOwner, Slots, HoldsSlot, Running
<1>4. Begun' /\ Closings'
  BY <1>1 DEF RunFinally, WorkerInv, ChainInv, Begun, Early, Outcomes, Closings
<1>5. Honest
  BY SameHonest DEF RunFinally
<1>6. QED
  BY <1>1, <1>2, <1>3, <1>4, <1>5 DEF RunFinally, WorkerInv, ChainInv

LEMMA SetupThrowsKept == WorkerInv /\ SetupThrows => WorkerInv' /\ Honest
<1> SUFFICES ASSUME WorkerInv, SetupThrows PROVE WorkerInv' /\ Honest
  OBVIOUS
<1>1. Running /\ Running' /\ pc' \in {"threw", "aborted"} /\ closed' = TRUE
  BY DEF SetupThrows, Running
<1>2. LaneInv'
  BY <1>1 DEF SetupThrows, WorkerInv, LaneInv, RetryableMeansFresh, Fresh, SteersInOrder, Known,
              Started, Kept
<1>3. OwnersKept
  BY DEF SetupThrows, OwnersKept, HoldsSlot, WorkerInv, ChainInv, Slots
<1>4. SlotHasOneOwner' /\ Slots'
  BY <1>1, <1>3, RunSlots DEF SetupThrows
<1>5. Begun' /\ Closings'
  BY <1>1 DEF SetupThrows, Begun, Early, Outcomes, Closings
<1>6. Honest
  BY SameHonest DEF SetupThrows
<1>7. QED
  BY <1>1, <1>2, <1>4, <1>5, <1>6 DEF SetupThrows, WorkerInv, ChainInv, Outcomes

LEMMA RunEndsKept ==
  ASSUME WorkerInv, NEW outcome \in Outcomes, RunEnds(outcome)
  PROVE  WorkerInv' /\ Honest
<1> DEFINE ask == lane.ask /\ ~closed'
<1>1. /\ pc = "turn" /\ pc' = outcome /\ turns' = InPhase(1, "done")
      /\ lane' = [lane EXCEPT !.ask = ask]
      /\ UNCHANGED <<slot, job, cancelSignal, closer, keepFailed, answered, inputs>>
  BY EarlyOK DEF RunEnds, InPhase, Lanes
<1>2. /\ closed' \in BOOLEAN /\ (closed => closed')
      /\ outcome \in {"salvaged", "deadline", "aborted", "threw"} => closed'
  <2>1. closed \in BOOLEAN
    BY DEF WorkerInv, LaneInv
  <2>2. \/ outcome \in {"replied", "forced", "stopped"} /\ closed' = closed
        \/ closed /\ closed' = closed
        \/ closed' = TRUE
    BY DEF RunEnds
  <2>3. QED
    BY <2>1, <2>2
<1>3. lane' \in Lanes /\ Quiet(lane, lane')
  <2>1. ask \in BOOLEAN /\ lane \in Lanes
    BY EarlyOK
  <2> HIDE DEF ask
  <2>2. QED
    BY <1>1, <2>1 DEF Lanes, Quiet, Same
<1>4. LaneInv /\ turns # <<>> /\ 1 \in DOMAIN turns /\ "done" \in Phases
  BY <1>1 DEF WorkerInv, LaneInv, ChainInv, Begun, Outcomes, Phases
<1>5. /\ turns' \in Seq(Turn) /\ Len(turns') = Len(turns)
      /\ \A j \in 1..Len(turns) :
            /\ turns'[j].src = turns[j].src /\ turns'[j].msg = turns[j].msg
            /\ turns'[j].slot = turns[j].slot
            /\ j # 1 => turns'[j].phase = turns[j].phase
      /\ turns'[1].phase = "done"
  BY <1>1, <1>4, InPhaseOK
<1>6. LaneInv' /\ (turns = <<>> <=> turns' = <<>>)
  BY <1>1, <1>2, <1>3, <1>4, <1>5, LaneStays, DirectKept
<1>7. DOMAIN turns = 1..Len(turns) /\ DOMAIN turns' = 1..Len(turns) /\ ~turns[1].slot
  <2>1. turns[1].src # "resume"
    BY <1>4 DEF LaneInv, Started
  <2>2. turns \in Seq(Turn) /\ (turns[1].slot => turns[1].src = "resume")
    BY <1>4 DEF WorkerInv, LaneInv, ChainInv, Slots
  <2>3. QED
    BY <1>5, <2>1, <2>2
<1>8. OwnersKept
  BY <1>5, <1>7 DEF OwnersKept, HoldsSlot, WorkerInv, ChainInv, Slots
<1>9. SlotHasOneOwner' /\ Slots'
  <2>1. Running /\ Running'
    BY <1>1 DEF Running, Outcomes
  <2>2. QED
    BY <1>1, <1>8, <2>1, RunSlots
<1>10. Begun' /\ Closings'
  BY <1>1, <1>2, <1>4, <1>6 DEF Begun, Early, Outcomes, Closings, WorkerInv, ChainInv
<1>11. Honest
  BY <1>3, SameHonest DEF Quiet, Same
<1>12. QED
  BY <1>1, <1>6, <1>9, <1>10, <1>11 DEF WorkerInv, ChainInv

-----------------------------------------------------------------------------
(* The chain settles the run and finishes it. *)

LEMMA ChainStepKept ==
  ASSUME WorkerInv, NEW s, Carries(s), Commit(s, turns, slot), Running,
         \/ pc' = "finally"
         \/ pc = "worktree" /\ pc' = "setup" /\ (closed \/ Cancellable(s)),
         UNCHANGED <<job, closer, keepFailed, inputs>>
  PROVE  WorkerInv' /\ Honest
<1>1. TurnsLike(turns) /\ LaneInv
  BY TurnsAreLike, EarlyOK
<1>2. LaneInv' /\ (turns = <<>> => turns' = <<>>)
  BY <1>1, LaneKept
<1>3. OwnersKept
  BY <1>1, CommitOwners DEF Carries
<1>4. /\ closed' = (closed \/ Closes(s)) /\ lane'.st = s.st /\ lane'.retained = s.retained
      /\ lane'.cancelHook = s.cancelHook /\ slot = "held" /\ slot' = slot
  <2>1. slot = "held"
    BY DEF WorkerInv, ChainInv, Slots
  <2>2. QED
    BY <2>1, CommitLane DEF Carries, WorkerInv, LaneInv
<1>5. SlotHasOneOwner' /\ Slots'
  <2>1. Running'
    BY DEF Running
  <2>2. QED
    BY <1>3, <1>4, <2>1, RunSlots
<1>6. Begun'
  BY <1>2, EarlyOK DEF Begun, Early, Outcomes
<1>7. Closings'
  BY <1>4 DEF WorkerInv, ChainInv, Closings, Cancellable
<1>8. cancelSignal' \in BOOLEAN /\ answered' \in BOOLEAN /\ slot' \in {"free", "queued", "held"}
  BY <1>4 DEF WorkerInv, ChainInv, Commit
<1>9. Honest
  BY <1>1, CommitHonest
<1>10. QED
  BY <1>2, <1>5, <1>6, <1>7, <1>8, <1>9 DEF WorkerInv, ChainInv

LEMMA ChainLanes ==
  ASSUME WorkerInv, Running
  PROVE  /\ slot = "held" /\ Carries(lane) /\ Carries(SettleRun(lane))
         /\ \A cause \in Causes : Carries(Fail(lane, cause))
<1>1. slot = "held"
  BY DEF WorkerInv, ChainInv, Slots
<1>2. /\ Carries(lane) /\ Carries(SettleRun(lane))
  BY EarlyOK, LaneCarries, SettleRunOK, FixedOpen, StoresCarry
<1>3. Quiet(lane, lane)
  BY DEF Quiet, Same
<1>4. ASSUME NEW cause \in Causes
      PROVE  Carries(Fail(lane, cause))
  BY <1>1, <1>3, EarlyOK, FailCarries
<1>5. QED
  BY <1>1, <1>2, <1>4

LEMMA WorktreeDoneKept == WorkerInv /\ WorktreeDone => WorkerInv' /\ Honest
<1> SUFFICES ASSUME WorkerInv, WorktreeDone PROVE WorkerInv' /\ Honest
  OBVIOUS
<1>1. Running /\ pc = "worktree" /\ UNCHANGED <<job, closer, keepFailed, inputs>>
  BY DEF WorktreeDone, Running
<1>2. Carries(lane) /\ Carries(SettleRun(lane)) /\ Carries(Fail(lane, "unset"))
  BY <1>1, ChainLanes DEF Causes
<1>3. closed \/ Cancellable(lane)
  BY <1>1, EarlyOK
<1>4. CASE pc' = "finally" /\ Commit(Fail(lane, "unset"), turns, slot)
  BY <1>1, <1>2, <1>4, ChainStepKept
<1>5. CASE pc' = "finally" /\ Commit(SettleRun(lane), turns, slot)
  BY <1>1, <1>2, <1>5, ChainStepKept
<1>6. CASE pc' = "setup" /\ Commit(lane, turns, slot)
  BY <1>1, <1>2, <1>3, <1>6, ChainStepKept
<1>7. QED
  BY <1>4, <1>5, <1>6 DEF WorktreeDone

LEMMA ThenResultCarries ==
  ASSUME WorkerInv, pc \in Outcomes \ {"aborted", "threw"}
  PROVE  Carries(ThenResult)
<1> DEFINE keep == pc \in {"replied", "forced"}
<1>1. OutcomeStop \in Stops /\ (pc = "stopped" => OutcomeStop \in ForcedStops)
  BY DEF OutcomeStop, Stops, ForcedStops
<1>2. LaneInv /\ lane \in Lanes /\ lane.cause = "unset" /\ keep \in BOOLEAN
  BY EarlyOK
<1>3. CASE pc = "stopped" \/ ReadsCancelled
  <2>1. OutcomeStop \in ForcedStops \/ lane.st \notin RunEligible
    BY <1>1, <1>3 DEF ReadsCancelled, StripStatus, LiveStrip
  <2>2. Stores(lane, AttachReport(lane, OutcomeStop)) /\ StaysOpen(lane, AttachReport(lane, OutcomeStop))
    BY <1>1, <1>2, <2>1, AttachReportOK
  <2>3. QED
    BY <1>2, <1>3, <2>2, StoresCarry DEF ThenResult
<1>4. CASE ~(pc = "stopped" \/ ReadsCancelled)
  <2>1. ThenResult = Complete(lane, keep, OutcomeStop)
    BY <1>4 DEF ThenResult
  <2>2. keep \/ closed
    BY <1>4 DEF Outcomes, WorkerInv, ChainInv, Closings
  <2> HIDE DEF keep
  <2>3. /\ Stores(lane, Complete(lane, keep, OutcomeStop))
        /\ keep => StaysOpen(lane, Complete(lane, keep, OutcomeStop))
    BY <1>1, <1>2, CompleteOK
  <2>4. QED
    BY <1>2, <2>1, <2>2, <2>3, StoresCarry
<1>5. QED
  BY <1>3, <1>4

LEMMA CatchErrorCarries ==
  ASSUME WorkerInv, pc \in {"aborted", "threw"}, NEW cause \in Causes, NEW abortError
  PROVE  Carries(CatchError(cause, abortError))
<1>1. Running /\ closed
  BY DEF Running, WorkerInv, ChainInv, Closings
<1>2. Carries(SettleRun(lane)) /\ Carries(Fail(lane, cause))
  BY <1>1, ChainLanes
<1>3. Carries(SettleRun(Cancel(lane)))
  <2> DEFINE c == Cancel(lane)
             r == SettleRun(c)
  <2>1. Stores(lane, c) /\ c \in Lanes /\ c.cause = "unset"
    BY EarlyOK, CancelOK DEF Stores, Stamps
  <2> HIDE DEF c
  <2>2. Stores(c, r)
    BY <2>1, SettleRunOK
  <2> HIDE DEF r
  <2>3. Carries(r)
    BY <1>1, <2>1, <2>2, EarlyOK, StoresCompose, StoresCarry
  <2>4. QED
    BY <2>3 DEF r, c
<1>4. QED
  BY <1>2, <1>3 DEF CatchError

LEMMA RunSettlesKept == WorkerInv /\ RunSettles => WorkerInv' /\ Honest
<1> SUFFICES ASSUME WorkerInv, RunSettles PROVE WorkerInv' /\ Honest
  OBVIOUS
<1>1. Running /\ pc' = "finally" /\ UNCHANGED <<job, closer, keepFailed, inputs>>
  BY DEF RunSettles, Running, Outcomes
<1>2. CASE pc \in Outcomes \ {"aborted", "threw"} /\ Commit(ThenResult, turns, slot)
  BY <1>1, <1>2, ThenResultCarries, ChainStepKept
<1>3. ASSUME pc \in {"aborted", "threw"}, NEW cause \in {"error", "retryable"}, NEW abortError,
             Commit(CatchError(cause, abortError), turns, slot)
      PROVE  WorkerInv' /\ Honest
  <2>1. Carries(CatchError(cause, abortError))
    BY <1>3, CatchErrorCarries DEF Causes
  <2>2. QED
    BY <1>1, <1>3, <2>1, ChainStepKept
<1>4. QED
  BY <1>2, <1>3 DEF RunSettles

-----------------------------------------------------------------------------
(* Spawning and admitting a worker; its agent gets ready. *)

LEMMA EarlyStepKept ==
  ASSUME WorkerInv, turns = <<>>, LaneInv', turns' = <<>>, pc' \notin Outcomes,
         \/ pc' \in {"worktree", "setup"} /\ slot' = "held"
         \/ pc' = "queued" /\ slot' = "queued"
         \/ pc' = "done" /\ slot' = "free",
         pc' # "done" => closed' \/ Cancellable(lane'),
         closed => closed', cancelSignal' \in BOOLEAN, answered' \in BOOLEAN,
         UNCHANGED <<job, closer, keepFailed>>
  PROVE  WorkerInv'
<1>1. SlotHasOneOwner' /\ Slots'
  BY DEF SlotHasOneOwner, Slots, HoldsSlot, Running
<1>2. Begun'
  BY DEF Begun, Early, Outcomes
<1>3. Closings'
  BY DEF WorkerInv, ChainInv, Closings, Cancellable
<1>4. QED
  BY <1>1, <1>2, <1>3 DEF WorkerInv, ChainInv

\* The lane of a worker just spawned.
Spawned == [StartSession EXCEPT !.cancelHook = "abort"]

LEMMA SpawnedOK ==
  ASSUME NEW s \in {Spawned, [Spawned EXCEPT !.inFlight = TRUE]}
  PROVE  /\ s \in Lanes /\ s.stash = <<>> /\ s.launch = <<>> /\ s.calls = {}
         /\ s.cause = "unset" /\ s.failure = NoRecord /\ ~s.turnHooks /\ Cancellable(s)
<1>1. /\ "pending_init" \in States /\ "none" \in Stops /\ "none" \in Handoffs
      /\ "unset" \in Causes /\ <<>> \in Seq(1..MaxInputs)
  BY DEF States, Stops, Handoffs, Causes
<1>2. s \in Lanes
  <2>1. Spawned \in Lanes
    BY <1>1 DEF Spawned, StartSession, Unstarted, Lanes
  <2>2. [Spawned EXCEPT !.inFlight = TRUE] \in Lanes
    BY <2>1, SettleAsksOK
  <2>3. QED
    BY <2>1, <2>2
<1>3. QED
  BY <1>2, ZenonT(60) DEF Spawned, StartSession, Unstarted, Cancellable

LEMMA SpawnKept == WorkerInv /\ Spawn => WorkerInv' /\ Honest
<1> SUFFICES ASSUME WorkerInv, Spawn PROVE WorkerInv' /\ Honest
  OBVIOUS
<1>1. /\ turns = <<>> /\ UNCHANGED <<job, closer, keepFailed, inputs>>
  BY DEF Spawn, WorkerInv, ChainInv, Begun, Early
<1>0. turns \in Seq(Turn) /\ LaneInv /\ closed \in BOOLEAN
  BY DEF WorkerInv, LaneInv
<1>2. PICK s \in {Spawned, [Spawned EXCEPT !.inFlight = TRUE]}, sl \in {"queued", "held"} :
         /\ Commit(s, turns, sl)
         /\ sl = "queued" => pc' = "queued"
         /\ sl = "held" => pc' \in {"setup", "worktree"}
  <2>1. Spawned.st \in RunEligible
    BY DEF Spawned, StartSession, Unstarted, RunEligible
  <2>2. \/ pc' = "queued" /\ Commit(Spawned, turns, "queued")
        \/ StartRun(Spawned)
    BY DEF Spawn, Spawned
  <2>3. \/ pc' = "queued" /\ Commit(Spawned, turns, "queued")
        \/ /\ pc' \in {"setup", "worktree"}
           /\ Commit([Spawned EXCEPT !.inFlight = TRUE], turns, "held")
    BY <2>1, <2>2 DEF StartRun
  <2>4. QED
    BY <2>3
<1>3. /\ s \in Lanes /\ s.stash = <<>> /\ s.launch = <<>> /\ s.calls = {}
      /\ s.cause = "unset" /\ s.failure = NoRecord /\ ~s.turnHooks /\ Cancellable(s)
  BY SpawnedOK
<1>4. Commit(s, turns, sl) /\ (sl = "queued" => pc' = "queued")
      /\ (sl = "held" => pc' \in {"setup", "worktree"})
  BY <1>2
<1>5. turns' = <<>> /\ turns' \in Seq(Turn)
  <2>1. turns' \in Seq(Turn) /\ Len(turns') = Len(turns) + Len(s.launch)
    BY <1>0, <1>3, <1>4, CommitTurns
  <2>2. Len(turns) = 0 /\ Len(s.launch) = 0
    BY <1>1, <1>3
  <2>3. QED
    BY <2>1, <2>2
<1>6. /\ lane' \in Lanes /\ lane'.failure = NoRecord /\ ~lane'.turnHooks /\ lane'.cause = "unset"
      /\ lane'.calls = {} /\ lane'.launch = <<>> /\ Cancellable(lane')
      /\ closed' = closed /\ slot' = sl
  <2>1. /\ lane' \in Lanes /\ lane'.failure = NoRecord /\ ~lane'.turnHooks /\ lane'.cause = "unset"
        /\ lane'.calls = {} /\ lane'.launch = <<>> /\ Cancellable(lane')
        /\ closed' = (closed \/ Closes(s))
    BY <1>0, <1>3, <1>4, CommitLane DEF Cancellable
  <2>2. slot' = sl
    BY <1>3, <1>4 DEF Commit
  <2>3. ~Closes(s)
    BY <1>3 DEF Closes
  <2>4. QED
    BY <1>0, <2>1, <2>2, <2>3
<1>7. SteersInOrder' /\ Known'
  <2>1. Sorted(s) /\ Steers(s) = {}
    BY <1>3 DEF Sorted, Steers
  <2>2. \A i \in 1..Len(turns) : turns[i].src = "steer" =>
            i \in 1..Len(turns) /\ turns[i].src = "steer" /\ turns[i].msg = turns[i].msg
    OBVIOUS
  <2>3. inputs' \in 0..MaxInputs /\ inputs <= inputs'
    BY <1>1, <1>0, ConstantsAssumption DEF LaneInv
  <2>4. QED
    BY <1>0, <1>3, <1>4, <2>1, <2>2, <2>3, OrderKept
<1>8. LaneInv'
  <2>1. Recorded(lane') /\ RetryableMeansFresh' /\ Fresh'
    BY <1>5, <1>6 DEF Recorded, RetryableMeansFresh, Fresh, Cancellable, NoRecord
  <2>2. Started' /\ Kept'
    BY <1>5, <1>6 DEF Started, Kept
  <2>3. inputs' \in 0..MaxInputs /\ closed' \in BOOLEAN
    BY <1>1, <1>0, <1>6 DEF LaneInv
  <2>4. QED
    BY <1>5, <1>6, <1>7, <2>1, <2>2, <2>3 DEF LaneInv, Recorded
<1>9. pc' \notin Outcomes /\ cancelSignal' \in BOOLEAN /\ answered' \in BOOLEAN
  BY <1>4 DEF Commit, Outcomes, WorkerInv, ChainInv
<1>10. Honest
  <2>1. lane.st = "absent"
    BY DEF Spawn, WorkerInv, ChainInv, Closings
  <2>2. lane'.st \in RunEligible
    BY <1>6 DEF Cancellable, RunEligible
  <2>3. QED
    BY <2>1, <2>2 DEF Honest
<1>11. QED
  BY <1>1, <1>4, <1>5, <1>6, <1>8, <1>9, <1>10, EarlyStepKept

LEMMA AdmitRunKept == WorkerInv /\ AdmitRun => WorkerInv' /\ Honest
<1> SUFFICES ASSUME WorkerInv, AdmitRun PROVE WorkerInv' /\ Honest
  OBVIOUS
<1>1. /\ turns = <<>> /\ TurnsLike(turns) /\ LaneInv /\ (closed \/ Cancellable(lane))
      /\ closed \in BOOLEAN /\ UNCHANGED <<job, closer, keepFailed, inputs>>
  BY EarlyOK, TurnsAreLike DEF AdmitRun, WorkerInv, LaneInv
<1>2. ASSUME NEW s, Carries(s), NEW sl \in {"free", "held"}, Commit(s, turns, sl),
             pc' \notin Outcomes, pc' # "done" => closed \/ Cancellable(s),
             \/ pc' \in {"worktree", "setup"} /\ sl = "held"
             \/ pc' = "done" /\ sl = "free"
      PROVE  WorkerInv' /\ Honest
  <2>1. LaneInv' /\ turns' = <<>>
    BY <1>1, <1>2, LaneKept
  <2>2. /\ closed' = (closed \/ Closes(s)) /\ slot' = sl
        /\ lane'.st = s.st /\ lane'.retained = s.retained /\ lane'.cancelHook = s.cancelHook
    BY <1>1, <1>2, CommitLane DEF Carries
  <2>3. cancelSignal' \in BOOLEAN /\ answered' \in BOOLEAN
    BY <1>2 DEF Commit, WorkerInv, ChainInv
  <2>4. pc' # "done" => closed' \/ Cancellable(lane')
    BY <1>2, <2>2 DEF Cancellable
  <2>5. closed => closed'
    BY <2>2
  <2>6. Honest
    BY <1>1, <1>2, CommitHonest
  <2>7. QED
    BY <1>1, <1>2, <2>1, <2>2, <2>3, <2>4, <2>5, <2>6, EarlyStepKept
<1>3. CASE lane.st \notin RunEligible
  <2>1. pc' = "done" /\ Commit(lane, turns, "free") /\ Carries(lane)
    BY <1>1, <1>3, LaneCarries DEF AdmitRun, StartRun
  <2>2. QED
    BY <1>2, <2>1 DEF Outcomes
<1>4. CASE lane.st \in RunEligible
  <2> DEFINE s == [lane EXCEPT !.inFlight = TRUE]
  <2>1. pc' \in {"setup", "worktree"} /\ Commit(s, turns, "held")
    BY <1>4 DEF AdmitRun, StartRun
  <2>2. s \in Lanes /\ Quiet(lane, s)
    BY EarlyOK, SettleAsksOK
  <2> HIDE DEF s
  <2>3. Carries(s)
    BY <1>1, <2>2, QuietStores, FixedOpen, StoresCarry
  <2>4. Cancellable(lane) => Cancellable(s)
    BY <2>2 DEF Cancellable, Quiet, Same
  <2>5. QED
    BY <1>1, <1>2, <2>1, <2>3, <2>4 DEF Outcomes
<1>5. QED
  BY <1>3, <1>4

LEMMA NewTurnOK ==
  ASSUME NEW src \in Sources, NEW msg \in 0..MaxInputs, NEW prior \in {"completed", "interrupted"},
         NEW slotted \in BOOLEAN, NEW dead \in BOOLEAN, NEW ts \in Seq(Turn)
  PROVE  LET t == NewTurn(src, msg, prior, slotted, dead)
             us == Append(ts, t)
         IN  /\ t \in Turn /\ t.src = src /\ t.slot = slotted /\ t.phase \in {"sent", "shut"}
             /\ us \in Seq(Turn) /\ Len(us) = Len(ts) + 1 /\ us[Len(us)] = t
             /\ \A i \in 1..Len(ts) : us[i] = ts[i]
<1> DEFINE t == NewTurn(src, msg, prior, slotted, dead)
<1>1. t \in Turn /\ t.src = src /\ t.slot = slotted /\ t.phase \in {"sent", "shut"}
  BY DEF NewTurn, Turn, Phases
<1> HIDE DEF t
<1>2. /\ Append(ts, t) \in Seq(Turn) /\ Len(Append(ts, t)) = Len(ts) + 1
      /\ Append(ts, t)[Len(ts) + 1] = t
      /\ \A i \in 1..Len(ts) : Append(ts, t)[i] = ts[i]
  BY <1>1
<1>3. QED
  BY <1>1, <1>2 DEF t

\* What onAgentReady stores.
Ready ==
    IF lane.st = "absent" THEN lane
    ELSE LET h == [lane EXCEPT !.closeHook = TRUE, !.turnHooks = TRUE]
         IN  Update(h, [h EXCEPT !.st = IF @ = "pending_init" THEN "running" ELSE @])

LEMMA ReadyOK ==
  ASSUME WorkerInv
  PROVE  /\ Ready \in Lanes /\ Ready.cause = "unset" /\ Ready.launch = lane.launch
         /\ Ready.stash = lane.stash /\ Ready.retained = lane.retained /\ Recorded(Ready)
         /\ Ready.failure.class = "retryable" => Ready.failure = lane.failure
         /\ Cancellable(lane) => OpenLane(Ready)
         /\ Abides(lane, Ready)
<1> DEFINE h == [lane EXCEPT !.closeHook = TRUE, !.turnHooks = TRUE]
           st == IF h.st = "pending_init" THEN "running" ELSE h.st
           x == [h EXCEPT !.st = st]
<1>1. lane \in Lanes /\ lane.cause = "unset" /\ Recorded(lane)
  BY EarlyOK
<1>2. CASE lane.st = "absent"
  BY <1>1, <1>2 DEF Ready, Cancellable, Abides, RunEligible, Paused, Over
<1>3. CASE lane.st # "absent"
  <2>1. h \in Lanes
    BY <1>1 DEF Lanes
  <2>2. /\ h.closeHook = TRUE /\ h.st = lane.st /\ h.retained = lane.retained
        /\ h.failure = lane.failure /\ h.cause = "unset" /\ h.launch = lane.launch
        /\ h.stash = lane.stash
    BY <1>1 DEF Lanes
  <2>3. Ready = Update(h, x)
    BY <1>3, <2>1 DEF Ready, Lanes
  <2> HIDE DEF h
  <2>4. st \in States /\ (lane.st = "pending_init" => st = "running")
        /\ (lane.st # "pending_init" => st = lane.st)
    BY <1>1, <2>2 DEF Lanes, States
  <2> HIDE DEF st
  <2>5. x \in Lanes
    BY <2>1, <2>4 DEF Lanes
  <2>6. /\ x.closeHook = TRUE /\ x.st = st /\ x.retained = lane.retained
        /\ x.failure = lane.failure /\ x.cause = "unset" /\ x.launch = lane.launch
        /\ x.stash = lane.stash
    BY <2>1, <2>2 DEF Lanes
  <2> HIDE DEF x
  <2>7. Stampable(x)
    BY <1>1, <2>4, <2>6 DEF Stampable, Recorded
  <2>8. /\ Ready \in Lanes /\ Same(x, Ready) /\ Ready.stash = x.stash /\ Stamps(x, Ready)
        /\ Recorded(Ready)
    BY <1>3, <2>1, <2>2, <2>3, <2>5, <2>7, UpdateOK
  <2>9. Cancellable(lane) => OpenLane(Ready)
    BY <2>4, <2>6, <2>8 DEF Same, Cancellable, OpenLane
  <2>10. Ready.failure.class = "retryable" => Ready.failure = lane.failure
    BY <2>6, <2>8 DEF Stamps
  <2>11. Abides(lane, Ready)
    <3>1. Ready.st = st /\ Ready.st # "absent"
      BY <1>3, <2>4, <2>6, <2>8 DEF Same
    <3>2. lane.failure # NoRecord /\ lane.st \notin RunEligible => Ready.failure = lane.failure
      BY <2>4, <2>6, <2>8 DEF Stamps, RunEligible
    <3>3. QED
      BY <2>4, <3>1, <3>2 DEF Abides, RunEligible, Paused, Over
  <2>12. QED
    BY <2>6, <2>8, <2>9, <2>10, <2>11 DEF Same, Stamps
<1>4. QED
  BY <1>2, <1>3

LEMMA AgentReadyKept == WorkerInv /\ AgentReady => WorkerInv' /\ Honest
<1> SUFFICES ASSUME WorkerInv, AgentReady PROVE WorkerInv' /\ Honest
  OBVIOUS
<1> DEFINE s == Ready
           run == NewTurn("run", 0, "completed", FALSE, FALSE)
           ts == Append(turns, run)
<1>1. /\ pc = "setup" /\ pc' = "turn" /\ Commit(s, ts, slot)
      /\ UNCHANGED <<job, closer, keepFailed, inputs>>
  BY DEF AgentReady, Ready
<1>2. /\ LaneInv /\ lane.launch = <<>> /\ turns \in Seq(Turn) /\ closed \in BOOLEAN
      /\ inputs \in 0..MaxInputs
  BY DEF WorkerInv, LaneInv
<1>3. /\ s \in Lanes /\ s.cause = "unset" /\ s.launch = lane.launch /\ s.stash = lane.stash
      /\ s.retained = lane.retained /\ Recorded(s)
      /\ s.failure.class = "retryable" => s.failure = lane.failure
      /\ Cancellable(lane) => OpenLane(s)
      /\ Abides(lane, s)
  BY ReadyOK
<1>4. Running /\ Running' /\ slot = "held" /\ turns = <<>> /\ (closed \/ Cancellable(lane))
  BY <1>1, EarlyOK DEF Running, WorkerInv, ChainInv, Slots
<1> HIDE DEF s
<1>5. /\ ts \in Seq(Turn) /\ Len(ts) = 1 /\ ts[1] = run /\ run.src = "run" /\ ~run.slot
      /\ run.phase = "sent"
  <2>1. /\ "run" \in Sources /\ 0 \in 0..MaxInputs
    BY ConstantsAssumption DEF Sources
  <2>2. /\ run \in Turn /\ run.src = "run" /\ ~run.slot /\ run.phase = "sent"
    BY <2>1 DEF NewTurn, Turn, Phases
  <2> HIDE DEF run
  <2>3. ts = <<run>>
    BY <1>4
  <2>4. QED
    BY <2>2, <2>3
<1> HIDE DEF ts, run
<1>6. /\ turns' \in Seq(Turn) /\ Len(turns') = 1 /\ DOMAIN turns' = {1} /\ turns' # <<>>
      /\ turns'[1].src = "run" /\ turns'[1].phase = "sent" /\ ~turns'[1].slot
  <2>1. /\ turns' \in Seq(Turn) /\ Len(turns') = Len(ts) + Len(s.launch)
        /\ \A i \in 1..Len(ts) : /\ turns'[i].src = ts[i].src /\ turns'[i].slot = ts[i].slot
                                 /\ turns'[i].phase = ts[i].phase
    BY <1>1, <1>2, <1>3, <1>5, CommitTurns
  <2>2. Len(s.launch) = 0 /\ 1 \in 1..Len(ts)
    BY <1>2, <1>3, <1>5
  <2>3. turns' \in Seq(Turn) /\ Len(turns') = 1
    BY <1>5, <2>1, <2>2
  <2>4. DOMAIN turns' = {1} /\ turns' # <<>>
    BY <2>3
  <2>5. QED
    BY <1>5, <2>1, <2>2, <2>3, <2>4
<1>7. /\ lane' \in Lanes /\ lane'.st = s.st /\ lane'.retained = s.retained
      /\ lane'.failure = s.failure /\ lane'.cause = "unset" /\ lane'.closeHook = s.closeHook
      /\ lane'.calls = {} /\ lane'.launch = <<>>
      /\ closed' = (closed \/ Closes(s)) /\ slot' = slot
  BY <1>1, <1>2, <1>3, <1>4, CommitLane
<1>8. SteersInOrder' /\ Known'
  <2>1. Sorted(lane)
    BY <1>2 DEF LaneInv, SteersInOrder, Sorted
  <2>2. Sorted(s) /\ Steers(s) = Steers(lane)
    BY <1>3, <2>1 DEF Sorted, Steers
  <2>3. \A i \in 1..Len(ts) : ts[i].src # "steer"
    BY <1>5
  <2>4. inputs' \in 0..MaxInputs /\ inputs <= inputs'
    BY <1>1, <1>2, ConstantsAssumption
  <2>5. QED
    BY <1>1, <1>2, <1>3, <1>5, <2>2, <2>3, <2>4, OrderKept
<1>9. LaneInv'
  <2>1. Recorded(lane')
    BY <1>3, <1>7 DEF Recorded
  <2>2. Len(turns') <= 1 /\ ~(Len(turns') >= 2)
    BY <1>6
  <2>3. RetryableMeansFresh' /\ Fresh'
    BY <1>2, <1>3, <1>4, <1>7, <2>2 DEF LaneInv, RetryableMeansFresh, Fresh
  <2>4. Started'
    BY <1>6 DEF Started
  <2>5. Kept'
    BY <1>3, <1>4, <1>7 DEF Kept, OpenLane
  <2>6. inputs' \in 0..MaxInputs /\ closed' \in BOOLEAN
    BY <1>1, <1>2, <1>7 DEF Closes
  <2>7. QED
    BY <1>6, <1>7, <1>8, <2>1, <2>3, <2>4, <2>5, <2>6 DEF LaneInv, Recorded
<1>10. SlotHasOneOwner' /\ Slots'
  <2>1. OwnersKept
    BY <1>4, <1>6 DEF OwnersKept, HoldsSlot
  <2>2. QED
    BY <1>4, <1>7, <2>1, RunSlots
<1>11. Begun' /\ Closings'
  BY <1>1, <1>6, <1>7 DEF Begun, Early, Outcomes, Closings, WorkerInv, ChainInv
<1>12. cancelSignal' \in BOOLEAN /\ answered' \in BOOLEAN
  BY <1>1 DEF Commit, WorkerInv, ChainInv
<1>13. Honest
  BY <1>3, <1>7 DEF Honest, Abides
<1>14. QED
  BY <1>1, <1>4, <1>7, <1>9, <1>10, <1>11, <1>12, <1>13 DEF WorkerInv, ChainInv

-----------------------------------------------------------------------------
(* The worker is taken up again: a resume, a queued resume, a steer. *)

LEMMA TakenUpKept ==
  ASSUME LaneInv, turns # <<>>, NEW s \in Lanes, NEW ts \in Seq(Turn), NEW sl, Commit(s, ts, sl),
         s.cause = "unset", s.launch = <<>>, Recorded(s),
         s.failure.class = "retryable" => s.failure.followup,
         Len(ts) >= Len(turns),
         \A i \in 1..Len(turns) : /\ ts[i].src = turns[i].src /\ ts[i].msg = turns[i].msg
                                  /\ ts[i].phase = turns[i].phase,
         \A i \in 1..Len(ts) : i > Len(turns) => ts[i].src # "steer",
         Len(ts) >= 2 /\ s.st # "absent" => s.followups,
         ~closed => OpenLane(s),
         Sorted(s), inputs' \in 0..MaxInputs, inputs <= inputs',
         \A m \in Steers(s) : m \in Steers(lane) \/ (inputs < m /\ m <= inputs')
  PROVE  LaneInv' /\ turns' # <<>>
<1>1. /\ closed \in BOOLEAN /\ turns \in Seq(Turn) /\ Len(turns) \in Nat \ {0}
      /\ Len(ts) \in Nat
  BY DEF LaneInv
<1>2. /\ turns' \in Seq(Turn) /\ Len(turns') = Len(ts) /\ turns' # <<>>
      /\ turns'[1].src = turns[1].src /\ turns'[1].phase = turns[1].phase
  <2>1. /\ turns' \in Seq(Turn) /\ Len(turns') = Len(ts) + Len(s.launch)
        /\ \A i \in 1..Len(ts) : /\ turns'[i].src = ts[i].src
                                 /\ turns'[i].phase = ts[i].phase
    BY <1>1, CommitTurns
  <2>2. Len(s.launch) = 0 /\ 1 \in 1..Len(turns) /\ 1 \in 1..Len(ts)
    BY <1>1
  <2>3. Len(turns') = Len(ts)
    BY <1>1, <2>1, <2>2
  <2>4. turns' # <<>>
    BY <1>1, <2>1, <2>3
  <2>5. QED
    BY <2>1, <2>2, <2>3, <2>4
<1>3. /\ lane' \in Lanes /\ lane'.st = s.st /\ lane'.retained = s.retained
      /\ lane'.failure = s.failure /\ lane'.followups = s.followups /\ lane'.cause = "unset"
      /\ lane'.closeHook = s.closeHook /\ lane'.calls = {} /\ lane'.launch = <<>>
      /\ closed' = (closed \/ Closes(s))
  BY <1>1, CommitLane
<1>4. SteersInOrder' /\ Known'
  <2>1. \A i \in 1..Len(ts) : ts[i].src = "steer" =>
           i \in 1..Len(turns) /\ turns[i].src = "steer" /\ ts[i].msg = turns[i].msg
    BY <1>1
  <2>2. QED
    BY <2>1, OrderKept
<1>5. Recorded(lane') /\ RetryableMeansFresh' /\ Fresh'
  BY <1>2, <1>3 DEF Recorded, RetryableMeansFresh, Fresh
<1>6. Started'
  BY <1>2 DEF LaneInv, Started
<1>7. Kept'
  BY <1>3 DEF Kept, OpenLane
<1>8. closed' \in BOOLEAN
  BY <1>3 DEF Closes
<1>9. QED
  BY <1>2, <1>3, <1>4, <1>5, <1>6, <1>7, <1>8 DEF LaneInv, Recorded

LEMMA TakenLane ==
  ASSUME WorkerInv
  PROVE  /\ LaneInv /\ lane \in Lanes /\ lane.cause = "unset" /\ lane.calls = {}
         /\ lane.launch = <<>> /\ Recorded(lane) /\ Sorted(lane)
         /\ turns \in Seq(Turn) /\ closed \in BOOLEAN /\ inputs \in 0..MaxInputs
         /\ turns # <<>> => pc \notin Early
BY DEF WorkerInv, LaneInv, ChainInv, Begun, SteersInOrder, Sorted

\* What a taken-up worker's chain and slot come to.
LEMMA TakenChain ==
  ASSUME WorkerInv, LaneInv', turns # <<>>, turns' # <<>>, pc' = pc,
         SlotHasOneOwner', Slots', slot' \in {"free", "queued", "held"},
         job' \in [msg : 0..MaxInputs, prior : {"completed", "interrupted"}],
         closed => closed', cancelSignal' \in BOOLEAN, answered' \in BOOLEAN,
         UNCHANGED <<closer, keepFailed>>
  PROVE  WorkerInv'
<1>1. pc \notin Early
  BY TakenLane
<1>2. Begun' /\ Closings'
  BY <1>1 DEF WorkerInv, ChainInv, Begun, Closings, Early
<1>3. QED
  BY <1>2 DEF WorkerInv, ChainInv

LEMMA StartResumeKept ==
  ASSUME WorkerInv, turns # <<>>, NEW msg \in 0..MaxInputs, NEW prior \in {"completed", "interrupted"},
         NEW slotted \in BOOLEAN, StartResume(lane, msg, prior, slotted, "held"),
         slotted <=> slot # "held", inputs' \in 0..MaxInputs, inputs <= inputs',
         lane.st = "absent" => slot = "queued"
  PROVE  WorkerInv' /\ (lane.st \notin Over => Honest)
<1> DEFINE s == BeginFollowup(lane)
           resume == NewTurn("resume", msg, prior, slotted, closed)
           ts == Append(turns, resume)
<1>1. /\ LaneInv /\ lane \in Lanes /\ lane.launch = <<>> /\ lane.calls = {} /\ Recorded(lane)
      /\ Sorted(lane) /\ turns \in Seq(Turn) /\ Len(turns) \in Nat /\ closed \in BOOLEAN
      /\ pc \notin Early
  BY TakenLane
<1>2. /\ Commit(s, ts, "held") /\ UNCHANGED <<pc, job, closer, keepFailed>>
  BY DEF StartResume
<1>3. /\ s \in Lanes /\ s.cause = "unset" /\ s.followups
      /\ s.retained = lane.retained /\ s.closeHook = lane.closeHook
      /\ s.calls = lane.calls /\ s.launch = lane.launch /\ s.stash = lane.stash
      /\ s.st = IF lane.st = "absent" THEN "absent" ELSE "running"
      /\ s.failure = IF lane.st = "absent" THEN lane.failure ELSE NoRecord
  BY <1>1, BeginFollowupOK
<1>4. /\ resume \in Turn /\ resume.src = "resume" /\ resume.slot = slotted
      /\ resume.phase \in {"sent", "shut"}
      /\ ts \in Seq(Turn) /\ Len(ts) = Len(turns) + 1 /\ ts[Len(ts)] = resume
      /\ \A i \in 1..Len(turns) : ts[i] = turns[i]
  <2>1. "resume" \in Sources
    BY DEF Sources
  <2>2. QED
    BY <1>1, <2>1, NewTurnOK
<1> HIDE DEF s, ts, resume
<1>5. LaneInv' /\ turns' # <<>>
  <2>1. s.failure.class = "retryable" => s.failure.followup
    BY <1>1, <1>3 DEF LaneInv, Fresh, NoRecord
  <2>2. Recorded(s)
    BY <1>1, <1>3 DEF Recorded, RunEligible
  <2>3. ~closed => OpenLane(s)
    BY <1>1, <1>3 DEF LaneInv, Kept, OpenLane
  <2>4. Sorted(s) /\ Steers(s) = Steers(lane)
    BY <1>1, <1>3 DEF Sorted, Steers
  <2>5. /\ \A i \in 1..Len(ts) : i > Len(turns) => ts[i].src # "steer"
        /\ Len(ts) >= Len(turns)
    BY <1>1, <1>4
  <2>6. s.launch = <<>>
    BY <1>1, <1>3
  <2>7. \A i \in 1..Len(turns) : /\ ts[i].src = turns[i].src /\ ts[i].msg = turns[i].msg
                                 /\ ts[i].phase = turns[i].phase
    BY <1>4
  <2>8. QED
    BY <1>1, <1>2, <1>3, <1>4, <2>1, <2>2, <2>3, <2>4, <2>5, <2>6, <2>7, TakenUpKept
<1>6. /\ turns' \in Seq(Turn) /\ DOMAIN turns' = 1..(Len(turns) + 1)
      /\ \A i \in 1..Len(turns) :
            /\ turns'[i].src = turns[i].src /\ turns'[i].slot = turns[i].slot
            /\ turns'[i].phase = turns[i].phase
      /\ turns'[Len(turns) + 1].src = "resume" /\ turns'[Len(turns) + 1].slot = slotted
      /\ turns'[Len(turns) + 1].phase # "done"
  <2>1. /\ turns' \in Seq(Turn) /\ Len(turns') = Len(ts) + Len(s.launch)
        /\ \A i \in 1..Len(ts) : /\ turns'[i].src = ts[i].src /\ turns'[i].slot = ts[i].slot
                                 /\ turns'[i].phase = ts[i].phase
    BY <1>1, <1>2, <1>3, <1>4, CommitTurns
  <2>2. Len(s.launch) = 0
    BY <1>1, <1>3
  <2>3. Len(turns') = Len(turns) + 1
    BY <1>1, <1>4, <2>1, <2>2
  <2>4. \A i \in 1..Len(turns) : i \in 1..Len(ts)
    BY <1>1, <1>4
  <2>5. Len(turns) + 1 \in 1..Len(ts) /\ Len(turns) + 1 = Len(ts)
    BY <1>1, <1>4
  <2>6. DOMAIN turns' = 1..(Len(turns) + 1)
    BY <1>1, <2>1, <2>3
  <2>7. \A i \in 1..Len(turns) :
           /\ turns'[i].src = turns[i].src /\ turns'[i].slot = turns[i].slot
           /\ turns'[i].phase = turns[i].phase
    BY <1>4, <2>1, <2>4
  <2>8. turns'[Len(ts)].src = "resume" /\ turns'[Len(ts)].slot = slotted
        /\ turns'[Len(ts)].phase # "done"
    <3>1. Len(ts) \in 1..Len(ts)
      BY <2>5
    <3>2. QED
      BY <1>4, <2>1, <3>1
  <2>9. QED
    BY <2>1, <2>5, <2>6, <2>7, <2>8
<1>7. slot' = "held" /\ (closed => closed') /\ cancelSignal' \in BOOLEAN /\ answered' \in BOOLEAN
  BY <1>2 DEF Commit, WorkerInv, ChainInv
<1>8. SlotHasOneOwner' /\ Slots'
  <2>1. DOMAIN turns = 1..Len(turns) /\ Len(turns) + 1 \notin 1..Len(turns)
    BY <1>1
  <2>2. CASE slot = "held"
    <3>1. OwnersKept
      BY <1>1, <1>6, <2>1, <2>2, SMTT(60) DEF OwnersKept, HoldsSlot, WorkerInv, ChainInv, Slots
    <3>2. QED
      BY <1>2, <1>5, <1>7, <2>2, <3>1, SlotsKept
  <2>3. CASE slot # "held"
    <3>1. ~Running /\ \A i \in DOMAIN turns : ~HoldsSlot(i)
      BY <2>3 DEF WorkerInv, ChainInv, Slots
    <3>2. /\ \A i \in DOMAIN turns' :
                 turns'[i].slot /\ turns'[i].phase # "done" => i = Len(turns) + 1
          /\ Len(turns) + 1 \in DOMAIN turns' /\ turns'[Len(turns) + 1].slot
      BY <1>1, <1>6, <2>1, <2>3, <3>1 DEF HoldsSlot
    <3>3. SlotHasOneOwner'
      BY <1>2, <1>6, <3>1, <3>2 DEF SlotHasOneOwner, HoldsSlot, Running
    <3>4. \A i \in DOMAIN turns' : turns'[i].slot => turns'[i].src = "resume"
      BY <1>1, <1>6, <2>1 DEF WorkerInv, ChainInv, Slots
    <3>5. Slots'
      BY <1>1, <1>2, <1>5, <1>7, <3>4 DEF Slots, Running, Early
    <3>6. QED
      BY <3>3, <3>5
  <2>4. QED
    BY <2>2, <2>3
<1>9. lane.st \notin Over => Honest
  <2>1. lane'.st = s.st /\ lane'.failure = s.failure
    BY <1>1, <1>2, <1>3, CommitLane
  <2>2. CASE lane.st = "absent"
    BY <1>3, <2>1, <2>2 DEF Honest, Abides, RunEligible, Paused, Over
  <2>3. CASE lane.st \in RunEligible
    BY <1>3, <2>1, <2>3 DEF Honest, Abides, RunEligible, Paused, Over
  <2>4. CASE lane.st \in Paused
    BY <1>3, <2>1, <2>4 DEF Honest, RunEligible, Paused
  <2>5. lane.st \in {"absent"} \cup RunEligible \cup Paused \cup Over
    BY <1>1 DEF Lanes, States, RunEligible, Paused, Over
  <2>6. QED
    BY <2>2, <2>3, <2>4, <2>5
<1>10. QED
  BY <1>2, <1>5, <1>7, <1>8, <1>9, TakenChain DEF WorkerInv, ChainInv

LEMMA AdmitResumeKept == 
  WorkerInv /\ AdmitResume => WorkerInv' /\ (lane.st \notin Over => Honest)
<1> SUFFICES ASSUME WorkerInv, AdmitResume PROVE WorkerInv' /\ (lane.st \notin Over => Honest)
  OBVIOUS
<1>1. /\ turns # <<>> /\ slot = "queued"
      /\ job.msg \in 0..MaxInputs /\ job.prior \in {"completed", "interrupted"}
  BY DEF AdmitResume, WorkerInv, ChainInv, Slots
<1>2. inputs' \in 0..MaxInputs /\ inputs <= inputs'
  BY TakenLane, ConstantsAssumption DEF AdmitResume
<1>3. QED
  BY <1>1, <1>2, StartResumeKept DEF AdmitResume

LEMMA QueueResumeKept ==
  ASSUME WorkerInv, turns # <<>>, NEW msg \in 0..MaxInputs, NEW prior \in {"completed", "interrupted"},
         QueueResume(msg, prior), slot # "held", lane.st \in {"completed", "interrupted"},
         inputs' \in 0..MaxInputs, inputs <= inputs'
  PROVE  WorkerInv' /\ Honest
<1> DEFINE t == [lane EXCEPT !.cancelHook = "dequeue"]
           x == [t EXCEPT !.st = "pending_init"]
           s == Update(t, x)
<1>1. /\ LaneInv /\ lane \in Lanes /\ lane.launch = <<>> /\ lane.calls = {} /\ Recorded(lane)
      /\ lane.cause = "unset" /\ Sorted(lane) /\ turns \in Seq(Turn) /\ closed \in BOOLEAN
      /\ pc \notin Early
  BY TakenLane
<1>2. /\ Commit(s, turns, "queued") /\ UNCHANGED <<pc, closer, keepFailed>>
      /\ job' \in [msg : 0..MaxInputs, prior : {"completed", "interrupted"}]
  BY DEF QueueResume, WorkerInv, ChainInv
<1>3. /\ s \in Lanes /\ s.st = "pending_init" /\ s.cause = "unset" /\ s.failure = NoRecord
      /\ s.followups = lane.followups /\ s.retained = lane.retained
      /\ s.closeHook = lane.closeHook /\ s.calls = {} /\ s.launch = <<>> /\ s.stash = lane.stash
      /\ Recorded(s)
  <2>1. "pending_init" \in States
    BY DEF States
  <2>2. t \in Lanes /\ x \in Lanes
    BY <1>1, <2>1 DEF Lanes
  <2>3. /\ x.st = "pending_init" /\ t.st # "absent" /\ x.cause = "unset"
        /\ x.followups = lane.followups /\ x.retained = lane.retained
        /\ x.closeHook = lane.closeHook /\ x.calls = {} /\ x.launch = <<>> /\ x.stash = lane.stash
    BY <1>1 DEF Lanes
  <2> HIDE DEF t, x
  <2>4. /\ s \in Lanes /\ Same(x, s) /\ s.stash = x.stash /\ Stamps(x, s)
        /\ Stampable(x) => Recorded(s)
    BY <2>2, <2>3, UpdateOK
  <2>5. Stampable(x)
    BY <2>3 DEF Stampable
  <2>6. QED
    BY <2>3, <2>4, <2>5 DEF Same, Stamps, Recorded, RunEligible
<1> HIDE DEF s
<1>4. LaneInv' /\ turns' # <<>>
  <2>1. Len(turns) >= 2 /\ s.st # "absent" => s.followups
    BY <1>1, <1>3 DEF LaneInv, Fresh
  <2>2. ~closed => OpenLane(s)
    BY <1>1, <1>3 DEF LaneInv, Kept, OpenLane
  <2>3. Sorted(s) /\ Steers(s) = Steers(lane)
    BY <1>1, <1>3 DEF Sorted, Steers
  <2>4. Len(turns) >= Len(turns)
    BY <1>1
  <2>5. QED
    BY <1>1, <1>2, <1>3, <2>1, <2>2, <2>3, <2>4, TakenUpKept DEF NoRecord
<1>5. /\ slot' \in {"queued", "free"} /\ (closed => closed')
      /\ cancelSignal' \in BOOLEAN /\ answered' \in BOOLEAN
  BY <1>2 DEF Commit, WorkerInv, ChainInv
<1>6. OwnersKept
  BY <1>1, <1>2, <1>3, TurnsAreLike, CommitOwners
<1>7. ~Running /\ \A i \in DOMAIN turns : ~HoldsSlot(i)
  BY DEF WorkerInv, ChainInv, Slots
<1>8. SlotHasOneOwner'
  BY <1>2, <1>5, <1>6, <1>7 DEF SlotHasOneOwner, OwnersKept, HoldsSlot, Running
<1>9. Slots'
  BY <1>1, <1>2, <1>4, <1>5, <1>6, <1>7 DEF Slots, OwnersKept, HoldsSlot, Running, Early
<1>10. Honest
  <2>1. lane'.st = "pending_init"
    BY <1>1, <1>2, <1>3, CommitLane
  <2>2. QED
    BY <2>1 DEF Honest, Paused, RunEligible
<1>11. QED
  BY <1>2, <1>4, <1>5, <1>8, <1>9, <1>10, TakenChain

LEMMA ResumeAgentKept == WorkerInv /\ ResumeAgent => WorkerInv' /\ Honest
<1> SUFFICES ASSUME WorkerInv, ResumeAgent PROVE WorkerInv' /\ Honest
  OBVIOUS
<1>1. /\ inputs + 1 \in 0..MaxInputs /\ inputs' = inputs + 1 /\ inputs <= inputs'
      /\ lane.st \in {"completed", "interrupted"} /\ turns # <<>>
  <2>1. inputs \in 0..MaxInputs /\ inputs < MaxInputs /\ inputs' = inputs + 1
    BY TakenLane DEF ResumeAgent
  <2>2. lane.st \in {"completed", "interrupted"} /\ turns # <<>>
    BY TakenLane DEF ResumeAgent, Resumable, LaneInv, Started
  <2>3. QED
    BY <2>1, <2>2, ConstantsAssumption
<1>2. lane.st \notin Over
  BY <1>1 DEF Over
<1>3. CASE slot = "held" /\ StartResume(lane, inputs + 1, lane.st, FALSE, slot)
  BY <1>1, <1>2, <1>3, StartResumeKept
<1>4. CASE slot = "free" /\ StartResume(lane, inputs + 1, lane.st, TRUE, "held")
  BY <1>1, <1>2, <1>4, StartResumeKept
<1>5. CASE slot # "held" /\ QueueResume(inputs + 1, lane.st)
  BY <1>1, <1>5, QueueResumeKept
<1>6. QED
  BY <1>3, <1>4, <1>5 DEF ResumeAgent

LEMMA SendInputInterruptKept == WorkerInv /\ SendInputInterrupt => WorkerInv' /\ Honest
<1> SUFFICES ASSUME WorkerInv, SendInputInterrupt PROVE WorkerInv' /\ Honest
  OBVIOUS
<1> DEFINE msg == inputs + 1
           s == SendInterrupt(lane, msg)
<1>1. /\ LaneInv /\ lane \in Lanes /\ lane.launch = <<>> /\ lane.calls = {} /\ Recorded(lane)
      /\ lane.cause = "unset" /\ Sorted(lane) /\ turns \in Seq(Turn) /\ closed \in BOOLEAN
      /\ inputs \in 0..MaxInputs
  BY TakenLane
<1>2. /\ inputs < MaxInputs /\ inputs' = msg /\ lane.st = "running" /\ turns # <<>>
      /\ Commit(s, turns, slot) /\ UNCHANGED <<pc, job, closer, keepFailed>>
  BY <1>1 DEF SendInputInterrupt, LaneInv, Started
<1>3. msg \in 1..MaxInputs /\ inputs' \in 0..MaxInputs /\ inputs <= inputs' /\ inputs < msg
  BY <1>1, <1>2, ConstantsAssumption
<1>4. /\ s \in Lanes /\ s.cause = "unset" /\ Recorded(s) /\ s.st = "running"
      /\ s.retained = lane.retained /\ s.followups = lane.followups
      /\ s.closeHook = lane.closeHook /\ s.launch = <<>> /\ s.stash = Append(lane.stash, msg)
  <2> HIDE DEF msg
  <2>1. lane.st # "absent"
    BY <1>2
  <2>2. QED
    BY <1>1, <1>2, <1>3, <2>1, SendInterruptOK
<1> HIDE DEF msg, s
<1>5. Sorted(s) /\ \A m \in Steers(s) : m \in Steers(lane) \/ m = msg
  <2>1. lane.stash \in Seq(1..MaxInputs) /\ \A k \in DOMAIN lane.stash : lane.stash[k] <= inputs
    BY <1>1 DEF Lanes, LaneInv, Known
  <2> DEFINE n == Len(lane.stash)
  <2>2. /\ n \in Nat /\ DOMAIN lane.stash = 1..n /\ DOMAIN s.stash = 1..(n + 1)
        /\ \A k \in 1..n : s.stash[k] = lane.stash[k]
        /\ s.stash[n + 1] = msg
    BY <1>4, <2>1
  <2> HIDE DEF n
  <2>3. ASSUME NEW j \in DOMAIN s.stash, NEW k \in DOMAIN s.stash, j < k
        PROVE  s.stash[j] < s.stash[k]
    <3>1. j \in 1..n /\ (k \in 1..n \/ k = n + 1)
      BY <2>2, <2>3
    <3>2. CASE k \in 1..n
      BY <1>1, <2>2, <2>3, <3>1, <3>2 DEF Sorted
    <3>3. CASE k = n + 1
      <4>1. lane.stash[j] \in 1..MaxInputs /\ lane.stash[j] <= inputs
        BY <2>1, <2>2, <3>1, ElementOK DEF n
      <4>2. QED
        BY <1>1, <1>3, <2>2, <3>1, <3>3, <4>1, ConstantsAssumption
    <3>4. QED
      BY <3>1, <3>2, <3>3
  <2>4. Sorted(s)
    BY <1>4, <2>3 DEF Sorted
  <2>5. \A m \in Steers(s) : m \in Steers(lane) \/ m = msg
    <3>1. ASSUME NEW k \in DOMAIN s.stash
          PROVE  s.stash[k] \in Steers(lane) \/ s.stash[k] = msg
      <4>1. k \in 1..n \/ k = n + 1
        BY <2>2
      <4>2. QED
        BY <2>2, <4>1 DEF Steers
    <3>2. Steers(s) = {s.stash[k] : k \in DOMAIN s.stash}
      BY <1>4 DEF Steers
    <3>3. QED
      BY <3>1, <3>2
  <2>6. QED
    BY <2>4, <2>5
<1>6. LaneInv' /\ turns' # <<>>
  <2>1. s.failure = NoRecord
    BY <1>4 DEF Recorded, RunEligible
  <2>2. Len(turns) >= 2 /\ s.st # "absent" => s.followups
    BY <1>1, <1>2, <1>4 DEF LaneInv, Fresh
  <2>3. ~closed => OpenLane(s)
    BY <1>1, <1>2, <1>4 DEF LaneInv, Kept, OpenLane
  <2>4. \A m \in Steers(s) : m \in Steers(lane) \/ (inputs < m /\ m <= inputs')
    BY <1>1, <1>2, <1>3, <1>5
  <2>5. Len(turns) >= Len(turns)
    BY <1>1
  <2>6. QED
    BY <1>1, <1>2, <1>3, <1>4, <1>5, <2>1, <2>2, <2>3, <2>4, <2>5, TakenUpKept DEF NoRecord
<1>7. /\ slot' \in {slot, "free"} /\ (slot # "queued" => slot' = slot) /\ (closed => closed')
      /\ cancelSignal' \in BOOLEAN /\ answered' \in BOOLEAN
  BY <1>2 DEF Commit, WorkerInv, ChainInv
<1>8. OwnersKept
  BY <1>1, <1>2, <1>4, TurnsAreLike, CommitOwners
<1>9. SlotHasOneOwner' /\ Slots'
  <2>1. CASE slot' = slot
    BY <1>2, <1>6, <1>8, <2>1, SlotsKept
  <2>2. CASE slot' # slot
    BY <1>2, <1>7, <1>8, <2>2, SlotFreed
  <2>3. QED
    BY <2>1, <2>2
<1>10. slot' \in {"free", "queued", "held"}
       /\ job' \in [msg : 0..MaxInputs, prior : {"completed", "interrupted"}]
  BY <1>2, <1>7 DEF WorkerInv, ChainInv
<1>11. Honest
  <2>1. lane'.st = "running"
    BY <1>1, <1>2, <1>4, CommitLane
  <2>2. QED
    BY <1>2, <2>1 DEF Honest, Abides, RunEligible, Paused, Over
<1>12. QED
  BY <1>2, <1>6, <1>7, <1>9, <1>10, <1>11, TakenChain

-----------------------------------------------------------------------------
(* The invariant, and the properties it implies. *)

LEMMA WorkerInit == Init => WorkerInv
<1> SUFFICES ASSUME Init PROVE WorkerInv
  OBVIOUS
<1>1. lane = Unstarted /\ turns = <<>> /\ inputs = 0 /\ closed = FALSE /\ pc = "idle" /\ slot = "free"
  BY DEF Init
<1>2. lane \in Lanes
  <2>1. /\ "absent" \in States /\ "none" \in Stops /\ "none" \in Handoffs
        /\ "unset" \in Causes /\ <<>> \in Seq(1..MaxInputs)
    BY DEF States, Stops, Handoffs, Causes
  <2>2. QED
    BY <1>1, <2>1 DEF Unstarted, Lanes
<1>3. /\ lane.st = "absent" /\ lane.failure = NoRecord /\ lane.calls = {} /\ lane.launch = <<>>
      /\ lane.stash = <<>> /\ lane.cause = "unset" /\ ~lane.turnHooks
  BY <1>1 DEF Unstarted
<1>4. inputs \in 0..MaxInputs /\ turns \in Seq(Turn) /\ DOMAIN turns = {} /\ Len(turns) = 0
  BY <1>1, ConstantsAssumption
<1>5. LaneInv
  <2>1. Recorded(lane) /\ RetryableMeansFresh /\ Fresh
    BY <1>3, <1>4 DEF Recorded, RetryableMeansFresh, Fresh, NoRecord, RunEligible
  <2>2. SteersInOrder /\ Known
    BY <1>3, <1>4 DEF SteersInOrder, Known
  <2>3. Started /\ Kept
    BY <1>1, <1>3 DEF Started, Kept
  <2>4. QED
    BY <1>1, <1>2, <1>3, <1>4, <2>1, <2>2, <2>3 DEF LaneInv
<1>6. ChainInv
  <2>1. SlotHasOneOwner /\ Slots /\ Begun /\ Closings
    BY <1>1, <1>3, <1>4 DEF Init, SlotHasOneOwner, Slots, Begun, Closings, HoldsSlot, Running, Early, Outcomes
  <2>2. job \in [msg : 0..MaxInputs, prior : {"completed", "interrupted"}]
    BY ConstantsAssumption DEF Init
  <2>3. QED
    BY <2>1, <2>2 DEF Init, ChainInv
<1>7. QED
  BY <1>5, <1>6 DEF WorkerInv

LEMMA WorkerStutters == WorkerInv /\ UNCHANGED vars => WorkerInv'
<1> SUFFICES ASSUME WorkerInv, UNCHANGED vars PROVE WorkerInv'
  OBVIOUS
<1>1. LaneInv'
  BY DEF WorkerInv, LaneInv, vars, RetryableMeansFresh, Fresh, SteersInOrder, Known, Started, Kept,
         OpenLane, Recorded
<1>2. ChainInv'
  BY DEF WorkerInv, ChainInv, vars, SlotHasOneOwner, Slots, Begun, Closings, HoldsSlot, Running,
         Early, Cancellable
<1>3. QED
  BY <1>1, <1>2 DEF WorkerInv

\* The one step that takes up again a worker that is over: a resume that waited
\* for the admission window while the worker was closed, cancelled or failed.
Revives == AdmitResume /\ lane.st \in Over

LEMMA WorkerStep == WorkerInv /\ [Next]_vars => WorkerInv' /\ (Honest \/ Revives)
<1> SUFFICES ASSUME WorkerInv, Next PROVE WorkerInv' /\ (Honest \/ Revives)
  <2>1. UNCHANGED vars => Honest
    BY SameHonest DEF vars
  <2>2. QED
    BY <2>1, WorkerStutters
<1>1. CASE Spawn
  BY <1>1, SpawnKept
<1>2. CASE AdmitRun
  BY <1>2, AdmitRunKept
<1>3. CASE WorktreeDone
  BY <1>3, WorktreeDoneKept
<1>4. CASE AgentReady
  BY <1>4, AgentReadyKept
<1>5. CASE SetupThrows
  BY <1>5, SetupThrowsKept
<1>6. CASE \E outcome \in Outcomes : RunEnds(outcome)
  BY <1>6, RunEndsKept
<1>7. CASE RunSettles
  BY <1>7, RunSettlesKept
<1>8. CASE RunFinally
  BY <1>8, RunFinallyKept
<1>9. CASE \E i \in DOMAIN turns : \E phase \in {"replied", "threw", "shut"} : TurnEnds(i, phase)
  BY <1>9, TurnEndsKept
<1>10. CASE \E i \in DOMAIN turns : TurnSettles(i)
  BY <1>10, TurnSettlesKept
<1>11. CASE \E i \in DOMAIN turns : TurnAfterOnFail(i)
  BY <1>11, TurnAfterOnFailKept
<1>12. CASE \E i \in DOMAIN turns : TurnFinally(i)
  BY <1>12, TurnFinallyKept
<1>13. CASE ResumeAgent
  BY <1>13, ResumeAgentKept
<1>14. CASE AdmitResume
  BY <1>14, AdmitResumeKept DEF Revives
<1>15. CASE SendInputInterrupt
  BY <1>15, SendInputInterruptKept
<1>16. CASE InterruptAgent
  BY <1>16, InterruptAgentKept
<1>17. CASE AskDirector
  BY <1>17, AskDirectorKept
<1>18. CASE \E structured \in BOOLEAN : AnswerAsk(structured)
  BY <1>18, AnswerAskKept
<1>19. CASE ExpireStaleAsk
  BY <1>19, ExpireStaleAskKept
<1>20. CASE ConsumeAnswer
  BY <1>20, ConsumeAnswerKept
<1>21. CASE CloseAgent
  BY <1>21, CloseAgentKept
<1>22. CASE CloseStopsWaiting
  BY <1>22, CloseStopsWaitingKept
<1>23. CASE CloseEnds
  BY <1>23, CloseEndsKept
<1>24. CASE CancelAll
  BY <1>24, CancelAllKept
<1>25. CASE Teardown
  BY <1>25, TeardownKept
<1>26. CASE Prune
  BY <1>26, PruneKept
<1>27. QED
  BY <1>1, <1>2, <1>3, <1>4, <1>5, <1>6, <1>7, <1>8, <1>9, <1>10, <1>11, <1>12, <1>13, <1>14,
     <1>15, <1>16, <1>17, <1>18, <1>19, <1>20, <1>21, <1>22, <1>23, <1>24, <1>25, <1>26 DEF Next

\* The worker, its chain, its turns and its slot keep the invariant, whatever the
\* parent does and whenever (spawn_agent's chain, the settlements and every verb).
THEOREM WorkerInvariant == Spec => []WorkerInv
BY WorkerInit, WorkerStep, PTL DEF Spec

\* Every reachable state of the session, its chain and its turns has its type.
THEOREM WorkerTypeCorrect == Spec => []TypeOK
BY WorkerInvariant, LaneTyped, PTL

\* A held admission slot has exactly one owner that will release it, the run or one
\* resumed turn (the two finally blocks that call admission.release).
THEOREM SlotOwned == Spec => []SlotHasOneOwner
<1>1. WorkerInv => SlotHasOneOwner
  BY DEF WorkerInv, ChainInv
<1>2. QED
  BY <1>1, WorkerInvariant, PTL

\* No agent outlives its session: an agent that was built and is not closed has a
\* session that is open and holds its close handle.
THEOREM NoAgentLeft == Spec => []NoOrphanAgent
<1>1. WorkerInv => NoOrphanAgent
  BY DEF WorkerInv, LaneInv, Kept, OpenLane, NoOrphanAgent
<1>2. QED
  BY <1>1, WorkerInvariant, PTL

\* A failed, cancelled or interrupted lane has its failure record, and a lane a run
\* may be attached to has none, on every path that stores a lane.
THEOREM RecordStamped == Spec => []RecordMatchesLane
<1>1. WorkerInv => RecordMatchesLane
  BY DEF WorkerInv, LaneInv, Recorded, RecordMatchesLane
<1>2. QED
  BY <1>1, WorkerInvariant, PTL

\* A worker whose brief recovers may replay (its record is retryable and not a
\* follow-up's) has never begun a second turn.
THEOREM RetryableIsFresh == Spec => []RetryableMeansFresh
<1>1. WorkerInv => RetryableMeansFresh
  BY DEF WorkerInv, LaneInv
<1>2. QED
  BY <1>1, WorkerInvariant, PTL

\* Steers are sent to the worker in the order they were accepted, each at most
\* once, through every hand-off of the queue of stashed follow-ups.
THEOREM SteersOrdered == Spec => []SteersInOrder
<1>1. WorkerInv => SteersInOrder
  BY DEF WorkerInv, LaneInv
<1>2. QED
  BY <1>1, WorkerInvariant, PTL

-----------------------------------------------------------------------------
(* What the parent is promised of a worker. *)

LEMMA HonestKeeps ==
  WorkerInv /\ WorkerInv' /\ Honest => Promise!Next \/ UNCHANGED Promise!promise
<1> SUFFICES ASSUME WorkerInv, WorkerInv', Honest
             PROVE  Promise!Next \/ UNCHANGED Promise!promise
  OBVIOUS
<1> DEFINE out == IF lane.st \in RunEligible THEN "live" ELSE lane.st
           rec == IF lane.st = "absent" THEN NoRecord ELSE lane.failure
           outs == IF lane'.st \in RunEligible THEN "live" ELSE lane'.st
           recs == IF lane'.st = "absent" THEN NoRecord ELSE lane'.failure
<1>1. /\ lane.st \in States /\ lane'.st \in States /\ Recorded(lane) /\ Recorded(lane')
      /\ lane.failure \in FailureRecords \cup {NoRecord}
      /\ lane'.failure \in FailureRecords \cup {NoRecord}
  <2>1. lane \in Lanes /\ Recorded(lane)
    BY DEF WorkerInv, LaneInv
  <2>2. lane' \in Lanes /\ Recorded(lane')
    BY DEF WorkerInv, LaneInv, Recorded
  <2>3. QED
    BY <2>1, <2>2 DEF Lanes
<1>2. /\ lane.st \in RunEligible => out = "live" /\ rec = NoRecord
      /\ lane.st = "absent" => out = "absent" /\ rec = NoRecord
      /\ lane.st \in Paused \cup Over => out = lane.st /\ rec = lane.failure
      /\ lane'.st \in RunEligible => outs = "live" /\ recs = NoRecord
      /\ lane'.st = "absent" => outs = "absent" /\ recs = NoRecord
      /\ lane'.st \in Paused \cup Over => outs = lane'.st /\ recs = lane'.failure
  BY <1>1 DEF Recorded, RunEligible, Paused, Over
<1>3. /\ lane.st \in {"absent"} \cup RunEligible \cup Paused \cup Over
      /\ lane'.st \in {"absent"} \cup RunEligible \cup Paused \cup Over
  BY <1>1 DEF States, RunEligible, Paused, Over
<1> HIDE DEF out, rec, outs, recs
<1>4. CASE lane.st \in {"absent"} \cup Paused /\ lane'.st \in RunEligible
  <2>1. out \in {"absent"} \cup Paused /\ outs = "live" /\ recs = NoRecord
    BY <1>2, <1>4
  <2>2. Promise!Begin
    BY <2>1 DEF Promise!Begin, Promise!Resumable, Paused, out, outs, recs
  <2>3. QED
    BY <2>2 DEF Promise!Next
<1>5. CASE Abides(lane, lane')
  <2>1. CASE lane.st = "absent"
    <3>1. out = outs /\ rec = recs
      BY <1>2, <1>5, <2>1 DEF Abides
    <3>2. QED
      BY <3>1 DEF Promise!promise, out, outs, rec, recs
  <2>2. CASE lane.st \in RunEligible /\ lane'.st \in RunEligible
    <3>1. out = outs /\ rec = recs
      BY <1>2, <2>2
    <3>2. QED
      BY <3>1 DEF Promise!promise, out, outs, rec, recs
  <2>3. CASE lane.st \in RunEligible /\ lane'.st \notin RunEligible
    <3>1. /\ out = "live" /\ outs \in Paused \cup Over
          /\ recs \in FailureRecords \cup {NoRecord}
          /\ recs = NoRecord => outs \in {"completed", "shutdown"}
      BY <1>1, <1>2, <1>3, <1>5, <2>3 DEF Abides, Recorded, Paused, Over
    <3>2. Promise!Settle
      BY <3>1 DEF Promise!Settle, Promise!Resumable, Promise!Ended, Paused, Over, out, outs, recs
    <3>3. QED
      BY <3>2 DEF Promise!Next
  <2>4. CASE lane.st \in Paused \cup Over /\ lane'.st = "absent"
    <3>1. out \in Paused \cup Over /\ outs = "absent" /\ recs = NoRecord
      BY <1>2, <2>4
    <3>2. Promise!Forget
      BY <3>1 DEF Promise!Forget, Promise!Resumable, Promise!Ended, Paused, Over, out, outs, recs
    <3>3. QED
      BY <3>2 DEF Promise!Next
  <2>5. CASE lane.st \in Paused \cup Over /\ lane'.st # "absent"
    <3>1. /\ out = lane.st /\ rec = lane.failure /\ outs = lane'.st /\ recs = lane'.failure
          /\ out \in Paused \cup Over
          /\ outs = out \/ (out \in Paused /\ outs \in Over) \/ (out \in Over /\ outs = "shutdown")
          /\ recs \in FailureRecords \cup {NoRecord}
          /\ rec # NoRecord => recs = rec \/ (out = "interrupted" /\ outs = "failed")
          /\ rec = NoRecord => out \in {"completed", "shutdown"}
          /\ recs = NoRecord => outs \in {"completed", "shutdown"}
      BY <1>1, <1>2, <1>3, <1>5, <2>5 DEF Abides, Recorded, RunEligible, Paused, Over
    <3>2. CASE outs = out /\ recs = rec
      BY <3>2 DEF Promise!promise, out, outs, rec, recs
    <3>3. CASE outs = out /\ recs # rec
      <4>1. rec = NoRecord /\ recs \in FailureRecords /\ out \in {"completed", "shutdown"}
        BY <3>1, <3>3
      <4>2. Promise!Stamp
        BY <3>3, <4>1 DEF Promise!Stamp, out, outs, rec, recs
      <4>3. QED
        BY <4>2 DEF Promise!Next
    <3>4. CASE outs # out
      <4>1. /\ outs \in IF out \in Paused THEN Over ELSE {"shutdown"}
            /\ \/ recs = rec /\ (rec = NoRecord => outs = "shutdown")
               \/ recs \in FailureRecords /\ (rec = NoRecord \/ outs = "failed")
        BY <3>1, <3>4 DEF Paused, Over
      <4>2. Promise!End
        BY <3>1, <4>1 DEF Promise!End, Promise!Resumable, Promise!Ended, Paused, Over, out, outs, rec, recs
      <4>3. QED
        BY <4>2 DEF Promise!Next
    <3>5. QED
      BY <3>2, <3>3, <3>4
  <2>6. QED
    BY <1>3, <2>1, <2>2, <2>3, <2>4, <2>5 DEF Paused, Over
<1>6. QED
  BY <1>4, <1>5 DEF Honest

\* What the parent reads of a worker changes as WorkerPromise says, whatever the
\* admission window does, unless a resume that was queued on a full window starts
\* after its worker was over (the start callback of queueFollowupTurn).
THEOREM PromiseHeldUnlessRevived ==
  Spec => [][Promise!Next \/ UNCHANGED Promise!promise \/ Revives]_vars
<1>1. WorkerInv /\ WorkerInv' /\ [Next]_vars
         => [Promise!Next \/ UNCHANGED Promise!promise \/ Revives]_vars
  BY WorkerStep, HonestKeeps
<1>2. QED
  BY <1>1, WorkerInvariant, PTL DEF Spec

LEMMA CommitSlot ==
  ASSUME NEW s, NEW ts, NEW sl, Commit(s, ts, sl), sl # "queued"
  PROVE  slot' # "queued"
BY DEF Commit

\* While the window is never full, no resume is queued.
LEMMA NothingQueues ==
  ASSUME TRUE \notin WindowFull, WorkerInv, slot # "queued", [Next]_vars
  PROVE  slot' # "queued"
<1>1. ASSUME NEW s, NEW ts, Commit(s, ts, slot)
      PROVE  slot' # "queued"
  BY <1>1, CommitSlot
<1>2. ASSUME NEW s, StartRun(s)
      PROVE  slot' # "queued"
  BY <1>2, CommitSlot DEF StartRun
<1>3. CASE UNCHANGED vars
  BY <1>3 DEF vars
<1>4. CASE Spawn \/ AdmitRun
  <2>1. ASSUME NEW full \in WindowFull, NEW s,
               IF full THEN pc' = "queued" /\ Commit(s, turns, "queued") ELSE StartRun(s)
        PROVE  slot' # "queued"
    <3>1. full # TRUE
      OBVIOUS
    <3>2. full \in BOOLEAN
      BY ConstantsAssumption
    <3>3. QED
      BY <1>2, <2>1, <3>1, <3>2
  <2>2. QED
    BY <1>4, <2>1 DEF Spawn, AdmitRun
<1>5. CASE WorktreeDone \/ AgentReady \/ RunSettles
  BY <1>1, <1>5 DEF WorktreeDone, AgentReady, RunSettles
<1>6. CASE SetupThrows \/ \E outcome \in Outcomes : RunEnds(outcome)
  BY <1>6 DEF SetupThrows, RunEnds
<1>7. CASE RunFinally \/ \E i \in DOMAIN turns : TurnFinally(i)
  BY <1>7 DEF RunFinally, TurnFinally, Released
<1>8. CASE \E i \in DOMAIN turns : TurnSettles(i) \/ TurnAfterOnFail(i)
  BY <1>1, <1>8 DEF TurnSettles, TurnAfterOnFail
<1>9. CASE \E i \in DOMAIN turns : \E phase \in {"replied", "threw", "shut"} : TurnEnds(i, phase)
  BY <1>9 DEF TurnEnds
<1>10. CASE ResumeAgent
  <2>1. ASSUME NEW msg, NEW prior, NEW slotted, NEW sl \in {slot, "held"},
               StartResume(lane, msg, prior, slotted, sl)
        PROVE  slot' # "queued"
    <3>1. sl # "queued"
      OBVIOUS
    <3>2. QED
      BY <2>1, <3>1, CommitSlot DEF StartResume
  <2>2. QED
    BY <1>10, <2>1 DEF ResumeAgent
<1>11. CASE AdmitResume
  BY <1>11 DEF AdmitResume
<1>12. CASE SendInputInterrupt \/ InterruptAgent \/ AskDirector
  BY <1>1, <1>12 DEF SendInputInterrupt, InterruptAgent, AskDirector
<1>13. CASE ExpireStaleAsk \/ ConsumeAnswer \/ \E structured \in BOOLEAN : AnswerAsk(structured)
  BY <1>13 DEF ExpireStaleAsk, ConsumeAnswer, AnswerAsk
<1>14. CASE CloseAgent \/ CloseStopsWaiting \/ CloseEnds
  BY <1>1, <1>14 DEF CloseAgent, CloseStopsWaiting, CloseEnds, BeginClose
<1>15. CASE CancelAll \/ Teardown \/ Prune
  BY <1>1, <1>15 DEF CancelAll, Teardown, Prune
<1>16. QED
  BY <1>3, <1>4, <1>5, <1>6, <1>7, <1>8, <1>9, <1>10, <1>11, <1>12, <1>13, <1>14, <1>15 DEF Next

\* A failed, cancelled or closed worker is over, as long as the admission window is
\* never full: no resume waits, and the start of a resume that waited is the one
\* step that looks at nothing (queueFollowupTurn).
THEOREM EndedIsOver ==
  ASSUME TRUE \notin WindowFull
  PROVE  Spec => EndedStaysEnded
<1>1. Init => slot # "queued"
  BY DEF Init
<1>2. WorkerInv /\ slot # "queued" /\ [Next]_vars => (slot # "queued")'
  BY NothingQueues
<1>3. WorkerInv /\ slot # "queued" /\ [Next]_vars
         => [lane.st \in {"failed", "cancelled", "shutdown"}
                => lane'.st \in {lane.st, "shutdown", "absent"}]_vars
  BY WorkerStep DEF Honest, Abides, Revives, AdmitResume, Over, Paused
<1>4. QED
  BY <1>1, <1>2, <1>3, WorkerInvariant, PTL DEF Spec, EndedStaysEnded

\* The session implements WorkerPromise, under the same condition: every step of
\* the worker is one step of what the parent is promised, or none.
THEOREM Implements ==
  ASSUME TRUE \notin WindowFull
  PROVE  Spec => KeepsPromise
<1>1. Init => Promise!Init
  BY DEF Init, Promise!Init, Unstarted, RunEligible
<1>2. Init => slot # "queued"
  BY DEF Init
<1>3. WorkerInv /\ slot # "queued" /\ [Next]_vars => (slot # "queued")'
  BY NothingQueues
<1>4. WorkerInv /\ slot # "queued" /\ [Next]_vars => [Promise!Next]_(Promise!promise)
  BY WorkerStep, HonestKeeps DEF Revives, AdmitResume
<1>5. QED
  BY <1>1, <1>2, <1>3, <1>4, WorkerInvariant, PTL DEF Spec, KeepsPromise, Promise!Spec

-----------------------------------------------------------------------------
(* What a record says of a question that was out when it was written. *)

\* The handoff a record written now would carry.
Says(s) == IF s.caught = "unset" THEN CurrentHandoff(s) ELSE s.caught

\* A handoff taken for a transition that wrote no record.
Stale(s) == s.caught \notin {"unset", "unavailable"}

\* A session that ended well has nothing left to record.
Settled(s) ==
    s.st \in {"completed", "shutdown"} /\ s.failure = NoRecord => s.stop \notin ForcedStops

\* What reconciling a lane makes of its record and of the handoff taken for it.
Writes(s, t) ==
    /\ t \in Lanes /\ Same(s, t) /\ t.stash = s.stash /\ t.ask = s.ask /\ Settled(t)
    /\ s.st \in RunEligible => t.failure = NoRecord /\ t.caught = s.caught
    /\ s.st \notin RunEligible /\ s.failure # NoRecord
          => t.failure = s.failure /\ t.caught = s.caught
    /\ s.st \notin RunEligible /\ s.failure = NoRecord =>
          /\ t.caught = "unset"
          /\ t.failure # NoRecord => t.failure.handoff = Says(s)
          /\ s.st \in {"completed", "shutdown"} /\ s.stop \notin ForcedStops
                => t.failure = NoRecord

LEMMA ReconcileWrites ==
  ASSUME NEW s \in Lanes
  PROVE  Writes(s, Reconcile(s))
<1>1. Reconcile(s) \in Lanes /\ Same(s, Reconcile(s)) /\ Reconcile(s).stash = s.stash
  BY ReconcileOK
<1> DEFINE record == IF FailureClass(s) = "none" THEN NoRecord
                     ELSE [class |-> FailureClass(s), followup |-> s.followups,
                           handoff |-> IF s.caught = "unset"
                                       THEN CurrentHandoff(s) ELSE s.caught]
           live == [s EXCEPT !.failure = NoRecord]
           stamped == [s EXCEPT !.failure = record, !.caught = "unset", !.cause = "unset"]
<1>2. Reconcile(s) = IF s.st \in RunEligible THEN live
                     ELSE IF s.failure # NoRecord THEN s ELSE stamped
  BY DEF Reconcile
<1>3. /\ record # NoRecord => record.handoff = Says(s)
      /\ s.st \in {"completed", "shutdown"} => (record = NoRecord <=> s.stop \notin ForcedStops)
  <2>1. s.st \in {"completed", "shutdown"} =>
           FailureClass(s) = (IF s.stop \in ForcedStops THEN s.stop ELSE "none")
    BY DEF FailureClass
  <2>2. "none" \notin ForcedStops
    BY DEF ForcedStops
  <2>3. QED
    BY <2>1, <2>2 DEF Says, NoRecord
<1> HIDE DEF record
<1>4. CASE s.st \in RunEligible
  <2>1. live.ask = s.ask /\ live.failure = NoRecord /\ live.caught = s.caught /\ live.st = s.st
    BY DEF Lanes
  <2>2. QED
    BY <1>1, <1>2, <1>4, <2>1 DEF Writes, Settled, RunEligible
<1>5. CASE s.st \notin RunEligible /\ s.failure # NoRecord
  BY <1>1, <1>2, <1>5 DEF Writes, Settled
<1>6. CASE s.st \notin RunEligible /\ s.failure = NoRecord
  <2>1. /\ stamped.ask = s.ask /\ stamped.failure = record /\ stamped.caught = "unset"
        /\ stamped.st = s.st /\ stamped.stop = s.stop
    BY DEF Lanes
  <2>2. QED
    BY <1>1, <1>2, <1>3, <1>6, <2>1 DEF Writes, Settled
<1>7. QED
  BY <1>4, <1>5, <1>6

LEMMA UpdateWrites ==
  ASSUME NEW s \in Lanes, NEW t \in Lanes, s.st # "absent"
  PROVE  Writes(t, Update(s, t))
<1> DEFINE r == Reconcile(t)
           e == [r EXCEPT !.inFlight = FALSE]
<1>1. Writes(t, r) /\ Update(s, t) \in {r, e}
  BY ReconcileWrites DEF Update, EnforceSettled
<1> HIDE DEF r
<1>2. /\ e \in Lanes /\ Same(r, e) /\ e.stash = r.stash /\ e.failure = r.failure
      /\ e.caught = r.caught /\ e.ask = r.ask
  <2>1. r \in Lanes
    BY <1>1 DEF Writes
  <2>2. e \in Lanes
    BY <2>1, ZenonT(60) DEF Lanes
  <2>3. /\ \A f \in DOMAIN r \ {"inFlight"} : e[f] = r[f]
        /\ {"st", "retained", "stash", "failure", "caught", "ask"} \subseteq DOMAIN r \ {"inFlight"}
    BY <2>1 DEF Lanes
  <2>4. QED
    BY <2>1, <2>2, <2>3, ZenonT(60) DEF Same, Lanes
<1> HIDE DEF e
<1>3. Writes(t, e)
  BY <1>1, <1>2 DEF Writes, Same, Settled
<1>4. QED
  BY <1>1, <1>3

\* Emptying the queue of steers of a lane that is settled writes nothing.
Empties(s, t) ==
    /\ t \in Lanes /\ Same(s, t) /\ t.ask = s.ask /\ t.stash = <<>>
    /\ t.failure = s.failure /\ Settled(t)
    /\ t.caught \in {s.caught, "unset"}
    /\ s.st \in RunEligible \/ s.failure # NoRecord => t.caught = s.caught

LEMMA DropStashEmpties ==
  ASSUME NEW s \in Lanes, Recorded(s), Settled(s)
  PROVE  Empties(s, DropStash(s))
<1>1. CASE s.stash = <<>>
  BY <1>1 DEF DropStash, Empties, Same
<1>2. CASE s.stash # <<>>
  <2> DEFINE t == [s EXCEPT !.stash = <<>>]
  <2>1. DropStash(s) = Update(t, t)
    BY <1>2 DEF DropStash
  <2>2. /\ t \in Lanes /\ Same(s, t) /\ t.stash = <<>> /\ t.failure = s.failure
        /\ t.ask = s.ask /\ t.caught = s.caught
    <3>1. <<>> \in Seq(1..MaxInputs)
      OBVIOUS
    <3>2. QED
      BY <3>1 DEF Lanes, Same
  <2> HIDE DEF t
  <2>3. CASE t.st = "absent"
    BY <2>1, <2>2, <2>3 DEF Update, Empties, Same, Settled
  <2>4. CASE t.st # "absent"
    <3>1. Writes(t, Update(t, t))
      BY <2>2, <2>4, UpdateWrites
    <3>2. t.st \in States
      BY <2>2 DEF Lanes
    <3>3. t.st \notin RunEligible /\ t.failure = NoRecord
             => t.st \in {"completed", "shutdown"} /\ t.stop \notin ForcedStops
      BY <2>2, <2>4, <3>2 DEF Recorded, Settled, Same, States, RunEligible
    <3>4. t.st \in RunEligible => t.failure = NoRecord
      BY <2>2 DEF Recorded, Same
    <3>5. QED
      BY <2>1, <2>2, <3>1, <3>3, <3>4 DEF Writes, Empties, Same
  <2>5. QED
    BY <2>3, <2>4
<1>3. QED
  BY <1>1, <1>2

LEMMA SettleAsksTakes ==
  ASSUME NEW s \in Lanes
  PROVE  LET a == SettleAsks(s)
         IN  /\ a \in Lanes /\ Quiet(s, a) /\ ~a.ask
             /\ s.ask => a.caught = "unavailable"
             /\ Recorded(s) <=> Recorded(a)
             /\ Settled(s) <=> Settled(a)
<1>1. SettleAsks(s) \in Lanes /\ Quiet(s, SettleAsks(s))
  BY SettleAsksOK
<1>2. ~SettleAsks(s).ask /\ (s.ask => SettleAsks(s).caught = "unavailable")
  BY DEF SettleAsks, CurrentHandoff, Lanes
<1>3. QED
  BY <1>1, <1>2, QuietMoves DEF Settled, Quiet, Same

\* A lane between two transitions: settled, no cause pending, and no stale handoff
\* behind a question unless the worker runs.
Sound(s) ==
    /\ s \in Lanes /\ Recorded(s) /\ Settled(s) /\ s.cause = "unset"
    /\ s.ask /\ Stale(s) => s.st = "running"

\* Running with a stale handoff and no steer to interrupt for.
Adrift(s) ==
    /\ s.st = "running" /\ Stale(s) /\ s.stash = <<>>
    /\ s.turnHooks /\ s.closeHook /\ ~Closes(s)

\* What a transition leaves behind: a stale handoff only behind a running worker, and
\* only one that was there; no close handle without the hooks of the turns.
Leaves(s, t) ==
    /\ Settled(t)
    /\ t.ask /\ Stale(t) => t.st = "running"
    /\ Adrift(t) => /\ s.st = "running" /\ Stale(s) /\ s.stash = <<>>
                    /\ t.launch = s.launch /\ t.calls = s.calls
    /\ t.closeHook => s.closeHook /\ (s.turnHooks => t.turnHooks)

\* What it does to a question that is out: it asks none itself, and a record it writes
\* says that one was open.
Voices(s, t) ==
    /\ Leaves(s, t)
    /\ t.ask => s.ask
    /\ s.ask /\ s.failure = NoRecord /\ t.failure # NoRecord => t.failure.handoff = "unavailable"

\* The head steer goes out on a fresh trace.
LEMMA LaunchNextEmpties ==
  ASSUME NEW s \in Lanes, Recorded(s), Settled(s)
  PROVE  LET t == LaunchNext(s)
         IN  /\ t.failure = s.failure /\ t.ask = s.ask /\ Settled(t) /\ Fixed(s, t)
             /\ t.caught \in {s.caught, "unset"}
             /\ t.st \in RunEligible => t = s \/ t.caught = "unset"
             /\ t.st \in RunEligible /\ s.stash # <<>> => t.caught = "unset"
<1>1. Fixed(s, LaunchNext(s))
  BY LaunchNextOK
<1>2. ASSUME NEW t \in Lanes, Recorded(t), Settled(t)
      PROVE  LET d == [DropStash(t) EXCEPT !.inFlight = FALSE]
             IN  /\ d.failure = t.failure /\ d.ask = t.ask /\ Settled(d) /\ d.st = t.st
                 /\ d.caught \in {t.caught, "unset"}
  <2> DEFINE d == DropStash(t)
             e == [d EXCEPT !.inFlight = FALSE]
  <2>1. Empties(t, d)
    BY <1>2, DropStashEmpties
  <2> HIDE DEF d
  <2>2. /\ e.failure = d.failure /\ e.ask = d.ask /\ e.st = d.st /\ e.stop = d.stop
        /\ e.caught = d.caught
    BY <2>1 DEF Empties, Lanes
  <2> HIDE DEF e
  <2>3. QED
    BY <2>1, <2>2 DEF Empties, Same, Settled, e, d
<1>3. CASE s.st \notin RunEligible
  <2>1. LaunchNext(s) = [DropStash(s) EXCEPT !.inFlight = FALSE]
    BY <1>3 DEF LaunchNext
  <2>2. QED
    BY <1>1, <1>2, <1>3, <2>1 DEF Fixed
<1>4. CASE s.st \in RunEligible /\ s.stash = <<>>
  BY <1>1, <1>4 DEF LaunchNext
<1>5. CASE s.st \in RunEligible /\ s.stash # <<>>
  <2> DEFINE t == [ResetTrace(s) EXCEPT !.followups = TRUE]
             u == [t EXCEPT !.stash = Tail(@), !.launch = Append(@, Head(s.stash))]
  <2>1. /\ t \in Lanes /\ t.failure = s.failure /\ t.ask = s.ask /\ t.st = s.st
        /\ t.stop = s.stop /\ t.caught = "unset"
    BY DEF ResetTrace, Lanes, Handoffs, Causes
  <2>2. /\ u.failure = t.failure /\ u.ask = t.ask /\ u.st = t.st /\ u.caught = t.caught
    <3> HIDE DEF t
    <3>1. QED
      BY <2>1 DEF Lanes
  <2>3. LaunchNext(s) = IF ~s.turnHooks THEN [DropStash(t) EXCEPT !.inFlight = FALSE] ELSE u
    BY <1>5 DEF LaunchNext
  <2> HIDE DEF t, u
  <2>4. Recorded(t) /\ Settled(t)
    BY <1>5, <2>1 DEF Recorded, Settled, RunEligible
  <2>5. CASE ~s.turnHooks
    BY <1>1, <1>2, <2>1, <2>3, <2>4, <2>5
  <2>6. CASE s.turnHooks
    BY <1>1, <1>5, <2>1, <2>2, <2>3, <2>6 DEF Settled, RunEligible
  <2>7. QED
    BY <2>5, <2>6 DEF Lanes
<1>6. QED
  BY <1>3, <1>4, <1>5

LEMMA LaunchNextVoices ==
  ASSUME NEW s, Sound(s)
  PROVE  Voices(s, LaunchNext(s))
<1> DEFINE t == LaunchNext(s)
<1>1. /\ t.failure = s.failure /\ t.ask = s.ask /\ Settled(t) /\ Fixed(s, t)
      /\ t.caught \in {s.caught, "unset"}
      /\ t.st \in RunEligible => t = s \/ t.caught = "unset"
  BY LaunchNextEmpties DEF Sound
<1> HIDE DEF t
<1>2. QED
  BY <1>1 DEF Sound, Voices, Leaves, Adrift, Stale, Fixed, RunEligible, t

\* A transition whose last move empties the queue or sends its head.
LEMMA VoicesThenLaunch ==
  ASSUME NEW s, NEW m \in Lanes, Recorded(m), Voices(s, m), NEW t \in {LaunchNext(m), DropStash(m)},
         t = DropStash(m) => m.st # "running"
  PROVE  Voices(s, t)
<1>1. CASE t = LaunchNext(m)
  <2>1. /\ t.failure = m.failure /\ t.ask = m.ask /\ Settled(t) /\ Fixed(m, t)
        /\ t.caught \in {m.caught, "unset"}
        /\ t.st \in RunEligible => t = m \/ t.caught = "unset"
    BY <1>1, LaunchNextEmpties DEF Voices, Leaves
  <2>2. QED
    BY <2>1 DEF Voices, Leaves, Adrift, Stale, Fixed, RunEligible
<1>2. CASE t = DropStash(m)
  <2>1. Empties(m, t)
    BY <1>2, DropStashEmpties DEF Voices, Leaves
  <2>2. QED
    BY <1>2, <2>1 DEF Voices, Leaves, Adrift, Stale, Empties, Same
<1>3. QED
  BY <1>1, <1>2

LEMMA CompleteVoices ==
  ASSUME NEW s, Sound(s), NEW keep \in BOOLEAN, NEW stop \in Stops
  PROVE  Voices(s, Complete(s, keep, stop))
<1> DEFINE a == SettleAsks(s)
           wins == a.st \in RunEligible
           c == [a EXCEPT !.st = "completed", !.retained = @ /\ keep, !.report = TRUE,
                          !.stop = IF stop = "none" THEN @ ELSE stop,
                          !.cancelHook = "none", !.closeHook = @ /\ keep]
           delivers == wins /\ c.stash # <<>> /\ c.retained /\ c.turnHooks
           r == [c EXCEPT !.st = "running", !.stop = "none", !.inFlight = TRUE]
           e == [c EXCEPT !.inFlight = FALSE]
           d == IF ~wins THEN a ELSE IF delivers THEN r ELSE e
           m == Update(a, d)
<1>1. Complete(s, keep, stop) = IF delivers THEN LaunchNext(m) ELSE DropStash(m)
  BY DEF Complete
<1>2. /\ a \in Lanes /\ Quiet(s, a) /\ ~a.ask /\ (s.ask => a.caught = "unavailable")
      /\ Recorded(a) /\ Settled(a)
  BY SettleAsksTakes DEF Sound
<1> HIDE DEF a
<1>3. /\ c \in Lanes /\ c.st = "completed" /\ (c.closeHook => a.closeHook)
      /\ c.turnHooks = a.turnHooks /\ c.stash = a.stash /\ c.failure = a.failure
      /\ c.ask = a.ask /\ c.caught = a.caught
  <2> DEFINE retained == a.retained /\ keep
             closeHook == a.closeHook /\ keep
             stops == IF stop = "none" THEN a.stop ELSE stop
  <2>1. retained \in BOOLEAN /\ closeHook \in BOOLEAN /\ stops \in Stops /\ "completed" \in States
    BY <1>2 DEF Lanes, States
  <2>2. c = [a EXCEPT !.st = "completed", !.retained = retained, !.report = TRUE,
                      !.stop = stops, !.cancelHook = "none", !.closeHook = closeHook]
    OBVIOUS
  <2>3. closeHook => a.closeHook
    OBVIOUS
  <2> HIDE DEF retained, closeHook, stops, c
  <2>4. QED
    BY <1>2, <2>1, <2>2, <2>3, ZenonT(60) DEF Lanes
<1> HIDE DEF c
<1>4. ASSUME NEW v \in {r, e}
      PROVE  /\ v \in Lanes /\ v.closeHook = c.closeHook /\ v.turnHooks = c.turnHooks
             /\ v.stash = c.stash /\ v.failure = c.failure /\ v.ask = c.ask /\ v.caught = c.caught
             /\ v = r => v.st = "running"
             /\ v = e => v.st = "completed"
  <2>1. "running" \in States /\ "none" \in Stops
    BY DEF States, Stops
  <2>2. /\ r \in Lanes /\ r.closeHook = c.closeHook /\ r.turnHooks = c.turnHooks /\ r.st = "running"
        /\ r.stash = c.stash /\ r.failure = c.failure /\ r.ask = c.ask /\ r.caught = c.caught
    BY <1>3, <2>1 DEF Lanes
  <2>3. /\ e \in Lanes /\ e.closeHook = c.closeHook /\ e.turnHooks = c.turnHooks /\ e.st = "completed"
        /\ e.stash = c.stash /\ e.failure = c.failure /\ e.ask = c.ask /\ e.caught = c.caught
    BY <1>3 DEF Lanes
  <2> HIDE DEF r, e
  <2>4. QED
    BY <2>2, <2>3
<1>5. CASE a.st = "absent"
  <2>1. ~wins /\ ~delivers /\ m = a
    BY <1>5 DEF Update, RunEligible
  <2>2. Empties(a, DropStash(a))
    BY <1>2, DropStashEmpties
  <2>3. QED
    BY <1>1, <1>2, <1>5, <2>1, <2>2 DEF Empties, Voices, Leaves, Adrift, Quiet, Same
<1>6. CASE a.st # "absent"
  <2>1. d \in Lanes
    BY <1>2, <1>4
  <2>2. Writes(d, m)
    BY <1>2, <1>6, <2>1, UpdateWrites
  <2>3. CASE ~wins
    <3>1. d = a /\ ~delivers
      BY <2>3
    <3>2. a.st \in {"completed", "failed", "interrupted", "cancelled", "shutdown"}
      BY <1>2, <1>6, <2>3 DEF Lanes, States, RunEligible
    <3>3. Same(a, m) /\ m.failure = a.failure /\ m \in Lanes /\ ~m.ask /\ Settled(m)
      <4> HIDE DEF m
      <4>1. QED
        BY <1>2, <2>2, <2>3, <3>1, <3>2 DEF Writes, Settled, Recorded
    <3>4. Recorded(m)
      BY <1>2, <3>3 DEF Recorded, Same
    <3> HIDE DEF m, d
    <3>5. Empties(m, DropStash(m))
      BY <3>3, <3>4, DropStashEmpties
    <3>6. QED
      BY <1>1, <1>2, <3>1, <3>2, <3>3, <3>5 DEF Empties, Voices, Leaves, Adrift, Quiet, Same
  <2>4. CASE wins /\ delivers
    <3>1. d = r /\ m \in Lanes /\ m.st = "running" /\ m.failure = NoRecord /\ ~m.ask
          /\ m.stash # <<>> /\ m.turnHooks = a.turnHooks /\ m.closeHook = c.closeHook
      <4>1. d = r
        BY <2>4
      <4> HIDE DEF m
      <4>2. QED
        BY <1>2, <1>3, <1>4, <2>2, <2>4, <4>1 DEF Writes, Same, RunEligible
    <3> HIDE DEF m, d
    <3>2. Recorded(m) /\ Settled(m)
      BY <3>1 DEF Recorded, Settled, RunEligible
    <3> DEFINE t == LaunchNext(m)
    <3>3. /\ t.failure = m.failure /\ t.ask = m.ask /\ Settled(t) /\ Fixed(m, t)
          /\ t.st \in RunEligible => t.caught = "unset"
      BY <3>1, <3>2, LaunchNextEmpties
    <3>4. Complete(s, keep, stop) = t
      BY <1>1, <2>4
    <3> HIDE DEF t
    <3>5. t.st = "running" /\ t.closeHook = c.closeHook /\ t.turnHooks = a.turnHooks
      BY <3>1, <3>3 DEF Fixed
    <3>6. QED
      BY <1>2, <1>3, <3>1, <3>3, <3>4, <3>5 DEF Voices, Leaves, Adrift, Stale, Quiet, Same, RunEligible
  <2>5. CASE wins /\ ~delivers
    <3>1. /\ m \in Lanes /\ m.st = "completed" /\ ~m.ask /\ Settled(m) /\ Recorded(m)
          /\ m.turnHooks = a.turnHooks /\ m.closeHook = c.closeHook
          /\ m.failure # NoRecord => m.failure.handoff = Says(e)
          /\ e.caught = a.caught
      <4>1. d = e
        BY <2>5
      <4>2. a.failure = NoRecord
        BY <1>2, <2>5 DEF Recorded
      <4> HIDE DEF m
      <4>3. QED
        BY <1>2, <1>3, <1>4, <2>2, <4>1, <4>2, ZenonT(60) DEF Writes, Same, RunEligible, Recorded
    <3>2. s.ask /\ m.failure # NoRecord => m.failure.handoff = "unavailable"
      BY <1>2, <3>1 DEF Says
    <3> HIDE DEF m, d, e
    <3>3. Empties(m, DropStash(m))
      BY <3>1, DropStashEmpties
    <3>4. QED
      BY <1>1, <1>2, <1>3, <2>5, <3>1, <3>2, <3>3 DEF Empties, Voices, Leaves, Adrift, Quiet, Same
  <2>6. QED
    BY <2>3, <2>4, <2>5
<1>7. QED
  BY <1>5, <1>6

\* Storing a lane with nothing to record.
Stands(s, t) ==
    /\ t \in Lanes /\ Same(s, t) /\ t.stash = s.stash /\ t.ask = s.ask
    /\ t.failure = s.failure /\ Recorded(t) /\ Settled(t)
    /\ t.caught \in {s.caught, "unset"}
    /\ s.st \in RunEligible \/ s.failure # NoRecord => t.caught = s.caught

LEMMA UpdateStands ==
  ASSUME NEW s \in Lanes, NEW t \in Lanes, s.st # "absent", t.st # "absent",
         Recorded(t), Settled(t)
  PROVE  Stands(t, Update(s, t))
<1>1. Writes(t, Update(s, t))
  BY UpdateWrites
<1>2. t.st \in States
  BY DEF Lanes
<1>3. t.st \notin RunEligible /\ t.failure = NoRecord
         => t.st \in {"completed", "shutdown"} /\ t.stop \notin ForcedStops
  BY <1>2 DEF Recorded, Settled, States, RunEligible
<1>4. t.st \in RunEligible => t.failure = NoRecord
  BY DEF Recorded
<1> DEFINE u == Update(s, t)
<1> HIDE DEF u
<1>5. Writes(t, u)
  BY <1>1 DEF u
<1>6. Same(t, u) /\ u.failure = t.failure
  BY <1>3, <1>4, <1>5 DEF Writes
<1>7. Recorded(u)
  BY <1>6 DEF Recorded, Same
<1>8. Stands(t, u)
  BY <1>5, <1>6, <1>7 DEF Writes, Stands
<1>9. QED
  BY <1>8 DEF u

LEMMA ReleaseHandlesEmpties ==
  ASSUME NEW s \in Lanes, Recorded(s), Settled(s)
  PROVE  LET t == ReleaseHandles(s)
         IN  /\ t \in Lanes /\ t.st = s.st /\ t.stop = s.stop /\ t.failure = s.failure
             /\ ~t.ask /\ ~t.closeHook /\ Settled(t) /\ Recorded(t)
<1> DEFINE t == [s EXCEPT !.ask = FALSE, !.closeHook = FALSE, !.turnHooks = FALSE,
                          !.cancelHook = "none",
                          !.calls = IF s.closeHook THEN @ \cup {"close"} ELSE @]
<1>1. ReleaseHandles(s) = DropStash(t)
  BY DEF ReleaseHandles
<1>2. /\ t \in Lanes /\ t.st = s.st /\ t.stop = s.stop /\ ~t.closeHook /\ ~t.ask
      /\ t.failure = s.failure
  BY ZenonT(60) DEF Lanes, Hooks
<1> HIDE DEF t
<1>3. Recorded(t) /\ Settled(t)
  BY <1>2 DEF Recorded, Settled
<1>4. Empties(t, DropStash(t))
  BY <1>2, <1>3, DropStashEmpties
<1>5. QED
  BY <1>1, <1>2, <1>3, <1>4 DEF Empties, Same, Recorded


LEMMA FailVoices ==
  ASSUME NEW s, Sound(s), NEW cause \in Causes
  PROVE  Voices(s, Fail(s, cause))
<1> DEFINE w == [s EXCEPT !.cause = cause]
           a == SettleAsks(w)
           f == [a EXCEPT !.st = "failed", !.retained = FALSE, !.error = TRUE,
                          !.inFlight = FALSE]
           b == DropStash(f)
           c == ReleaseHandles(b)
           m == IF a.st \in LiveStrip THEN Update(a, c) ELSE Update(a, a)
           e == [m EXCEPT !.cause = "unset"]
<1>1. Fail(s, cause) = e
  BY DEF Fail
<1>2. /\ w \in Lanes /\ Same(s, w) /\ w.stash = s.stash /\ w.failure = s.failure
      /\ w.ask = s.ask /\ w.caught = s.caught
  BY DEF Lanes, Same, Sound
<1>3. Recorded(w) /\ Settled(w)
  BY <1>2 DEF Sound, Recorded, Settled, Same
<1> HIDE DEF w
<1>4. /\ a \in Lanes /\ Same(s, a) /\ ~a.ask /\ (s.ask => a.caught = "unavailable")
      /\ a.failure = s.failure /\ Recorded(a) /\ Settled(a)
  BY <1>2, <1>3, SettleAsksTakes DEF Quiet, Same
<1> HIDE DEF a
<1>5. /\ m \in Lanes /\ Settled(m) /\ ~m.ask /\ m.st # "running"
      /\ m.closeHook => a.closeHook /\ m.turnHooks = a.turnHooks
      /\ s.ask /\ a.failure = NoRecord /\ m.failure # NoRecord => m.failure.handoff = "unavailable"
  <2>1. CASE a.st \in LiveStrip
    <3>1. /\ f \in Lanes /\ f.st = "failed" /\ f.failure = a.failure /\ ~f.ask /\ f.caught = a.caught
      <4>1. f \in Lanes
        BY <1>4 DEF Lanes, States
      <4>2. QED
        BY <1>4, <4>1 DEF Lanes
    <3> HIDE DEF f
    <3>2. /\ b \in Lanes /\ b.st = "failed" /\ ~b.ask
          /\ b = f \/ (/\ b.failure # NoRecord
                       /\ f.failure = NoRecord => b.failure.handoff = Says(f))
      <4>1. CASE f.stash = <<>>
        BY <3>1, <4>1 DEF DropStash
      <4>2. CASE f.stash # <<>>
        <5> DEFINE g == [f EXCEPT !.stash = <<>>]
        <5>1. /\ g \in Lanes /\ g.st = "failed" /\ ~g.ask /\ g.failure = f.failure
              /\ g.caught = f.caught /\ g.trace = f.trace /\ b = Update(g, g)
          <6>1. <<>> \in Seq(1..MaxInputs)
            OBVIOUS
          <6>2. QED
            BY <3>1, <4>2, <6>1 DEF Lanes, DropStash
        <5> HIDE DEF g
        <5>2. Says(g) = Says(f)
          BY <3>1, <5>1 DEF Says, CurrentHandoff
        <5>3. Writes(g, b) /\ Recorded(b)
          BY <5>1, UpdateWrites, UpdateOK DEF Stampable
        <5> HIDE DEF b
        <5>4. QED
          BY <5>1, <5>2, <5>3 DEF Writes, Same, Recorded, RunEligible
      <4>3. QED
        BY <4>1, <4>2
    <3> HIDE DEF b
    <3>3. /\ c \in Lanes /\ c.st = "failed" /\ ~c.ask /\ ~c.closeHook
          /\ c.failure = b.failure \/ c.failure # NoRecord
          /\ b = f \/ c.failure = b.failure
          /\ b = f /\ f.stash = <<>> => c.failure = f.failure /\ c.caught = f.caught
          /\ b # f \/ f.stash = <<>>
      <4> DEFINE t == [b EXCEPT !.ask = FALSE, !.closeHook = FALSE, !.turnHooks = FALSE,
                                !.cancelHook = "none",
                                !.calls = IF b.closeHook THEN @ \cup {"close"} ELSE @]
      <4>1. c = DropStash(t)
        BY DEF ReleaseHandles
      <4>2. /\ t \in Lanes /\ t.st = b.st /\ ~t.closeHook /\ ~t.ask /\ t.stash = b.stash
            /\ t.failure = b.failure /\ t.caught = b.caught
        BY <3>2, ZenonT(60) DEF Lanes, Hooks
      <4> HIDE DEF t
      <4>3. b.stash = <<>>
        BY <3>1, DropStashOK DEF b
      <4>4. c = t
        BY <4>1, <4>2, <4>3 DEF DropStash
      <4> HIDE DEF c
      <4>5. QED
        BY <3>1, <3>2, <4>2, <4>3, <4>4
    <3> HIDE DEF c
    <3>4. Writes(c, m) /\ Recorded(m)
      <4>1. m = Update(a, c) /\ a.st # "absent"
        BY <2>1 DEF LiveStrip, RunEligible
      <4>2. QED
        BY <1>4, <3>3, <4>1, UpdateWrites, UpdateOK DEF Stampable
    <3> HIDE DEF m
    <3>5. m.st = "failed" /\ ~m.ask /\ m \in Lanes /\ Settled(m) /\ ~m.closeHook
      BY <3>3, <3>4 DEF Writes, Same
    <3>6. ASSUME s.ask, a.failure = NoRecord
          PROVE  m.failure.handoff = "unavailable"
      <4>1. Says(f) = "unavailable" /\ f.failure = NoRecord
        BY <1>4, <3>1, <3>6 DEF Says
      <4>2. CASE b = f
        <5>1. c.failure = NoRecord /\ Says(c) = "unavailable"
          BY <1>4, <3>1, <3>3, <3>6, <4>2 DEF Says
        <5>2. QED
          BY <3>3, <3>4, <5>1 DEF Writes, Recorded, Same, RunEligible
      <4>3. CASE b # f
        <5>1. c.failure # NoRecord /\ c.failure.handoff = "unavailable"
          BY <3>2, <3>3, <4>1, <4>3
        <5>2. QED
          BY <3>3, <3>4, <5>1 DEF Writes, RunEligible
      <4>4. QED
        BY <4>2, <4>3
    <3>7. QED
      BY <3>5, <3>6
  <2>2. CASE a.st \notin LiveStrip /\ a.st # "absent"
    <3>1. Stands(a, m)
      BY <1>4, <2>2, UpdateStands
    <3> HIDE DEF m
    <3>2. QED
      BY <1>4, <2>2, <3>1 DEF Stands, Same, LiveStrip, RunEligible
  <2>3. CASE a.st = "absent"
    <3>1. m = a
      BY <2>3 DEF Update, LiveStrip, RunEligible
    <3>2. QED
      BY <1>4, <2>3, <3>1
  <2>4. QED
    BY <2>1, <2>2, <2>3
<1> HIDE DEF m
<1>6. /\ e.st = m.st /\ e.stop = m.stop /\ e.failure = m.failure /\ e.ask = m.ask
      /\ e.closeHook = m.closeHook /\ e.turnHooks = m.turnHooks
  BY <1>5 DEF Lanes
<1> HIDE DEF e
<1>7. Voices(s, e)
  BY <1>4, <1>5, <1>6 DEF Voices, Leaves, Adrift, Settled, Same
<1>8. QED
  BY <1>1, <1>7

LEMMA SettleRunVoices ==
  ASSUME NEW s, Sound(s), s.st # "running"
  PROVE  Voices(s, SettleRun(s))
<1> DEFINE a == [s EXCEPT !.ask = FALSE]
           d == DropStash(a)
           e == [d EXCEPT !.inFlight = FALSE]
<1>1. SettleRun(s) = e
  BY DEF SettleRun
<1>2. a \in Lanes /\ Quiet(s, a) /\ ~a.ask
  BY SettleAsksOK, ZenonT(60) DEF Sound, Lanes
<1> HIDE DEF a
<1>3. Recorded(a) /\ Settled(a)
  BY <1>2, QuietMoves DEF Sound, Settled, Quiet, Same
<1>4. Empties(a, d)
  BY <1>2, <1>3, DropStashEmpties
<1> HIDE DEF d
<1>5. e \in Lanes /\ Quiet(d, e) /\ e.ask = d.ask
  BY <1>4 DEF Empties, Lanes, Quiet, Same
<1> HIDE DEF e
<1>6. Voices(s, e)
  BY <1>2, <1>4, <1>5 DEF Voices, Leaves, Adrift, Empties, Quiet, Same, Settled
<1>7. QED
  BY <1>1, <1>6

LEMMA CancelVoices ==
  ASSUME NEW s, Sound(s)
  PROVE  LET t == Cancel(s)
         IN  /\ Voices(s, t) /\ ~t.ask /\ t.st = IF s.st \in LiveStrip THEN "cancelled" ELSE s.st
<1> DEFINE w == SettleAsks(s)
           a == DropStash(w)
           k == CallCancelHook(a)
           d == [k EXCEPT !.st = "cancelled", !.retained = FALSE, !.error = TRUE,
                          !.stop = "cancelled", !.cancelHook = "none"]
           r == Reconcile(d)
<1>1. Cancel(s) = IF a.st \notin LiveStrip THEN a ELSE r
  BY DEF Cancel
<1>2. /\ w \in Lanes /\ Quiet(s, w) /\ ~w.ask /\ (s.ask => w.caught = "unavailable")
      /\ Recorded(w) /\ Settled(w)
  BY SettleAsksTakes DEF Sound
<1> HIDE DEF w
<1>3. Empties(w, a)
  BY <1>2, DropStashEmpties
<1> HIDE DEF a
<1>4. CASE a.st \notin LiveStrip
  <2>1. a.st # "running"
    BY <1>4 DEF LiveStrip, RunEligible
  <2>2. Voices(s, a)
    BY <1>2, <1>3, <2>1 DEF Voices, Leaves, Adrift, Empties, Quiet, Same
  <2>3. QED
    BY <1>1, <1>2, <1>3, <1>4, <2>2 DEF Empties, Quiet, Same
<1>5. CASE a.st \in LiveStrip
  <2> DEFINE calls == IF a.cancelHook = "none" THEN a.calls ELSE a.calls \cup {a.cancelHook}
  <2>1. a \in Lanes /\ calls \in SUBSET Hooks /\ k = [a EXCEPT !.calls = calls]
    BY <1>3 DEF Empties, CallCancelHook, Lanes, Hooks
  <2> HIDE DEF k, calls
  <2>2. /\ k \in Lanes /\ k.ask = a.ask /\ k.failure = a.failure /\ k.caught = a.caught
        /\ k.turnHooks = a.turnHooks /\ k.closeHook = a.closeHook
    BY <2>1 DEF Lanes
  <2>3. "cancelled" \in States /\ "cancelled" \in Stops
    BY DEF States, Stops, ForcedStops
  <2>4. /\ d \in Lanes /\ d.st = "cancelled" /\ d.ask = k.ask /\ d.failure = k.failure
        /\ d.caught = k.caught /\ d.turnHooks = k.turnHooks /\ d.closeHook = k.closeHook
    BY <2>2, <2>3 DEF Lanes
  <2> HIDE DEF d
  <2>5. Writes(d, r)
    BY <2>4, ReconcileWrites
  <2> HIDE DEF r
  <2>6. s.ask /\ s.failure = NoRecord => Says(d) = "unavailable" /\ d.failure = NoRecord
    <3>1. s.ask /\ s.failure = NoRecord => w.st \in RunEligible
      BY <1>2, <1>3, <1>5 DEF Empties, Quiet, Same, Recorded, LiveStrip
    <3>2. QED
      BY <1>2, <1>3, <2>2, <2>4, <3>1 DEF Empties, Says, Quiet
  <2>7. Voices(s, r)
    BY <1>2, <1>3, <2>2, <2>4, <2>5, <2>6 DEF Voices, Leaves, Adrift, Writes, Empties, Quiet, Same, RunEligible
  <2>8. QED
    BY <1>1, <1>2, <1>3, <1>5, <2>2, <2>4, <2>5, <2>7 DEF Writes, Empties, Quiet, Same
<1>6. QED
  BY <1>4, <1>5

\* What a transition may hand to mutate: a question it leaves out is recorded if
\* reconciling writes a record, and a stale handoff is not left behind it.
Utters(s, u) ==
    /\ u \in Lanes /\ u.failure = s.failure
    /\ u.ask => s.ask
    /\ u.ask /\ Stale(u) => u.st = "running" \/ (u.st \notin RunEligible /\ u.failure = NoRecord)
    /\ Adrift(u) => /\ s.st = "running" /\ Stale(s) /\ s.stash = <<>>
                    /\ u.launch = s.launch /\ u.calls = s.calls
    /\ u.closeHook => s.closeHook /\ (s.turnHooks => u.turnHooks)
    /\ s.ask /\ u.failure = NoRecord /\ u.st \notin RunEligible =>
          \/ Says(u) = "unavailable"
          \/ u.st \in {"completed", "shutdown"} /\ u.stop \notin ForcedStops

LEMMA UpdateVoices ==
  ASSUME NEW s, Sound(s), NEW u, NEW o \in Lanes, o.st # "absent", Utters(s, u)
  PROVE  Voices(s, Update(o, u))
<1> DEFINE m == Update(o, u)
<1>1. Writes(u, m)
  BY UpdateWrites DEF Utters
<1> HIDE DEF m
<1>2. Settled(m) /\ m.ask = u.ask /\ Same(u, m) /\ m.stash = u.stash
  BY <1>1 DEF Writes
<1>3. s.ask /\ s.failure = NoRecord /\ m.failure # NoRecord => m.failure.handoff = "unavailable"
  BY <1>1 DEF Utters, Writes
<1>4. Stale(m) => Stale(u) /\ (u.st \in RunEligible \/ u.failure # NoRecord)
  BY <1>1 DEF Writes, Stale
<1>5. Adrift(m) => Adrift(u)
  BY <1>2, <1>4 DEF Adrift, Same, Closes
<1>6. QED
  BY <1>2, <1>3, <1>4, <1>5 DEF Voices, Leaves, Utters, Same, m, RunEligible

\* The report of a run that was interrupted; a steer that interrupted it is queued.
LEMMA AttachReportVoices ==
  ASSUME NEW s, Sound(s), NEW stop \in Stops, stop \in ForcedStops \/ s.st \notin RunEligible,
         s.ask /\ s.st = "running" /\ s.stash = <<>> => ~Stale(s)
  PROVE  Voices(s, AttachReport(s, stop))
<1> DEFINE hands == s.st \in RunEligible /\ s.stash # <<>>
           stops == IF stop = "none" THEN s.stop ELSE stop
           r == [s EXCEPT !.report = TRUE, !.stop = stops]
           q == [r EXCEPT !.st = "running", !.stop = "none"]
           i == [r EXCEPT !.st = "interrupted"]
           t == IF s.st \in {"completed", "failed"} THEN s
                ELSE IF hands THEN q
                ELSE IF s.st \in RunEligible THEN i
                ELSE IF s.report THEN s ELSE r
           u == [t EXCEPT !.inFlight = hands /\ @]
           m == Update(s, u)
<1>1. AttachReport(s, stop) = IF hands THEN LaunchNext(m) ELSE DropStash(m)
  BY DEF AttachReport
<1>2. s \in Lanes /\ stops \in Stops
  BY DEF Sound, Lanes
<1>3. /\ r \in Lanes /\ r.st = s.st /\ r.closeHook = s.closeHook /\ r.turnHooks = s.turnHooks
      /\ r.stash = s.stash /\ r.failure = s.failure /\ r.ask = s.ask /\ r.caught = s.caught
      /\ r.trace = s.trace
  <2> HIDE DEF stops
  <2>1. QED
    BY <1>2 DEF Lanes
<1>14. r.stop = stops
  BY <1>2 DEF Lanes
<1> HIDE DEF r
<1>4. ASSUME NEW v \in {s, q, i, r}
      PROVE  /\ v \in Lanes /\ v.closeHook = s.closeHook /\ v.turnHooks = s.turnHooks
             /\ v.stash = s.stash /\ v.failure = s.failure /\ v.ask = s.ask /\ v.caught = s.caught
             /\ v.trace = s.trace
             /\ (v = q => v.st = "running") /\ (v = i => v.st = "interrupted")
             /\ (v \in {s, r} => v.st = s.st)
  <2>1. {"running", "interrupted"} \subseteq States /\ "none" \in Stops
    BY DEF States, Stops
  <2>2. /\ q \in Lanes /\ q.st = "running" /\ q.closeHook = r.closeHook /\ q.turnHooks = r.turnHooks
        /\ q.stash = r.stash /\ q.failure = r.failure /\ q.ask = r.ask /\ q.caught = r.caught
        /\ q.trace = r.trace
    BY <1>3, <2>1 DEF Lanes
  <2>3. /\ i \in Lanes /\ i.st = "interrupted" /\ i.closeHook = r.closeHook
        /\ i.turnHooks = r.turnHooks /\ i.trace = r.trace
        /\ i.stash = r.stash /\ i.failure = r.failure /\ i.ask = r.ask /\ i.caught = r.caught
    BY <1>3, <2>1 DEF Lanes
  <2> HIDE DEF q, i
  <2>4. QED
    BY <1>2, <1>3, <2>2, <2>3
<1>5. /\ t \in {s, q, i, r}
      /\ hands => t = q
      /\ ~hands /\ s.st \in RunEligible => t = i
      /\ s.st \notin RunEligible => t \in {s, r}
      /\ s.st = "completed" => t = s
  BY DEF RunEligible
<1>6. /\ u \in Lanes /\ u.st = t.st /\ u.stop = t.stop /\ u.closeHook = s.closeHook
      /\ u.turnHooks = s.turnHooks /\ u.stash = s.stash /\ u.failure = s.failure
      /\ u.ask = s.ask /\ u.caught = s.caught /\ u.trace = s.trace
  <2>1. /\ t \in Lanes /\ t.closeHook = s.closeHook
        /\ t.turnHooks = s.turnHooks /\ t.stash = s.stash /\ t.failure = s.failure
        /\ t.ask = s.ask /\ t.caught = s.caught /\ t.trace = s.trace
    BY <1>4, <1>5
  <2> DEFINE flag == hands /\ t.inFlight
  <2>2. flag \in BOOLEAN /\ u = [t EXCEPT !.inFlight = flag]
    BY <2>1 DEF Lanes
  <2> HIDE DEF t, flag, u
  <2>3. QED
    BY <2>1, <2>2 DEF Lanes
<1>7. Says(u) = Says(s)
  BY <1>6 DEF Says, CurrentHandoff
<1>8. t.st = (IF hands THEN "running" ELSE IF s.st \in RunEligible THEN "interrupted" ELSE s.st)
  BY <1>4, <1>5 DEF RunEligible
<1>9. Recorded(s) /\ Settled(s)
  BY DEF Sound
<1>12. s.st \in RunEligible /\ ~hands => u.stop \in ForcedStops
  <2>1. i.stop = stops /\ (stop \in ForcedStops => stops \in ForcedStops)
    <3>1. i.stop = r.stop /\ r.stop = stops
      BY <1>3, <1>14 DEF Lanes
    <3>2. "none" \notin ForcedStops
      BY DEF ForcedStops
    <3>3. QED
      BY <3>1, <3>2
  <2>2. QED
    BY <1>5, <1>6, <2>1
<1> HIDE DEF t, u
<1>10. CASE s.st = "absent"
  <2>1. m = s /\ ~hands
    BY <1>10 DEF Update, RunEligible
  <2>2. Empties(s, DropStash(s))
    BY <1>2, <1>9, DropStashEmpties
  <2>3. QED
    BY <1>1, <1>10, <2>1, <2>2 DEF Empties, Voices, Leaves, Adrift, Same, Sound, Stale
<1>11. CASE s.st # "absent"
  <2>1. Writes(u, m) /\ (Stampable(u) => Recorded(m))
    BY <1>2, <1>6, <1>11, UpdateWrites, UpdateOK
  <2>2. CASE hands
    <3>1. /\ m \in Lanes /\ m.st = "running" /\ m.failure = NoRecord /\ m.ask = s.ask
          /\ m.stash # <<>> /\ m.turnHooks = s.turnHooks /\ m.closeHook = s.closeHook
      <4> HIDE DEF m
      <4>1. QED
        BY <1>6, <1>8, <2>1, <2>2 DEF Writes, Same, RunEligible
    <3> HIDE DEF m
    <3>2. Recorded(m) /\ Settled(m)
      BY <3>1 DEF Recorded, Settled, RunEligible
    <3> DEFINE z == LaunchNext(m)
    <3>3. /\ z.failure = m.failure /\ z.ask = m.ask /\ Settled(z) /\ Fixed(m, z)
          /\ z.st \in RunEligible => z.caught = "unset"
      BY <3>1, <3>2, LaunchNextEmpties
    <3> HIDE DEF z
    <3>4. Voices(s, z)
      BY <3>1, <3>3 DEF Voices, Leaves, Adrift, Stale, Fixed, RunEligible
    <3>5. QED
      BY <1>1, <2>2, <3>4 DEF z
  <2>3. CASE ~hands
    <3>1. s.ask /\ s.failure = NoRecord /\ u.st \notin RunEligible => Says(u) = "unavailable"
      <4>1. s.ask => ~Stale(s)
        BY <2>3 DEF Sound, RunEligible
      <4>2. QED
        BY <1>7, <4>1 DEF Says, CurrentHandoff, Stale
    <3>2. u.st \notin RunEligible
      BY <1>6, <1>8, <2>3 DEF RunEligible
    <3>3. Utters(s, u)
      <4>1. s.ask => ~Stale(s)
        BY <2>3 DEF Sound, RunEligible
      <4>2. Stale(u) <=> Stale(s)
        BY <1>6 DEF Stale
      <4>3. u.st # "running"
        BY <3>2 DEF RunEligible
      <4>4. QED
        BY <1>6, <3>1, <4>1, <4>2, <4>3 DEF Utters, Adrift
    <3>4. Voices(s, m)
      BY <1>2, <1>11, <3>3, UpdateVoices
    <3>5. Stampable(u)
      BY <1>6, <1>8, <1>9, <2>3, <1>12 DEF Stampable, Recorded, RunEligible
    <3>6. m \in Lanes /\ m.st # "running" /\ Recorded(m)
      <4> HIDE DEF m
      <4>1. QED
        BY <2>1, <3>2, <3>5 DEF Writes, Same, RunEligible
    <3> HIDE DEF m
    <3>7. AttachReport(s, stop) = DropStash(m)
      BY <1>1, <2>3
    <3>8. QED
      BY <3>4, <3>6, <3>7, VoicesThenLaunch
  <2>4. QED
    BY <2>2, <2>3
<1>13. QED
  BY <1>10, <1>11

LEMMA VoicesSound ==
  ASSUME NEW s, NEW t, Voices(s, t), t \in Lanes, Recorded(t), t.cause = "unset"
  PROVE  Sound(t)
BY DEF Voices, Leaves, Sound

\* One transition after another that left the question out or recorded it.
LEMMA VoicesCompose ==
  ASSUME NEW s, NEW t, NEW u, Voices(s, t), Voices(t, u), Stores(t, u), Recorded(t),
         s.ask /\ s.failure = NoRecord /\ t.failure = NoRecord => t.ask
  PROVE  Voices(s, u)
<1>1. t.failure # NoRecord => u.failure = t.failure
  BY DEF Stores, Stamps, Recorded
<1>2. Adrift(u) => Adrift(t)
  BY DEF Voices, Leaves, Adrift, Closes, Stores, Moves, Changes
<1>3. QED
  BY <1>1, <1>2 DEF Voices, Leaves

LEMMA SoundVoices ==
  ASSUME NEW s, Sound(s)
  PROVE  Voices(s, s)
BY DEF Voices, Leaves, Sound, Adrift

LEMMA IdleVoices ==
  ASSUME NEW s, Sound(s), NEW b \in BOOLEAN
  PROVE  LET t == [s EXCEPT !.inFlight = b]
         IN  Voices(s, t) /\ Sound(t) /\ Stores(s, t) /\ t.ask = s.ask /\ t.failure = s.failure /\ t.st = s.st
             /\ t.closeHook = s.closeHook /\ t.turnHooks = s.turnHooks /\ t.calls = s.calls
<1> DEFINE t == [s EXCEPT !.inFlight = b]
<1>1. t \in Lanes /\ Quiet(s, t) /\ t.ask = s.ask /\ t.caught = s.caught
  BY DEF Sound, Lanes, Quiet, Same
<1>2. Stores(s, t)
  BY <1>1, QuietStores
<1> HIDE DEF t
<1>3. Voices(s, t)
  BY <1>1 DEF Voices, Leaves, Sound, Quiet, Same, Settled, Adrift, Stale
<1>4. Sound(t)
  BY <1>1, <1>2, <1>3, VoicesSound DEF Sound, Stores, Stamps, Quiet
<1>5. QED
  BY <1>1, <1>2, <1>3, <1>4 DEF Quiet, Same, t

\* The head of the queue goes out at the end of a transition.
LEMMA LaunchedVoices ==
  ASSUME NEW s, NEW m \in Lanes, Recorded(m), Voices(s, m)
  PROVE  Voices(s, LaunchNext(m))
<1> DEFINE t == LaunchNext(m)
<1>1. /\ t.failure = m.failure /\ t.ask = m.ask /\ Settled(t) /\ Fixed(m, t)
      /\ t.caught \in {m.caught, "unset"}
      /\ t.st \in RunEligible => t = m \/ t.caught = "unset"
  BY LaunchNextEmpties DEF Voices, Leaves
<1> HIDE DEF t
<1>2. QED
  BY <1>1 DEF Voices, Leaves, Adrift, Stale, Fixed, RunEligible, t

LEMMA SettleReplyVoices ==
  ASSUME NEW s, Sound(s), NEW src \in Sources
  PROVE  Voices(s, SettleReply(s, src))
<1> DEFINE idle == [s EXCEPT !.inFlight = FALSE]
           told == [s EXCEPT !.report = TRUE]
           over == [s EXCEPT !.st = "completed", !.report = TRUE, !.stop = "none"]
           m == Update(s, told)
           n == Update(s, over)
           e == [n EXCEPT !.inFlight = FALSE]
<1>1. ASSUME NEW t, Sound(t), Voices(s, t), s.ask => t.ask
      PROVE  Voices(s, OnReply(t, src)) /\ Recorded(OnReply(t, src))
  <2>1. t \in Lanes /\ t.cause = "unset" /\ Recorded(t)
    BY <1>1 DEF Sound
  <2> DEFINE c == Complete(t, TRUE, "none")
  <2>2. Voices(t, c) /\ Stores(t, c)
    BY <1>1, <2>1, CompleteVoices, CompleteOK DEF Stops
  <2>3. OnReply(t, src) \in {t, c}
    BY DEF OnReply
  <2> HIDE DEF c
  <2>4. Voices(s, c)
    BY <1>1, <2>1, <2>2, VoicesCompose DEF Stores
  <2>5. QED
    BY <1>1, <2>1, <2>2, <2>3, <2>4 DEF Stores
<1>2. s \in Lanes /\ s.cause = "unset" /\ Recorded(s) /\ Settled(s)
  BY DEF Sound
<1>3. CASE s.st \notin RunEligible \cup {"completed"}
  <2>1. SettleReply(s, src) = DropStash(idle)
    BY <1>3 DEF SettleReply
  <2>2. Voices(s, idle) /\ Sound(idle) /\ idle.st = s.st
    BY IdleVoices
  <2> HIDE DEF idle
  <2>3. idle.st # "running" /\ idle \in Lanes /\ Recorded(idle)
    BY <1>3, <2>2 DEF RunEligible, Sound
  <2>4. QED
    BY <2>1, <2>2, <2>3, VoicesThenLaunch
<1>4. CASE s.st \in RunEligible \cup {"completed"} /\ s.stash # <<>>
  <2>1. SettleReply(s, src) = LaunchNext(OnReply(m, src))
    BY <1>4 DEF SettleReply
  <2>2. told \in Lanes /\ Quiet(s, told) /\ told.ask = s.ask /\ told.caught = s.caught
    BY <1>2 DEF Lanes, Quiet, Same
  <2> HIDE DEF told
  <2>3. Recorded(told) /\ Settled(told) /\ s.st # "absent" /\ told.st # "absent"
    BY <1>2, <1>4, <2>2 DEF Quiet, Same, Settled, Recorded, RunEligible
  <2>4. Stands(told, m)
    BY <1>2, <2>2, <2>3, UpdateStands
  <2>5. Stores(s, m)
    BY <1>2, <2>2, <2>3, RewriteOK DEF Quiet, Same, Recorded, Stampable
  <2> HIDE DEF m
  <2>6. Voices(s, m) /\ m.ask = s.ask
    BY <1>4, <2>2, <2>4 DEF Voices, Leaves, Sound, Stands, Quiet, Same, Adrift, Stale
  <2>7. Sound(m)
    BY <1>2, <2>5, <2>6, VoicesSound DEF Stores, Stamps
  <2> DEFINE r == OnReply(m, src)
  <2>8. Voices(s, r) /\ Recorded(r)
    BY <1>1, <2>6, <2>7
  <2>9. r \in Lanes
    <3>1. r \in {m, Complete(m, TRUE, "none")}
      BY DEF OnReply
    <3>2. m \in Lanes /\ Complete(m, TRUE, "none") \in Lanes
      BY <2>7, CompleteOK DEF Sound, Stores, Stops
    <3>3. QED
      BY <3>1, <3>2
  <2> HIDE DEF r
  <2>10. QED
    BY <2>1, <2>8, <2>9, LaunchedVoices DEF r
<1>5. CASE s.st \in RunEligible \cup {"completed"} /\ s.stash = <<>>
  <2>1. SettleReply(s, src) = OnReply(e, src)
    BY <1>5 DEF SettleReply
  <2>2. over \in Lanes
    BY <1>2 DEF Lanes, States, Stops
  <2>3. /\ over.st = "completed" /\ over.retained = s.retained /\ over.closeHook = s.closeHook
        /\ over.turnHooks = s.turnHooks /\ over.calls = s.calls /\ over.launch = s.launch
        /\ over.stash = s.stash /\ over.followups = s.followups /\ over.failure = s.failure
        /\ over.cause = s.cause /\ over.ask = s.ask /\ over.caught = s.caught
        /\ over.stop = "none"
    BY <1>2 DEF Lanes
  <2> HIDE DEF over
  <2>4. s.st # "absent" /\ Stampable(over) /\ (s.st \in RunEligible \/ over.st = s.st)
    BY <1>5, <2>3 DEF RunEligible, Stampable
  <2>5. Stores(s, n)
    BY <1>2, <2>2, <2>3, <2>4, RewriteOK
  <2>6. Writes(over, n)
    BY <1>2, <2>2, <2>4, UpdateWrites
  <2>7. Utters(s, over)
    <3>1. "none" \notin ForcedStops
      BY DEF ForcedStops
    <3>2. over.failure # NoRecord => s.st = "completed"
      BY <1>2, <1>5, <2>3 DEF Recorded
    <3>3. over.ask /\ Stale(over) => over.failure = NoRecord
      BY <2>3, <3>2 DEF Sound, Stale
    <3>4. QED
      BY <2>2, <2>3, <3>1, <3>3 DEF Utters, Adrift, RunEligible
  <2>8. Voices(s, n)
    BY <1>2, <2>4, <2>7, UpdateVoices
  <2> HIDE DEF n
  <2>9. n \in Lanes /\ n.ask = s.ask /\ Sound(n)
    BY <1>2, <2>3, <2>5, <2>6, <2>8, VoicesSound DEF Stores, Stamps, Writes
  <2>10. Voices(n, e) /\ Sound(e) /\ Stores(n, e) /\ e.ask = n.ask
    BY <2>9, IdleVoices
  <2> HIDE DEF e
  <2>11. Voices(s, e)
    BY <2>8, <2>9, <2>10, VoicesCompose DEF Stores, Sound
  <2>12. QED
    BY <1>1, <2>1, <2>9, <2>10, <2>11
<1>6. QED
  BY <1>3, <1>4, <1>5

LEMMA OnFailVoices ==
  ASSUME NEW s, Sound(s), NEW src, NEW cause \in Causes
  PROVE  Voices(s, OnFail(s, src, cause))
BY FailVoices, SoundVoices DEF OnFail

\* What endFollowupTurn hands to mutate.
LEMMA EndFollowupUtters ==
  ASSUME NEW s, Sound(s), s.ask => ~Stale(s), NEW o \in Lanes, Same(s, o), o.stash = s.stash,
         o.failure = s.failure, o.ask = s.ask, o.caught = s.caught,
         NEW restore \in {"completed", "interrupted"}
  PROVE  LET t == EndFollowup(o, restore)
         IN  Voices(s, t) /\ t.st # "running" /\ t.ask = s.ask /\ t \in Lanes
<1> DEFINE stops == IF o.st \in RunEligible
                    THEN IF restore = "interrupted" THEN restore ELSE o.stop
                    ELSE IF restore = "interrupted" /\ o.stop = "none" THEN restore ELSE o.stop
           st == IF o.st \in RunEligible THEN restore ELSE o.st
           x == [o EXCEPT !.st = st, !.stop = stops]
           u == Update(o, x)
<1>1. EndFollowup(o, restore) = u
  <2>1. o.st \notin RunEligible => x = [o EXCEPT !.stop = stops]
    BY DEF Lanes
  <2>2. QED
    BY <2>1 DEF EndFollowup
<1>2. st \in States /\ stops \in Stops
  BY DEF Lanes, States, Stops, ForcedStops
<1>3. st \notin RunEligible
  BY DEF RunEligible
<1> HIDE DEF st, stops
<1>4. /\ x \in Lanes /\ x.st = st /\ x.ask = s.ask /\ x.caught = s.caught /\ x.failure = s.failure
      /\ x.closeHook = s.closeHook /\ x.turnHooks = s.turnHooks
  <2>1. x \in Lanes
    BY <1>2 DEF Lanes
  <2>2. QED
    BY <1>2, <2>1 DEF Lanes, Same
<1> HIDE DEF x
<1>5. CASE o.st = "absent"
  <2>1. u = o
    BY <1>5 DEF Update
  <2>2. QED
    BY <1>1, <1>5, <2>1 DEF Voices, Leaves, Sound, Same, Settled, Adrift, Stale
<1>6. CASE o.st # "absent"
  <2>1. Utters(s, x)
    BY <1>3, <1>4 DEF Utters, Says, CurrentHandoff, Stale, Adrift, RunEligible
  <2>2. Writes(x, u)
    BY <1>4, <1>6, UpdateWrites
  <2>3. Voices(s, u)
    BY <1>6, <2>1, UpdateVoices
  <2> HIDE DEF u
  <2>4. QED
    BY <1>1, <1>3, <1>4, <2>2, <2>3 DEF Writes, Same, RunEligible
<1>7. QED
  BY <1>5, <1>6

LEMMA RestoreLaneVoices ==
  ASSUME NEW s, Sound(s), s.ask => ~Stale(s), NEW prior \in {"completed", "interrupted"},
         NEW cause \in Causes
  PROVE  Voices(s, RestoreLane(s, prior, cause))
<1> DEFINE w == IF prior = "interrupted" THEN [s EXCEPT !.cause = cause] ELSE s
           e == EndFollowup(w, prior)
           r == [e EXCEPT !.cause = "unset"]
<1>1. RestoreLane(s, prior, cause) = r
  BY DEF RestoreLane
<1>2. /\ w \in Lanes /\ Same(s, w) /\ w.stash = s.stash /\ w.failure = s.failure
      /\ w.ask = s.ask /\ w.caught = s.caught
  <2>1. s \in Lanes
    BY DEF Sound
  <2>2. CASE prior = "interrupted"
    BY <2>1, <2>2 DEF Lanes, Same
  <2>3. CASE prior # "interrupted"
    BY <2>1, <2>3 DEF Same
  <2>4. QED
    BY <2>2, <2>3
<1> HIDE DEF w
<1>3. Voices(s, e) /\ e.st # "running" /\ e.ask = s.ask /\ e \in Lanes
  BY <1>2, EndFollowupUtters
<1> HIDE DEF e
<1>4. /\ r.st = e.st /\ r.stop = e.stop /\ r.failure = e.failure /\ r.ask = e.ask
      /\ r.caught = e.caught /\ r.closeHook = e.closeHook /\ r.turnHooks = e.turnHooks
  BY <1>3 DEF Lanes
<1> HIDE DEF r
<1>5. QED
  BY <1>1, <1>3, <1>4 DEF Voices, Leaves, Adrift, Settled, Stale

\* The agent is closed by then, and with it the question.
LEMMA FailClosedVoices ==
  ASSUME NEW s, Sound(s), ~s.ask
  PROVE  Voices(s, FailClosed(s))
<1> DEFINE e == EndFollowup(s, "interrupted")
           w == SettleAsks(e)
           a == DropStash(w)
           d == [a EXCEPT !.failure = NoRecord, !.st = "failed", !.error = TRUE, !.stop = "error"]
           f == IF a.st \notin LiveStrip THEN a ELSE d
           u == Update(a, f)
           r == ReleaseHandles(u)
<1>1. FailClosed(s) = r
  BY DEF FailClosed
<1>2. s \in Lanes /\ Recorded(s) /\ Same(s, s)
  BY DEF Sound, Same
<1>3. e \in Lanes /\ Recorded(e) /\ Settled(e) /\ e.st # "running" /\ (s.st = "absent" <=> e.st = "absent")
  <2>1. Recorded(e) /\ Moves(s, e)
    BY <1>2, EndFollowupOK
  <2>2. Voices(s, e) /\ e.st # "running" /\ e \in Lanes
    BY <1>2, EndFollowupUtters
  <2> HIDE DEF e
  <2>3. QED
    BY <2>1, <2>2 DEF Voices, Leaves, Moves, Ends
<1> HIDE DEF e
<1>4. w \in Lanes /\ Quiet(e, w) /\ Recorded(w) /\ Settled(w)
  BY <1>3, SettleAsksTakes
<1> HIDE DEF w
<1>5. Empties(w, a) /\ Recorded(a)
  BY <1>4, DropStashEmpties, DropStashOK
<1> HIDE DEF a
<1>6. a \in Lanes /\ a.st # "running" /\ Settled(a)
  BY <1>3, <1>4, <1>5 DEF Empties, Quiet, Same
<1>7. u \in Lanes /\ Recorded(u) /\ Settled(u) /\ u.st # "running"
  <2>1. CASE a.st = "absent"
    <3>1. u = a
      BY <2>1 DEF Update
    <3>2. QED
      BY <1>5, <1>6, <3>1
  <2>2. CASE a.st # "absent" /\ a.st \notin LiveStrip
    <3>1. Stands(a, u)
      BY <1>5, <1>6, <2>2, UpdateStands
    <3> HIDE DEF u
    <3>2. QED
      BY <1>6, <3>1 DEF Stands, Same
  <2>3. CASE a.st # "absent" /\ a.st \in LiveStrip
    <3>1. "failed" \in States /\ "error" \in Stops
      BY DEF States, Stops
    <3>2. d \in Lanes /\ d.st = "failed"
      BY <1>6, <3>1 DEF Lanes
    <3> HIDE DEF d
    <3>3. Writes(d, u) /\ Recorded(u)
      BY <1>6, <2>3, <3>2, UpdateWrites, UpdateOK DEF Stampable
    <3> HIDE DEF u
    <3>4. QED
      BY <3>2, <3>3 DEF Writes, Same
  <2>4. QED
    BY <2>1, <2>2, <2>3
<1> HIDE DEF u
<1>8. /\ r \in Lanes /\ r.st = u.st /\ ~r.ask /\ ~r.closeHook /\ Settled(r)
  BY <1>7, ReleaseHandlesEmpties
<1> HIDE DEF r
<1>9. Voices(s, r)
  BY <1>7, <1>8 DEF Voices, Leaves, Adrift
<1>10. QED
  BY <1>1, <1>9

\* A turn begins on a fresh trace.
LEMMA BeginFollowupVoices ==
  ASSUME NEW s, Sound(s)
  PROVE  LET t == BeginFollowup(s)
         IN  Voices(s, t) /\ ~Stale(t)
<1> DEFINE w == [ResetTrace(s) EXCEPT !.followups = TRUE, !.inFlight = TRUE]
           r == [w EXCEPT !.st = "running", !.stop = "none"]
           u == Update(w, r)
<1>1. BeginFollowup(s) = u
  BY DEF BeginFollowup
<1>2. /\ w \in Lanes /\ w.st = s.st /\ w.ask = s.ask /\ w.caught = "unset" /\ w.failure = s.failure
      /\ w.stop = s.stop /\ w.closeHook = s.closeHook /\ w.turnHooks = s.turnHooks
  BY DEF Sound, ResetTrace, Lanes, Handoffs, Causes
<1> HIDE DEF w
<1>3. /\ r \in Lanes /\ r.st = "running" /\ r.ask = s.ask /\ r.caught = "unset"
      /\ r.failure = s.failure /\ r.closeHook = s.closeHook /\ r.turnHooks = s.turnHooks
  <2>1. "running" \in States /\ "none" \in Stops
    BY DEF States, Stops
  <2>2. QED
    BY <1>2, <2>1 DEF Lanes
<1> HIDE DEF r
<1>4. CASE s.st = "absent"
  <2>1. u = w
    BY <1>2, <1>4 DEF Update
  <2>2. QED
    BY <1>1, <1>2, <1>4, <2>1 DEF Voices, Leaves, Sound, Settled, Adrift, Stale
<1>5. CASE s.st # "absent"
  <2>1. Writes(r, u)
    BY <1>2, <1>3, <1>5, UpdateWrites
  <2>2. Utters(s, r)
    BY <1>3 DEF Utters, Adrift, Stale, RunEligible
  <2>3. Voices(s, u)
    BY <1>2, <1>5, <2>2, UpdateVoices
  <2> HIDE DEF u
  <2>4. QED
    BY <1>1, <1>3, <2>1, <2>3 DEF Writes, Stale, RunEligible
<1>6. QED
  BY <1>4, <1>5

LEMMA SendInterruptVoices ==
  ASSUME NEW s, Sound(s), s.st = "running", NEW msg \in 1..MaxInputs
  PROVE  Voices(s, SendInterrupt(s, msg))
<1> DEFINE a == SettleAsks(s)
           calls == IF a.stash = <<>> THEN a.calls \cup {"interrupt"} ELSE a.calls
           stash == Append(a.stash, msg)
           w == [a EXCEPT !.stash = stash, !.calls = calls]
           x == [w EXCEPT !.stop = "interrupted"]
           u == Update(w, x)
<1>1. s \in Lanes /\ Recorded(s) /\ Settled(s)
  BY DEF Sound
<1>2. SendInterrupt(s, msg) = u
  <2>1. w = [a EXCEPT !.stash = Append(@, msg),
                      !.calls = IF a.stash = <<>> THEN @ \cup {"interrupt"} ELSE @]
    BY <1>1, SettleAsksOK DEF Lanes
  <2>2. QED
    BY <2>1 DEF SendInterrupt
<1>3. a \in Lanes /\ Quiet(s, a) /\ ~a.ask
  BY <1>1, SettleAsksTakes
<1> HIDE DEF a
<1>4. stash \in Seq(1..MaxInputs) /\ calls \in SUBSET Hooks /\ stash # <<>>
  <2>1. a.stash \in Seq(1..MaxInputs) /\ a.calls \in SUBSET Hooks
    BY <1>3 DEF Lanes
  <2>2. QED
    BY <2>1 DEF Hooks
<1> HIDE DEF stash, calls
<1>5. /\ w \in Lanes /\ w.st = "running" /\ ~w.ask /\ w.stash # <<>> /\ w.failure = s.failure
      /\ w.closeHook = s.closeHook /\ w.turnHooks = s.turnHooks
  BY <1>3, <1>4 DEF Lanes, Quiet, Same
<1> HIDE DEF w
<1>6. /\ x \in Lanes /\ x.st = "running" /\ ~x.ask /\ x.stash # <<>> /\ x.failure = s.failure
      /\ x.closeHook = s.closeHook /\ x.turnHooks = s.turnHooks
  <2>1. "interrupted" \in Stops
    BY DEF Stops, ForcedStops
  <2>2. QED
    BY <1>5, <2>1 DEF Lanes
<1> HIDE DEF x
<1>7. Utters(s, x)
  BY <1>6 DEF Utters, Adrift, RunEligible
<1>8. Voices(s, u)
  BY <1>5, <1>7, UpdateVoices
<1>9. QED
  BY <1>2, <1>8

LEMMA CallCancelHookKeeps ==
  ASSUME NEW s \in Lanes
  PROVE  LET t == CallCancelHook(s)
         IN  t.ask = s.ask /\ t.caught = s.caught
<1> DEFINE calls == IF s.cancelHook = "none" THEN s.calls ELSE s.calls \cup {s.cancelHook}
<1>1. CallCancelHook(s) = [s EXCEPT !.calls = calls]
  BY DEF CallCancelHook, Lanes
<1> HIDE DEF calls
<1>2. QED
  BY <1>1 DEF Lanes

LEMMA InterruptOneVoices ==
  ASSUME NEW s, Sound(s)
  PROVE  Voices(s, InterruptOne(s))
<1> DEFINE d == DropStash(s)
           a == SettleAsks(d)
           w == [a EXCEPT !.calls = @ \cup {"interrupt"}]
           k == CallCancelHook(d)
           v == [k EXCEPT !.inFlight = FALSE]
           stopped(t) == Update(t, [t EXCEPT !.st = "interrupted", !.stop = "interrupted"])
<1>1. InterruptOne(s) = IF d.st \notin LiveStrip THEN s
                        ELSE IF d.turnHooks THEN stopped(w)
                        ELSE IF d.st = "pending_init" THEN stopped(v)
                        ELSE d
  BY DEF InterruptOne
<1>2. s \in Lanes /\ Recorded(s) /\ Settled(s)
  BY DEF Sound
<1>3. Empties(s, d) /\ Recorded(d)
  BY <1>2, DropStashEmpties, DropStashOK
<1> HIDE DEF d
<1>4. ASSUME NEW t \in Lanes, t.st \in LiveStrip, t.failure = s.failure, t.ask => s.ask,
             t.closeHook = s.closeHook, t.turnHooks = s.turnHooks, t.ask => ~Stale(t),
             s.ask /\ s.failure = NoRecord => Says(t) = "unavailable"
      PROVE  Voices(s, stopped(t))
  <2> DEFINE x == [t EXCEPT !.st = "interrupted", !.stop = "interrupted"]
  <2>1. "interrupted" \in States /\ "interrupted" \in Stops
    BY DEF States, Stops, ForcedStops
  <2>2. /\ x \in Lanes /\ x.st = "interrupted" /\ x.ask = t.ask /\ x.caught = t.caught
        /\ x.failure = t.failure /\ x.closeHook = t.closeHook /\ x.turnHooks = t.turnHooks
        /\ x.trace = t.trace
    BY <1>4, <2>1 DEF Lanes
  <2> HIDE DEF x
  <2>3. Says(x) = Says(t)
    BY <2>2 DEF Says, CurrentHandoff
  <2>4. t.st # "absent" /\ x.st \notin RunEligible /\ x.st # "running"
    BY <1>4, <2>2 DEF LiveStrip, RunEligible
  <2>5. x.ask => ~Stale(x)
    BY <1>4, <2>2 DEF Stale
  <2>6. Utters(s, x)
    BY <1>4, <2>2, <2>3, <2>4, <2>5 DEF Utters, Adrift
  <2>7. QED
    BY <1>4, <2>4, <2>6, UpdateVoices DEF x
<1>5. CASE d.st \notin LiveStrip
  BY <1>1, <1>5, SoundVoices
<1>6. CASE d.st \in LiveStrip /\ d.turnHooks
  <2>1. d \in Lanes /\ Settled(d)
    BY <1>3 DEF Empties
  <2>2. a \in Lanes /\ Quiet(d, a) /\ ~a.ask /\ (d.ask => a.caught = "unavailable")
    BY <1>3, <2>1, SettleAsksTakes
  <2> HIDE DEF a
  <2>3. /\ w \in Lanes /\ w.st = a.st /\ ~w.ask /\ w.caught = a.caught /\ w.failure = a.failure
        /\ w.closeHook = a.closeHook /\ w.turnHooks = a.turnHooks
    BY <2>2 DEF Lanes, Hooks
  <2> HIDE DEF w
  <2>4. s.ask => Says(w) = "unavailable"
    BY <1>3, <2>2, <2>3 DEF Says, Empties
  <2>5. Voices(s, stopped(w))
    BY <1>3, <1>4, <1>6, <2>2, <2>3, <2>4 DEF Empties, Quiet, Same
  <2> HIDE DEF stopped
  <2>6. QED
    BY <1>1, <1>6, <2>5
<1>7. CASE d.st \in LiveStrip /\ ~d.turnHooks /\ d.st = "pending_init"
  <2>1. d \in Lanes
    BY <1>3 DEF Empties
  <2>2. /\ k \in Lanes /\ k.st = d.st /\ k.ask = d.ask /\ k.caught = d.caught /\ k.failure = d.failure
        /\ k.closeHook = d.closeHook /\ k.turnHooks = d.turnHooks
    BY <2>1, CallCancelHookOK, CallCancelHookKeeps
  <2> HIDE DEF k
  <2>3. /\ v \in Lanes /\ v.st = k.st /\ v.ask = k.ask /\ v.caught = k.caught /\ v.failure = k.failure
        /\ v.closeHook = k.closeHook /\ v.turnHooks = k.turnHooks
    BY <2>2 DEF Lanes
  <2> HIDE DEF v
  <2>4. s.ask => Says(v) = "unavailable" /\ ~Stale(v)
    <3>1. s.st # "running"
      BY <1>3, <1>7 DEF Empties, Same
    <3>2. s.ask => ~Stale(s)
      BY <3>1 DEF Sound
    <3>3. QED
      BY <1>3, <2>2, <2>3, <3>2 DEF Says, CurrentHandoff, Stale, Empties
  <2>5. Voices(s, stopped(v))
    BY <1>3, <1>4, <1>7, <2>2, <2>3, <2>4 DEF Empties, Same
  <2> HIDE DEF stopped
  <2>6. QED
    BY <1>1, <1>7, <2>5
<1>8. CASE d.st \in LiveStrip /\ ~d.turnHooks /\ d.st # "pending_init"
  <2>1. InterruptOne(s) = d
    BY <1>1, <1>8
  <2>2. Voices(s, d)
    BY <1>3, <1>8 DEF Voices, Leaves, Sound, Empties, Same, Adrift, Stale
  <2>3. QED
    BY <2>1, <2>2
<1>9. QED
  BY <1>5, <1>6, <1>7, <1>8

LEMMA ForgetHooksEmpties ==
  ASSUME NEW s \in Lanes, Recorded(s), Settled(s)
  PROVE  LET t == ForgetHooks(s)
         IN  /\ t.st = s.st /\ t.failure = s.failure /\ t.ask = s.ask /\ Settled(t)
             /\ ~t.turnHooks /\ t.closeHook = s.closeHook
             /\ t.caught \in {s.caught, "unset"}
<1> DEFINE w == [s EXCEPT !.cancelHook = "none", !.turnHooks = FALSE]
           d == DropStash(w)
           e == [d EXCEPT !.inFlight = FALSE]
<1>1. ForgetHooks(s) = e
  BY DEF ForgetHooks
<1>2. /\ w \in Lanes /\ w.st = s.st /\ w.stop = s.stop /\ w.failure = s.failure /\ w.ask = s.ask
      /\ ~w.turnHooks /\ w.closeHook = s.closeHook /\ w.caught = s.caught
  BY DEF Lanes
<1> HIDE DEF w
<1>3. Recorded(w) /\ Settled(w)
  BY <1>2 DEF Recorded, Settled
<1>4. Empties(w, d)
  BY <1>2, <1>3, DropStashEmpties
<1> HIDE DEF d
<1>5. /\ e.st = d.st /\ e.failure = d.failure /\ e.ask = d.ask /\ e.stop = d.stop
      /\ e.turnHooks = d.turnHooks /\ e.closeHook = d.closeHook /\ e.caught = d.caught
  BY <1>4 DEF Empties, Lanes
<1> HIDE DEF e
<1>6. QED
  BY <1>1, <1>2, <1>4, <1>5 DEF Empties, Same, Settled

\* What close_agent's last update hands to mutate.
LEMMA ShutdownTells ==
  ASSUME NEW s \in Lanes, Settled(s)
  PROVE  /\ Settled(Shutdown(s))
         /\ \A v : Sound(v) /\ s.failure = v.failure /\ ~s.ask /\ ~s.closeHook /\ s.st # "absent"
                   /\ (v.ask /\ v.failure = NoRecord => s.caught = "unavailable")
                => Voices(v, Shutdown(s)) /\ ~Shutdown(s).closeHook
<1> DEFINE over == s.error \/ s.st \in LiveStrip
           x == [s EXCEPT !.st = "shutdown", !.retained = FALSE, !.error = over]
           u == Update(s, x)
<1>1. Shutdown(s) = u /\ over \in BOOLEAN /\ "shutdown" \in States
  BY DEF Shutdown, Lanes, States
<1> HIDE DEF over
<1>2. /\ x \in Lanes /\ x.st = "shutdown" /\ x.failure = s.failure /\ x.ask = s.ask
      /\ x.caught = s.caught /\ x.closeHook = s.closeHook
  BY <1>1 DEF Lanes
<1> HIDE DEF x
<1>3. CASE s.st = "absent"
  <2>1. u = s
    BY <1>3 DEF Update
  <2>2. QED
    BY <1>1, <1>3, <2>1
<1>4. CASE s.st # "absent"
  <2>1. Writes(x, u)
    BY <1>2, <1>4, UpdateWrites
  <2>2. ASSUME NEW v, Sound(v), s.failure = v.failure, ~s.ask, ~s.closeHook,
               v.ask /\ v.failure = NoRecord => s.caught = "unavailable"
        PROVE  Voices(v, u) /\ ~u.closeHook
    <3>1. Utters(v, x)
      BY <1>2, <2>2 DEF Utters, Says, Adrift
    <3>2. Voices(v, u)
      BY <1>4, <2>2, <3>1, UpdateVoices
    <3> HIDE DEF u
    <3>3. QED
      BY <1>2, <2>1, <2>2, <3>2 DEF Writes, Same
  <2>3. QED
    BY <1>1, <2>1, <2>2 DEF Writes
<1>5. QED
  BY <1>3, <1>4

\* close_agent settles the question and empties the queue before it looks further.
LEMMA SettledAndDropped ==
  ASSUME NEW s, Sound(s)
  PROVE  LET t == DropStash(SettleAsks(s))
         IN  /\ t \in Lanes /\ Same(s, t) /\ t.failure = s.failure /\ ~t.ask /\ Settled(t)
             /\ Recorded(t) /\ t.stash = <<>>
             /\ s.ask /\ s.st \in RunEligible => t.caught = "unavailable"
<1> DEFINE w == SettleAsks(s)
           t == DropStash(w)
<1>1. /\ w \in Lanes /\ Quiet(s, w) /\ ~w.ask /\ (s.ask => w.caught = "unavailable")
      /\ Recorded(w) /\ Settled(w)
  BY SettleAsksTakes DEF Sound
<1> HIDE DEF w
<1>2. Empties(w, t) /\ Recorded(t)
  BY <1>1, DropStashEmpties, DropStashOK
<1> HIDE DEF t
<1>3. QED
  BY <1>1, <1>2 DEF Empties, Quiet, Same, w, t

LEMMA CloseVoices ==
  ASSUME NEW s, Sound(s)
  PROVE  LET t == DropStash(SettleAsks(s))
         IN  /\ t.st # "running" \/ ~t.closeHook => Voices(s, t)
             /\ t.st = "pending_init" /\ ~t.closeHook
                   => Voices(s, ForgetHooks(Shutdown(CallCancelHook(t))))
<1> DEFINE t == DropStash(SettleAsks(s))
           k == CallCancelHook(t)
           u == Shutdown(k)
           f == ForgetHooks(u)
<1>1. /\ t \in Lanes /\ Same(s, t) /\ t.failure = s.failure /\ ~t.ask /\ Settled(t)
      /\ Recorded(t) /\ t.stash = <<>>
      /\ s.ask /\ s.st \in RunEligible => t.caught = "unavailable"
  BY SettledAndDropped
<1> HIDE DEF t
<1>2. ASSUME t.st # "running" \/ ~t.closeHook
      PROVE  Voices(s, t)
  BY <1>1, <1>2 DEF Voices, Leaves, Same, Adrift
<1>3. ASSUME t.st = "pending_init", ~t.closeHook
      PROVE  Voices(s, f)
  <2>1. /\ k \in Lanes /\ k.st = t.st /\ k.stop = t.stop /\ k.failure = t.failure /\ ~k.ask
        /\ k.caught = t.caught /\ ~k.closeHook /\ k.cause = t.cause
    BY <1>1, <1>3, CallCancelHookOK, CallCancelHookKeeps
  <2> HIDE DEF k
  <2>2. t.cause = "unset"
    <3>1. SettleAsks(s) \in Lanes /\ SettleAsks(s).cause = "unset"
      BY SettleAsksOK DEF Sound, Quiet
    <3>2. QED
      BY <3>1, DropStashOK DEF Stamps, t
  <2>3. Settled(k) /\ Recorded(k)
    BY <1>1, <2>1 DEF Settled, Recorded
  <2>4. Voices(s, u) /\ ~u.closeHook
    <3>1. s.ask => k.caught = "unavailable"
      BY <1>1, <1>3, <2>1 DEF Same, RunEligible
    <3>2. k.st # "absent" /\ k.failure = s.failure
      BY <1>1, <1>3, <2>1
    <3>3. QED
      BY <2>1, <2>3, <3>1, <3>2, ShutdownTells
  <2>5. u \in Lanes /\ Recorded(u)
    BY <2>1, <2>2, <2>3, ShutdownOK DEF Stores
  <2> HIDE DEF u
  <2>6. /\ f.st = u.st /\ f.failure = u.failure /\ f.ask = u.ask /\ Settled(f)
        /\ ~f.turnHooks /\ ~f.closeHook /\ f.caught \in {u.caught, "unset"}
    BY <2>4, <2>5, ForgetHooksEmpties DEF Voices, Leaves
  <2> HIDE DEF f
  <2>7. QED
    BY <2>4, <2>6 DEF Voices, Leaves, Adrift, Stale
<1>4. QED
  BY <1>2, <1>3 DEF t

\* Taking the close handle and calling it; the question dies with the agent.
LEMMA TakeCloseHookVoices ==
  ASSUME NEW s, Sound(s), NEW m \in Lanes, Voices(s, m)
  PROVE  Voices(s, [m EXCEPT !.closeHook = FALSE, !.calls = @ \cup {"close"}])
<1> DEFINE t == [m EXCEPT !.closeHook = FALSE, !.calls = @ \cup {"close"}]
<1>1. /\ t.st = m.st /\ t.stop = m.stop /\ t.failure = m.failure /\ t.ask = m.ask
      /\ t.caught = m.caught /\ ~t.closeHook
  BY DEF Lanes
<1> HIDE DEF t
<1>2. Voices(s, t)
  BY <1>1 DEF Voices, Leaves, Settled, Stale, Adrift
<1>3. QED
  BY <1>2 DEF t

\* cancelAll's last update shuts down what it found retained.
LEMMA CancelAllVoices ==
  ASSUME NEW s, Sound(s), s.st \notin {"absent", "shutdown"}
  PROVE  LET c == IF s.st \in LiveStrip THEN Cancel(s) ELSE s
             h == DropStash([c EXCEPT !.ask = FALSE, !.closeHook = FALSE,
                                      !.turnHooks = FALSE, !.cancelHook = "none",
                                      !.calls = IF c.closeHook THEN @ \cup {"close"} ELSE @])
         IN  c.st # "shutdown" => Voices(s, Update(h, [h EXCEPT !.st = "shutdown", !.retained = FALSE]))
<1> DEFINE c == IF s.st \in LiveStrip THEN Cancel(s) ELSE s
           g == [c EXCEPT !.ask = FALSE, !.closeHook = FALSE,
                          !.turnHooks = FALSE, !.cancelHook = "none",
                          !.calls = IF c.closeHook THEN @ \cup {"close"} ELSE @]
           h == DropStash(g)
           x == [h EXCEPT !.st = "shutdown", !.retained = FALSE]
           u == Update(h, x)
<1>1. /\ c \in Lanes /\ Voices(s, c) /\ Recorded(c)
      /\ c.st = IF s.st \in LiveStrip THEN "cancelled" ELSE s.st
  <2>1. s \in Lanes /\ s.cause = "unset" /\ Recorded(s)
    BY DEF Sound
  <2>2. QED
    BY <2>1, CancelVoices, CancelOK, SoundVoices DEF Stores
<1>1a. s.st \notin LiveStrip => c.ask = s.ask /\ c.failure = s.failure
  OBVIOUS
<1> HIDE DEF c
<1>2. /\ g \in Lanes /\ g.st = c.st /\ g.stop = c.stop /\ g.failure = c.failure
      /\ ~g.ask /\ ~g.closeHook
  BY <1>1, ZenonT(60) DEF Lanes, Hooks
<1> HIDE DEF g
<1>3. Recorded(g) /\ Settled(g)
  BY <1>1, <1>2 DEF Voices, Leaves, Settled, Recorded
<1>4. Empties(g, h)
  BY <1>2, <1>3, DropStashEmpties
<1> HIDE DEF h
<1>5. h \in Lanes /\ h.st = c.st /\ h.stop = c.stop /\ h.failure = c.failure /\ ~h.ask /\ ~h.closeHook
  BY <1>2, <1>4 DEF Empties, Same
<1>6. /\ x \in Lanes /\ x.st = "shutdown" /\ x.stop = h.stop /\ x.failure = h.failure
      /\ ~x.ask /\ ~x.closeHook
  <2>1. "shutdown" \in States
    BY DEF States
  <2>2. QED
    BY <1>5, <2>1 DEF Lanes
<1> HIDE DEF x
<1>7. h.st # "absent"
  BY <1>1, <1>5
<1>8. Writes(x, u)
  BY <1>5, <1>6, <1>7, UpdateWrites
<1> HIDE DEF u
<1>9. ASSUME c.st # "shutdown"
      PROVE  Voices(s, u)
  <2>1. c.failure = NoRecord => u.failure = NoRecord
    <3>1. c.failure = NoRecord => c.st = "completed"
      <4>1. c.st \in States
        BY <1>1 DEF Lanes
      <4>2. c.st # "absent" /\ c.st \notin RunEligible
        BY <1>1 DEF LiveStrip, RunEligible
      <4>3. QED
        BY <1>1, <1>9, <4>1, <4>2 DEF Recorded, States, RunEligible
    <3>2. c.failure = NoRecord => x.stop \notin ForcedStops /\ x.failure = NoRecord
      BY <1>1, <1>5, <1>6, <3>1 DEF Voices, Leaves, Settled
    <3>3. QED
      BY <1>6, <1>8, <3>2 DEF Writes, RunEligible
  <2>2. c.failure # NoRecord => u.failure = c.failure
    BY <1>5, <1>6, <1>8 DEF Writes, RunEligible
  <2>3. u.st = "shutdown" /\ ~u.ask /\ ~u.closeHook /\ Settled(u)
    BY <1>6, <1>8 DEF Writes, Same
  <2>4. QED
    BY <1>1, <2>1, <2>2, <2>3 DEF Voices, Leaves, Adrift
<1>10. QED
  BY <1>9 DEF c, g, h, x, u

LEMMA PruneVoices ==
  ASSUME NEW s, Sound(s)
  PROVE  Voices(s, [ReleaseHandles(s) EXCEPT !.st = "absent"])
<1> DEFINE r == ReleaseHandles(s)
           t == [r EXCEPT !.st = "absent"]
<1>1. r \in Lanes /\ r.failure = s.failure /\ ~r.ask /\ ~r.closeHook
  BY ReleaseHandlesEmpties DEF Sound
<1> HIDE DEF r
<1>2. t.st = "absent" /\ t.failure = r.failure /\ ~t.ask /\ ~t.closeHook
  BY <1>1 DEF Lanes
<1> HIDE DEF t
<1>3. Voices(s, t)
  BY <1>1, <1>2 DEF Voices, Leaves, Settled, Adrift
<1>4. QED
  BY <1>3 DEF r, t

-----------------------------------------------------------------------------
(* Storing a lane: what the worker knows of the question that is out. *)

\* A question is out only while the agent lives; a stopped run was interrupted; a
\* stale handoff is behind a running worker, and once its first run was interrupted or
\* has a successor, a steer is queued that will take it.
AskInv ==
    /\ lane.ask => ~closed /\ turns # <<>>
    /\ pc = "stopped" => turns[1].hit
    /\ Settled(lane)
    /\ lane.ask /\ Stale(lane) => lane.st = "running"
    /\ Adrift(lane) /\ ~closed => Len(turns) <= 1 /\ \A i \in DOMAIN turns : ~turns[i].hit
    /\ lane.closeHook /\ ~closed => lane.turnHooks
    /\ \A i \in DOMAIN turns : turns[i].phase \in {"shut", "restore_shut"} => closed

\* What OpenAskIsRecorded says of a step.
Told == lane.failure = NoRecord /\ lane'.failure # NoRecord /\ lane.ask
           => lane'.failure.handoff = "unavailable"

Late == /\ lane.stash # <<>>
        /\ \E i \in DOMAIN turns : turns[i].phase = "restore" /\ turns'[i].phase # "restore"

LEMMA AskSound == WorkerInv /\ AskInv => Sound(lane) /\ lane.calls = {} /\ lane.launch = <<>>
BY DEF WorkerInv, LaneInv, AskInv, Sound

\* What every step has to show.
LEMMA AskKept ==
  ASSUME AskInv, LaneInv, NEW s, Leaves(lane, s), closed => closed', Closes(s) => closed',
         lane'.st = s.st, lane'.stop = s.stop, lane'.failure = s.failure, lane'.stash = s.stash,
         lane'.caught = s.caught, lane'.turnHooks = s.turnHooks, lane'.closeHook = s.closeHook,
         lane'.ask => s.ask /\ ~closed' /\ turns' # <<>>,
         pc' = "stopped" => turns'[1].hit,
         \A i \in DOMAIN turns' : turns'[i].phase \in {"shut", "restore_shut"} => closed',
         Adrift(s) /\ ~closed' /\ Len(turns) <= 1 /\ (\A i \in DOMAIN turns : ~turns[i].hit)
            => Len(turns') <= 1 /\ \A i \in DOMAIN turns' : ~turns'[i].hit
  PROVE  AskInv'
<1>1. Settled(lane)'
  BY DEF Leaves, Settled
<1>2. (lane.ask /\ Stale(lane) => lane.st = "running")'
  BY DEF Leaves, Stale
<1>3. (lane.closeHook /\ ~closed => lane.turnHooks)'
  BY DEF Leaves, AskInv
<1>4. (Adrift(lane) /\ ~closed => Len(turns) <= 1 /\ \A i \in DOMAIN turns : ~turns[i].hit)'
  <2> SUFFICES ASSUME Adrift(lane)', ~closed'
               PROVE  Len(turns') <= 1 /\ \A i \in DOMAIN turns' : ~turns'[i].hit
    OBVIOUS
  <2>1. Adrift(s)
    BY DEF Adrift, Stale, Closes
  <2>2. Adrift(lane)
    BY <2>1 DEF Adrift, Leaves, AskInv, LaneInv, Closes
  <2>3. QED
    BY <2>1, <2>2 DEF AskInv
<1>5. QED
  BY <1>1, <1>2, <1>3, <1>4 DEF AskInv

\* Once the agent is closed no question is out.
LEMMA AskShut ==
  ASSUME closed', ~lane'.ask, Settled(lane'), pc' = "stopped" => turns'[1].hit
  PROVE  AskInv'
BY DEF AskInv, Settled

LEMMA HitMarks ==
  ASSUME NEW ts \in Seq(Turn), NEW i \in 1..Len(ts), ts[i].hit
  PROVE  Hit(ts)[i].hit
<1>1. CASE ts = <<>>
  BY <1>1 DEF Hit
<1>2. CASE ts # <<>>
  <2>1. Len(ts) \in 1..Len(ts) /\ ts[Len(ts)] \in Turn
    BY <1>2
  <2>2. [ts[Len(ts)] EXCEPT !.hit = TRUE].hit
    BY <2>1 DEF Turn
  <2>3. QED
    BY <1>2, <2>1, <2>2 DEF Hit
<1>3. QED
  BY <1>1, <1>2

\* The interrupts and the phases of the turns after a commit.
LEMMA CommitHits ==
  ASSUME NEW s \in Lanes, NEW ts \in Seq(Turn), NEW sl, closed \in BOOLEAN, Commit(s, ts, sl)
  PROVE  /\ turns' \in Seq(Turn) /\ Len(turns') = Len(ts) + Len(s.launch)
         /\ \A i \in 1..Len(ts) : (ts[i].hit => turns'[i].hit) /\ turns'[i].phase = ts[i].phase
         /\ \A i \in 1..Len(turns') : i > Len(ts) /\ turns'[i].phase \in {"shut", "restore_shut"}
                                         => closed'
         /\ s.launch = <<>> /\ "interrupt" \notin s.calls => turns' = ts
<1> DEFINE dead == closed \/ "abort" \in s.calls \/ "close" \in s.calls
           q == IF "interrupt" \in s.calls THEN Hit(ts) ELSE ts
           l == Launched(s.launch, dead)
<1>1. turns' = q \o l /\ closed' = dead
  BY DEF Commit
<1>2. /\ turns' \in Seq(Turn) /\ Len(turns') = Len(ts) + Len(s.launch)
      /\ \A i \in 1..Len(ts) : turns'[i].phase = ts[i].phase
      /\ \A i \in 1..Len(turns') : i > Len(ts) => i - Len(ts) \in 1..Len(s.launch)
  BY CommitTurns
<1>3. q \in Seq(Turn) /\ Len(q) = Len(ts) /\ \A i \in 1..Len(ts) : ts[i].hit => q[i].hit
  BY HitOK, HitMarks
<1>4. /\ l \in Seq(Turn) /\ Len(l) = Len(s.launch)
      /\ \A k \in 1..Len(l) : l[k].phase \in {"shut", "restore_shut"} => dead
  <2>1. dead \in BOOLEAN /\ s.launch \in Seq(1..MaxInputs)
    BY DEF Lanes
  <2> HIDE DEF dead
  <2>2. l \in Seq(Turn) /\ Len(l) = Len(s.launch)
    BY <2>1, LaunchedOK
  <2>3. \A k \in 1..Len(l) : l[k].phase = IF dead THEN "shut" ELSE "sent"
    BY <2>1, <2>2 DEF Launched, NewTurn
  <2>4. QED
    BY <2>2, <2>3
<1> HIDE DEF q, l, dead
<1>5. /\ \A i \in 1..Len(q) : (q \o l)[i] = q[i]
      /\ \A i \in 1..Len(q \o l) : i > Len(q) => (q \o l)[i] = l[i - Len(q)]
  <2>1. ASSUME NEW i \in 1..Len(q)
        PROVE  (q \o l)[i] = q[i]
    BY <1>3, <1>4
  <2>2. ASSUME NEW i \in 1..Len(q \o l), i > Len(q)
        PROVE  (q \o l)[i] = l[i - Len(q)]
    BY <1>3, <1>4, <2>2
  <2>3. QED
    BY <2>1, <2>2
<1>6. \A i \in 1..Len(ts) : ts[i].hit => turns'[i].hit
  BY <1>1, <1>3, <1>5
<1>7. ASSUME NEW i \in 1..Len(turns'), i > Len(ts), turns'[i].phase \in {"shut", "restore_shut"}
      PROVE  closed'
  <2>1. i - Len(ts) \in 1..Len(l) /\ turns'[i] = l[i - Len(ts)]
    BY <1>1, <1>2, <1>3, <1>4, <1>5, <1>7
  <2>2. QED
    BY <1>1, <1>4, <1>7, <2>1
<1>8. s.launch = <<>> /\ "interrupt" \notin s.calls => turns' = ts
  <2> SUFFICES ASSUME s.launch = <<>>, "interrupt" \notin s.calls PROVE turns' = ts
    OBVIOUS
  <2>1. q = ts
    BY DEF q
  <2>2. l = <<>>
    BY <1>4
  <2>3. QED
    BY <1>1, <2>1, <2>2
<1>9. QED
  BY <1>2, <1>6, <1>7, <1>8

\* The turns a step stores: those there were, interrupted or not, and none finds the
\* agent closed before it is.
TurnsHit(ts) ==
    /\ ts \in Seq(Turn) /\ Len(ts) >= Len(turns)
    /\ \A i \in 1..Len(turns) : ts[i].hit = turns[i].hit
    /\ \A i \in 1..Len(ts) : ts[i].phase \in {"shut", "restore_shut"} => closed

\* The rest of the lane after a commit: an abort or an interrupt withdraws the question.
LEMMA CommitRest ==
  ASSUME NEW s \in Lanes, NEW ts, NEW sl, Commit(s, ts, sl)
  PROVE  lane'.stop = s.stop /\ lane'.caught = s.caught /\ (lane'.ask => s.ask /\ ~closed')
<1> DEFINE ask == s.ask /\ ~(closed \/ "abort" \in s.calls \/ "close" \in s.calls)
                      /\ "interrupt" \notin s.calls
<1>1. /\ lane' = [s EXCEPT !.calls = {}, !.launch = <<>>, !.ask = ask]
      /\ closed' = (closed \/ "abort" \in s.calls \/ "close" \in s.calls)
  BY DEF Commit
<1>2. ask => s.ask /\ ~closed'
  BY <1>1
<1> HIDE DEF ask
<1>3. QED
  BY <1>1, <1>2 DEF Lanes

LEMMA CommitAsk ==
  ASSUME AskInv, WorkerInv, NEW s \in Lanes, Leaves(lane, s), NEW ts, TurnsHit(ts), NEW sl,
         Commit(s, ts, sl), s.ask => turns # <<>>, pc' = "stopped" => pc = "stopped",
         Len(ts) = Len(turns) \/ ~Adrift(s) \/ (Len(ts) = 1 /\ ~ts[1].hit)
  PROVE  AskInv'
<1>1. LaneInv /\ turns \in Seq(Turn) /\ closed \in BOOLEAN /\ ts \in Seq(Turn)
  BY DEF WorkerInv, LaneInv, TurnsHit
<1>2. /\ lane'.st = s.st /\ lane'.failure = s.failure /\ lane'.stash = s.stash
      /\ lane'.turnHooks = s.turnHooks /\ lane'.closeHook = s.closeHook
      /\ closed' = (closed \/ Closes(s))
  BY <1>1, CommitLane
<1>3. lane'.stop = s.stop /\ lane'.caught = s.caught /\ (lane'.ask => s.ask /\ ~closed')
  BY CommitRest
<1>4. /\ turns' \in Seq(Turn) /\ Len(turns') = Len(ts) + Len(s.launch)
      /\ \A i \in 1..Len(ts) : (ts[i].hit => turns'[i].hit) /\ turns'[i].phase = ts[i].phase
      /\ \A i \in 1..Len(turns') : i > Len(ts) /\ turns'[i].phase \in {"shut", "restore_shut"}
                                      => closed'
      /\ s.launch = <<>> /\ "interrupt" \notin s.calls => turns' = ts
  BY <1>1, CommitHits
<1>5. Len(turns) \in Nat /\ Len(ts) \in Nat /\ Len(s.launch) \in Nat /\ Len(ts) >= Len(turns)
  BY <1>1 DEF Lanes, TurnsHit
<1>6. turns # <<>> => turns' # <<>>
  BY <1>1, <1>4, <1>5
<1>7. pc' = "stopped" => turns'[1].hit
  <2> SUFFICES ASSUME pc' = "stopped" PROVE turns'[1].hit
    OBVIOUS
  <2>1. turns # <<>> /\ turns[1].hit
    BY DEF AskInv, WorkerInv, ChainInv, Begun, Outcomes
  <2>2. 1 \in 1..Len(turns) /\ 1 \in 1..Len(ts)
    BY <1>1, <1>5, <2>1
  <2>3. QED
    BY <1>4, <2>1, <2>2 DEF TurnsHit
<1>8. \A i \in DOMAIN turns' : turns'[i].phase \in {"shut", "restore_shut"} => closed'
  <2> SUFFICES ASSUME NEW i \in 1..Len(turns'), turns'[i].phase \in {"shut", "restore_shut"}
               PROVE  closed'
    BY <1>4
  <2>1. CASE i \in 1..Len(ts)
    BY <1>2, <1>4, <2>1 DEF TurnsHit
  <2>2. CASE i > Len(ts)
    BY <1>4, <2>2
  <2>3. QED
    BY <1>5, <2>1, <2>2
<1>9. Adrift(s) /\ ~closed' /\ Len(turns) <= 1 /\ (\A i \in DOMAIN turns : ~turns[i].hit)
            => Len(turns') <= 1 /\ \A i \in DOMAIN turns' : ~turns'[i].hit
  <2> SUFFICES ASSUME Adrift(s), ~closed', Len(turns) <= 1, \A i \in DOMAIN turns : ~turns[i].hit
               PROVE  Len(turns') <= 1 /\ \A i \in DOMAIN turns' : ~turns'[i].hit
    OBVIOUS
  <2>1. turns' = ts
    BY <1>4 DEF Leaves, WorkerInv, LaneInv
  <2>2. CASE Len(ts) = Len(turns)
    BY <1>1, <2>1, <2>2 DEF TurnsHit
  <2>3. CASE Len(ts) = 1 /\ ~ts[1].hit
    BY <1>1, <2>1, <2>3
  <2>4. QED
    BY <2>2, <2>3
<1>10. (closed => closed') /\ (Closes(s) => closed')
  BY <1>2
<1>11. lane'.ask => s.ask /\ ~closed' /\ turns' # <<>>
  BY <1>3, <1>6
<1>12. QED
  BY <1>1, <1>2, <1>3, <1>7, <1>8, <1>9, <1>10, <1>11, AskKept

LEMMA CommitTold ==
  ASSUME AskInv, WorkerInv, NEW s \in Lanes, NEW ts, TurnsHit(ts), NEW sl, Commit(s, ts, sl),
         Voices(lane, s), pc' = "stopped" => pc = "stopped",
         Len(ts) = Len(turns) \/ ~Adrift(s) \/ (Len(ts) = 1 /\ ~ts[1].hit)
  PROVE  AskInv' /\ Told
<1>1. AskInv'
  BY CommitAsk DEF Voices, AskInv
<1>2. lane'.failure = s.failure
  BY CommitLane DEF WorkerInv, LaneInv
<1>3. QED
  BY <1>1, <1>2 DEF Voices, Told

\* A commit of a closed agent's lane.
LEMMA CommitShut ==
  ASSUME AskInv, WorkerInv, NEW s \in Lanes, NEW ts, TurnsHit(ts), NEW sl, Commit(s, ts, sl),
         closed \/ Closes(s), Settled(s), pc' = "stopped" => pc = "stopped"
  PROVE  AskInv' /\ (closed => Told) /\ lane'.failure = s.failure
<1>1. turns \in Seq(Turn) /\ closed \in BOOLEAN /\ ts \in Seq(Turn)
  BY DEF WorkerInv, LaneInv, TurnsHit
<1>2. lane'.st = s.st /\ lane'.failure = s.failure /\ closed' = (closed \/ Closes(s))
  BY <1>1, CommitLane
<1>3. lane'.stop = s.stop /\ (lane'.ask => s.ask /\ ~closed')
  BY CommitRest
<1>4. pc' = "stopped" => turns'[1].hit
  <2> SUFFICES ASSUME pc' = "stopped" PROVE turns'[1].hit
    OBVIOUS
  <2>1. turns # <<>> /\ turns[1].hit
    BY DEF AskInv, WorkerInv, ChainInv, Begun, Outcomes
  <2>2. 1 \in 1..Len(turns) /\ 1 \in 1..Len(ts)
    BY <1>1, <2>1 DEF TurnsHit
  <2>3. QED
    BY <1>1, <2>1, <2>2, CommitHits DEF TurnsHit
<1>5. AskInv'
  BY <1>2, <1>3, <1>4, AskShut DEF Settled
<1>6. closed => Told
  BY DEF AskInv, Told
<1>7. QED
  BY <1>2, <1>5, <1>6

LEMMA TurnsHitHere == WorkerInv /\ AskInv => TurnsHit(turns)
BY DEF WorkerInv, LaneInv, AskInv, TurnsHit

LEMMA InPhaseHit ==
  ASSUME WorkerInv, AskInv, NEW i \in DOMAIN turns, NEW phase \in Phases,
         phase \in {"shut", "restore_shut"} => closed
  PROVE  TurnsHit(InPhase(i, phase)) /\ Len(InPhase(i, phase)) = Len(turns)
<1> DEFINE t == [turns[i] EXCEPT !.phase = phase]
<1>1. turns \in Seq(Turn) /\ i \in 1..Len(turns) /\ turns[i] \in Turn
  BY DEF WorkerInv, LaneInv
<1>2. t \in Turn /\ t.hit = turns[i].hit /\ t.phase = phase
  BY <1>1 DEF Turn
<1>3. InPhase(i, phase) = [turns EXCEPT ![i] = t]
  BY DEF InPhase
<1> HIDE DEF t
<1>4. QED
  BY <1>1, <1>2, <1>3 DEF TurnsHit, AskInv

LEMMA ChainedHit ==
  ASSUME WorkerInv, AskInv, NEW i \in DOMAIN turns
  PROVE  TurnsHit(Chained(i)) /\ Len(Chained(i)) = Len(turns)
BY InPhaseHit DEF Chained, Phases

-----------------------------------------------------------------------------
(* One step per action. *)

LEMMA StoreTold ==
  ASSUME AskInv, WorkerInv, NEW s \in Lanes, Voices(lane, s), NEW ts, TurnsHit(ts),
         Len(ts) = Len(turns), NEW sl, Commit(s, ts, sl), pc' = "stopped" => pc = "stopped"
  PROVE  AskInv' /\ Told
BY CommitTold

LEMMA VerbTold ==
  ASSUME AskInv, WorkerInv, NEW s \in Lanes, Voices(lane, s), NEW sl, Commit(s, turns, sl),
         pc' = "stopped" => pc = "stopped"
  PROVE  AskInv' /\ Told
BY StoreTold, TurnsHitHere

\* A step that stores the lane itself and records nothing.
LEMMA DirectTold ==
  ASSUME AskInv, WorkerInv, Leaves(lane, lane'), lane'.failure = lane.failure, lane'.calls = {},
         lane'.ask => lane.ask /\ ~closed', closed => closed', closed' \in BOOLEAN,
         TurnsHit(turns'), Len(turns') = Len(turns),
         pc' = "stopped" => turns # <<>> /\ turns[1].hit
  PROVE  AskInv' /\ Told
<1>1. LaneInv /\ turns \in Seq(Turn) /\ turns' \in Seq(Turn)
  BY DEF WorkerInv, LaneInv, TurnsHit
<1>2. lane'.ask => lane'.ask /\ ~closed' /\ turns' # <<>>
  BY <1>1 DEF AskInv
<1>3. pc' = "stopped" => turns'[1].hit
  BY <1>1 DEF TurnsHit
<1>4. \A i \in DOMAIN turns' : turns'[i].phase \in {"shut", "restore_shut"} => closed'
  BY <1>1 DEF TurnsHit
<1>5. Len(turns) <= 1 /\ (\A i \in DOMAIN turns : ~turns[i].hit)
            => Len(turns') <= 1 /\ \A i \in DOMAIN turns' : ~turns'[i].hit
  BY <1>1 DEF TurnsHit
<1>6. AskInv'
  BY <1>1, <1>2, <1>3, <1>4, <1>5, AskKept DEF Closes
<1>7. QED
  BY <1>6 DEF Told

LEMMA QuietLeaves ==
  ASSUME AskInv, WorkerInv, Quiet(lane, lane'), lane'.caught = lane.caught, lane'.ask => lane.ask
  PROVE  Leaves(lane, lane') /\ lane'.failure = lane.failure /\ lane'.calls = {}
BY DEF Quiet, Same, Leaves, Settled, Stale, Adrift, AskInv, WorkerInv, LaneInv

LEMMA NoAskEarly == WorkerInv /\ AskInv /\ turns = <<>> => ~lane.ask /\ Told
BY DEF AskInv, Told

LEMMA SpawnTold == WorkerInv /\ AskInv /\ Spawn => AskInv' /\ Told
<1> SUFFICES ASSUME WorkerInv, AskInv, Spawn PROVE AskInv' /\ Told
  OBVIOUS
<1>1. turns = <<>> /\ pc' # "stopped"
  <2>1. Spawned.st \in RunEligible
    BY DEF Spawned, StartSession, Unstarted, RunEligible
  <2>2. pc' = "queued" \/ StartRun(Spawned)
    BY DEF Spawn, Spawned
  <2>3. pc' # "stopped"
    BY <2>1, <2>2 DEF StartRun
  <2>4. QED
    BY <2>3 DEF Spawn, WorkerInv, ChainInv, Begun, Early
<1>2. PICK s \in {Spawned, [Spawned EXCEPT !.inFlight = TRUE]}, sl \in {"queued", "held"} :
         Commit(s, turns, sl)
  <2>1. Spawned.st \in RunEligible
    BY DEF Spawned, StartSession, Unstarted, RunEligible
  <2>2. Commit(Spawned, turns, "queued") \/ StartRun(Spawned)
    BY DEF Spawn, Spawned
  <2>3. QED
    BY <2>1, <2>2 DEF StartRun
<1>3. s \in Lanes /\ s.st = "pending_init" /\ ~s.ask /\ ~s.closeHook
  <2>1. s \in Lanes /\ s.st = "pending_init"
    BY SpawnedOK DEF Cancellable
  <2>2. ~Spawned.ask /\ ~Spawned.closeHook /\ Spawned \in Lanes
    BY SpawnedOK DEF Spawned, StartSession, Unstarted
  <2>3. s.ask = Spawned.ask /\ s.closeHook = Spawned.closeHook
    BY <2>2 DEF Lanes
  <2>4. QED
    BY <2>1, <2>2, <2>3
<1>4. Leaves(lane, s)
  BY <1>3 DEF Leaves, Settled, Adrift
<1>5. TurnsHit(turns)
  BY TurnsHitHere
<1>6. AskInv'
  BY <1>1, <1>2, <1>3, <1>4, <1>5, CommitAsk
<1>7. QED
  BY <1>1, <1>6, NoAskEarly

LEMMA AdmitRunTold == WorkerInv /\ AskInv /\ AdmitRun => AskInv' /\ Told
<1> SUFFICES ASSUME WorkerInv, AskInv, AdmitRun PROVE AskInv' /\ Told
  OBVIOUS
<1> DEFINE s == [lane EXCEPT !.inFlight = TRUE]
<1>1. /\ pc' # "stopped"
      /\ Commit(lane, turns, "free") \/ Commit(s, turns, "held")
  BY DEF AdmitRun, StartRun
<1>2. Sound(lane) /\ lane \in Lanes /\ Voices(lane, lane)
  BY AskSound, SoundVoices DEF Sound
<1>3. Voices(lane, s) /\ s \in Lanes
  BY <1>2, IdleVoices DEF Stores
<1> HIDE DEF s
<1>4. QED
  BY <1>1, <1>2, <1>3, VerbTold

LEMMA WorktreeDoneTold == WorkerInv /\ AskInv /\ WorktreeDone => AskInv' /\ Told
<1> SUFFICES ASSUME WorkerInv, AskInv, WorktreeDone PROVE AskInv' /\ Told
  OBVIOUS
<1>1. Sound(lane) /\ lane \in Lanes /\ Voices(lane, lane) /\ Running /\ pc' # "stopped"
  BY AskSound, SoundVoices DEF Sound, WorktreeDone, Running
<1>2. Fail(lane, "unset") \in Lanes /\ Voices(lane, Fail(lane, "unset"))
  BY <1>1, ChainLanes, FailVoices DEF Causes, Carries
<1>3. CASE Commit(Fail(lane, "unset"), turns, slot)
  BY <1>1, <1>2, <1>3, VerbTold
<1>4. CASE lane.st \notin RunEligible /\ Commit(SettleRun(lane), turns, slot)
  <2>1. SettleRun(lane) \in Lanes
    BY <1>1, ChainLanes DEF Carries
  <2>2. Voices(lane, SettleRun(lane))
    BY <1>1, <1>4, SettleRunVoices DEF RunEligible
  <2>3. QED
    BY <1>1, <1>4, <2>1, <2>2, VerbTold
<1>5. CASE Commit(lane, turns, slot)
  BY <1>1, <1>5, VerbTold
<1>6. QED
  BY <1>3, <1>4, <1>5 DEF WorktreeDone

LEMMA SetupThrowsTold == WorkerInv /\ AskInv /\ SetupThrows => AskInv' /\ Told
<1> SUFFICES ASSUME WorkerInv, AskInv, SetupThrows PROVE AskInv' /\ Told
  OBVIOUS
<1>1. turns = <<>> /\ closed' /\ lane' = lane /\ pc' # "stopped"
  BY EarlyOK DEF SetupThrows
<1>2. ~lane.ask /\ Told
  BY <1>1, NoAskEarly
<1>3. AskInv'
  BY <1>1, <1>2, AskShut DEF AskInv
<1>4. QED
  BY <1>2, <1>3

LEMMA RunEndsTold ==
  ASSUME WorkerInv, AskInv, NEW outcome \in Outcomes, RunEnds(outcome)
  PROVE  AskInv' /\ Told
<1> DEFINE ask == lane.ask /\ ~closed'
<1>1. /\ pc = "turn" /\ pc' = outcome /\ turns' = InPhase(1, "done")
      /\ lane' = [lane EXCEPT !.ask = ask]
      /\ outcome = "stopped" => turns[1].hit
  BY EarlyOK DEF RunEnds, InPhase, Lanes
<1>2. closed' \in BOOLEAN /\ (closed => closed')
  <2>1. closed \in BOOLEAN
    BY DEF WorkerInv, LaneInv
  <2>2. closed' = closed \/ closed' = TRUE
    BY DEF RunEnds
  <2>3. QED
    BY <2>1, <2>2
<1>3. ask \in BOOLEAN /\ (ask => lane.ask /\ ~closed') /\ lane \in Lanes
  BY EarlyOK
<1> HIDE DEF ask
<1>4. Quiet(lane, lane') /\ lane'.caught = lane.caught /\ (lane'.ask => lane.ask /\ ~closed')
  BY <1>1, <1>3 DEF Lanes, Quiet, Same
<1>5. Leaves(lane, lane') /\ lane'.failure = lane.failure /\ lane'.calls = {}
  BY <1>4, QuietLeaves
<1>6. turns # <<>> /\ 1 \in DOMAIN turns /\ "done" \in Phases
  BY <1>1 DEF WorkerInv, LaneInv, ChainInv, Begun, Outcomes, Phases
<1>7. TurnsHit(turns') /\ Len(turns') = Len(turns)
  BY <1>1, <1>6, InPhaseHit
<1>8. QED
  BY <1>1, <1>2, <1>4, <1>5, <1>6, <1>7, DirectTold

LEMMA RunFinallyTold == WorkerInv /\ AskInv /\ RunFinally => AskInv' /\ Told
<1> SUFFICES ASSUME WorkerInv, AskInv, RunFinally PROVE AskInv' /\ Told
  OBVIOUS
<1>1. lane' = lane /\ turns' = turns /\ closed' = closed /\ pc' # "stopped"
  BY DEF RunFinally
<1>2. QED
  BY <1>1 DEF AskInv, Told, Settled, Stale, Adrift, Closes

\* onAgentReady gives the lane both hooks and the worker its first turn.
LEMMA AgentReadyTold == WorkerInv /\ AskInv /\ AgentReady => AskInv' /\ Told
<1> SUFFICES ASSUME WorkerInv, AskInv, AgentReady PROVE AskInv' /\ Told
  OBVIOUS
<1> DEFINE s == Ready
           run == NewTurn("run", 0, "completed", FALSE, FALSE)
           ts == Append(turns, run)
           h == [lane EXCEPT !.closeHook = TRUE, !.turnHooks = TRUE]
           st == IF h.st = "pending_init" THEN "running" ELSE h.st
           x == [h EXCEPT !.st = st]
<1>1. pc = "setup" /\ pc' # "stopped" /\ Commit(s, ts, slot)
  BY DEF AgentReady, Ready
<1>2. /\ turns = <<>> /\ ~lane.ask /\ Told /\ (closed \/ Cancellable(lane)) /\ closed \in BOOLEAN
      /\ lane \in Lanes /\ lane.launch = <<>> /\ lane.calls = {} /\ Settled(lane)
  BY <1>1, EarlyOK, NoAskEarly DEF LaneInv, AskInv
<1>3. s \in Lanes /\ s.launch = <<>>
  BY <1>2, ReadyOK
<1>4. ~s.ask /\ Settled(s) /\ s.calls = {} /\ (s.closeHook /\ ~closed => s.turnHooks)
  <2>1. CASE lane.st = "absent"
    BY <1>2, <2>1 DEF Ready, Cancellable
  <2>2. CASE lane.st # "absent"
    <3>1. h \in Lanes /\ h.st = lane.st /\ h.ask = lane.ask /\ h.calls = {} /\ h.turnHooks
      BY <1>2 DEF Lanes
    <3>2. s = Update(h, x)
      BY <2>2, <3>1 DEF Ready, Lanes
    <3> HIDE DEF h
    <3>3. st \in States
      BY <3>1 DEF Lanes, States
    <3> HIDE DEF st
    <3>4. x \in Lanes /\ x.ask = lane.ask /\ x.calls = {} /\ x.turnHooks
      BY <3>1, <3>3 DEF Lanes
    <3> HIDE DEF x
    <3>5. Writes(x, s)
      BY <2>2, <3>1, <3>2, <3>4, UpdateWrites
    <3>6. QED
      BY <1>2, <3>4, <3>5 DEF Writes, Same
  <2>3. QED
    BY <2>1, <2>2
<1> HIDE DEF s
<1>5. ts \in Seq(Turn) /\ Len(ts) = 1 /\ ts[1] = run /\ ~run.hit /\ run.phase = "sent"
  <2>1. /\ "run" \in Sources /\ 0 \in 0..MaxInputs
    BY ConstantsAssumption DEF Sources
  <2>2. run \in Turn /\ ~run.hit /\ run.phase = "sent"
    BY <2>1 DEF NewTurn, Turn, Phases
  <2> HIDE DEF run
  <2>3. ts = <<run>>
    BY <1>2
  <2>4. QED
    BY <2>2, <2>3
<1> HIDE DEF ts, run
<1>6. turns' = ts
  BY <1>1, <1>2, <1>3, <1>4, <1>5, CommitHits
<1>7. /\ lane'.st = s.st /\ lane'.failure = s.failure /\ closed' = (closed \/ Closes(s))
      /\ lane'.closeHook = s.closeHook /\ lane'.turnHooks = s.turnHooks
      /\ lane'.stop = s.stop /\ ~lane'.ask
  BY <1>1, <1>2, <1>3, <1>4, CommitLane, CommitRest
<1>8. AskInv'
  <2>1. Len(turns') = 1 /\ \A i \in DOMAIN turns' : ~turns'[i].hit /\ turns'[i].phase = "sent"
    <3>1. DOMAIN ts = {1}
      BY <1>5
    <3>2. QED
      BY <1>5, <1>6, <3>1
  <2>2. Settled(lane)'
    BY <1>4, <1>7 DEF Settled
  <2>3. (lane.closeHook /\ ~closed => lane.turnHooks)'
    BY <1>4, <1>7
  <2>4. Len(turns') <= 1 /\ \A i \in DOMAIN turns' : ~turns'[i].hit
    BY <2>1
  <2>5. \A i \in DOMAIN turns' : turns'[i].phase \notin {"shut", "restore_shut"}
    BY <2>1
  <2>6. QED
    BY <1>1, <1>7, <2>2, <2>3, <2>4, <2>5 DEF AskInv
<1>9. QED
  BY <1>2, <1>8

\* Only the interrupt of its one turn ends a run early, so no handoff is stale then.
LEMMA ThenResultVoices ==
  ASSUME WorkerInv, AskInv, pc \in Outcomes \ {"aborted", "threw"}
  PROVE  Voices(lane, ThenResult)
<1>1. OutcomeStop \in Stops /\ (pc = "stopped" => OutcomeStop \in ForcedStops)
  BY DEF OutcomeStop, Stops, ForcedStops
<1>2. Sound(lane) /\ lane.calls = {} /\ LaneInv
  BY AskSound DEF WorkerInv
<1>3. CASE pc = "stopped" \/ ReadsCancelled
  <2>1. OutcomeStop \in ForcedStops \/ lane.st \notin RunEligible
    BY <1>1, <1>3 DEF ReadsCancelled, StripStatus, LiveStrip
  <2>2. lane.ask /\ lane.st = "running" /\ lane.stash = <<>> => ~Stale(lane)
    <3> SUFFICES ASSUME lane.ask, lane.st = "running", lane.stash = <<>>, Stale(lane)
                 PROVE  FALSE
      OBVIOUS
    <3>1. ~closed /\ turns # <<>> /\ turns \in Seq(Turn)
      BY <1>2 DEF AskInv, LaneInv
    <3>2. lane.closeHook /\ lane.turnHooks
      BY <1>2, <3>1 DEF LaneInv, Kept, OpenLane, AskInv
    <3>3. Adrift(lane)
      BY <1>2, <3>2 DEF Adrift, Closes
    <3>4. ~turns[1].hit
      <4>1. 1 \in DOMAIN turns
        BY <3>1
      <4>2. QED
        BY <3>1, <3>3, <4>1 DEF AskInv
    <3>5. pc # "stopped"
      BY <3>4 DEF AskInv
    <3>6. ReadsCancelled
      BY <1>3, <3>5
    <3>7. QED
      BY <3>6 DEF ReadsCancelled, StripStatus, LiveStrip, RunEligible
  <2>3. Voices(lane, AttachReport(lane, OutcomeStop))
    BY <1>1, <1>2, <2>1, <2>2, AttachReportVoices
  <2>4. QED
    BY <1>3, <2>3 DEF ThenResult
<1>4. CASE ~(pc = "stopped" \/ ReadsCancelled)
  <2>1. ThenResult = Complete(lane, pc \in {"replied", "forced"}, OutcomeStop)
    BY <1>4 DEF ThenResult
  <2>2. (pc \in {"replied", "forced"}) \in BOOLEAN
    OBVIOUS
  <2>3. QED
    BY <1>1, <1>2, <2>1, <2>2, CompleteVoices
<1>5. QED
  BY <1>3, <1>4

\* The agent is closed by then and nothing is asked.
LEMMA CatchErrorVoices ==
  ASSUME WorkerInv, AskInv, pc \in {"aborted", "threw"}, NEW cause \in Causes, NEW abortError
  PROVE  Voices(lane, CatchError(cause, abortError))
<1>1. Sound(lane) /\ lane \in Lanes /\ lane.cause = "unset" /\ ~lane.ask
  BY AskSound DEF Sound, AskInv, WorkerInv, ChainInv, Closings
<1>2. CASE ReadsCancelled
  <2>1. lane.st # "running"
    BY <1>2 DEF ReadsCancelled, StripStatus, LiveStrip, RunEligible
  <2>2. QED
    BY <1>1, <1>2, <2>1, SettleRunVoices DEF CatchError
<1>3. CASE ~ReadsCancelled /\ (cancelSignal \/ abortError)
  <2> DEFINE c == Cancel(lane)
  <2>1. Voices(lane, c) /\ ~c.ask /\ c.st # "running"
    BY <1>1, CancelVoices DEF LiveStrip, RunEligible
  <2>2. Stores(lane, c) /\ c.cause = "unset" /\ Recorded(c) /\ c \in Lanes
    BY <1>1, CancelOK DEF Stores, Stamps, Sound
  <2>3. CatchError(cause, abortError) = SettleRun(c)
    BY <1>3 DEF CatchError
  <2> HIDE DEF c
  <2>4. Sound(c) /\ Voices(c, SettleRun(c)) /\ Stores(c, SettleRun(c))
    BY <2>1, <2>2, VoicesSound, SettleRunVoices, SettleRunOK
  <2>5. Voices(lane, SettleRun(c))
    BY <1>1, <2>1, <2>2, <2>4, VoicesCompose
  <2>6. QED
    BY <2>3, <2>5
<1>4. CASE ~ReadsCancelled /\ ~(cancelSignal \/ abortError)
  BY <1>1, <1>4, FailVoices DEF CatchError
<1>5. QED
  BY <1>2, <1>3, <1>4

LEMMA RunSettlesTold == WorkerInv /\ AskInv /\ RunSettles => AskInv' /\ Told
<1> SUFFICES ASSUME WorkerInv, AskInv, RunSettles PROVE AskInv' /\ Told
  OBVIOUS
<1>1. pc' # "stopped"
  BY DEF RunSettles
<1>2. CASE pc \in Outcomes \ {"aborted", "threw"} /\ Commit(ThenResult, turns, slot)
  <2>1. ThenResult \in Lanes /\ Voices(lane, ThenResult)
    BY <1>2, ThenResultCarries, ThenResultVoices DEF Carries
  <2> DEFINE s == ThenResult
  <2>2. s \in Lanes /\ Voices(lane, s) /\ Commit(s, turns, slot)
    BY <1>2, <2>1
  <2> HIDE DEF s
  <2>3. QED
    BY <1>1, <2>2, VerbTold
<1>3. ASSUME pc \in {"aborted", "threw"}, NEW cause \in {"error", "retryable"}, NEW abortError,
             Commit(CatchError(cause, abortError), turns, slot)
      PROVE  AskInv' /\ Told
  <2> DEFINE s == CatchError(cause, abortError)
  <2>1. cause \in Causes
    BY DEF Causes
  <2>2. s \in Lanes /\ Voices(lane, s) /\ Commit(s, turns, slot)
    BY <1>3, <2>1, CatchErrorCarries, CatchErrorVoices DEF Carries
  <2> HIDE DEF s
  <2>3. QED
    BY <1>1, <2>2, VerbTold
<1>4. QED
  BY <1>2, <1>3 DEF RunSettles

-----------------------------------------------------------------------------
(* The follow-ups. *)

LEMMA TurnEndsTold ==
  ASSUME WorkerInv, AskInv, NEW i \in DOMAIN turns, NEW phase \in {"replied", "threw", "shut"},
         TurnEnds(i, phase)
  PROVE  AskInv' /\ Told
<1>1. phase \in Phases /\ turns' = InPhase(i, phase) /\ (phase = "shut" => closed)
  BY DEF Phases, TurnEnds, InPhase
<1>2. TurnsHit(turns') /\ Len(turns') = Len(turns)
  BY <1>1, InPhaseHit
<1>3. lane' = lane /\ closed' = closed /\ pc' = pc
  BY DEF TurnEnds
<1>4. Leaves(lane, lane') /\ lane'.failure = lane.failure /\ lane'.calls = {}
  BY <1>3, QuietLeaves DEF Quiet, Same
<1>5. QED
  BY <1>2, <1>3, <1>4, DirectTold DEF AskInv, WorkerInv, LaneInv, ChainInv, Begun, Outcomes

LEMMA TurnFinallyTold ==
  ASSUME WorkerInv, AskInv, NEW i \in DOMAIN turns, TurnFinally(i)
  PROVE  AskInv' /\ Told
<1>1. "done" \in Phases /\ turns' = InPhase(i, "done")
  BY DEF Phases, TurnFinally
<1>2. TurnsHit(turns') /\ Len(turns') = Len(turns)
  BY <1>1, InPhaseHit
<1>3. lane' = lane /\ closed' = closed /\ pc' = pc
  BY DEF TurnFinally
<1>4. Leaves(lane, lane') /\ lane'.failure = lane.failure /\ lane'.calls = {}
  BY <1>3, QuietLeaves DEF Quiet, Same
<1>5. QED
  BY <1>2, <1>3, <1>4, DirectTold DEF AskInv, WorkerInv, LaneInv, ChainInv, Begun, Outcomes

LEMMA TurnSettlesTold ==
  ASSUME WorkerInv, AskInv, NEW i \in DOMAIN turns, TurnSettles(i)
  PROVE  AskInv' /\ Told
<1> DEFINE down == [lane EXCEPT !.inFlight = FALSE]
           src == turns[i].src
<1>1. turns[i].phase \notin {"sent", "done"} /\ pc' = pc
  BY DEF TurnSettles
<1>2. src \in Sources
  BY <1>1, FollowupOK DEF Turn
<1>3. Sound(lane) /\ lane \in Lanes /\ lane.cause = "unset"
  BY AskSound DEF Sound
<1>4. pc' = "stopped" => pc = "stopped"
  BY <1>1
<1>5. ASSUME NEW t \in {lane, down}
      PROVE  OnFail(t, src, "error") \in Lanes /\ Voices(lane, OnFail(t, src, "error"))
  <2>1. /\ Sound(t) /\ t \in Lanes /\ Recorded(t) /\ t.cause = "unset"
        /\ Quiet(lane, t) /\ t.ask = lane.ask /\ t.caught = lane.caught
    <3>1. Sound(down) /\ Quiet(lane, down) /\ down.ask = lane.ask /\ down.caught = lane.caught
      BY <1>3, IdleVoices, SettleAsksOK DEF Lanes
    <3>2. Quiet(lane, lane)
      BY DEF Quiet, Same
    <3> HIDE DEF down
    <3>3. QED
      BY <1>3, <3>1, <3>2 DEF Sound
  <2> DEFINE u == OnFail(t, src, "error")
  <2>2. Voices(t, u)
    BY <2>1, OnFailVoices DEF Causes
  <2>3. u \in Lanes
    BY <2>1, FailOK DEF Causes, OnFail
  <2> HIDE DEF u
  <2>4. Voices(lane, u)
    BY <2>1, <2>2 DEF Voices, Leaves, Quiet, Same, Stale
  <2>5. QED
    BY <2>3, <2>4 DEF u
<1>6. CASE turns[i].phase = "replied" /\ Commit(SettleReply(lane, src), Chained(i), slot)
  <2>1. SettleReply(lane, src) \in Lanes /\ Voices(lane, SettleReply(lane, src))
    BY <1>2, <1>3, SettleReplyOK, SettleReplyVoices DEF Stores
  <2>2. TurnsHit(Chained(i)) /\ Len(Chained(i)) = Len(turns)
    BY ChainedHit
  <2>3. QED
    BY <1>4, <1>6, <2>1, <2>2, StoreTold
<1>7. ASSUME NEW t \in {lane, down}, NEW phase \in Phases, phase \in {"shut", "restore_shut"} => closed,
             Commit(OnFail(t, src, "error"), InPhase(i, phase), slot)
      PROVE  AskInv' /\ Told
  <2>1. TurnsHit(InPhase(i, phase)) /\ Len(InPhase(i, phase)) = Len(turns)
    BY <1>7, InPhaseHit
  <2>2. OnFail(t, src, "error") \in Lanes /\ Voices(lane, OnFail(t, src, "error"))
    BY <1>5
  <2>3. QED
    BY <1>4, <1>7, <2>1, <2>2, StoreTold
<1>8. CASE Commit(OnFail(lane, src, "error"), InPhase(i, "handoff"), slot)
  BY <1>7, <1>8 DEF Phases
<1>9. CASE Commit(OnFail(down, src, "error"), InPhase(i, "restore"), slot)
  BY <1>7, <1>9 DEF Phases
<1>10. CASE turns[i].phase = "shut" /\ Commit(OnFail(down, src, "error"), InPhase(i, "restore_shut"), slot)
  BY <1>7, <1>10 DEF Phases, AskInv
<1>11. QED
  BY <1>6, <1>8, <1>9, <1>10 DEF TurnSettles

\* The restore of a worker that another steer waits for, after that steer took the
\* handoff: the record it writes may say nothing of the question.
LEMMA RestoreLeaves ==
  ASSUME NEW s, Sound(s), s.st = "running", NEW prior \in {"completed", "interrupted"},
         NEW cause \in Causes
  PROVE  LET t == RestoreLane(s, prior, cause)
         IN  Leaves(s, t) /\ (t.ask => s.ask)
<1> DEFINE w == IF prior = "interrupted" THEN [s EXCEPT !.cause = cause] ELSE s
           stop == IF prior = "interrupted" THEN prior ELSE w.stop
           u == [w EXCEPT !.st = prior, !.stop = stop]
           e == Update(w, u)
           t == [e EXCEPT !.cause = "unset"]
<1>1. s \in Lanes /\ Recorded(s)
  BY DEF Sound
<1>2. /\ w \in Lanes /\ w.st = "running" /\ w.ask = s.ask /\ w.failure = s.failure
      /\ w.closeHook = s.closeHook /\ w.turnHooks = s.turnHooks /\ w.stop = s.stop
  <2>1. CASE prior = "interrupted"
    BY <1>1, <2>1 DEF Lanes
  <2>2. CASE prior # "interrupted"
    BY <1>1, <2>2
  <2>3. QED
    BY <2>1, <2>2
<1>3. RestoreLane(s, prior, cause) = t
  BY <1>2 DEF RestoreLane, EndFollowup, RunEligible
<1> HIDE DEF w
<1>4. prior \in States /\ stop \in Stops
  BY <1>2 DEF States, Stops, ForcedStops, Lanes
<1> HIDE DEF stop
<1>5. /\ u \in Lanes /\ u.st = prior /\ u.ask = s.ask /\ u.failure = s.failure
      /\ u.closeHook = s.closeHook /\ u.turnHooks = s.turnHooks
  BY <1>2, <1>4 DEF Lanes
<1> HIDE DEF u
<1>6. Writes(u, e)
  BY <1>2, <1>5, UpdateWrites
<1> HIDE DEF e
<1>7. /\ t.st = e.st /\ t.stop = e.stop /\ t.failure = e.failure /\ t.ask = e.ask
      /\ t.caught = e.caught /\ t.closeHook = e.closeHook /\ t.turnHooks = e.turnHooks
  BY <1>6 DEF Writes, Lanes
<1> HIDE DEF t
<1>8. t.st # "running" /\ t.caught = "unset" /\ Settled(t)
  BY <1>1, <1>5, <1>6, <1>7 DEF Writes, Same, Settled, Recorded, RunEligible
<1>9. QED
  BY <1>3, <1>5, <1>6, <1>7, <1>8 DEF Leaves, Adrift, Stale, Writes, Same

LEMMA TurnAfterOnFailTold ==
  ASSUME WorkerInv, AskInv, NEW i \in DOMAIN turns, TurnAfterOnFail(i)
  PROVE  AskInv' /\ (Told \/ Late)
<1>1. turns[i].phase \notin {"sent", "done"} /\ pc' = pc
  BY DEF TurnAfterOnFail
<1>2. /\ turns[i] \in Turn /\ turns[i].prior \in {"completed", "interrupted"} /\ i # 1
      /\ TurnsHit(Chained(i)) /\ Len(Chained(i)) = Len(turns)
  BY <1>1, FollowupOK, ChainedHit DEF Turn
<1>3. Sound(lane) /\ lane \in Lanes /\ lane.cause = "unset" /\ LaneInv /\ closed \in BOOLEAN
      /\ turns \in Seq(Turn) /\ lane.calls = {} /\ Recorded(lane)
  BY AskSound DEF WorkerInv, LaneInv
<1>4. pc' = "stopped" => pc = "stopped"
  BY <1>1
<1>5. CASE Commit(LaunchNext(lane), Chained(i), slot)
  <2>1. LaunchNext(lane) \in Lanes /\ Voices(lane, LaunchNext(lane))
    BY <1>3, LaunchNextOK, LaunchNextVoices DEF Stores
  <2>2. QED
    BY <1>2, <1>4, <1>5, <2>1, StoreTold
<1>6. ASSUME NEW cause \in {"error", "retryable"}, turns[i].phase = "restore",
             Commit(RestoreLane(lane, turns[i].prior, cause), Chained(i), slot)
      PROVE  AskInv' /\ (Told \/ Late)
  <2> DEFINE s == RestoreLane(lane, turns[i].prior, cause)
  <2>1. s \in Lanes /\ cause \in Causes
    BY <1>2, <1>3, RestoreLaneOK DEF Causes
  <2>2. CASE lane.ask => ~Stale(lane)
    <3>1. Voices(lane, s)
      BY <1>2, <1>3, <2>1, <2>2, RestoreLaneVoices
    <3> HIDE DEF s
    <3>2. QED
      BY <1>2, <1>4, <1>6, <2>1, <3>1, StoreTold DEF s
  <2>3. CASE lane.ask /\ Stale(lane)
    <3>1. lane.st = "running" /\ ~closed /\ lane.closeHook /\ lane.turnHooks
      BY <1>3, <2>3 DEF AskInv, LaneInv, Kept, OpenLane
    <3>2. lane.stash # <<>>
      <4>1. Len(turns) >= 2
        BY <1>2, <1>3
      <4>2. ~Adrift(lane)
        BY <1>3, <3>1, <4>1 DEF AskInv
      <4>3. QED
        BY <1>3, <2>3, <3>1, <4>2 DEF Adrift, Closes
    <3>3. Leaves(lane, s) /\ (s.ask => lane.ask)
      BY <1>2, <1>3, <2>1, <3>1, RestoreLeaves
    <3>4. Commit(s, Chained(i), slot)
      BY <1>6
    <3> HIDE DEF s
    <3>5. AskInv'
      BY <1>2, <1>4, <2>1, <3>3, <3>4, CommitAsk DEF AskInv
    <3>6. turns'[i].phase # "restore"
      <4>1. i \in 1..Len(Chained(i)) /\ Chained(i) \in Seq(Turn)
        BY <1>2, <1>3 DEF TurnsHit
      <4>2. turns'[i].phase = Chained(i)[i].phase
        BY <1>3, <2>1, <3>4, <4>1, CommitHits
      <4>3. Chained(i)[i].phase \in {"finally", "done"}
        BY <1>3, InPhaseOK DEF Chained, Phases
      <4>4. QED
        BY <4>2, <4>3
    <3>7. Late
      BY <1>6, <3>2, <3>6 DEF Late
    <3>8. QED
      BY <3>5, <3>7
  <2>4. QED
    BY <2>2, <2>3
<1>7. CASE turns[i].phase = "restore_shut" /\ Commit(FailClosed(lane), Chained(i), slot)
  <2>1. ~lane.ask
    BY <1>7 DEF AskInv
  <2>2. FailClosed(lane) \in Lanes /\ Voices(lane, FailClosed(lane))
    BY <1>3, <2>1, FailClosedOK, FailClosedVoices
  <2>3. QED
    BY <1>2, <1>4, <1>7, <2>2, StoreTold
<1>8. QED
  BY <1>5, <1>6, <1>7 DEF TurnAfterOnFail

-----------------------------------------------------------------------------
(* The verbs and the answers. *)

LEMMA StartResumeTold ==
  ASSUME WorkerInv, AskInv, NEW msg \in 0..MaxInputs, NEW prior \in {"completed", "interrupted"},
         NEW slotted \in BOOLEAN, NEW sl, StartResume(lane, msg, prior, slotted, sl)
  PROVE  AskInv' /\ Told
<1> DEFINE s == BeginFollowup(lane)
           resume == NewTurn("resume", msg, prior, slotted, closed)
           ts == Append(turns, resume)
<1>1. Sound(lane) /\ lane \in Lanes /\ turns \in Seq(Turn) /\ closed \in BOOLEAN
  BY AskSound, TakenLane
<1>2. Commit(s, ts, sl) /\ pc' = pc
  BY DEF StartResume
<1>3. s \in Lanes /\ Voices(lane, s) /\ ~Adrift(s)
  BY <1>1, BeginFollowupOK, BeginFollowupVoices DEF Adrift
<1>4. TurnsHit(ts)
  <2>1. "resume" \in Sources
    BY DEF Sources
  <2>2. /\ ts \in Seq(Turn) /\ Len(ts) = Len(turns) + 1 /\ ts[Len(ts)] = resume
        /\ \A i \in 1..Len(turns) : ts[i] = turns[i]
    BY <1>1, <2>1, NewTurnOK
  <2>3. resume.phase \in {"shut", "restore_shut"} => closed
    BY DEF NewTurn
  <2> HIDE DEF ts, resume
  <2>4. Len(turns) \in Nat /\ \A i \in 1..Len(ts) : i \in 1..Len(turns) \/ i = Len(ts)
    BY <1>1, <2>2
  <2>5. \A i \in 1..Len(ts) : ts[i].phase \in {"shut", "restore_shut"} => closed
    BY <1>1, <2>2, <2>3, <2>4 DEF AskInv
  <2>6. QED
    BY <2>2, <2>4, <2>5 DEF TurnsHit
<1> HIDE DEF s, ts
<1>5. QED
  BY <1>2, <1>3, <1>4, CommitTold

LEMMA AdmitResumeTold == WorkerInv /\ AskInv /\ AdmitResume => AskInv' /\ Told
<1> SUFFICES ASSUME WorkerInv, AskInv, AdmitResume PROVE AskInv' /\ Told
  OBVIOUS
<1>1. job.msg \in 0..MaxInputs /\ job.prior \in {"completed", "interrupted"}
  BY DEF WorkerInv, ChainInv
<1>2. QED
  BY <1>1, StartResumeTold DEF AdmitResume

LEMMA QueueResumeTold ==
  ASSUME WorkerInv, AskInv, NEW msg, NEW prior, QueueResume(msg, prior),
         lane.st \in {"completed", "interrupted"}
  PROVE  AskInv' /\ Told
<1> DEFINE t == [lane EXCEPT !.cancelHook = "dequeue"]
           x == [t EXCEPT !.st = "pending_init"]
           s == Update(t, x)
<1>1. Sound(lane) /\ lane \in Lanes /\ pc' = pc /\ Commit(s, turns, "queued")
  BY AskSound, TakenLane DEF QueueResume
<1>2. /\ t \in Lanes /\ t.st = lane.st /\ t.failure = lane.failure /\ t.ask = lane.ask
      /\ t.caught = lane.caught /\ t.closeHook = lane.closeHook /\ t.turnHooks = lane.turnHooks
  BY <1>1 DEF Lanes
<1> HIDE DEF t
<1>3. /\ x \in Lanes /\ x.st = "pending_init" /\ x.failure = lane.failure /\ x.ask = lane.ask
      /\ x.caught = lane.caught /\ x.closeHook = lane.closeHook /\ x.turnHooks = lane.turnHooks
  <2>1. "pending_init" \in States
    BY DEF States
  <2>2. QED
    BY <1>2, <2>1 DEF Lanes
<1> HIDE DEF x
<1>4. Utters(lane, x)
  BY <1>1, <1>3 DEF Utters, Sound, Stale, Adrift, RunEligible
<1>5. s \in Lanes /\ Voices(lane, s)
  BY <1>1, <1>2, <1>3, <1>4, UpdateOK, UpdateVoices
<1> HIDE DEF s
<1>6. QED
  BY <1>1, <1>5, VerbTold

LEMMA ResumeAgentTold == WorkerInv /\ AskInv /\ ResumeAgent => AskInv' /\ Told
<1> SUFFICES ASSUME WorkerInv, AskInv, ResumeAgent PROVE AskInv' /\ Told
  OBVIOUS
<1>1. inputs + 1 \in 0..MaxInputs /\ lane.st \in {"completed", "interrupted"}
  BY TakenLane, ConstantsAssumption DEF ResumeAgent, Resumable
<1>2. CASE StartResume(lane, inputs + 1, lane.st, FALSE, slot)
  BY <1>1, <1>2, StartResumeTold
<1>3. CASE StartResume(lane, inputs + 1, lane.st, TRUE, "held")
  BY <1>1, <1>3, StartResumeTold
<1>4. CASE QueueResume(inputs + 1, lane.st)
  BY <1>1, <1>4, QueueResumeTold
<1>5. QED
  BY <1>2, <1>3, <1>4 DEF ResumeAgent

LEMMA SendInputInterruptTold == WorkerInv /\ AskInv /\ SendInputInterrupt => AskInv' /\ Told
<1> SUFFICES ASSUME WorkerInv, AskInv, SendInputInterrupt PROVE AskInv' /\ Told
  OBVIOUS
<1> DEFINE s == SendInterrupt(lane, inputs + 1)
<1>1. Sound(lane) /\ lane \in Lanes /\ lane.cause = "unset" /\ inputs + 1 \in 1..MaxInputs
  BY AskSound, TakenLane, ConstantsAssumption DEF SendInputInterrupt
<1>2. lane.st = "running" /\ pc' = pc /\ Commit(s, turns, slot)
  BY DEF SendInputInterrupt
<1>3. s \in Lanes /\ Voices(lane, s)
  BY <1>1, <1>2, SendInterruptOK, SendInterruptVoices
<1> HIDE DEF s
<1>4. QED
  BY <1>2, <1>3, VerbTold

LEMMA InterruptAgentTold == WorkerInv /\ AskInv /\ InterruptAgent => AskInv' /\ Told
<1> SUFFICES ASSUME WorkerInv, AskInv, InterruptAgent PROVE AskInv' /\ Told
  OBVIOUS
<1> DEFINE s == InterruptOne(lane)
<1>1. Sound(lane) /\ lane \in Lanes /\ lane.cause = "unset"
  BY AskSound, TakenLane
<1>2. pc' = pc /\ Commit(s, turns, slot)
  BY DEF InterruptAgent
<1>3. s \in Lanes /\ Voices(lane, s)
  BY <1>1, EarlyOK, InterruptOneOK, InterruptOneVoices DEF Stores
<1> HIDE DEF s
<1>4. QED
  BY <1>2, <1>3, VerbTold

\* A turn that was not interrupted asks; the agent lives and its lane runs.
LEMMA AskDirectorTold == WorkerInv /\ AskInv /\ AskDirector => AskInv' /\ Told
<1> SUFFICES ASSUME WorkerInv, AskInv, AskDirector PROVE AskInv' /\ Told
  OBVIOUS
<1> DEFINE asked == [lane EXCEPT !.ask = TRUE]
           s == Update(lane, asked)
<1>1. /\ lane \in Lanes /\ lane.st = "running" /\ Recorded(lane) /\ turns # <<>> /\ pc' = pc
      /\ Commit(s, turns, slot)
  BY EarlyOK DEF AskDirector
<1>2. /\ asked \in Lanes /\ Same(lane, asked) /\ asked.failure = lane.failure
      /\ asked.caught = lane.caught /\ asked.stash = lane.stash
  BY <1>1 DEF Lanes, Same
<1> HIDE DEF asked
<1>3. Writes(asked, s)
  BY <1>1, <1>2, UpdateWrites
<1> HIDE DEF s
<1>4. s \in Lanes /\ Leaves(lane, s) /\ s.failure = lane.failure
  BY <1>1, <1>2, <1>3 DEF Writes, Same, Leaves, Adrift, Stale, Recorded, RunEligible
<1>5. AskInv'
  BY <1>1, <1>4, TurnsHitHere, CommitAsk
<1>6. lane'.failure = s.failure
  BY <1>1, <1>4, CommitLane DEF WorkerInv, LaneInv
<1>7. QED
  BY <1>4, <1>5, <1>6 DEF Told

LEMMA AnswerAskTold ==
  ASSUME WorkerInv, AskInv, NEW structured \in BOOLEAN, AnswerAsk(structured)
  PROVE  AskInv' /\ Told
<1> DEFINE trace == IF structured THEN lane.trace ELSE "submitted"
<1>1. lane \in Lanes /\ lane' = [lane EXCEPT !.ask = FALSE, !.trace = trace]
  BY EarlyOK DEF AnswerAsk, Lanes
<1> HIDE DEF trace
<1>2. Quiet(lane, lane') /\ lane'.caught = lane.caught /\ ~lane'.ask
  BY <1>1 DEF Lanes, Quiet, Same
<1>3. Leaves(lane, lane') /\ lane'.failure = lane.failure /\ lane'.calls = {}
  BY <1>2, QuietLeaves
<1>4. turns' = turns /\ closed' = closed /\ pc' = pc
  BY DEF AnswerAsk
<1>5. QED
  BY <1>2, <1>3, <1>4, TurnsHitHere, DirectTold DEF AskInv, WorkerInv, LaneInv, ChainInv, Begun, Outcomes

LEMMA ExpireStaleAskTold == WorkerInv /\ AskInv /\ ExpireStaleAsk => AskInv' /\ Told
<1> SUFFICES ASSUME WorkerInv, AskInv, ExpireStaleAsk PROVE AskInv' /\ Told
  OBVIOUS
<1>1. lane \in Lanes /\ lane' = [lane EXCEPT !.ask = FALSE]
  BY EarlyOK DEF ExpireStaleAsk
<1>2. Quiet(lane, lane') /\ lane'.caught = lane.caught /\ ~lane'.ask
  BY <1>1 DEF Lanes, Quiet, Same
<1>3. Leaves(lane, lane') /\ lane'.failure = lane.failure /\ lane'.calls = {}
  BY <1>2, QuietLeaves
<1>4. turns' = turns /\ closed' = closed /\ pc' = pc
  BY DEF ExpireStaleAsk
<1>5. QED
  BY <1>2, <1>3, <1>4, TurnsHitHere, DirectTold DEF AskInv, WorkerInv, LaneInv, ChainInv, Begun, Outcomes

LEMMA ConsumeAnswerTold == WorkerInv /\ AskInv /\ ConsumeAnswer => AskInv' /\ Told
<1> SUFFICES ASSUME WorkerInv, AskInv, ConsumeAnswer PROVE AskInv' /\ Told
  OBVIOUS
<1> DEFINE trace == IF lane.trace = "submitted" /\ lane.st \in LiveStrip
                    THEN "delivered" ELSE lane.trace
           t == [lane EXCEPT !.trace = trace]
<1>1. lane \in Lanes /\ trace \in Handoffs /\ lane' = Update(lane, t) /\ Sound(lane)
      /\ lane.calls = {}
  BY EarlyOK, AskSound DEF ConsumeAnswer, Lanes, Handoffs
<1> HIDE DEF trace
<1>2. t \in Lanes /\ Quiet(lane, t) /\ t.ask = lane.ask /\ t.caught = lane.caught
  BY <1>1 DEF Lanes, Quiet, Same
<1> HIDE DEF t
<1>3. /\ Leaves(lane, lane') /\ lane'.failure = lane.failure /\ lane'.calls = {}
      /\ lane'.ask = lane.ask
  <2>1. CASE lane.st = "absent"
    <3>1. lane' = lane
      BY <1>1, <2>1 DEF Update
    <3>2. QED
      BY <1>1, <3>1, QuietLeaves DEF Quiet, Same
  <2>2. CASE lane.st # "absent"
    <3>1. t.st # "absent" /\ Recorded(t) /\ Settled(t)
      BY <1>1, <1>2, <2>2 DEF Quiet, Same, Sound, Recorded, Settled
    <3>2. Stands(t, lane')
      BY <1>1, <1>2, <2>2, <3>1, UpdateStands
    <3>3. QED
      BY <1>1, <1>2, <3>2 DEF Stands, Leaves, Quiet, Same, Adrift, Stale, Sound
  <2>3. QED
    BY <2>1, <2>2
<1>4. turns' = turns /\ closed' = closed /\ pc' = pc
  BY DEF ConsumeAnswer
<1>5. QED
  BY <1>3, <1>4, TurnsHitHere, DirectTold DEF AskInv, WorkerInv, LaneInv, ChainInv, Begun, Outcomes

LEMMA BeginCloseTold ==
  ASSUME WorkerInv, AskInv, NEW s \in Lanes, s.cause = "unset", s.failure = lane.failure,
         Settled(s), BeginClose(s), pc' = pc
  PROVE  AskInv' /\ Told
<1> DEFINE t == [s EXCEPT !.closeHook = FALSE, !.calls = @ \cup {"close"}]
<1>1. t \in Lanes /\ Closes(t)
  BY TakeCloseHook DEF Stores
<1>2. t.st = s.st /\ t.stop = s.stop /\ t.failure = s.failure
  BY DEF Lanes
<1>3. Commit(t, turns, slot)
  BY DEF BeginClose
<1> HIDE DEF t
<1>4. Settled(t)
  BY <1>2 DEF Settled
<1>5. AskInv' /\ lane'.failure = t.failure
  BY <1>1, <1>3, <1>4, TurnsHitHere, CommitShut
<1>6. QED
  BY <1>2, <1>5 DEF Told

LEMMA CloseAgentTold == WorkerInv /\ AskInv /\ CloseAgent => AskInv' /\ Told
<1> SUFFICES ASSUME WorkerInv, AskInv, CloseAgent PROVE AskInv' /\ Told
  OBVIOUS
<1> DEFINE a == SettleAsks(lane)
           s == DropStash(a)
           t == ForgetHooks(Shutdown(CallCancelHook(s)))
<1>1. Sound(lane) /\ lane \in Lanes /\ lane.cause = "unset"
  BY AskSound, EarlyOK
<1>2. s \in Lanes /\ s.failure = lane.failure /\ Settled(s)
  BY <1>1, SettledAndDropped
<1>3. s.cause = "unset"
  <2>1. a \in Lanes /\ a.cause = "unset"
    BY <1>1, SettleAsksOK DEF Quiet
  <2> HIDE DEF a
  <2>2. QED
    BY <2>1, DropStashOK DEF Stamps
<1>4. /\ s.st # "running" \/ ~s.closeHook => Voices(lane, s)
      /\ s.st = "pending_init" /\ ~s.closeHook => Voices(lane, t)
  BY <1>1, CloseVoices
<1>5. pc' = pc
  BY DEF CloseAgent
<1>6. \/ BeginClose(s)
      \/ ~s.closeHook /\ Commit(s, turns, slot)
      \/ ~s.closeHook /\ s.st = "pending_init" /\ Commit(t, turns, slot)
  BY DEF CloseAgent
<1> HIDE DEF s
<1>7. CASE BeginClose(s)
  BY <1>2, <1>3, <1>5, <1>7, BeginCloseTold
<1>8. CASE ~s.closeHook /\ Commit(s, turns, slot)
  BY <1>2, <1>4, <1>5, <1>8, VerbTold
<1>9. CASE ~s.closeHook /\ s.st = "pending_init" /\ Commit(t, turns, slot)
  <2>1. t \in Lanes
    BY <1>2, <1>3, CancelAndForgetOK DEF Stores
  <2> HIDE DEF t
  <2>2. QED
    BY <1>4, <1>5, <1>9, <2>1, VerbTold
<1>10. QED
  BY <1>6, <1>7, <1>8, <1>9

LEMMA CloseStopsWaitingTold ==
  WorkerInv /\ AskInv /\ CloseStopsWaiting => AskInv' /\ Told
<1> SUFFICES ASSUME WorkerInv, AskInv, CloseStopsWaiting PROVE AskInv' /\ Told
  OBVIOUS
<1>1. Sound(lane) /\ lane \in Lanes /\ lane.cause = "unset" /\ Settled(lane)
  BY AskSound, EarlyOK DEF AskInv
<1>2. pc' = pc
  BY DEF CloseStopsWaiting
<1>3. CASE BeginClose(lane)
  BY <1>1, <1>2, <1>3, BeginCloseTold
<1>4. CASE Commit(lane, turns, slot)
  BY <1>1, <1>2, <1>4, SoundVoices, VerbTold
<1>5. QED
  BY <1>3, <1>4 DEF CloseStopsWaiting

\* The agent is closed by the time close_agent ends.
LEMMA CloseEndsTold == WorkerInv /\ AskInv /\ CloseEnds => AskInv' /\ Told
<1> SUFFICES ASSUME WorkerInv, AskInv, CloseEnds PROVE AskInv' /\ Told
  OBVIOUS
<1> DEFINE d == IF keepFailed THEN lane ELSE Shutdown(lane)
           t == ForgetHooks(d)
<1>1. lane \in Lanes /\ lane.cause = "unset" /\ Recorded(lane) /\ Settled(lane)
  BY EarlyOK DEF AskInv
<1>2. d \in Lanes /\ d.cause = "unset" /\ Recorded(d) /\ Settled(d)
  BY <1>1, ShutdownOK, ShutdownTells DEF Stores, Stamps
<1>3. Commit(t, turns, slot) /\ pc' = pc /\ closed
  BY DEF CloseEnds, WorkerInv, ChainInv, Closings
<1> HIDE DEF d
<1>4. t \in Lanes /\ Settled(t)
  BY <1>2, ForgetHooksOK, ForgetHooksEmpties DEF Stores
<1> HIDE DEF t
<1>5. QED
  BY <1>3, <1>4, TurnsHitHere, CommitShut

LEMMA CancelAllTold == WorkerInv /\ AskInv /\ CancelAll => AskInv' /\ Told
<1> SUFFICES ASSUME WorkerInv, AskInv, CancelAll PROVE AskInv' /\ Told
  OBVIOUS
<1> DEFINE c == IF lane.st \in LiveStrip THEN Cancel(lane) ELSE lane
           h == ReleaseHandles(c)
           x == [h EXCEPT !.st = "shutdown", !.retained = FALSE]
           gone == lane.retained /\ lane.st # "shutdown" /\ c.st # "shutdown"
           t == IF gone THEN Update(h, x) ELSE c
<1>1. Sound(lane) /\ lane \in Lanes /\ lane.cause = "unset"
  BY AskSound, EarlyOK
<1>2. Commit(t, turns, slot) /\ pc' = pc /\ lane.st # "absent"
  BY SMTT(60) DEF CancelAll, ReleaseHandles
<1>3. gone => Voices(lane, Update(h, x))
  BY <1>1, <1>2, CancelAllVoices DEF ReleaseHandles
<1>4. Voices(lane, c) /\ c \in Lanes /\ c.cause = "unset"
  BY <1>1, CancelVoices, SoundVoices, CancelOK DEF Stores, Stamps
<1> HIDE DEF c
<1>5. h \in Lanes /\ h.cause = "unset"
  BY <1>4, ReleaseHandlesOK DEF Stores, Stamps
<1> HIDE DEF h
<1>6. x \in Lanes
  <2>1. "shutdown" \in States
    BY DEF States
  <2>2. QED
    BY <1>5, <2>1 DEF Lanes
<1> HIDE DEF x
<1>7. Update(h, x) \in Lanes
  BY <1>5, <1>6, UpdateWrites DEF Update, Writes
<1>8. t \in Lanes /\ Voices(lane, t)
  BY <1>3, <1>4, <1>7
<1> HIDE DEF t
<1>9. QED
  BY <1>2, <1>8, VerbTold

LEMMA TeardownTold == WorkerInv /\ AskInv /\ Teardown => AskInv' /\ Told
<1> SUFFICES ASSUME WorkerInv, AskInv, Teardown PROVE AskInv' /\ Told
  OBVIOUS
<1> DEFINE calls == IF lane.closeHook THEN {"close"} ELSE {}
           t == [Unstarted EXCEPT !.calls = calls]
<1>1. calls \in SUBSET Hooks
  BY DEF Hooks
<1>2. Commit(t, turns, slot) /\ pc' = pc
  BY DEF Teardown
<1> HIDE DEF calls
<1>3. t \in Lanes
  <2>1. /\ "absent" \in States /\ "none" \in Stops /\ "none" \in Handoffs
        /\ "unset" \in Causes /\ <<>> \in Seq(1..MaxInputs)
    BY DEF States, Stops, Handoffs, Causes
  <2>2. QED
    BY <1>1, <2>1 DEF Unstarted, Lanes
<1>4. t.st = "absent" /\ t.failure = NoRecord /\ ~t.ask /\ ~t.closeHook
  BY DEF Unstarted
<1> HIDE DEF t
<1>5. Voices(lane, t)
  BY <1>4 DEF Voices, Leaves, Settled, Adrift
<1>6. QED
  BY <1>2, <1>3, <1>5, VerbTold

LEMMA PruneTold == WorkerInv /\ AskInv /\ Prune => AskInv' /\ Told
<1> SUFFICES ASSUME WorkerInv, AskInv, Prune PROVE AskInv' /\ Told
  OBVIOUS
<1> DEFINE r == ReleaseHandles(lane)
           t == [r EXCEPT !.st = "absent"]
<1>1. Sound(lane) /\ r \in Lanes
  BY AskSound, EarlyOK, ReleaseHandlesOK DEF Stores
<1>2. Commit(t, turns, slot) /\ pc' = pc /\ Voices(lane, t)
  BY <1>1, PruneVoices DEF Prune
<1> HIDE DEF r
<1>3. t \in Lanes
  <2>1. "absent" \in States
    BY DEF States
  <2>2. QED
    BY <1>1, <2>1 DEF Lanes
<1> HIDE DEF t
<1>4. QED
  BY <1>2, <1>3, VerbTold

LEMMA AskInit == Init => AskInv
<1> SUFFICES ASSUME Init PROVE AskInv
  OBVIOUS
<1>1. lane = Unstarted /\ turns = <<>> /\ pc = "idle"
  BY DEF Init
<1>2. lane.st = "absent" /\ ~lane.ask /\ ~lane.closeHook
  BY <1>1 DEF Unstarted
<1>3. QED
  BY <1>1, <1>2 DEF AskInv, Settled, Adrift

LEMMA AskStep == WorkerInv /\ AskInv /\ [Next]_vars => AskInv' /\ (Told \/ Late)
<1> SUFFICES ASSUME WorkerInv, AskInv, Next PROVE AskInv' /\ (Told \/ Late)
  BY DEF vars, AskInv, Told, Settled, Stale, Adrift, Closes
<1>1. CASE Spawn
  BY <1>1, SpawnTold
<1>2. CASE AdmitRun
  BY <1>2, AdmitRunTold
<1>3. CASE WorktreeDone
  BY <1>3, WorktreeDoneTold
<1>4. CASE AgentReady
  BY <1>4, AgentReadyTold
<1>5. CASE SetupThrows
  BY <1>5, SetupThrowsTold
<1>6. CASE \E outcome \in Outcomes : RunEnds(outcome)
  BY <1>6, RunEndsTold
<1>7. CASE RunSettles
  BY <1>7, RunSettlesTold
<1>8. CASE RunFinally
  BY <1>8, RunFinallyTold
<1>9. CASE \E i \in DOMAIN turns : \E phase \in {"replied", "threw", "shut"} : TurnEnds(i, phase)
  BY <1>9, TurnEndsTold
<1>10. CASE \E i \in DOMAIN turns : TurnSettles(i)
  BY <1>10, TurnSettlesTold
<1>11. CASE \E i \in DOMAIN turns : TurnAfterOnFail(i)
  BY <1>11, TurnAfterOnFailTold
<1>12. CASE \E i \in DOMAIN turns : TurnFinally(i)
  BY <1>12, TurnFinallyTold
<1>13. CASE ResumeAgent
  BY <1>13, ResumeAgentTold
<1>14. CASE AdmitResume
  BY <1>14, AdmitResumeTold
<1>15. CASE SendInputInterrupt
  BY <1>15, SendInputInterruptTold
<1>16. CASE InterruptAgent
  BY <1>16, InterruptAgentTold
<1>17. CASE AskDirector
  BY <1>17, AskDirectorTold
<1>18. CASE \E structured \in BOOLEAN : AnswerAsk(structured)
  BY <1>18, AnswerAskTold
<1>19. CASE ExpireStaleAsk
  BY <1>19, ExpireStaleAskTold
<1>20. CASE ConsumeAnswer
  BY <1>20, ConsumeAnswerTold
<1>21. CASE CloseAgent
  BY <1>21, CloseAgentTold
<1>22. CASE CloseStopsWaiting
  BY <1>22, CloseStopsWaitingTold
<1>23. CASE CloseEnds
  BY <1>23, CloseEndsTold
<1>24. CASE CancelAll
  BY <1>24, CancelAllTold
<1>25. CASE Teardown
  BY <1>25, TeardownTold
<1>26. CASE Prune
  BY <1>26, PruneTold
<1>27. QED
  BY <1>1, <1>2, <1>3, <1>4, <1>5, <1>6, <1>7, <1>8, <1>9, <1>10, <1>11, <1>12, <1>13, <1>14,
     <1>15, <1>16, <1>17, <1>18, <1>19, <1>20, <1>21, <1>22, <1>23, <1>24, <1>25, <1>26 DEF Next

\* The failure record written while a question is out says that one was open (fail,
\* cancel and the closing verbs capture the handoff before they settle the asks), but
\* for the record of a follow-up that failed with a later steer waiting behind it.
THEOREM AskRecorded == Spec => OpenAskIsRecorded
<1>1. WorkerInv /\ AskInv /\ [Next]_vars =>
        [lane.failure = NoRecord /\ lane'.failure # NoRecord /\ lane.ask
           => \/ lane'.failure.handoff = "unavailable"
              \/ /\ lane.stash # <<>>
                 /\ \E i \in DOMAIN turns : /\ turns[i].phase = "restore"
                                            /\ turns'[i].phase # "restore"]_vars
  BY AskStep DEF Told, Late
<1>2. QED
  BY <1>1, WorkerInvariant, AskInit, AskStep, PTL DEF Spec, OpenAskIsRecorded

=============================================================================
