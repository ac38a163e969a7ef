---------------------------- MODULE WorkerGrants ----------------------------
\* A worker's call that needs an approval it cannot ask for is denied and kept in
\* an envelope; the parent may authorize one retry of exactly that call.  The
\* module follows the calls of one worker with one tool, arguments and directory,
\* which all match the same envelopes.  Every path from the envelope check to the
\* execution runs in the identity's turn; expiry and interrupts do not wait for it.
EXTENDS Naturals, Sequences, SequencesExt

CONSTANTS
  Retries,      \* identical calls of the worker
  Approver      \* the parent's approve_worker_call

ASSUME ApproverAssumption == Approver \notin Retries

VARIABLES
  envelopes,    \* in the order they were registered: status, asked about, overdue
  question,     \* the envelope the worker's pending ask carries, 0 for none
  turns,        \* runExclusiveIdentity: who waits, the head runs
  place,        \* where each call and the approver is
  covered,      \* the parent's gate allows the call by a grant of its own
  executed      \* history: executions of the call

grantVars == <<envelopes, question, turns, place, covered, executed>>

GrantInit ==
  /\ envelopes = <<>> /\ question = 0 /\ turns = <<>>
  /\ place = [a \in Retries \union {Approver} |-> "idle"]
  /\ covered = FALSE /\ executed = 0

Open == {"pending", "authorized"}

\* sweepExpired: an overdue envelope never reads as open.
Swept(es) ==
  [i \in DOMAIN es |->
     IF es[i].status \in Open /\ es[i].overdue THEN [es[i] EXCEPT !.status = "expired"]
     ELSE es[i]]

With(es, st) == {i \in DOMAIN es : es[i].status = st}
First(S) == CHOOSE i \in S : \A j \in S : i <= j
Spent(es, i) == [es EXCEPT ![i].status = "consumed"]

\* precheck: the first envelope that has not expired must be open.
Prechecks(es) ==
  LET live == {i \in DOMAIN es : es[i].status # "expired"} IN
  live # {} => es[First(live)].status \in Open

\* denyWorkerCallWithEnvelope: a pending envelope of the call is used again.
DeniedWith(es) ==
  IF With(es, "pending") # {} THEN es
  ELSE Append(es, [status |-> "pending", asked |-> FALSE, overdue |-> FALSE])

Goes(a, to) == place' = [place EXCEPT ![a] = to]

\* (mutant) Identical calls do not wait for each other.
HasTurnAlways(a) == a \in Range(turns)

HasTurn(a) == turns # <<>> /\ Head(turns) = a

JoinsTurns(a, to) == turns' = Append(turns, a) /\ Goes(a, to)
\* The head's turn is over.
LeavesTurn(a, to) == turns' = Tail(turns) /\ Goes(a, to)

\* authorizeWorkerCall.
CallArrives(r) ==
  /\ place[r] = "idle"
  /\ JoinsTurns(r, "authorize")
  /\ UNCHANGED <<envelopes, question, covered, executed>>

AuthorizeChecks(r) ==
  LET es == Swept(envelopes) IN
  /\ place[r] = "authorize" /\ HasTurn(r)
  /\ envelopes' = es
  /\ IF ~Prechecks(es) THEN LeavesTurn(r, "denied")
     ELSE IF With(es, "authorized") # {} THEN LeavesTurn(r, "allowed")
     ELSE Goes(r, "authorizing") /\ UNCHANGED turns
  /\ UNCHANGED <<question, covered, executed>>

\* The gate answers; an ask becomes a denial with an envelope.
AuthorizeAnswered(r) ==
  /\ place[r] = "authorizing"
  /\ IF covered THEN LeavesTurn(r, "allowed") /\ UNCHANGED envelopes
     ELSE LeavesTurn(r, "denied") /\ envelopes' = DeniedWith(Swept(envelopes))
  /\ UNCHANGED <<question, covered, executed>>

\* executionVerdictWorkerCall, at the tool runner.
ExecutionArrives(r) ==
  /\ place[r] = "allowed"
  /\ JoinsTurns(r, "execute")
  /\ UNCHANGED <<envelopes, question, covered, executed>>

ExecutionChecks(r) ==
  LET es == Swept(envelopes)
      granted == With(es, "authorized") IN
  /\ place[r] = "execute" /\ HasTurn(r)
  /\ IF ~Prechecks(es)
     THEN LeavesTurn(r, "denied") /\ envelopes' = es /\ UNCHANGED executed
     ELSE IF granted # {}
     THEN LeavesTurn(r, "ran") /\ envelopes' = Spent(es, First(granted)) /\ executed' = executed + 1
     ELSE Goes(r, "executing") /\ envelopes' = es /\ UNCHANGED <<turns, executed>>
  /\ UNCHANGED <<question, covered>>

\* The gate allows: the pending envelope is spent, if it is still pending.
ExecutionAnswered(r) ==
  LET pending == {i \in With(envelopes, "pending") : ~envelopes[i].overdue} IN
  /\ place[r] = "executing"
  /\ IF covered
     THEN /\ LeavesTurn(r, "ran") /\ executed' = executed + 1
          /\ envelopes' = IF pending = {} THEN envelopes ELSE Spent(envelopes, First(pending))
     ELSE /\ LeavesTurn(r, "denied") /\ UNCHANGED executed
          /\ envelopes' = DeniedWith(Swept(envelopes))
  /\ UNCHANGED <<question, covered>>

\* ask_director names a pending envelope nobody asked about: attachToAsk.
AsksDirector ==
  LET es == Swept(envelopes) IN
  /\ question = 0
  /\ \E i \in With(es, "pending") :
       /\ ~es[i].asked
       /\ envelopes' = [es EXCEPT ![i].asked = TRUE]
       /\ question' = i
  /\ UNCHANGED <<turns, place, covered, executed>>

\* approve_worker_call names the envelope of the pending ask.
Approves ==
  /\ place[Approver] = "idle" /\ question # 0
  /\ JoinsTurns(Approver, "approve")
  /\ UNCHANGED <<envelopes, question, covered, executed>>

StillAsked(i) == i # 0 /\ envelopes[i].status = "pending" /\ ~envelopes[i].overdue

ApproveChecks ==
  /\ place[Approver] = "approve" /\ HasTurn(Approver)
  /\ IF StillAsked(question)
     THEN Goes(Approver, "evaluating") /\ UNCHANGED <<envelopes, turns>>
     ELSE LeavesTurn(Approver, "idle") /\ envelopes' = Swept(envelopes)
  /\ UNCHANGED <<question, covered, executed>>

\* The parent's gate has decided, and may keep a grant; the ask and its envelope
\* must not have changed meanwhile.  revokeAuthorizedRetry has no branch: it runs when
\* resolveAsk finds no pending ask, which peekAsk has found with no await in between.
ApproveEvaluated(allowed, kept) ==
  /\ place[Approver] = "evaluating" /\ (kept => allowed)
  /\ covered' = (covered \/ kept)
  /\ LeavesTurn(Approver, "idle")
  /\ IF allowed /\ StillAsked(question)
     THEN envelopes' = [Swept(envelopes) EXCEPT ![question].status = "authorized"] /\ question' = 0
     ELSE envelopes' = (IF allowed THEN Swept(envelopes) ELSE envelopes) /\ UNCHANGED question
  /\ UNCHANGED executed

\* send_input answers the ask in words, which authorize nothing.
AnsweredInWords ==
  /\ question # 0 /\ question' = 0
  /\ UNCHANGED <<envelopes, turns, place, covered, executed>>

Closed(st) ==
  [i \in DOMAIN envelopes |->
     IF envelopes[i].status \in Open THEN [envelopes[i] EXCEPT !.status = st] ELSE envelopes[i]]

\* An interrupt or a cancel settles the ask and the envelopes with it.
AskIsCancelled ==
  /\ question # 0 /\ question' = 0
  /\ envelopes' = Closed("interrupted")
  /\ UNCHANGED <<turns, place, covered, executed>>

\* The ask's own deadline: its envelopes expire.
AskExpires ==
  /\ question # 0 /\ question' = 0
  /\ envelopes' = Closed("expired")
  /\ UNCHANGED <<turns, place, covered, executed>>

\* The worker's session is evicted, or the store is torn down.
SessionInvalidated ==
  /\ \E i \in DOMAIN envelopes : envelopes[i].status \in Open
  /\ envelopes' = Closed("interrupted")
  /\ UNCHANGED <<question, turns, place, covered, executed>>

\* The operator's own grants, revocations and modes change what the gate covers, on
\* other requests or in /permissions and /yolo.
GateChanges ==
  /\ covered' = ~covered
  /\ UNCHANGED <<envelopes, question, turns, place, executed>>

Overdue ==
  /\ \E i \in DOMAIN envelopes :
       /\ envelopes[i].status \in Open /\ ~envelopes[i].overdue
       /\ envelopes' = [envelopes EXCEPT ![i].overdue = TRUE]
  /\ UNCHANGED <<question, turns, place, covered, executed>>

-----------------------------------------------------------------------------
GrantNext ==
  \/ \E r \in Retries :
       \/ CallArrives(r) \/ AuthorizeChecks(r) \/ AuthorizeAnswered(r)
       \/ ExecutionArrives(r) \/ ExecutionChecks(r) \/ ExecutionAnswered(r)
  \/ AsksDirector \/ Approves \/ ApproveChecks
  \/ \E allowed, kept \in BOOLEAN : ApproveEvaluated(allowed, kept)
  \/ AnsweredInWords \/ AskIsCancelled \/ AskExpires \/ SessionInvalidated
  \/ GateChanges \/ Overdue

GrantSpec == GrantInit /\ [][GrantNext]_grantVars

\* "One grant request permits exactly one execution": once an envelope of a call is
\* spent, no identical call executes, however many were on their way and whatever
\* the parent's gate allows by then.
SpentGrantEndsTheCall ==
  [][executed' > executed => With(envelopes, "consumed") = {}]_grantVars
=============================================================================
