------------------------- MODULE EngineClientProofs -------------------------
(***************************************************************************)
(* What holds of EngineClient for any number of calls, engines, responses  *)
(* and retries.                                                            *)
(***************************************************************************)
EXTENDS EngineClient, TLAPS

\* A call that is not over has attempts left.
AttemptsLeft == \A c \in Callers : pc[c] # "over" => attempt[c] <= MaxRetries

TypeInv == TypeOK /\ AttemptsLeft

\* 1 if the client the pool closed is older than client n.
PoolBefore(n) == IF poolClosed # 0 /\ poolClosed < n THEN 1 ELSE 0

(***************************************************************************)
(* The budget behind CutOnlyByOthers.  A call that has a request on client *)
(* n was cut off and has replaced clients at most n - 1 times together,    *)
(* once more if the pool was closed before n: being cut off means that n   *)
(* is no longer the newest, and replacing it makes a newer one.            *)
(***************************************************************************)
Budget ==
  \A c \in Callers :
    /\ on[c] <= conn
    /\ pc[c] = "posting" => cut[c] + resets[c] <= on[c] - 1 + PoolBefore(on[c])
    /\ pc[c] # "over" => cut[c] + resets[c] <= conn - 1 + PoolBefore(conn)
    /\ cut[c] + resets[c] <= conn - 1 + (IF poolClosed = 0 THEN 0 ELSE 1)

PoolKnown == poolClosed <= conn

CutInv == TypeInv /\ PoolKnown /\ Budget

\* A call that will ask again failed on a client that is no longer current.
FailedIsOld == \A c \in Callers : pc[c] \notin {"posting", "over"} => failedOn[c] < conn

FreshInv == TypeInv /\ FreshClient /\ FailedIsOld /\ \A c \in Callers : on[c] <= conn

-----------------------------------------------------------------------------
\* Judging a response or a process never yields anything but a verdict.
LEMMA VerdictsAreVerdicts ==
  ASSUME NEW x
  PROVE  /\ HttpVerdict(x) \in Verdicts
         /\ ClaudeVerdict(x) \in {"text", "error", "credits", "retry"}
         /\ OpenCodeVerdict(x) \in {"text", "error", "credits", "retry"}
<1>1. HttpVerdict(x) \in Verdicts
  BY DEF HttpVerdict, Verdicts
<1>2. ClaudeVerdict(x) \in {"text", "error", "credits", "retry"}
  BY DEF ClaudeVerdict
<1>3. OpenCodeVerdict(x) \in {"text", "error", "credits", "retry"}
  BY DEF OpenCodeVerdict
<1> QED BY <1>1, <1>2, <1>3

LEMMA TypeInit == Init => TypeInv
BY EngineAssumption DEF Init, TypeInv, TypeOK, AttemptsLeft

LEMMA TypeStep == TypeInv /\ [Next]_vars => TypeInv'
<1> SUFFICES ASSUME TypeInv, [Next]_vars PROVE TypeInv'
  OBVIOUS
<1> USE EngineAssumption DEF TypeInv, TypeOK, AttemptsLeft
<1>1. ASSUME NEW c \in Callers, Post(c) PROVE TypeInv'
  BY <1>1 DEF Post, Ends
<1>2. ASSUME NEW c \in Callers, ServerAnswers(c) PROVE TypeInv'
  BY <1>2 DEF ServerAnswers
<1>3. ASSUME NEW c \in Callers, ConnectionFails(c) PROVE TypeInv'
  BY <1>3 DEF ConnectionFails, Fails, Ends, Reset
<1>4. ASSUME NEW c \in Callers, CutOff(c) PROVE TypeInv'
  BY <1>4 DEF CutOff, Fails, Ends, Reset
<1>5. ASSUME NEW c \in Callers, ResetDone(c) PROVE TypeInv'
  BY <1>5 DEF ResetDone, http
<1>6. ASSUME NEW c \in Callers, NEW resp \in Responses, Receive(c, resp) PROVE TypeInv'
  <2>1. HttpVerdict(resp) \in Verdicts
    BY VerdictsAreVerdicts
  <2>2. CASE HttpVerdict(resp) = "reset"
    BY <1>6, <2>2 DEF Receive, Fails, Ends, Reset
  <2>3. CASE HttpVerdict(resp) = "retry"
    BY <1>6, <2>3 DEF Receive, Fails, Ends
  <2>4. CASE HttpVerdict(resp) \in {"text", "credits", "error", "raises"}
    BY <1>6, <2>4 DEF Receive, Ends
  <2> QED BY <2>1, <2>2, <2>3, <2>4 DEF Verdicts
<1>7. ASSUME NEW c \in Callers, Submit(c) PROVE TypeInv'
  BY <1>7 DEF Submit, http
<1>8. ASSUME NEW c \in Callers, StartProcess(c) PROVE TypeInv'
  BY <1>8 DEF StartProcess, http
<1>9. ASSUME NEW c \in Callers, AbandonedEnds(c) PROVE TypeInv'
  BY <1>9 DEF AbandonedEnds, http
<1>10. ASSUME NEW c \in Callers, Cancel(c) PROVE TypeInv'
  BY <1>10 DEF Cancel, Ends
<1>11. ASSUME NEW c \in Callers, NEW run \in Runs[engine[c]], ProcessEnds(c, run) PROVE TypeInv'
  <2>1. Verdict(c, run) \in {"text", "error", "credits", "retry"}
    BY VerdictsAreVerdicts DEF Verdict
  <2>2. CASE Verdict(c, run) = "retry"
    BY <1>11, <2>2 DEF ProcessEnds, Fails, Ends, http
  <2>3. CASE Verdict(c, run) \in {"text", "error", "credits"}
    BY <1>11, <2>3 DEF ProcessEnds, Ends, http
  <2> QED BY <2>1, <2>2, <2>3
<1>12. ASSUME ClosePool PROVE TypeInv'
  BY <1>12 DEF ClosePool, http
<1>13. ASSUME UNCHANGED vars PROVE TypeInv'
  BY <1>13 DEF vars, http
<1> QED
  BY <1>1, <1>2, <1>3, <1>4, <1>5, <1>6, <1>7, <1>8, <1>9, <1>10, <1>11, <1>12, <1>13 DEF Next

\* Every variable keeps its type, whatever servers and processes answer: an
\* attempt counter never passes the budget by more than the last failure.
THEOREM EngineTypeCorrect == Spec => []TypeOK
<1>1. Init => TypeInv
  BY TypeInit
<1>2. TypeInv /\ [Next]_vars => TypeInv'
  BY TypeStep
<1>3. TypeInv => TypeOK
  BY DEF TypeInv
<1> QED BY <1>1, <1>2, <1>3, PTL DEF Spec

-----------------------------------------------------------------------------
\* A step that ends a call, or leaves its request, connection and costs alone,
\* keeps the invariants.
Harmless ==
  /\ UNCHANGED <<conn, on, cut, resets, poolClosed, failedOn>>
  /\ \A c \in Callers : /\ pc'[c] = "posting" => pc[c] = "posting"
                        /\ pc[c] = "over" => pc'[c] = "over"
                        /\ pc[c] = "posting" =>
                             pc'[c] \in {"posting", "over"}

\* What becomes of a call whose connection failed: out of attempts, it is over;
\* otherwise there is a newer client.
LEMMA FailureReplaces ==
  ASSUME TypeOK, NEW c \in Callers, Fails(c, "resetting"), Reset(c)
  PROVE  \/ /\ pc' = [pc EXCEPT ![c] = "over"]
            /\ UNCHANGED <<conn, resets>>
         \/ /\ pc' = [pc EXCEPT ![c] = "resetting"]
            /\ conn' = conn + 1
            /\ resets' = [resets EXCEPT ![c] = @ + 1]
<1>1. CASE attempt[c] + 1 > MaxRetries
  BY <1>1 DEF Fails, Reset, Ends
<1>2. CASE ~(attempt[c] + 1 > MaxRetries)
  BY <1>2 DEF Fails, Reset
<1> QED BY <1>1, <1>2

LEMMA CutInit == Init => CutInv
BY TypeInit DEF Init, CutInv, TypeInv, TypeOK, PoolKnown, Budget, PoolBefore

\* A step of the budget: the connection failed (cutBy = 0) or was cut (1).
LEMMA BudgetAfterFailure ==
  ASSUME CutInv, NEW c \in Callers, NEW k \in {0, 1},
         pc[c] = "posting", k = 1 => Closed(on[c]),
         Fails(c, "resetting"), Reset(c),
         cut' = [cut EXCEPT ![c] = @ + k],
         UNCHANGED <<on, poolClosed>>
  PROVE  (PoolKnown /\ Budget)'
<1> USE DEF CutInv, TypeInv, TypeOK
<1>1. \/ /\ pc' = [pc EXCEPT ![c] = "over"]
         /\ UNCHANGED <<conn, resets>>
      \/ /\ pc' = [pc EXCEPT ![c] = "resetting"]
         /\ conn' = conn + 1
         /\ resets' = [resets EXCEPT ![c] = @ + 1]
  BY FailureReplaces
<1>2. PoolKnown'
  BY <1>1 DEF PoolKnown
<1>3. ASSUME NEW d \in Callers
      PROVE  /\ on'[d] <= conn'
             /\ pc'[d] = "posting" => cut'[d] + resets'[d] <= on'[d] - 1 + PoolBefore(on[d])'
             /\ pc'[d] # "over" => cut'[d] + resets'[d] <= conn' - 1 + PoolBefore(conn)'
             /\ cut'[d] + resets'[d] <= conn' - 1 + (IF poolClosed' = 0 THEN 0 ELSE 1)
  <2>1. CASE d = c
    BY <1>1, <2>1 DEF Budget, PoolKnown, PoolBefore, Closed
  <2>2. CASE d # c
    BY <1>1, <2>2 DEF Budget, PoolKnown, PoolBefore
  <2> QED BY <2>1, <2>2
<1> QED BY <1>2, <1>3 DEF Budget, PoolBefore

LEMMA BudgetAfterHarmless == CutInv /\ Harmless => (PoolKnown /\ Budget)'
BY DEF CutInv, TypeInv, TypeOK, PoolKnown, Budget, PoolBefore, Harmless

LEMMA CutStep == CutInv /\ [Next]_vars => CutInv'
<1> SUFFICES ASSUME CutInv, [Next]_vars PROVE (PoolKnown /\ Budget)'
  BY TypeStep DEF CutInv
<1> USE DEF CutInv, TypeInv
<1>1. ASSUME NEW c \in Callers, Post(c) PROVE (PoolKnown /\ Budget)'
  <2>1. CASE Closed(conn)
    <3>1. Harmless
      BY <1>1, <2>1 DEF Post, Ends, Harmless, TypeOK
    <3> QED BY <3>1, BudgetAfterHarmless
  <2>2. CASE ~Closed(conn)
    BY <1>1, <2>2 DEF Post, Closed, TypeOK, PoolKnown, Budget, PoolBefore
  <2> QED BY <2>1, <2>2
<1>2. ASSUME NEW c \in Callers, ConnectionFails(c) PROVE (PoolKnown /\ Budget)'
  <2>1. cut' = [cut EXCEPT ![c] = @ + 0]
    BY <1>2 DEF ConnectionFails, TypeOK
  <2>2. /\ pc[c] = "posting" /\ Fails(c, "resetting") /\ Reset(c)
        /\ UNCHANGED <<on, poolClosed>>
    BY <1>2 DEF ConnectionFails
  <2>3. 0 \in {0, 1} /\ (0 = 1 => Closed(on[c]))
    OBVIOUS
  <2> HIDE DEF CutInv, TypeInv
  <2> QED BY <2>1, <2>2, <2>3, BudgetAfterFailure
<1>3. ASSUME NEW c \in Callers, CutOff(c) PROVE (PoolKnown /\ Budget)'
  BY <1>3, BudgetAfterFailure DEF CutOff
<1>4. ASSUME NEW c \in Callers, NEW resp \in Responses, Receive(c, resp)
      PROVE  (PoolKnown /\ Budget)'
  <2>1. CASE HttpVerdict(resp) = "reset"
    <3>1. cut' = [cut EXCEPT ![c] = @ + 0]
      BY <1>4 DEF Receive, TypeOK
    <3>2. /\ pc[c] = "posting" /\ Fails(c, "resetting") /\ Reset(c)
          /\ UNCHANGED <<on, poolClosed>>
      BY <1>4, <2>1 DEF Receive
    <3>3. 0 \in {0, 1} /\ (0 = 1 => Closed(on[c]))
      OBVIOUS
    <3> HIDE DEF CutInv, TypeInv
    <3> QED BY <3>1, <3>2, <3>3, BudgetAfterFailure
  <2>2. CASE HttpVerdict(resp) # "reset"
    <3>1. UNCHANGED <<conn, on, cut, resets, poolClosed>>
      BY <1>4, <2>2 DEF Receive
    <3>2. pc' = [pc EXCEPT ![c] = "over"] \/ pc' = [pc EXCEPT ![c] = "backoff"]
      BY <1>4, <2>2 DEF Receive, Fails, Ends
    <3>3. pc[c] = "posting"
      BY <1>4 DEF Receive
    <3> QED BY <3>1, <3>2, <3>3 DEF TypeOK, PoolKnown, Budget, PoolBefore
  <2> QED BY <2>1, <2>2
<1>5. ASSUME ClosePool PROVE (PoolKnown /\ Budget)'
  BY <1>5 DEF ClosePool, http, TypeOK, PoolKnown, Budget, PoolBefore
<1>6. ASSUME NEW c \in Callers,
             \/ ServerAnswers(c) \/ ResetDone(c) \/ Submit(c) \/ StartProcess(c)
             \/ AbandonedEnds(c) \/ Cancel(c)
      PROVE  Harmless
  BY <1>6 DEF ServerAnswers, ResetDone, Submit, StartProcess, AbandonedEnds, Cancel,
              Ends, http, Harmless, TypeOK
<1>7. ASSUME NEW c \in Callers, NEW run \in Runs[engine[c]], ProcessEnds(c, run)
      PROVE  Harmless
  BY <1>7 DEF ProcessEnds, Fails, Ends, http, Harmless, TypeOK
<1>8. ASSUME UNCHANGED vars PROVE Harmless
  BY <1>8 DEF vars, http, Harmless
<1> QED
  BY <1>1, <1>2, <1>3, <1>4, <1>5, <1>6, <1>7, <1>8, BudgetAfterHarmless DEF Next

\* One replaced client costs another call at most one attempt: no call was
\* cut off more often than others replaced the client or the pool closed it.
THEOREM CutsAreBounded == Spec => []CutOnlyByOthers
<1>1. Init => CutInv
  BY CutInit
<1>2. CutInv /\ [Next]_vars => CutInv'
  BY CutStep
<1>3. CutInv => CutOnlyByOthers
  BY DEF CutInv, TypeInv, TypeOK, Budget, CutOnlyByOthers
<1> QED BY <1>1, <1>2, <1>3, PTL DEF Spec

-----------------------------------------------------------------------------
LEMMA FreshInit == Init => FreshInv
BY TypeInit DEF Init, FreshInv, TypeInv, TypeOK, FreshClient, FailedIsOld

LEMMA FreshAfterFailure ==
  ASSUME FreshInv, NEW c \in Callers, pc[c] = "posting",
         Fails(c, "resetting"), Reset(c),
         failedOn' = [failedOn EXCEPT ![c] = on[c]], on' = on
  PROVE  (FreshClient /\ FailedIsOld /\ \A d \in Callers : on[d] <= conn)'
<1> USE DEF FreshInv, TypeInv, TypeOK
<1>1. \/ /\ pc' = [pc EXCEPT ![c] = "over"]
         /\ UNCHANGED <<conn, resets>>
      \/ /\ pc' = [pc EXCEPT ![c] = "resetting"]
         /\ conn' = conn + 1
         /\ resets' = [resets EXCEPT ![c] = @ + 1]
  BY FailureReplaces
<1> QED BY <1>1 DEF FreshClient, FailedIsOld

LEMMA FreshAfterHarmless ==
  FreshInv /\ Harmless => (FreshClient /\ FailedIsOld /\ \A d \in Callers : on[d] <= conn)'
BY DEF FreshInv, TypeInv, TypeOK, FreshClient, FailedIsOld, Harmless

LEMMA FreshStep == FreshInv /\ [Next]_vars => FreshInv'
<1> DEFINE G == FreshClient /\ FailedIsOld /\ \A d \in Callers : on[d] <= conn
<1> SUFFICES ASSUME FreshInv, [Next]_vars PROVE G'
  BY TypeStep DEF FreshInv
<1> USE DEF FreshInv, TypeInv
<1>1. ASSUME NEW c \in Callers, Post(c) PROVE G'
  BY <1>1 DEF Post, Ends, TypeOK, FreshClient, FailedIsOld
<1>2. ASSUME NEW c \in Callers, ConnectionFails(c) \/ CutOff(c) PROVE G'
  BY <1>2, FreshAfterFailure DEF ConnectionFails, CutOff
<1>3. ASSUME NEW c \in Callers, NEW resp \in Responses, Receive(c, resp) PROVE G'
  <2>1. CASE HttpVerdict(resp) = "reset"
    <3>1. Fails(c, "resetting") /\ Reset(c)
      BY <1>3, <2>1 DEF Receive
    <3> QED BY <1>3, <2>1, <3>1, FreshAfterFailure DEF Receive
  <2>2. CASE HttpVerdict(resp) # "reset"
    <3>1. UNCHANGED <<conn, on, failedOn>>
      BY <1>3, <2>2 DEF Receive
    <3>2. pc' = [pc EXCEPT ![c] = "over"] \/ pc' = [pc EXCEPT ![c] = "backoff"]
      BY <1>3, <2>2 DEF Receive, Fails, Ends
    <3>3. pc[c] = "posting"
      BY <1>3 DEF Receive
    <3> QED BY <3>1, <3>2, <3>3 DEF TypeOK, FreshClient, FailedIsOld
  <2> QED BY <2>1, <2>2
<1>4. ASSUME ClosePool PROVE G'
  BY <1>4 DEF ClosePool, http, FreshClient, FailedIsOld
<1>5. ASSUME NEW c \in Callers,
             \/ ServerAnswers(c) \/ ResetDone(c) \/ Submit(c) \/ StartProcess(c)
             \/ AbandonedEnds(c) \/ Cancel(c)
      PROVE  Harmless
  BY <1>5 DEF ServerAnswers, ResetDone, Submit, StartProcess, AbandonedEnds, Cancel,
              Ends, http, Harmless, TypeOK
<1>6. ASSUME NEW c \in Callers, NEW run \in Runs[engine[c]], ProcessEnds(c, run)
      PROVE  Harmless
  BY <1>6 DEF ProcessEnds, Fails, Ends, http, Harmless, TypeOK
<1>7. ASSUME UNCHANGED vars PROVE Harmless
  BY <1>7 DEF vars, http, Harmless
<1> QED
  BY <1>1, <1>2, <1>3, <1>4, <1>5, <1>6, <1>7, FreshAfterHarmless DEF Next

\* A retry after a connection failure or a broken reply never goes out on the
\* client it failed on, however many calls replace the client meanwhile.
THEOREM RetriesAreFresh == Spec => []FreshClient
<1>1. Init => FreshInv
  BY FreshInit
<1>2. FreshInv /\ [Next]_vars => FreshInv'
  BY FreshStep
<1>3. FreshInv => FreshClient
  BY DEF FreshInv
<1> QED BY <1>1, <1>2, <1>3, PTL DEF Spec
=============================================================================
