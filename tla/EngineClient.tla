---------------------------- MODULE EngineClient ----------------------------
(***************************************************************************)
(* Calls to the engines of one run, several at a time: openrouter.py's     *)
(* chat_completion on one HTTP client all calls share and any of them may  *)
(* replace, and the command-line engines' chat_completion, whose process   *)
(* runs in a thread of the event loop's executor and cannot be cancelled.  *)
(*                                                                         *)
(* An action is what a call does between two awaits.  HTTP clients are     *)
(* numbered in the order they are built; the current one is the highest.   *)
(* What the answers mean is EngineReplies'.                                *)
(***************************************************************************)
EXTENDS EngineReplies, FiniteSets

CONSTANTS
  Callers,      \* calls of the run
  Engines,      \* the possible maps from Callers to {"http", "claude", "opencode"}
  MaxRetries,   \* config.max_retries
  MaxThreads,   \* workers of the event loop's default executor
  Responses,    \* HTTP responses the server may give
  Runs          \* per CLI engine, what its process may end with

ASSUME EngineAssumption ==
  /\ MaxRetries \in Nat /\ MaxThreads \in Nat \ {0}
  /\ \A e \in Engines : e \in [Callers -> {"http", "claude", "opencode"}]

VARIABLES
  engine,     \* which engine each call goes to
  pc,         \* where each call is, see TypeOK
  attempt,    \* attempt, the failures the call has counted
  outcome,    \* "none" while it runs, then what the caller gets
  conn,       \* the number of self._client
  on,         \* the client the call's request was sent on
  answered,   \* calls whose present request the server has answered (and billed)
  proc,       \* calls whose process runs: in a thread, cancelled or not
  poolClosed, \* the client ClientPool.aclose closed, 0 before
  failedOn,   \* history: the last client a request of the call failed on
  cut,        \* history: requests lost because their client had been closed
  resets      \* history: the resets each call made

http == <<conn, on, answered, failedOn, cut, resets>>
vars == <<engine, pc, attempt, outcome, http, proc, poolClosed>>

IsHttp(c) == engine[c] = "http"

TypeOK ==
  /\ engine \in Engines
  /\ pc \in [Callers -> {"idle", "posting", "resetting", "queued", "running", "backoff", "over"}]
  /\ attempt \in [Callers -> 0..MaxRetries + 1]
  /\ outcome \in [Callers -> {"none", "cancelled", "text", "credits", "error", "raises"}]
  /\ conn \in Nat \ {0}
  /\ on \in [Callers -> Nat]
  /\ answered \subseteq Callers /\ proc \subseteq Callers
  /\ poolClosed \in Nat /\ failedOn \in [Callers -> Nat]
  /\ cut \in [Callers -> Nat] /\ resets \in [Callers -> Nat]

Init ==
  /\ engine \in Engines
  /\ pc = [c \in Callers |-> "idle"]
  /\ attempt = [c \in Callers |-> 0]
  /\ outcome = [c \in Callers |-> "none"]
  /\ conn = 1 /\ on = [c \in Callers |-> 0] /\ answered = {} /\ proc = {}
  /\ poolClosed = 0 /\ failedOn = [c \in Callers |-> 0]
  /\ cut = [c \in Callers |-> 0] /\ resets = [c \in Callers |-> 0]

-----------------------------------------------------------------------------
(* What every engine does.                                                 *)

Ends(c, result) ==
  /\ pc' = [pc EXCEPT ![c] = "over"]
  /\ outcome' = [outcome EXCEPT ![c] = result]

\* An attempt failed: count it, give up past the budget, else go to next.
Fails(c, next) ==
  /\ attempt' = [attempt EXCEPT ![c] = @ + 1]
  /\ IF attempt[c] + 1 > MaxRetries
     THEN Ends(c, "error")
     ELSE pc' = [pc EXCEPT ![c] = next] /\ UNCHANGED outcome

-----------------------------------------------------------------------------
(* HTTP                                                                    *)

\* A client whose aclose began.
Closed(n) == n < conn \/ n = poolClosed

\* Mutant of Post: the client is looked up once, when the call begins.
PostOnFirst(c) ==
  /\ IsHttp(c) /\ pc[c] \in {"idle", "backoff"}
  /\ IF Closed(conn)
     THEN Ends(c, "raises") /\ UNCHANGED on
     ELSE /\ pc' = [pc EXCEPT ![c] = "posting"]
          /\ on' = [on EXCEPT ![c] = IF pc[c] = "idle" THEN conn ELSE @]
          /\ UNCHANGED outcome
  /\ UNCHANGED <<engine, attempt, conn, answered, failedOn, proc, poolClosed, cut, resets>>

\* self._client.post: a new request on a closed client is a RuntimeError.
Post(c) ==
  /\ IsHttp(c) /\ pc[c] \in {"idle", "backoff"}
  /\ IF Closed(conn)
     THEN Ends(c, "raises") /\ UNCHANGED on
     ELSE /\ pc' = [pc EXCEPT ![c] = "posting"]
          /\ on' = [on EXCEPT ![c] = conn]
          /\ UNCHANGED outcome
  /\ UNCHANGED <<engine, attempt, conn, answered, failedOn, proc, poolClosed, cut, resets>>

\* The server answers; the answer is on its way.
ServerAnswers(c) ==
  /\ pc[c] = "posting" /\ c \notin answered
  /\ answered' = answered \cup {c}
  /\ UNCHANGED <<engine, pc, attempt, outcome, conn, on, failedOn, proc, poolClosed, cut, resets>>

\* Mutant of Reset: nothing is replaced while another call is resetting.
ResetOnce(c) ==
  IF attempt[c] + 1 > MaxRetries \/ \E d \in Callers : pc[d] = "resetting"
  THEN UNCHANGED <<conn, resets>>
  ELSE conn' = conn + 1 /\ resets' = [resets EXCEPT ![c] = @ + 1]

\* _reset_connection up to its await: the new client is current at once.
Reset(c) ==
  IF attempt[c] + 1 > MaxRetries
  THEN UNCHANGED <<conn, resets>>
  ELSE conn' = conn + 1 /\ resets' = [resets EXCEPT ![c] = @ + 1]

\* The request fails, or the hard timeout strikes, answered or not.
ConnectionFails(c) ==
  /\ pc[c] = "posting"
  /\ Fails(c, "resetting") /\ Reset(c)
  /\ failedOn' = [failedOn EXCEPT ![c] = on[c]]
  /\ answered' = answered \ {c}
  /\ UNCHANGED <<engine, on, proc, poolClosed, cut>>

\* The request fails because another call, or the pool, closed its client.
CutOff(c) ==
  /\ pc[c] = "posting" /\ Closed(on[c])
  /\ Fails(c, "resetting") /\ Reset(c)
  /\ failedOn' = [failedOn EXCEPT ![c] = on[c]]
  /\ answered' = answered \ {c}
  /\ cut' = [cut EXCEPT ![c] = @ + 1]
  /\ UNCHANGED <<engine, on, proc, poolClosed>>

\* Mutant of Receive: a broken body is asked for again without counting.
ReceiveUncounted(c, resp) ==
  LET verdict == HttpVerdict(resp)
  IN  /\ pc[c] = "posting" /\ c \in answered
      /\ answered' = answered \ {c}
      /\ \/ /\ verdict = "reset"
            /\ pc' = [pc EXCEPT ![c] = "backoff"]
            /\ UNCHANGED <<attempt, outcome, conn, resets>>
         \/ verdict = "retry" /\ Fails(c, "backoff") /\ UNCHANGED <<conn, resets>>
         \/ /\ verdict \notin {"reset", "retry"}
            /\ Ends(c, verdict)
            /\ UNCHANGED <<attempt, conn, resets>>
      /\ failedOn' = IF verdict = "reset" THEN [failedOn EXCEPT ![c] = on[c]] ELSE failedOn
      /\ UNCHANGED <<engine, on, proc, poolClosed, cut>>

\* The response arrives in time.
Receive(c, resp) ==
  LET verdict == HttpVerdict(resp)
  IN  /\ pc[c] = "posting" /\ c \in answered
      /\ answered' = answered \ {c}
      /\ \/ verdict = "reset" /\ Fails(c, "resetting") /\ Reset(c)
         \/ verdict = "retry" /\ Fails(c, "backoff") /\ UNCHANGED <<conn, resets>>
         \/ /\ verdict \notin {"reset", "retry"}
            /\ Ends(c, verdict)
            /\ UNCHANGED <<attempt, conn, resets>>
      /\ failedOn' = IF verdict = "reset" THEN [failedOn EXCEPT ![c] = on[c]] ELSE failedOn
      /\ UNCHANGED <<engine, on, proc, poolClosed, cut>>

\* aclose of the old client returned or was given up after five seconds.
ResetDone(c) ==
  /\ pc[c] = "resetting"
  /\ pc' = [pc EXCEPT ![c] = "backoff"]
  /\ UNCHANGED <<engine, attempt, outcome, http, proc, poolClosed>>

-----------------------------------------------------------------------------
(* Command-line engines                                                    *)

Verdict(c, run) == IF engine[c] = "claude" THEN ClaudeVerdict(run) ELSE OpenCodeVerdict(run)

\* asyncio.to_thread: the call waits for a thread of the executor.
Submit(c) ==
  /\ ~IsHttp(c) /\ pc[c] \in {"idle", "backoff"}
  /\ pc' = [pc EXCEPT ![c] = "queued"]
  /\ UNCHANGED <<engine, attempt, outcome, http, proc, poolClosed>>

StartProcess(c) ==
  /\ pc[c] = "queued" /\ Cardinality(proc) < MaxThreads
  /\ pc' = [pc EXCEPT ![c] = "running"]
  /\ proc' = proc \cup {c}
  /\ UNCHANGED <<engine, attempt, outcome, http, poolClosed>>

\* The process ends, at the latest by subprocess.run's timeout.
ProcessEnds(c, run) ==
  /\ pc[c] = "running"
  /\ proc' = proc \ {c}
  /\ LET verdict == Verdict(c, run)
     IN  IF verdict = "retry" THEN Fails(c, "backoff")
         ELSE Ends(c, verdict) /\ UNCHANGED attempt
  /\ UNCHANGED <<engine, http, poolClosed>>

\* The process of a cancelled call ends; nobody reads what it printed.
AbandonedEnds(c) ==
  /\ c \in proc /\ pc[c] = "over"
  /\ proc' = proc \ {c}
  /\ UNCHANGED <<engine, pc, attempt, outcome, http, poolClosed>>

-----------------------------------------------------------------------------
(* Around the calls                                                        *)

\* The article's timeout, or the end of the program, cancels the call at
\* whatever it awaits; a process that runs keeps its thread.
Cancel(c) ==
  /\ pc[c] \notin {"idle", "over"}
  /\ Ends(c, "cancelled")
  /\ answered' = answered \ {c}
  /\ UNCHANGED <<engine, attempt, conn, on, failedOn, proc, poolClosed, cut, resets>>

\* run_pipeline's finally block, while calls of a failed article still run.
\* It closes the client that is current now; a reset builds another one.
ClosePool ==
  /\ poolClosed = 0
  /\ poolClosed' = conn
  /\ UNCHANGED <<engine, pc, attempt, outcome, http, proc>>

Next ==
  \/ \E c \in Callers :
       \/ Post(c) \/ ServerAnswers(c) \/ ConnectionFails(c) \/ CutOff(c) \/ ResetDone(c)
       \/ \E resp \in Responses : Receive(c, resp)
       \/ Submit(c) \/ StartProcess(c) \/ AbandonedEnds(c) \/ Cancel(c)
       \/ \E run \in Runs[engine[c]] : ProcessEnds(c, run)
  \/ ClosePool

\* What the event loop, the hard timeouts of a request and of a process and
\* the bounded wait for aclose guarantee: a call that began goes on.
Goes(c) ==
  \/ pc[c] = "backoff" /\ (Post(c) \/ Submit(c))
  \/ ConnectionFails(c) \/ ResetDone(c) \/ StartProcess(c) \/ AbandonedEnds(c)
  \/ \E resp \in Responses : Receive(c, resp)
  \/ \E run \in Runs[engine[c]] : ProcessEnds(c, run)

Spec == Init /\ [][Next]_vars /\ \A c \in Callers : WF_vars(Goes(c))

-----------------------------------------------------------------------------
(* Properties                                                              *)

\* A request that follows a connection failure or a broken reply goes out on
\* a client built after the one it failed on, however many calls replace the
\* shared client meanwhile (openrouter.py _reset_connection: "a genuinely
\* fresh connection").
FreshClient == \A c \in Callers : pc[c] = "posting" => on[c] > failedOn[c]

\* Calls take requests from each other by closing the client they share, but
\* one reset costs another call at most one of its attempts: a call has lost
\* no more requests this way than others replaced clients (conn - 1 resets
\* in all), plus one to the closing of the pool.
CutOnlyByOthers ==
  \A c \in Callers :
    cut[c] <= (conn - 1) - resets[c] + (IF poolClosed = 0 THEN 0 ELSE 1)

\* A call that began ends, in a text or an exception, though servers and
\* processes may hang, clients be closed under it and the executor be full
\* of processes of calls that were cancelled.
CallsEnd == \A c \in Callers : pc[c] \notin {"idle", "over"} ~> pc[c] = "over"
=============================================================================
