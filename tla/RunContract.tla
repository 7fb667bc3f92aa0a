---------------------------- MODULE RunContract ----------------------------
(***************************************************************************)
(* What a run promises, whatever engines, operators, timeouts and errors   *)
(* do: `workers` seats that serve one waiting chunk each, every chunk at   *)
(* most once; an article that is accepted only when each of its chunks is  *)
(* done; outcomes that are final; and nothing left when the run is over.   *)
(*                                                                         *)
(* RunPipeline implements this module.                                     *)
(***************************************************************************)
EXTENDS Naturals

CONSTANTS NumArticles, Chunks, ArticleOf, Seats, NoSeat

Articles == 1..NumArticles
ChunksOf(a) == {c \in Chunks : ArticleOf[c] = a}

VARIABLES
  open,     \* the run is not over
  ledger,   \* where each article stands
  waiting,  \* chunks that wait for a seat
  seat,     \* the seat each chunk is served at
  done      \* chunks that have a valid translation

vars == <<open, ledger, waiting, seat, done>>

Init ==
  /\ open = TRUE
  /\ ledger = [a \in Articles |-> "planned"]
  /\ waiting = {}
  /\ seat = [c \in Chunks |-> NoSeat]
  /\ done = {}

IsFree(s) == \A c \in Chunks : seat[c] # s
Gone(c) == c \notin waiting /\ seat[c] = NoSeat

\* An article is opened, and its chunks wait.
Open(a) ==
  /\ open
  /\ ledger[a] = "planned"
  /\ ledger' = [ledger EXCEPT ![a] = "opened"]
  /\ waiting' = waiting \cup ChunksOf(a)
  /\ UNCHANGED <<open, seat, done>>

\* A free seat serves a waiting chunk.
Sit(c) ==
  /\ open
  /\ c \in waiting
  /\ waiting' = waiting \ {c}
  /\ \E s \in Seats : IsFree(s) /\ seat' = [seat EXCEPT ![c] = s]
  /\ UNCHANGED <<open, ledger, done>>

\* A seat serves a waiting chunk at once, from memory.
PassBy(c) ==
  /\ open
  /\ c \in waiting
  /\ \E s \in Seats : IsFree(s)
  /\ waiting' = waiting \ {c}
  /\ done' \in {done, done \cup {c}}
  /\ UNCHANGED <<open, ledger, seat>>

\* A served chunk leaves its seat, done or lost.
Leave(c) ==
  /\ open
  /\ seat[c] # NoSeat
  /\ seat' = [seat EXCEPT ![c] = NoSeat]
  /\ done' \in {done, done \cup {c}}
  /\ UNCHANGED <<open, ledger, waiting>>

\* Every chunk of the article is done.
Accept(a) ==
  /\ open
  /\ ledger[a] = "opened"
  /\ \A c \in ChunksOf(a) : Gone(c) /\ c \in done
  /\ ledger' = [ledger EXCEPT ![a] = "accepted"]
  /\ UNCHANGED <<open, waiting, seat, done>>

\* The article fails; chunks of it that wait or are served go on.
Fail(a) ==
  /\ open
  /\ ledger[a] = "opened"
  /\ ledger' = [ledger EXCEPT ![a] = "failed"]
  /\ UNCHANGED <<open, waiting, seat, done>>

\* The article runs out of time, and everything of it stops.
Expire(a) ==
  /\ open
  /\ ledger[a] = "opened"
  /\ ledger' = [ledger EXCEPT ![a] = "timed_out"]
  /\ waiting' = waiting \ ChunksOf(a)
  /\ seat' = [c \in Chunks |-> IF ArticleOf[c] = a THEN NoSeat ELSE seat[c]]
  /\ UNCHANGED <<open, done>>

\* An accepted article is delivered or withheld, or breaks the run.
Settle(a) ==
  /\ open
  /\ ledger[a] = "accepted"
  /\ \E o \in {"delivered", "withheld", "broken"} :
       ledger' = [ledger EXCEPT ![a] = o]
  /\ UNCHANGED <<open, waiting, seat, done>>

\* The run is over when every article is settled or one broke it.
Close ==
  /\ open
  /\ \/ \A a \in Articles : ledger[a] \notin {"planned", "opened", "accepted"}
     \/ \E a \in Articles : ledger[a] = "broken"
  /\ open' = FALSE
  /\ waiting' = {}
  /\ seat' = [c \in Chunks |-> NoSeat]
  /\ UNCHANGED <<ledger, done>>

Next ==
  \/ \E a \in Articles : Open(a) \/ Accept(a) \/ Fail(a) \/ Expire(a) \/ Settle(a)
  \/ \E c \in Chunks : Sit(c) \/ PassBy(c) \/ Leave(c)
  \/ Close

Spec == Init /\ [][Next]_vars

=============================================================================
