------------------------------- MODULE Server -------------------------------
(***************************************************************************)
(* The network server: the protocol v1 listener (server/src/server.rs,     *)
(* service.rs), the PostgreSQL listener (pg.rs), the HTTP bridge (http.rs) *)
(* and the process they run in (main.rs), on a Tokio runtime.              *)
(*                                                                         *)
(* A v1 connection is an async task that sends each request to the         *)
(* runtime's pool of blocking threads and waits for it; a PostgreSQL or    *)
(* HTTP connection is itself a job of that pool, from accept to close.     *)
(* Clients send what they like, when they like, and may go away.  The pool *)
(* takes jobs in order and runs a bounded number of them; when the runtime *)
(* is dropped it discards the jobs that have not started and waits for     *)
(* those that have (external: Tokio).                                      *)
(***************************************************************************)
EXTENDS PgProtocol, FiniteSets

CONSTANTS
  V1, Pg, Http,         \* the connections of each listener
  MaxConnections,       \* per listener
  MaxInFlight,          \* v1 requests in the pool
  PoolSize,             \* blocking threads of the runtime
  Messages,             \* what a PostgreSQL client may send
  Budgets,              \* bounds on what each client sends, one chosen
  Faults                \* subset of {"accept", "client"}

Conns == V1 \cup Pg \cup Http

ASSUME ServerAssumption ==
  /\ MaxConnections \in Nat \ {0} /\ MaxInFlight \in Nat \ {0} /\ PoolSize \in Nat \ {0}
  /\ V1 \cap (Pg \cup Http) = {} /\ Pg \cap Http = {}
  /\ IsFiniteSet(Conns) /\ Budgets \subseteq [Conns -> Nat]

VARIABLES
  phase,             \* "serving", "draining", "stopped" or "exited"
  conn,              \* connection -> where its task or thread is
  job,               \* connection -> "none", "queued" or "running"
  backlog,           \* queued jobs, in order
  session,           \* connection -> status of its SqlSession, or "none"
  pg,                \* connection -> protocol state of a PostgreSQL one
  connection_slots,  \* listener -> free permits
  request_slots,     \* free permits
  left,              \* connection -> messages its client may still send
  aborted,           \* connections were cut off
  unanswered         \* v1 connections that ended with a request taken and
                     \* no response written

slotVars == <<connection_slots, request_slots>>
vars == <<phase, conn, job, backlog, session, pg, slotVars, left, aborted, unanswered>>

Listener(c) == IF c \in V1 THEN "v1" ELSE IF c \in Pg THEN "pg" ELSE "http"

Init ==
  /\ phase = "serving"
  /\ conn = [c \in Conns |-> "new"]
  /\ job = [c \in Conns |-> "none"]
  /\ backlog = << >>
  /\ session = [c \in Conns |-> "none"]
  /\ pg = [c \in Pg |-> NewConnection]
  /\ connection_slots = [l \in {"v1", "pg", "http"} |-> MaxConnections]
  /\ request_slots = MaxInFlight
  /\ left \in Budgets
  /\ aborted = FALSE
  /\ unanswered = {}

(***************************************************************************)
(* The v1 listener and its connections.                                    *)
(***************************************************************************)
Acquire(c) == connection_slots' = [connection_slots EXCEPT ![Listener(c)] = @ - 1]
Release(c) == connection_slots' = [connection_slots EXCEPT ![Listener(c)] = @ + 1]

\* A client that finds no slot is told so and turned away.
AcceptV1(c) ==
  /\ c \in V1 /\ phase = "serving" /\ conn[c] = "new" /\ left[c] > 0
  /\ IF connection_slots["v1"] > 0
     THEN /\ Acquire(c)
          /\ conn' = [conn EXCEPT ![c] = "reading"]
          /\ session' = [session EXCEPT ![c] = "Idle"]
     ELSE /\ conn' = [conn EXCEPT ![c] = "closed"]
          /\ UNCHANGED <<connection_slots, session>>
  /\ UNCHANGED <<phase, job, backlog, pg, request_slots, left, aborted, unanswered>>

\* handle_connection returns: the permit goes back, and the session with it
\* unless a closure still holds its Arc.
Return(c) ==
  /\ conn' = [conn EXCEPT ![c] = "closed"]
  /\ Release(c)
  /\ session' = [session EXCEPT ![c] = IF job[c] = "none" THEN "none" ELSE @]

\* A frame that is not a request, or of another version, or for which there
\* is no slot, is answered at once; any other becomes a job that holds its
\* slot until it has run.  The read races the shutdown notice and may win.
ReadFrame(c) ==
  /\ c \in V1 /\ conn[c] = "reading" /\ left[c] > 0 /\ phase \in {"serving", "draining"}
  /\ left' = [left EXCEPT ![c] = @ - 1]
  /\ \/ conn' = [conn EXCEPT ![c] = "writing"] /\ UNCHANGED <<job, backlog, request_slots>>
     \/ /\ request_slots > 0
        /\ request_slots' = request_slots - 1
        /\ conn' = [conn EXCEPT ![c] = "awaiting"]
        /\ job' = [job EXCEPT ![c] = "queued"]
        /\ backlog' = Append(backlog, c)
  /\ UNCHANGED <<phase, session, pg, connection_slots, aborted, unanswered>>

\* The idle timeout, or a frame too large: a last response, then the end.
GiveUp(c) ==
  /\ c \in V1 /\ conn[c] = "reading" /\ phase \in {"serving", "draining"}
  /\ conn' = [conn EXCEPT ![c] = "parting"]
  /\ UNCHANGED <<phase, job, backlog, session, pg, slotVars, left, aborted, unanswered>>

\* The client takes the response.
WriteResponse(c) ==
  /\ c \in V1 /\ phase \in {"serving", "draining"}
  /\ \/ conn[c] = "writing" /\ conn' = [conn EXCEPT ![c] = "reading"]
        /\ UNCHANGED <<connection_slots, session>>
     \/ conn[c] = "parting" /\ Return(c)
  /\ UNCHANGED <<phase, job, backlog, pg, request_slots, left, aborted, unanswered>>

\* The client goes away between requests.
Eof(c) ==
  /\ c \in V1 /\ conn[c] = "reading" /\ phase \in {"serving", "draining"}
  /\ Return(c)
  /\ UNCHANGED <<phase, job, backlog, pg, request_slots, left, aborted, unanswered>>

\* The client goes away before it has its response.
WriteError(c) ==
  /\ "client" \in Faults
  /\ c \in V1 /\ conn[c] \in {"writing", "parting"} /\ phase \in {"serving", "draining"}
  /\ Return(c)
  /\ UNCHANGED <<phase, job, backlog, pg, request_slots, left, aborted, unanswered>>

\* Mutant: the shutdown notice is also taken while a request is running.
NoticeShutdownAnywhere(c) ==
  /\ c \in V1 /\ conn[c] \in {"reading", "awaiting"} /\ phase = "draining"
  /\ Return(c)
  /\ unanswered' = IF conn[c] = "awaiting" THEN unanswered \cup {c} ELSE unanswered
  /\ UNCHANGED <<phase, job, backlog, pg, request_slots, left, aborted>>

\* The watch channel is only looked at between requests.
NoticeShutdown(c) ==
  /\ c \in V1 /\ conn[c] = "reading" /\ phase = "draining"
  /\ Return(c)
  /\ UNCHANGED <<phase, job, backlog, pg, request_slots, left, aborted, unanswered>>

(***************************************************************************)
(* The blocking pool.                                                      *)
(***************************************************************************)
Running == {c \in Conns : job[c] = "running"}

StartJob ==
  /\ backlog # << >> /\ Cardinality(Running) < PoolSize
  /\ phase \in {"serving", "draining"}
  /\ job' = [job EXCEPT ![Head(backlog)] = "running"]
  /\ backlog' = Tail(backlog)
  /\ UNCHANGED <<phase, conn, session, pg, slotVars, left, aborted, unanswered>>

\* Mutant: a closure leaves its session behind.
SessionAfterAbandoned(c) ==
  {session[c]} \cup {r.status : r \in UNION {Execute(session[c], t) : t \in Texts}}

\* The session after the closure of c; its last holder drops it.
SessionAfter(c) ==
  IF conn[c] = "closed" THEN {"none"}
  ELSE {session[c]} \cup {r.status : r \in UNION {Execute(session[c], t) : t \in Texts}}

\* Mutant: the connection, not the closure, gives the slot back.
FinishRequestHeld(c) ==
  /\ c \in V1 /\ job[c] = "running"
  /\ job' = [job EXCEPT ![c] = "none"]
  /\ request_slots' = IF conn[c] = "awaiting" THEN request_slots + 1 ELSE request_slots
  /\ \E status \in SessionAfter(c) : session' = [session EXCEPT ![c] = status]
  /\ conn' = [conn EXCEPT ![c] = IF @ = "awaiting" THEN "writing" ELSE @]
  /\ UNCHANGED <<phase, backlog, pg, connection_slots, left, aborted, unanswered>>

\* The closure of a v1 request: ping and parse leave the session alone,
\* execute runs SQL in it.  The slot goes back when the closure ends,
\* whether or not anybody waits for it.
FinishRequest(c) ==
  /\ c \in V1 /\ job[c] = "running"
  /\ job' = [job EXCEPT ![c] = "none"]
  /\ request_slots' = request_slots + 1
  /\ \E status \in SessionAfter(c) : session' = [session EXCEPT ![c] = status]
  /\ conn' = [conn EXCEPT ![c] = IF @ = "awaiting" THEN "writing" ELSE @]
  /\ UNCHANGED <<phase, backlog, pg, connection_slots, left, aborted, unanswered>>

(***************************************************************************)
(* PostgreSQL and HTTP connections.  Their listeners are given a shutdown  *)
(* that never comes, so they accept until the runtime is dropped.          *)
(***************************************************************************)
AcceptBlocking(c) ==
  /\ c \in Pg \cup Http /\ phase \in {"serving", "draining"}
  /\ conn[c] = "new" /\ left[c] > 0
  /\ IF connection_slots[Listener(c)] > 0
     THEN /\ Acquire(c)
          /\ conn' = [conn EXCEPT ![c] = "starting"]
          /\ session' = [session EXCEPT ![c] = IF c \in Pg THEN "Idle" ELSE "none"]
          /\ job' = [job EXCEPT ![c] = "queued"]
          /\ backlog' = Append(backlog, c)
     ELSE /\ conn' = [conn EXCEPT ![c] = "closed"]
          /\ UNCHANGED <<connection_slots, session, job, backlog>>
  /\ UNCHANGED <<phase, pg, request_slots, left, aborted, unanswered>>

\* run_connection returns, and the thread is free.
EndBlocking(c) ==
  /\ conn' = [conn EXCEPT ![c] = "closed"]
  /\ job' = [job EXCEPT ![c] = "none"]
  /\ session' = [session EXCEPT ![c] = "none"]
  /\ Release(c)

\* handshake: encryption is declined and the client asked again; protocol 3
\* gets the connection going; anything else ends it.
Handshake(c) ==
  /\ c \in Pg /\ job[c] = "running" /\ conn[c] = "starting" /\ left[c] > 0
  /\ left' = [left EXCEPT ![c] = @ - 1]
  /\ \/ UNCHANGED <<conn, job, session, connection_slots>>
     \/ /\ conn' = [conn EXCEPT ![c] = "reading"]
        /\ UNCHANGED <<job, session, connection_slots>>
     \/ EndBlocking(c)
  /\ UNCHANGED <<phase, backlog, pg, request_slots, aborted, unanswered>>

PgMessage(c) ==
  /\ c \in Pg /\ job[c] = "running" /\ conn[c] = "reading" /\ left[c] > 0
  /\ left' = [left EXCEPT ![c] = @ - 1]
  /\ \E m \in Messages : \E x \in HandleMessage(pg[c], m) :
       /\ pg' = [pg EXCEPT ![c] = x]
       /\ IF x.open
          THEN session' = [session EXCEPT ![c] = x.status]
               /\ UNCHANGED <<conn, job, connection_slots>>
          ELSE EndBlocking(c)
  /\ UNCHANGED <<phase, backlog, request_slots, aborted, unanswered>>

\* One HTTP request: its session, if the body asks for one, is dropped with
\* the response, open transaction and all.
HttpRequest(c) ==
  /\ c \in Http /\ job[c] = "running" /\ left[c] > 0
  /\ left' = [left EXCEPT ![c] = @ - 1]
  /\ \/ UNCHANGED <<conn, job, session, connection_slots>>
     \/ EndBlocking(c)
  /\ UNCHANGED <<phase, backlog, pg, request_slots, aborted, unanswered>>

\* The client goes away.
Hangup(c) ==
  /\ c \in Pg \cup Http /\ job[c] = "running"
  /\ EndBlocking(c)
  /\ UNCHANGED <<phase, backlog, pg, request_slots, left, aborted, unanswered>>

(***************************************************************************)
(* Shutdown.                                                               *)
(***************************************************************************)
OpenV1 == {c \in V1 : conn[c] \notin {"new", "closed"}}

Shutdown ==
  /\ phase = "serving"
  /\ phase' = "draining"
  /\ UNCHANGED <<conn, job, backlog, session, pg, slotVars, left, aborted, unanswered>>

\* serve_until and main return and the runtime is dropped: tasks are gone,
\* queued jobs are discarded, v1 connections in `cut` are closed where they
\* are.
DropRuntime(cut) ==
  LET gone == cut \cup {c \in Pg \cup Http : job[c] = "queued"}
  IN  /\ phase' = "stopped"
      /\ backlog' = << >>
      /\ conn' = [c \in Conns |-> IF c \in gone THEN "closed" ELSE conn[c]]
      /\ job' = [c \in Conns |-> IF job[c] = "queued" THEN "none" ELSE job[c]]
      /\ session' = [c \in Conns |-> IF job[c] # "running" THEN "none" ELSE session[c]]
      /\ connection_slots' =
           [l \in DOMAIN connection_slots |->
              connection_slots[l] + Cardinality({c \in gone : Listener(c) = l})]
      /\ request_slots' =
           request_slots + Cardinality({c \in V1 : job[c] = "queued"})
      /\ unanswered' = unanswered \cup {c \in cut : conn[c] \in {"awaiting", "writing"}}
      /\ UNCHANGED <<pg, left>>

Drained ==
  /\ phase = "draining" /\ OpenV1 = {}
  /\ DropRuntime({})
  /\ UNCHANGED aborted

\* Mutant: a client that does not take its response is waited for.
GraceExpiresPatient ==
  /\ phase = "draining" /\ OpenV1 # {} /\ \A c \in OpenV1 : conn[c] # "writing"
  /\ DropRuntime(OpenV1)
  /\ aborted' = TRUE

GraceExpires ==
  /\ phase = "draining" /\ OpenV1 # {}
  /\ DropRuntime(OpenV1)
  /\ aborted' = TRUE

\* accept failed: serve_until returns the error at once.
AcceptError ==
  /\ "accept" \in Faults
  /\ phase = "serving"
  /\ DropRuntime(OpenV1)
  /\ aborted' = TRUE

\* The pool waits for its running threads; then the process ends.
Exit ==
  /\ phase = "stopped" /\ Running = {}
  /\ phase' = "exited"
  /\ UNCHANGED <<conn, job, backlog, session, pg, slotVars, left, aborted, unanswered>>

ClientStep(c) ==
  \/ AcceptV1(c) \/ ReadFrame(c) \/ GiveUp(c) \/ WriteResponse(c) \/ Eof(c)
  \/ WriteError(c) \/ AcceptBlocking(c) \/ Handshake(c) \/ PgMessage(c)
  \/ HttpRequest(c) \/ Hangup(c)

ServerStep(c) == NoticeShutdown(c) \/ FinishRequest(c)

Next ==
  \/ \E c \in Conns : ClientStep(c) \/ ServerStep(c)
  \/ StartJob \/ Shutdown \/ Drained \/ GraceExpires \/ AcceptError \/ Exit

Spec == Init /\ [][Next]_vars

\* The runtime polls its tasks, the pool's threads run, the engine's calls
\* return and the grace timer fires.  Nothing is asked of clients, or of
\* whoever may shut the server down.
FairSpec ==
  /\ Spec
  /\ \A c \in Conns : WF_vars(ServerStep(c))
  /\ WF_vars(StartJob)
  /\ WF_vars(Drained \/ GraceExpires)
  /\ WF_vars(Exit)

(***************************************************************************)
(* Properties.                                                             *)
(***************************************************************************)
Holding(l) == {c \in Conns : conn[c] \notin {"new", "closed"} /\ Listener(c) = l}
InFlight == {c \in V1 : job[c] # "none"}

\* No permit leaks and none is returned twice, however a connection ends: by
\* itself, by a failed write, cut off with its request still running, or
\* discarded with the pool's queue.  A request cut off keeps its slot for as
\* long as it really runs.
SlotsAccounted ==
  /\ \A l \in {"v1", "pg", "http"} :
       connection_slots[l] + Cardinality(Holding(l)) = MaxConnections
  /\ request_slots + Cardinality(InFlight) = MaxInFlight

\* A transaction is open only in a session somebody still holds: a live
\* connection, or a closure that outlived its connection.  None is left when
\* the process ends.
TransactionsOwned ==
  \A c \in Conns :
    session[c] = "InTransaction" =>
      /\ phase # "exited"
      /\ conn[c] \in {"reading", "awaiting", "writing", "parting"} \/ job[c] # "none"

\* The extended protocol: an error is the last thing a client is sent before
\* the server is ready again; whatever it had pipelined behind is skipped.
\* (A length that is out of range is an error in any case, and the end.)
ErrorEndsSegment ==
  \A c \in Pg : LET s == pg[c].segment IN
    pg[c].open => \A i \in DOMAIN s :
      /\ s[i] = "E" => i = Len(s) \/ (i = Len(s) - 1 /\ IsReady(s))
      /\ s[i] = "Z" => i = Len(s)

\* A shutdown inside its grace period loses no answer: every request that
\* was taken has had its response written, unless its client left.
GracefulMeansAnswered ==
  phase \in {"stopped", "exited"} /\ ~ aborted => unanswered = {}

\* Every thread of the pool serves a connection that waits for its client.
PoolHeld == Cardinality({c \in Pg \cup Http : job[c] = "running"}) >= PoolSize

\* A request that was taken is executed, unless connections hold the whole
\* pool; and a server told to stop does stop, unless a PostgreSQL or HTTP
\* client keeps its connection.
ServerProgresses ==
  /\ \A c \in V1 : job[c] # "none" ~> (job[c] = "none" \/ PoolHeld)
  /\ phase = "draining" ~> (phase = "exited" \/ \E c \in Pg \cup Http : job[c] = "running")

\* The same without the exceptions.
RequestsExecuted == \A c \in V1 : job[c] # "none" ~> job[c] = "none"
ShutdownCompletes == phase = "draining" ~> phase = "exited"
=============================================================================
