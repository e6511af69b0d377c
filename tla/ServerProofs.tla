---------------------------- MODULE ServerProofs ----------------------------
(***************************************************************************)
(* Permits, transactions and answers of the server are accounted for, for  *)
(* any number of clients, any limits and any size of the pool.             *)
(***************************************************************************)
EXTENDS Server, FiniteSetTheorems, TLAPS

Idle == {"new", "closed"}
Listeners == {"v1", "pg", "http"}
States == {"new", "starting", "reading", "awaiting", "writing", "parting", "closed"}

\* The slots of the connections, and those of the requests.
ConnectionsAccounted ==
  \A l \in Listeners : connection_slots[l] + Cardinality(Holding(l)) = MaxConnections
RequestsAccounted == request_slots + Cardinality(InFlight) = MaxInFlight

Types ==
  /\ phase \in {"serving", "draining", "stopped", "exited"}
  /\ conn \in [Conns -> States] /\ job \in [Conns -> {"none", "queued", "running"}]
  /\ DOMAIN session = Conns
  /\ connection_slots \in [Listeners -> Int] /\ request_slots \in Int
  /\ aborted \in BOOLEAN

\* Where a connection is tells what it has in the pool; a job without its
\* connection is a closure that was cut off, and is running.
Shape ==
  \A c \in Conns :
    /\ c \in V1 => /\ conn[c] = "awaiting" => job[c] # "none"
                   /\ job[c] # "none" => conn[c] \in {"awaiting", "closed"}
                   /\ conn[c] = "closed" /\ job[c] # "none" =>
                        job[c] = "running" /\ phase \in {"stopped", "exited"}
                   /\ conn[c] # "starting"
    /\ c \notin V1 => (conn[c] \notin Idle <=> job[c] # "none")

\* The queue of the pool holds queued jobs, each once.
Queue ==
  /\ backlog \in Seq(Conns)
  /\ \A i \in 1..Len(backlog) : job[backlog[i]] = "queued"
  /\ \A i, j \in 1..Len(backlog) : backlog[i] = backlog[j] => i = j

\* A session has a holder; once the runtime is dropped, only a running job.
SessionsHeld ==
  \A c \in Conns :
    session[c] # "none" =>
      /\ conn[c] \notin Idle \/ job[c] # "none"
      /\ phase \in {"stopped", "exited"} => job[c] = "running"

\* Nobody runs in a process that has ended, and an answer is lost only when
\* connections are cut off.
Ends ==
  /\ phase = "exited" => Running = {}
  /\ unanswered # {} => aborted
  /\ phase \in {"stopped", "exited"} => \A c \in V1 : conn[c] \in Idle

Local == Types /\ Shape /\ Queue /\ SessionsHeld /\ Ends

IInv ==
  /\ Local
  /\ ConnectionsAccounted /\ RequestsAccounted

-----------------------------------------------------------------------------

\* The sets that are counted are finite.
LEMMA FiniteSets ==
  /\ \A S \in SUBSET Conns : IsFiniteSet(S) /\ Cardinality(S) \in Nat
  /\ \A l : Holding(l) \in SUBSET Conns
  /\ InFlight \in SUBSET Conns
BY ServerAssumption, FS_Subset, FS_CardinalityType DEF ServerAssumption, Holding, InFlight, Conns

\* Removing some connections from a counted set.
LEMMA Removed ==
  ASSUME NEW S \in SUBSET Conns, NEW T \in SUBSET S
  PROVE  Cardinality(S \ T) = Cardinality(S) - Cardinality(T)
<1>1. IsFiniteSet(S) /\ S \cap T = T
  BY FiniteSets
<1> QED
  BY <1>1, FS_Difference

\* Every connection has its listener.
LEMMA ListenerType == \A c : Listener(c) \in Listeners
BY DEF Listener, Listeners

\* A step in which no connection starts or ends keeps the count.
LEMMA SameConnections ==
  ASSUME Types, ConnectionsAccounted, UNCHANGED connection_slots,
         \A c \in Conns : conn'[c] \in Idle <=> conn[c] \in Idle
  PROVE  ConnectionsAccounted'
<1>1. \A l : Holding(l)' = Holding(l)
  BY DEF Holding, Idle
<1> QED
  BY <1>1 DEF ConnectionsAccounted

\* Acquire and the start of a connection.
LEMMA OneOpens ==
  ASSUME Types, ConnectionsAccounted, NEW c \in Conns, conn[c] \in Idle, Acquire(c),
         NEW v, v \notin Idle, conn' = [conn EXCEPT ![c] = v]
  PROVE  ConnectionsAccounted' /\ connection_slots' \in [Listeners -> Int]
<1>1. \A l \in Listeners : Holding(l)' = IF l = Listener(c) THEN Holding(l) \cup {c} ELSE Holding(l)
  BY DEF Types, Holding, Idle
<1>2. c \notin Holding(Listener(c))
  BY DEF Holding, Idle
<1>3. Cardinality(Holding(Listener(c)) \cup {c}) = Cardinality(Holding(Listener(c))) + 1
  BY <1>2, FiniteSets, FS_AddElement
<1>4. \A l \in Listeners : Cardinality(Holding(l)) \in Nat
  BY FiniteSets
<1>5. \A l \in Listeners : connection_slots'[l] =
        IF l = Listener(c) THEN connection_slots[l] - 1 ELSE connection_slots[l]
  BY ListenerType DEF Acquire, Types
<1>6. connection_slots' \in [Listeners -> Int]
  BY ListenerType DEF Acquire, Types
<1>7. ASSUME NEW l \in Listeners
      PROVE  connection_slots'[l] + Cardinality(Holding(l)') = MaxConnections
  <2>1. connection_slots[l] \in Int /\ Cardinality(Holding(l)) \in Nat
    BY <1>4 DEF Types
  <2>2. connection_slots[l] + Cardinality(Holding(l)) = MaxConnections
    BY DEF ConnectionsAccounted
  <2>3. CASE l = Listener(c)
    <3>1. Holding(l)' = Holding(l) \cup {c}
      BY <2>3, <1>1
    <3>2. Cardinality(Holding(l)') = Cardinality(Holding(l)) + 1
      BY <2>3, <3>1, <1>3
    <3> QED
      BY <2>1, <2>2, <2>3, <3>2, <1>5
  <2>4. CASE l # Listener(c)
    BY <2>1, <2>2, <2>4, <1>1, <1>5
  <2> QED
    BY <2>3, <2>4
<1> QED
  BY <1>6, <1>7 DEF ConnectionsAccounted

\* Release and the end of a connection.
LEMMA OneCloses ==
  ASSUME Types, ConnectionsAccounted, NEW c \in Conns, conn[c] \notin Idle, Release(c),
         conn' = [conn EXCEPT ![c] = "closed"]
  PROVE  ConnectionsAccounted' /\ connection_slots' \in [Listeners -> Int]
<1>1. \A l \in Listeners : Holding(l)' = IF l = Listener(c) THEN Holding(l) \ {c} ELSE Holding(l)
  BY DEF Types, Holding, Idle
<1>2. c \in Holding(Listener(c))
  BY DEF Holding, Idle
<1>3. Cardinality(Holding(Listener(c)) \ {c}) = Cardinality(Holding(Listener(c))) - 1
  BY <1>2, FiniteSets, FS_RemoveElement
<1>4. \A l \in Listeners : Cardinality(Holding(l)) \in Nat
  BY FiniteSets
<1>5. \A l \in Listeners : connection_slots'[l] =
        IF l = Listener(c) THEN connection_slots[l] + 1 ELSE connection_slots[l]
  BY ListenerType DEF Release, Types
<1>6. connection_slots' \in [Listeners -> Int]
  BY ListenerType DEF Release, Types
<1>7. ASSUME NEW l \in Listeners
      PROVE  connection_slots'[l] + Cardinality(Holding(l)') = MaxConnections
  <2>1. connection_slots[l] \in Int /\ Cardinality(Holding(l)) \in Nat
    BY <1>4 DEF Types
  <2>2. connection_slots[l] + Cardinality(Holding(l)) = MaxConnections
    BY DEF ConnectionsAccounted
  <2>3. CASE l = Listener(c)
    <3>1. Holding(l)' = Holding(l) \ {c}
      BY <2>3, <1>1
    <3>2. Cardinality(Holding(l)') = Cardinality(Holding(l)) - 1
      BY <2>3, <3>1, <1>3
    <3> QED
      BY <2>1, <2>2, <2>3, <3>2, <1>5
  <2>4. CASE l # Listener(c)
    BY <2>1, <2>2, <2>4, <1>1, <1>5
  <2> QED
    BY <2>3, <2>4
<1> QED
  BY <1>6, <1>7 DEF ConnectionsAccounted

\* A step that starts and ends no v1 job keeps that count.
LEMMA SameRequests ==
  ASSUME RequestsAccounted, UNCHANGED request_slots,
         \A c \in V1 : job'[c] # "none" <=> job[c] # "none"
  PROVE  RequestsAccounted'
<1>1. InFlight' = InFlight
  BY DEF InFlight
<1> QED
  BY <1>1 DEF RequestsAccounted

\* A job that enters the queue was not in it.
LEMMA Enqueue ==
  ASSUME Types, Queue, NEW c \in Conns, job[c] = "none",
         backlog' = Append(backlog, c), job' = [job EXCEPT ![c] = "queued"]
  PROVE  Queue'
<1>1. /\ backlog' \in Seq(Conns) /\ Len(backlog') = Len(backlog) + 1 /\ Len(backlog) \in Nat
      /\ \A i \in 1..Len(backlog) : backlog'[i] = backlog[i] /\ backlog[i] \in Conns
      /\ backlog'[Len(backlog) + 1] = c
  BY DEF Queue
<1>2. \A i \in 1..Len(backlog') : i \in 1..Len(backlog) \/ i = Len(backlog) + 1
  BY <1>1
<1>3. \A i \in 1..Len(backlog) : backlog[i] # c
  BY DEF Queue
<1>4. \A i \in 1..Len(backlog') : job'[backlog'[i]] = "queued"
  BY <1>1, <1>2 DEF Queue, Types
<1>5. \A i, j \in 1..Len(backlog') : backlog'[i] = backlog'[j] => i = j
  BY <1>1, <1>2, <1>3 DEF Queue
<1> QED
  BY <1>1, <1>4, <1>5 DEF Queue

\* A step that leaves the queue alone and touches no queued job.
LEMMA SameQueue ==
  ASSUME Types, Queue, UNCHANGED backlog,
         \A c \in Conns : job[c] = "queued" => job'[c] = "queued"
  PROVE  Queue'
<1>1. \A i \in 1..Len(backlog) : backlog[i] \in Conns
  BY DEF Queue
<1> QED
  BY <1>1 DEF Queue

-----------------------------------------------------------------------------

\* handle_connection returns.
LEMMA ReturnStep ==
  ASSUME IInv, NEW c \in V1, conn[c] \in {"reading", "writing", "parting"}, Return(c),
         UNCHANGED <<phase, job, backlog, request_slots, aborted, unanswered>>
  PROVE  IInv'
<1> USE DEF IInv, Local
<1>1. c \in Conns /\ job[c] = "none" /\ conn[c] \notin Idle
  BY DEF Conns, Shape, Idle
<1>2. /\ conn' = [conn EXCEPT ![c] = "closed"] /\ Release(c)
      /\ session' = [session EXCEPT ![c] = "none"]
  BY <1>1 DEF Return
<1>3. ConnectionsAccounted' /\ connection_slots' \in [Listeners -> Int]
  BY <1>1, <1>2, OneCloses
<1>4. RequestsAccounted'
  BY SameRequests
<1>5. Types'
  BY <1>2, <1>3 DEF Types, States
<1>6. Shape'
  BY <1>1, <1>2 DEF Types, Shape, Idle
<1>7. Queue'
  BY SameQueue
<1>8. SessionsHeld'
  BY <1>1, <1>2 DEF Types, SessionsHeld, Idle
<1>9. Ends'
  BY <1>1, <1>2 DEF Types, Ends, Running, Idle, Conns
<1> QED
  BY <1>3, <1>4, <1>5, <1>6, <1>7, <1>8, <1>9

\* run_connection of a PostgreSQL or HTTP connection returns.
LEMMA EndStep ==
  ASSUME IInv, NEW c \in Conns, c \notin V1, job[c] = "running", EndBlocking(c),
         UNCHANGED <<phase, backlog, request_slots, aborted, unanswered>>
  PROVE  IInv'
<1> USE DEF IInv, Local
<1>1. conn[c] \notin Idle
  BY DEF Shape
<1>2. /\ conn' = [conn EXCEPT ![c] = "closed"] /\ Release(c)
      /\ session' = [session EXCEPT ![c] = "none"] /\ job' = [job EXCEPT ![c] = "none"]
  BY DEF EndBlocking
<1>3. ConnectionsAccounted' /\ connection_slots' \in [Listeners -> Int]
  BY <1>1, <1>2, OneCloses
<1>4. RequestsAccounted'
  BY <1>2, SameRequests DEF Types, Conns
<1>5. Types'
  BY <1>2, <1>3 DEF Types, States
<1>6. Shape'
  BY <1>1, <1>2 DEF Types, Shape, Idle
<1>7. Queue'
  BY <1>2, SameQueue DEF Types
<1>8. SessionsHeld'
  BY <1>1, <1>2 DEF Types, SessionsHeld, Idle
<1>9. Ends'
  BY <1>1, <1>2 DEF Types, Ends, Running, Idle, Conns
<1> QED
  BY <1>3, <1>4, <1>5, <1>6, <1>7, <1>8, <1>9

\* A step that moves a connection between two states of a live one and
\* leaves jobs and permits alone.
LEMMA LiveStep ==
  ASSUME IInv, NEW c \in Conns, conn[c] \notin Idle, NEW v \in States \ Idle,
         conn' = [conn EXCEPT ![c] = v],
         DOMAIN session' = Conns, \A d \in Conns \ {c} : session'[d] = session[d],
         IF c \in V1
         THEN /\ phase \in {"serving", "draining"} /\ job[c] = "none"
              /\ v \notin {"starting", "awaiting"}
         ELSE job[c] = "running",
         UNCHANGED <<phase, job, backlog, slotVars, aborted, unanswered>>
  PROVE  IInv'
<1> USE DEF IInv, Local
<1>3. ConnectionsAccounted'
  BY SameConnections DEF Types, slotVars
<1>4. RequestsAccounted'
  BY SameRequests DEF slotVars
<1>5. Types'
  BY DEF Types, States, slotVars
<1>6. Shape'
  BY DEF Types, Shape, Idle
<1>7. Queue'
  BY SameQueue
<1>8. SessionsHeld'
  BY DEF Types, SessionsHeld, Idle
<1>9. Ends'
  BY DEF Types, Ends, Running, Idle, Conns
<1> QED
  BY <1>3, <1>4, <1>5, <1>6, <1>7, <1>8, <1>9, SMTT(30)

\* A client that is turned away never held anything.
LEMMA TurnedAway ==
  ASSUME IInv, NEW c \in Conns, conn[c] = "new", conn' = [conn EXCEPT ![c] = "closed"],
         phase \in {"serving", "draining"},
         UNCHANGED <<phase, job, backlog, session, slotVars, aborted, unanswered>>
  PROVE  IInv'
<1> USE DEF IInv, Local
<1>3. ConnectionsAccounted'
  BY SameConnections DEF Types, slotVars, Idle
<1>4. RequestsAccounted'
  BY SameRequests DEF slotVars
<1>5. Types'
  BY DEF Types, States, slotVars
<1>6. Shape'
  BY DEF Types, Shape, Idle
<1>7. Queue'
  BY SameQueue
<1>8. SessionsHeld'
  BY DEF Types, SessionsHeld, Idle
<1>9. Ends'
  BY DEF Types, Ends, Running, Idle, Conns
<1> QED
  BY <1>3, <1>4, <1>5, <1>6, <1>7, <1>8, <1>9, SMTT(30)

\* Accepting an asynchronous connection preserves the invariant.
LEMMA AcceptV1Step ==
  ASSUME IInv, NEW c \in Conns, AcceptV1(c)
  PROVE  IInv'
<1> USE DEF IInv, Local
<1>1. CASE connection_slots["v1"] > 0
  <2>1. /\ conn[c] = "new" /\ phase = "serving" /\ c \in V1 /\ job[c] = "none"
        /\ conn' = [conn EXCEPT ![c] = "reading"] /\ Acquire(c)
        /\ session' = [session EXCEPT ![c] = "Idle"]
        /\ UNCHANGED <<phase, job, backlog, request_slots, aborted, unanswered>>
    BY <1>1 DEF AcceptV1, Shape
  <2>3. ConnectionsAccounted' /\ connection_slots' \in [Listeners -> Int]
    <3>1. "reading" \notin Idle /\ conn[c] \in Idle
      BY <2>1 DEF Idle
    <3> QED
      BY <2>1, <3>1, OneOpens
  <2>4. RequestsAccounted'
    BY <2>1, SameRequests
  <2>5. Types'
    BY <2>1, <2>3 DEF Types, States
  <2>6. Shape'
    BY <2>1 DEF Types, Shape, Idle
  <2>7. Queue'
    BY <2>1, SameQueue
  <2>8. SessionsHeld'
    BY <2>1 DEF Types, SessionsHeld, Idle
  <2>9. Ends'
    BY <2>1 DEF Types, Ends, Running, Idle, Conns
  <2> QED
    BY <2>3, <2>4, <2>5, <2>6, <2>7, <2>8, <2>9, SMTT(30)
<1>2. CASE ~ (connection_slots["v1"] > 0)
  BY <1>2, TurnedAway DEF AcceptV1, slotVars
<1> QED
  BY <1>1, <1>2

\* Accepting a connection for the blocking pool preserves it.
LEMMA AcceptBlockingStep ==
  ASSUME IInv, NEW c \in Conns, AcceptBlocking(c)
  PROVE  IInv'
<1> USE DEF IInv, Local
<1>1. CASE connection_slots[Listener(c)] > 0
  <2>1. /\ conn[c] = "new" /\ phase \in {"serving", "draining"} /\ c \notin V1
        /\ conn' = [conn EXCEPT ![c] = "starting"] /\ Acquire(c)
        /\ session' = [session EXCEPT ![c] = IF c \in Pg THEN "Idle" ELSE "none"]
        /\ job' = [job EXCEPT ![c] = "queued"] /\ backlog' = Append(backlog, c)
        /\ UNCHANGED <<phase, request_slots, aborted, unanswered>>
    BY <1>1, ServerAssumption DEF AcceptBlocking, ServerAssumption
  <2>2. job[c] = "none"
    BY <2>1 DEF Shape, Idle, Types
  <2>3. ConnectionsAccounted' /\ connection_slots' \in [Listeners -> Int]
    <3>1. "starting" \notin Idle /\ conn[c] \in Idle
      BY <2>1 DEF Idle
    <3> QED
      BY <2>1, <3>1, OneOpens
  <2>4. RequestsAccounted'
    BY <2>1, SameRequests DEF Types, Conns
  <2>5. Types'
    BY <2>1, <2>3 DEF Types, States
  <2>6. Shape'
    BY <2>1 DEF Types, Shape, Idle
  <2>7. Queue'
    BY <2>1, <2>2, Enqueue
  <2>8. SessionsHeld'
    BY <2>1 DEF Types, SessionsHeld, Idle
  <2>9. Ends'
    BY <2>1 DEF Types, Ends, Running, Idle, Conns
  <2> QED
    BY <2>3, <2>4, <2>5, <2>6, <2>7, <2>8, <2>9
<1>2. CASE ~ (connection_slots[Listener(c)] > 0)
  BY <1>2, TurnedAway DEF AcceptBlocking, slotVars
<1> QED
  BY <1>1, <1>2

\* The second case of dispatch_frame: the request takes its slot.
LEMMA ReadFrameStep ==
  ASSUME IInv, NEW c \in Conns, ReadFrame(c)
  PROVE  IInv'
<1> USE DEF IInv, Local
<1>1. /\ c \in V1 /\ conn[c] = "reading" /\ phase \in {"serving", "draining"}
      /\ job[c] = "none" /\ conn[c] \notin Idle
      /\ UNCHANGED <<phase, session, connection_slots, aborted, unanswered>>
  BY DEF ReadFrame, Shape, Idle
<1>2. CASE conn' = [conn EXCEPT ![c] = "writing"] /\ UNCHANGED <<job, backlog, request_slots>>
  <2>1. DOMAIN session' = Conns /\ \A d \in Conns \ {c} : session'[d] = session[d]
    BY <1>1 DEF Types
  <2>2. "writing" \in States \ Idle /\ UNCHANGED slotVars
    BY <1>1, <1>2 DEF States, Idle, slotVars
  <2> QED
    BY <1>1, <1>2, <2>1, <2>2, LiveStep
<1>3. CASE /\ request_slots' = request_slots - 1
           /\ conn' = [conn EXCEPT ![c] = "awaiting"]
           /\ job' = [job EXCEPT ![c] = "queued"]
           /\ backlog' = Append(backlog, c)
  <2>3. ConnectionsAccounted'
    BY <1>1, <1>3, SameConnections DEF Types, Idle
  <2>4. RequestsAccounted'
    <3>1. InFlight' = InFlight \cup {c} /\ c \notin InFlight
      BY <1>1, <1>3 DEF InFlight, Types, Conns
    <3>2. Cardinality(InFlight') = Cardinality(InFlight) + 1
      BY <3>1, FiniteSets, FS_AddElement
    <3>3. Cardinality(InFlight) \in Nat /\ request_slots \in Int
      BY FiniteSets DEF Types
    <3> QED
      BY <1>3, <3>2, <3>3 DEF RequestsAccounted
  <2>5. Types'
    BY <1>1, <1>3 DEF Types, States
  <2>6. Shape'
    BY <1>1, <1>3 DEF Types, Shape, Idle
  <2>7. Queue'
    BY <1>1, <1>3, Enqueue
  <2>8. SessionsHeld'
    BY <1>1, <1>3 DEF Types, SessionsHeld, Idle
  <2>9. Ends'
    BY <1>1, <1>3 DEF Types, Ends, Running, Idle, Conns
  <2> QED
    BY <2>3, <2>4, <2>5, <2>6, <2>7, <2>8, <2>9
<1> QED
  BY <1>2, <1>3 DEF ReadFrame

\* Writing a response preserves it.
LEMMA WriteResponseStep ==
  ASSUME IInv, NEW c \in Conns, WriteResponse(c)
  PROVE  IInv'
<1> USE DEF IInv, Local
<1>1. /\ c \in V1 /\ phase \in {"serving", "draining"}
      /\ UNCHANGED <<phase, job, backlog, request_slots, aborted, unanswered>>
  BY DEF WriteResponse
<1>2. CASE conn[c] = "writing" /\ conn' = [conn EXCEPT ![c] = "reading"]
           /\ UNCHANGED <<connection_slots, session>>
  <2>1. DOMAIN session' = Conns /\ \A d \in Conns \ {c} : session'[d] = session[d]
    BY <1>2 DEF Types
  <2>2. "reading" \in States \ Idle /\ UNCHANGED slotVars /\ conn[c] \notin Idle
    BY <1>1, <1>2 DEF States, Idle, slotVars
  <2>3. job[c] = "none"
    BY <1>1, <1>2 DEF Shape
  <2> QED
    BY <1>1, <1>2, <2>1, <2>2, <2>3, LiveStep
<1>3. CASE conn[c] = "parting" /\ Return(c)
  BY <1>1, <1>3, ReturnStep
<1> QED
  BY <1>2, <1>3 DEF WriteResponse

\* Giving a connection up preserves it.
LEMMA GiveUpStep ==
  ASSUME IInv, NEW c \in Conns, GiveUp(c)
  PROVE  IInv'
<1> USE DEF IInv, Local
<1>1. DOMAIN session' = Conns /\ \A d \in Conns \ {c} : session'[d] = session[d]
  BY DEF GiveUp, Types
<1>2. "parting" \in States \ Idle /\ conn[c] \notin Idle
  BY DEF States, Idle, GiveUp
<1>3. job[c] = "none"
  BY DEF Shape, GiveUp
<1> QED
  BY <1>1, <1>2, <1>3, LiveStep DEF GiveUp

\* A step of a PostgreSQL or HTTP connection that goes on.
LEMMA BlockingGoesOn ==
  ASSUME IInv, NEW c \in Conns, c \notin V1, job[c] = "running",
         conn' = conn \/ conn' = [conn EXCEPT ![c] = "reading"],
         DOMAIN session' = Conns, \A d \in Conns \ {c} : session'[d] = session[d],
         UNCHANGED <<phase, job, backlog, slotVars, aborted, unanswered>>
  PROVE  IInv'
<1> USE DEF IInv, Local
<1>1. conn[c] \notin Idle /\ conn[c] \in States /\ "reading" \in States \ Idle
  BY DEF Shape, Types, States, Idle
<1>2. \E v \in States \ Idle : conn' = [conn EXCEPT ![c] = v]
  <2>1. CASE conn' = conn
    <3>1. conn = [conn EXCEPT ![c] = conn[c]]
      BY DEF Types
    <3> QED
      BY <2>1, <3>1, <1>1
  <2> QED
    BY <2>1, <1>1
<1> QED
  BY <1>1, <1>2, LiveStep

\* The four steps of a blocking connection preserve it.
LEMMA BlockingStep ==
  ASSUME IInv, NEW c \in Conns, Handshake(c) \/ PgMessage(c) \/ HttpRequest(c) \/ Hangup(c)
  PROVE  IInv'
<1> USE DEF IInv, Local
<1>0. /\ c \notin V1 /\ job[c] = "running"
      /\ UNCHANGED <<phase, backlog, request_slots, aborted, unanswered>>
  BY ServerAssumption DEF ServerAssumption, Handshake, PgMessage, HttpRequest, Hangup
<1>1. ASSUME NEW v, session' = session \/ session' = [session EXCEPT ![c] = v]
      PROVE  DOMAIN session' = Conns /\ \A d \in Conns \ {c} : session'[d] = session[d]
  BY <1>1 DEF Types
<1>2. CASE EndBlocking(c)
  BY <1>0, <1>2, EndStep
<1>3. CASE ~ EndBlocking(c)
  <2>1. CASE Handshake(c)
    BY <1>0, <1>1, <1>3, <2>1, BlockingGoesOn, SMTT(30) DEF Handshake, slotVars
  <2>2. CASE PgMessage(c)
    BY <1>0, <1>1, <1>3, <2>2, BlockingGoesOn, SMTT(30) DEF PgMessage, slotVars
  <2>3. CASE HttpRequest(c)
    BY <1>0, <1>1, <1>3, <2>3, BlockingGoesOn DEF HttpRequest, slotVars
  <2> QED
    BY <1>3, <2>1, <2>2, <2>3 DEF Hangup
<1> QED
  BY <1>2, <1>3

\* The pool takes the first job of its queue.
LEMMA StartJobStep ==
  ASSUME IInv, StartJob
  PROVE  IInv'
<1> USE DEF IInv, Local
<1> DEFINE c == Head(backlog)
<1>1. /\ Len(backlog) \in Nat \ {0} /\ c = backlog[1] /\ c \in Conns
      /\ Tail(backlog) \in Seq(Conns) /\ Len(Tail(backlog)) = Len(backlog) - 1
      /\ \A i \in 1..(Len(backlog) - 1) : Tail(backlog)[i] = backlog[i + 1]
  BY DEF StartJob, Queue
<1>2. /\ phase \in {"serving", "draining"} /\ job' = [job EXCEPT ![c] = "running"]
      /\ backlog' = Tail(backlog)
      /\ UNCHANGED <<phase, conn, session, slotVars, aborted, unanswered>>
  BY DEF StartJob
<1>3. job[c] = "queued"
  BY <1>1 DEF Queue
<1> HIDE DEF c
<1>4. ConnectionsAccounted'
  BY <1>2, SameConnections DEF slotVars
<1>5. RequestsAccounted'
  BY <1>2, <1>3, SameRequests DEF slotVars, Types, Conns
<1>6. Types'
  BY <1>1, <1>2 DEF Types, slotVars
<1>7. Shape'
  BY <1>1, <1>2, <1>3 DEF Types, Shape, Idle
<1>8. Queue'
  <2>1. \A i \in 1..Len(backlog') : /\ i + 1 \in 1..Len(backlog) /\ i + 1 # 1
                                    /\ backlog'[i] = backlog[i + 1]
    BY <1>1, <1>2
  <2>2. \A i \in 1..Len(backlog) : backlog[i] = c => i = 1
    BY <1>1 DEF Queue
  <2>3. \A i \in 1..Len(backlog') : backlog'[i] \in Conns /\ backlog'[i] # c
    BY <1>1, <1>2, <2>1, <2>2, SMTT(30) DEF Queue
  <2>4. \A i \in 1..Len(backlog') : job'[backlog'[i]] = "queued"
    BY <1>2, <2>1, <2>3 DEF Queue, Types
  <2>5. \A i, j \in 1..Len(backlog') : backlog'[i] = backlog'[j] => i = j
    <3> SUFFICES ASSUME NEW i \in 1..Len(backlog'), NEW j \in 1..Len(backlog'),
                        backlog'[i] = backlog'[j]
                 PROVE  i = j
      OBVIOUS
    <3>1. i + 1 = j + 1
      BY <2>1 DEF Queue
    <3> QED
      BY <3>1, <1>1, <1>2
  <2> QED
    BY <1>1, <1>2, <2>4, <2>5 DEF Queue
<1>9. SessionsHeld'
  BY <1>1, <1>2 DEF Types, SessionsHeld, Idle
<1>10. Ends'
  BY <1>2 DEF Ends, Running, Idle, Conns
<1> QED
  BY <1>4, <1>5, <1>6, <1>7, <1>8, <1>9, <1>10

\* A closure ends and gives its slot back.
LEMMA FinishRequestStep ==
  ASSUME IInv, NEW c \in Conns, FinishRequest(c)
  PROVE  IInv'
<1> USE DEF IInv, Local
<1>1. /\ c \in V1 /\ job[c] = "running" /\ job' = [job EXCEPT ![c] = "none"]
      /\ request_slots' = request_slots + 1
      /\ conn' = [conn EXCEPT ![c] = IF conn[c] = "awaiting" THEN "writing" ELSE conn[c]]
      /\ UNCHANGED <<phase, backlog, connection_slots, aborted, unanswered>>
  BY DEF FinishRequest
<1>2. PICK status \in SessionAfter(c) : session' = [session EXCEPT ![c] = status]
  BY DEF FinishRequest
<1>3. conn[c] \in {"awaiting", "closed"} /\ (conn[c] = "closed" => status = "none")
  BY <1>1, <1>2 DEF Shape, SessionAfter
<1>4. ConnectionsAccounted'
  BY <1>1, SameConnections DEF Types, Idle
<1>5. RequestsAccounted'
  <2>1. InFlight' = InFlight \ {c} /\ c \in InFlight
    BY <1>1 DEF InFlight, Types, Conns
  <2>2. Cardinality(InFlight') = Cardinality(InFlight) - 1
    BY <2>1, FiniteSets, FS_RemoveElement
  <2>3. Cardinality(InFlight) \in Nat /\ request_slots \in Int
    BY FiniteSets DEF Types
  <2> QED
    BY <1>1, <2>2, <2>3 DEF RequestsAccounted
<1>6. Types'
  BY <1>1, <1>2, <1>3 DEF Types, States
<1>7. Shape'
  BY <1>1, <1>3 DEF Types, Shape, Idle
<1>8. Queue'
  BY <1>1, SameQueue DEF Types
<1>9. SessionsHeld'
  <2>1. phase \in {"stopped", "exited"} => conn[c] = "closed"
    BY <1>1, <1>3 DEF Ends, Idle
  <2> QED
    BY <1>1, <1>2, <1>3, <2>1 DEF Types, SessionsHeld, Idle
<1>10. Ends'
  BY <1>1, <1>3 DEF Types, Ends, Running, Idle, Conns
<1> QED
  BY <1>4, <1>5, <1>6, <1>7, <1>8, <1>9, <1>10

\* The runtime is dropped with every v1 connection that is still open.
LEMMA DropStep ==
  ASSUME IInv, DropRuntime(OpenV1), phase \in {"serving", "draining"},
         \/ aborted' = TRUE
         \/ OpenV1 = {} /\ UNCHANGED aborted
  PROVE  IInv'
<1> USE DEF IInv, Local
<1> DEFINE gone == OpenV1 \cup {c \in Pg \cup Http : job[c] = "queued"}
           Of(l) == {c \in gone : Listener(c) = l}
           queued == {c \in V1 : job[c] = "queued"}
<1>1. /\ phase' = "stopped" /\ backlog' = << >>
      /\ conn' = [c \in Conns |-> IF c \in gone THEN "closed" ELSE conn[c]]
      /\ job' = [c \in Conns |-> IF job[c] = "queued" THEN "none" ELSE job[c]]
      /\ session' = [c \in Conns |-> IF job[c] # "running" THEN "none" ELSE session[c]]
      /\ connection_slots' = [l \in DOMAIN connection_slots |->
                                connection_slots[l] + Cardinality(Of(l))]
      /\ request_slots' = request_slots + Cardinality(queued)
      /\ unanswered' = unanswered \cup {c \in OpenV1 : conn[c] \in {"awaiting", "writing"}}
  BY SMTT(30) DEF DropRuntime
<1>2. gone \subseteq Conns /\ \A c \in gone : conn[c] \notin Idle
  BY ServerAssumption, SMTT(30) DEF OpenV1, Conns, Shape, Idle, ServerAssumption
<1>3. \A l \in Listeners : Of(l) \subseteq Holding(l) /\ Holding(l)' = Holding(l) \ Of(l)
  BY <1>1, <1>2 DEF Holding, Idle
<1>4. queued \subseteq InFlight /\ InFlight' = InFlight \ queued
  BY <1>1 DEF InFlight, Conns, Types
<1> HIDE DEF gone, Of, queued
<1>5. /\ \A l \in Listeners : Cardinality(Of(l)) \in Nat /\ Cardinality(Holding(l)) \in Nat
      /\ Cardinality(queued) \in Nat /\ Cardinality(InFlight) \in Nat
  <2>1. \A l \in Listeners : Of(l) \in SUBSET Conns /\ Holding(l) \in SUBSET Conns
    BY <1>3, FiniteSets
  <2>2. queued \in SUBSET Conns /\ InFlight \in SUBSET Conns
    BY <1>4, FiniteSets
  <2> QED
    BY <2>1, <2>2, FiniteSets
<1>6. ConnectionsAccounted'
  <2> SUFFICES ASSUME NEW l \in Listeners
               PROVE  connection_slots'[l] + Cardinality(Holding(l)') = MaxConnections
    BY DEF ConnectionsAccounted
  <2>1. Cardinality(Holding(l)') = Cardinality(Holding(l)) - Cardinality(Of(l))
    BY <1>3, FiniteSets, Removed
  <2>2. connection_slots'[l] = connection_slots[l] + Cardinality(Of(l))
    BY <1>1 DEF Types
  <2>3. /\ connection_slots[l] \in Int /\ Cardinality(Of(l)) \in Nat
        /\ Cardinality(Holding(l)) \in Nat
        /\ connection_slots[l] + Cardinality(Holding(l)) = MaxConnections
    BY <1>5 DEF Types, ConnectionsAccounted
  <2> QED
    BY <2>1, <2>2, <2>3
<1>7. RequestsAccounted'
  <2>1. Cardinality(InFlight') = Cardinality(InFlight) - Cardinality(queued)
    BY <1>4, FiniteSets, Removed
  <2> QED
    BY <1>1, <1>5, <2>1 DEF Types, RequestsAccounted
<1>8. Types'
  <2>1. \A l \in Listeners : connection_slots[l] + Cardinality(Of(l)) \in Int
    BY <1>5 DEF Types
  <2>2. connection_slots' = [l \in Listeners |-> connection_slots[l] + Cardinality(Of(l))]
    BY <1>1 DEF Types
  <2>3. connection_slots' \in [Listeners -> Int]
    BY <2>1, <2>2
  <2>4. conn' \in [Conns -> States] /\ job' \in [Conns -> {"none", "queued", "running"}]
    BY <1>1 DEF Types, States
  <2>5. request_slots' \in Int
    BY <1>1, <1>5 DEF Types
  <2>6. DOMAIN session' = Conns
    BY <1>1
  <2>7. aborted' \in BOOLEAN
    BY DEF Types
  <2>8. phase' \in {"serving", "draining", "stopped", "exited"}
    BY <1>1
  <2> QED
    BY <2>3, <2>4, <2>5, <2>6, <2>7, <2>8, Zenon DEF Types
<1>9. Shape'
  BY <1>1 DEF gone, OpenV1, Types, Shape, Idle, Conns
<1>10. Queue'
  BY <1>1, SMTT(30) DEF Queue
<1>11. SessionsHeld'
  BY <1>1 DEF gone, OpenV1, Types, SessionsHeld, Shape, Idle, Conns
<1>12. Ends'
  BY <1>1 DEF gone, OpenV1, Types, Ends, Idle, Conns
<1> QED
  BY <1>6, <1>7, <1>8, <1>9, <1>10, <1>11, <1>12

\* Shutdown, Exit and stuttering move no connection.
LEMMA PhaseStep ==
  ASSUME IInv, Shutdown \/ Exit \/ UNCHANGED vars
  PROVE  IInv'
<1> USE DEF IInv, Local
<1>1. /\ UNCHANGED <<conn, job, backlog, session, slotVars, aborted, unanswered>>
      /\ phase' \in {"serving", "draining", "stopped", "exited"}
      /\ phase' \in {"stopped", "exited"} => phase \in {"stopped", "exited"}
      /\ phase \in {"stopped", "exited"} => phase' \in {"stopped", "exited"}
      /\ phase' = "exited" => Running = {}
  BY DEF Shutdown, Exit, vars, Types, Ends
<1>2. ConnectionsAccounted' /\ RequestsAccounted'
  BY <1>1, SameConnections, SameRequests, SMTT(30) DEF slotVars
<1>3. Types' /\ Queue'
  BY <1>1 DEF Types, Queue, slotVars
<1>4. Shape' /\ SessionsHeld'
  BY <1>1 DEF Shape, SessionsHeld
<1>5. Ends'
  BY <1>1 DEF Ends, Running
<1> QED
  BY <1>2, <1>3, <1>4, <1>5

\* The initial states satisfy the invariant.
LEMMA InitIInv == Init => IInv
<1> SUFFICES ASSUME Init PROVE IInv
  OBVIOUS
<1>0. MaxConnections \in Int /\ MaxInFlight \in Int
  BY ServerAssumption DEF ServerAssumption
<1>1. Types
  <2>1. conn \in [Conns -> States] /\ job \in [Conns -> {"none", "queued", "running"}]
    BY DEF Init, States
  <2>2. connection_slots \in [Listeners -> Int] /\ request_slots \in Int
    BY <1>0 DEF Init, Listeners
  <2> QED
    BY <2>1, <2>2 DEF Init, Types
<1>7. Shape /\ SessionsHeld /\ Ends
  BY DEF Init, Shape, SessionsHeld, Ends, Idle, Running, Conns
<1>2. Queue
  BY DEF Init, Queue
<1>3. \A l : Holding(l) = {}
  BY DEF Init, Holding
<1>4. InFlight = {}
  BY DEF Init, InFlight, Conns
<1>5. Cardinality({}) = 0
  BY FS_EmptySet
<1>6. ConnectionsAccounted /\ RequestsAccounted
  <2>1. \A l \in Listeners : connection_slots[l] = MaxConnections
    BY DEF Init, Listeners
  <2>2. request_slots = MaxInFlight
    BY DEF Init
  <2>3. ConnectionsAccounted
    BY <1>0, <1>3, <1>5, <2>1 DEF ConnectionsAccounted
  <2>4. RequestsAccounted
    BY <1>0, <1>4, <1>5, <2>2 DEF RequestsAccounted
  <2> QED
    BY <2>3, <2>4
<1> QED
  BY <1>1, <1>2, <1>6, <1>7 DEF IInv, Local

\* Every step preserves it.
LEMMA NextIInv == IInv /\ [Next]_vars => IInv'
<1> SUFFICES ASSUME IInv, [Next]_vars PROVE IInv'
  OBVIOUS
<1>1. ASSUME NEW c \in Conns, ClientStep(c) PROVE IInv'
  <2>1. CASE AcceptV1(c) \/ ReadFrame(c) \/ GiveUp(c) \/ WriteResponse(c) \/ AcceptBlocking(c)
    BY <2>1, AcceptV1Step, ReadFrameStep, GiveUpStep, WriteResponseStep, AcceptBlockingStep
  <2>2. CASE Eof(c)
    BY <2>2, ReturnStep DEF Eof
  <2>3. CASE WriteError(c)
    BY <2>3, ReturnStep DEF WriteError
  <2>4. CASE Handshake(c) \/ PgMessage(c) \/ HttpRequest(c) \/ Hangup(c)
    BY <2>4, BlockingStep
  <2> QED
    BY <1>1, <2>1, <2>2, <2>3, <2>4 DEF ClientStep
<1>2. ASSUME NEW c \in Conns, ServerStep(c) PROVE IInv'
  BY <1>2, ReturnStep, FinishRequestStep DEF ServerStep, NoticeShutdown
<1>3. CASE StartJob
  BY <1>3, StartJobStep
<1>4. CASE Drained
  BY <1>4, DropStep DEF Drained
<1>5. CASE GraceExpires \/ AcceptError
  BY <1>5, DropStep DEF GraceExpires, AcceptError
<1>6. CASE Shutdown \/ Exit \/ UNCHANGED vars
  BY <1>6, PhaseStep
<1> QED
  BY <1>1, <1>2, <1>3, <1>4, <1>5, <1>6 DEF Next

\* The inductive invariant always holds.
LEMMA IInvAlways == Spec => []IInv
BY InitIInv, NextIInv, PTL DEF Spec

-----------------------------------------------------------------------------

\* However many clients connect and however their connections end, every
\* permit is either free or held by exactly one connection, and every
\* request slot by exactly one closure.
THEOREM SlotsAccountedAlways == Spec => []SlotsAccounted
<1>1. IInv => SlotsAccounted
  BY DEF IInv, ConnectionsAccounted, RequestsAccounted, SlotsAccounted, Listeners
<1> QED
  BY <1>1, IInvAlways, PTL

\* An open transaction always belongs to a connection or to a closure that is
\* running, and to none once the process has ended.
THEOREM TransactionsOwnedAlways == Spec => []TransactionsOwned
<1>1. IInv => TransactionsOwned
  <2> SUFFICES ASSUME IInv, NEW c \in Conns, session[c] = "InTransaction"
               PROVE  /\ phase # "exited"
                      /\ conn[c] \in {"reading", "awaiting", "writing", "parting"}
                         \/ job[c] # "none"
    BY DEF TransactionsOwned
  <2>1. /\ conn[c] \notin Idle \/ job[c] # "none"
        /\ phase \in {"stopped", "exited"} => job[c] = "running"
    BY DEF IInv, Local, SessionsHeld
  <2>2. phase # "exited"
    BY <2>1 DEF IInv, Local, Ends, Running
  <2>3. conn[c] = "starting" => job[c] # "none"
    BY DEF IInv, Local, Shape, Idle
  <2> QED
    BY <2>1, <2>2, <2>3 DEF IInv, Local, Types, States, Idle
<1> QED
  BY <1>1, IInvAlways, PTL

\* A v1 request whose answer is lost to the end of the server is lost to an
\* abort (the grace period's or that of a failed accept): a shutdown that
\* drains loses none.
THEOREM GracefulMeansAnsweredAlways == Spec => []GracefulMeansAnswered
<1>1. IInv => GracefulMeansAnswered
  BY DEF IInv, Local, Ends, GracefulMeansAnswered
<1> QED
  BY <1>1, IInvAlways, PTL
=============================================================================
