----------------------------- MODULE CommitLog -----------------------------
(***************************************************************************)
(* What the group committer promises its callers: a log that only grows,   *)
(* to which the pages of every acknowledged call were added once, in one   *)
(* step between the call and its answer, at the LSNs the answer names.     *)
(***************************************************************************)
EXTENDS Integers, Sequences

CONSTANTS Clients, Operations

VARIABLES
  log,      \* one element per LSN: the call whose page it is, or a marker
  synced,   \* the LSNs a sync has covered
  broken,   \* a write failed: no later call is acknowledged
  asked,    \* client -> the operation it waits for, or Nothing
  number,   \* client -> how many calls it has made
  outcome   \* client -> what its last call got

logVars == <<log, synced, broken, asked, number, outcome>>

Nothing == [kind |-> "nothing", pages |-> 0]

Id(c) == <<c, number[c]>>
Positions(l, id) == {i \in DOMAIN l : l[i] = id}

\* lsns lists the positions of the pages of call id in l, in order.
Locates(lsns, l, id) ==
  /\ {lsns[i] : i \in DOMAIN lsns} = Positions(l, id)
  /\ \A i, j \in DOMAIN lsns : i < j => lsns[i] < lsns[j]

\* Only calls of the clients in S, and markers, are added.
Extends(l, longer, S) ==
  /\ Len(longer) >= Len(l)
  /\ SubSeq(longer, 1, Len(l)) = l
  /\ \A i \in Len(l) + 1 .. Len(longer) :
       longer[i] \in {Id(c) : c \in S} \cup {<<"marker", 0>>}

Asking(kinds) == {c \in Clients : asked[c].kind \in kinds}
Writing == Asking({"commit", "relaxed", "append"})

LogInit ==
  /\ log = << >> /\ synced = {} /\ broken = FALSE
  /\ asked = [c \in Clients |-> Nothing]
  /\ number = [c \in Clients |-> 0]
  /\ outcome = [c \in Clients |-> [kind |-> "none", lsns |-> << >>]]

Ask(c) ==
  /\ asked[c] = Nothing
  /\ \E op \in Operations : asked' = [asked EXCEPT ![c] = op]
  /\ number' = [number EXCEPT ![c] = @ + 1]
  /\ UNCHANGED <<log, synced, broken, outcome>>

\* The calls of S, and no other, are decided.
Decided(S) ==
  /\ asked' = [c \in Clients |-> IF c \in S THEN Nothing ELSE asked[c]]
  /\ \A c \in Clients \ S : outcome'[c] = outcome[c]
  /\ UNCHANGED number

\* All of S is in the log, and on disk if one of them asked for that.
Commit(S) ==
  /\ S # {} /\ S \subseteq Writing /\ ~ broken
  /\ Extends(log, log', S)
  /\ \A c \in S : /\ outcome'[c].kind = "ok"
                  /\ Len(outcome'[c].lsns) = asked[c].pages
                  /\ Locates(outcome'[c].lsns, log', Id(c))
  /\ synced \subseteq synced'
  /\ (\E c \in S : asked[c].kind # "relaxed") =>
       \A c \in S : Positions(log', Id(c)) \subseteq synced'
  /\ UNCHANGED broken
  /\ Decided(S)

\* None of S is acknowledged; some of their pages may be in the log.
Fail(S) ==
  /\ S # {} /\ S \subseteq Writing
  /\ IF broken THEN UNCHANGED log ELSE Extends(log, log', S)
  /\ broken' = TRUE
  /\ \A c \in S : outcome'[c].kind = "error"
  /\ UNCHANGED synced
  /\ Decided(S)

\* A checkpoint, asked for by the client in S or by nobody: everything is on
\* disk afterwards.
Checkpoint(S) ==
  /\ S \subseteq Asking({"checkpoint"})
  /\ \/ /\ ~ broken /\ UNCHANGED broken
        /\ log' = Append(log, <<"marker", 0>>) /\ synced' = DOMAIN log'
        /\ \A c \in S : outcome'[c] = [kind |-> "ok", lsns |-> <<Len(log')>>]
     \/ /\ broken' = TRUE /\ UNCHANGED <<log, synced>>
        /\ \A c \in S : outcome'[c].kind = "error"
  /\ Decided(S)

\* The committer has shut down; the call left no trace.
Refuse(c) ==
  /\ asked[c] # Nothing
  /\ outcome' = [outcome EXCEPT ![c] = [kind |-> "stopped", lsns |-> << >>]]
  /\ UNCHANGED <<log, synced, broken>>
  /\ Decided({c})

LogNext ==
  \/ \E c \in Clients : Ask(c) \/ Refuse(c)
  \/ \E S \in SUBSET Clients : Commit(S) \/ Fail(S) \/ Checkpoint(S)

LogSpec == LogInit /\ [][LogNext]_logVars
=============================================================================
