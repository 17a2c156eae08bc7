---------------------------- MODULE BblfshSession ----------------------------
(***************************************************************************)
(* session.go: the connection of a session to the bblfsh server.  The      *)
(* goroutines that read the partitions of a query share the session; they  *)
(* all ask it for a client (Session.BblfshClient), which is created, kept  *)
(* and replaced under bblfshMu, and then use that client without the lock. *)
(*                                                                         *)
(* bblfsh's client and the gRPC connection below it are not part of the    *)
(* repository.  From the way session.go uses them: NewClient waits until   *)
(* it is connected or fails; GetState reports the state the connection     *)
(* happens to be in; a connection that was closed stays in state Shutdown  *)
(* and cannot be closed again.                                             *)
(***************************************************************************)
EXTENDS Naturals

CONSTANTS
  Proc,         \* the goroutines of the session's queries
  Client,       \* clients; one that nobody holds any more is used again
  None,         \* Go's nil
  MaxAttempts   \* bblfshMaxAttempts

ASSUME NoneIsNoClient == None \notin Client \union Proc
ASSUME MaxAttemptsIsPositive == MaxAttempts \in Nat \ {0}

VARIABLES
  up,        \* the server accepts connections
  state,     \* per client: the state of its connection
  mutex,     \* who holds bblfshMu, or None
  client,    \* s.bblfshClient
  pc,        \* per goroutine: where in BblfshClient it is
  attempts,  \* the counters of the goroutine that holds the lock
  totalAttempts,
  got,       \* per goroutine: the client it was given
  closed,    \* "no"; or what Session.Close found: "client" or "nil"
  excused    \* per goroutine: during its call the server was down at some time,
             \* or the attempts were used up

vars == <<up, state, mutex, client, pc, attempts, totalAttempts, got, closed, excused>>

counters == <<attempts, totalAttempts>>

Live == {"idle", "connecting", "ready", "failure"}

TypeOK ==
  /\ up \in BOOLEAN
  /\ state \in [Client -> Live \union {"shutdown"}]
  /\ mutex \in Proc \union {None}
  /\ client \in Client \union {None}
  /\ pc \in [Proc -> {"idle", "lock", "first", "look", "close", "reconnect", "client", "error"}]
  /\ attempts \in 0..(MaxAttempts + 1)
  /\ totalAttempts \in 0..(3 * MaxAttempts + 1)
  /\ got \in [Proc -> Client \union {None}]
  /\ closed \in {"no", "client", "nil"}
  /\ excused \in [Proc -> BOOLEAN]

Init ==
  /\ up \in BOOLEAN
  /\ state = [c \in Client |-> "shutdown"]
  /\ mutex = None
  /\ client = None
  /\ pc = [p \in Proc |-> "idle"]
  /\ attempts = 0
  /\ totalAttempts = 0
  /\ got = [p \in Proc |-> None]
  /\ closed = "no"
  /\ excused = [p \in Proc |-> FALSE]

-----------------------------------------------------------------------------
(* The return statements of BblfshClient; the deferred Unlock. *)
ReturnClient(p) ==
  /\ pc' = [pc EXCEPT ![p] = "client"]
  /\ got' = [got EXCEPT ![p] = client]
  /\ mutex' = None

ReturnError(p) ==
  /\ pc' = [pc EXCEPT ![p] = "error"]
  /\ mutex' = None
  /\ UNCHANGED got

(* connectToBblfsh: a client in state Ready, or an error. *)
NewClient ==
  \E c \in Client :
    /\ up /\ c # client /\ \A p \in Proc : got[p] # c
    /\ state[c] = "shutdown"
    /\ client' = c
    /\ state' = [state EXCEPT ![c] = "ready"]

Call(p) ==
  /\ pc[p] = "idle"
  /\ pc' = [pc EXCEPT ![p] = "lock"]
  /\ excused' = [excused EXCEPT ![p] = ~up]
  /\ UNCHANGED <<up, state, mutex, client, counters, got, closed>>

Lock(p) ==
  /\ pc[p] = "lock" /\ mutex = None
  /\ mutex' = p
  /\ pc' = [pc EXCEPT ![p] = IF client = None THEN "first" ELSE "look"]
  /\ attempts' = 0
  /\ totalAttempts' = 0
  /\ UNCHANGED <<up, state, client, got, closed, excused>>

(* A slip: the test of the error is the wrong way round. *)
SlipFirst(p) ==
  /\ pc[p] = "first"
  /\ NewClient
  /\ ReturnError(p)
  /\ UNCHANGED <<up, counters, closed, excused>>

(* The first client of the session. *)
First(p) ==
  /\ pc[p] = "first"
  /\ \/ /\ NewClient
        /\ pc' = [pc EXCEPT ![p] = "look"]
        /\ UNCHANGED <<mutex, got>>
     \/ /\ ~up
        /\ ReturnError(p)
        /\ UNCHANGED <<client, state>>
  /\ UNCHANGED <<up, counters, closed, excused>>

(* A slip: waiting for the connection is not counted. *)
SlipWait(p) == attempts' = 1 /\ UNCHANGED <<totalAttempts, pc, mutex, got>>

(* The connection is being established: sleep and look again. *)
Wait(p) ==
  /\ attempts' = 1
  /\ totalAttempts' = totalAttempts + 1
  /\ UNCHANGED <<pc, mutex, got>>

(* One iteration of the loop, up to the state of the connection. *)
Look(p) ==
  /\ pc[p] = "look"
  /\ \/ /\ attempts > MaxAttempts \/ totalAttempts > 3 * MaxAttempts
        /\ ReturnError(p)
        /\ excused' = [excused EXCEPT ![p] = TRUE]
        /\ UNCHANGED counters
     \/ /\ attempts <= MaxAttempts /\ totalAttempts <= 3 * MaxAttempts
        /\ \/ /\ state[client] \in {"ready", "idle"}
              /\ ReturnClient(p)
              /\ UNCHANGED counters
           \/ /\ state[client] = "connecting"
              /\ Wait(p)
           \/ /\ state[client] \in {"failure", "shutdown"}
              /\ pc' = [pc EXCEPT ![p] = "close"]
              /\ UNCHANGED <<counters, mutex, got>>
        /\ UNCHANGED excused
  /\ UNCHANGED <<up, state, client, closed>>

(* A slip: the error of Close is ignored. *)
SlipCloseClient(p) ==
  /\ pc[p] = "close"
  /\ state' = [state EXCEPT ![client] = "shutdown"]
  /\ pc' = [pc EXCEPT ![p] = "reconnect"]
  /\ UNCHANGED <<up, client, mutex, counters, got, closed, excused>>

(* A slip: the broken client is replaced without being closed. *)
SlipDropClient(p) ==
  /\ pc[p] = "close"
  /\ pc' = [pc EXCEPT ![p] = "reconnect"]
  /\ UNCHANGED <<up, state, client, mutex, counters, got, closed, excused>>

(* The connection is broken: close it, whatever it has become since. *)
CloseClient(p) ==
  /\ pc[p] = "close"
  /\ \/ /\ state[client] = "shutdown"
        /\ ReturnError(p)
        /\ UNCHANGED state
     \/ /\ state[client] # "shutdown"
        /\ state' = [state EXCEPT ![client] = "shutdown"]
        /\ pc' = [pc EXCEPT ![p] = "reconnect"]
        /\ UNCHANGED <<mutex, got>>
  /\ UNCHANGED <<up, client, counters, closed, excused>>

(* A slip: an attempt is counted twice. *)
SlipReconnect(p) ==
  /\ pc[p] = "reconnect"
  /\ NewClient
  /\ pc' = [pc EXCEPT ![p] = "look"]
  /\ attempts' = attempts + 2
  /\ UNCHANGED <<up, totalAttempts, mutex, got, closed, excused>>

(* ... and open a new one; on an error the closed client stays the session's. *)
Reconnect(p) ==
  /\ pc[p] = "reconnect"
  /\ \/ /\ NewClient
        /\ pc' = [pc EXCEPT ![p] = "look"]
        /\ attempts' = attempts + 1
        /\ totalAttempts' = totalAttempts + 1
        /\ UNCHANGED <<mutex, got>>
     \/ /\ ~up
        /\ ReturnError(p)
        /\ UNCHANGED <<client, state, counters>>
  /\ UNCHANGED <<up, closed, excused>>

(* The goroutine is through with its client, or with the error. *)
Done(p) ==
  /\ pc[p] \in {"client", "error"}
  /\ pc' = [pc EXCEPT ![p] = "idle"]
  /\ got' = [got EXCEPT ![p] = None]
  /\ UNCHANGED <<up, state, mutex, client, counters, closed, excused>>

(* Session.Close. *)
Close ==
  /\ mutex = None /\ closed = "no"
  /\ closed' = IF client = None THEN "nil" ELSE "client"
  /\ state' = [c \in Client |-> IF c = client THEN "shutdown" ELSE state[c]]
  /\ UNCHANGED <<up, mutex, client, pc, counters, got, excused>>

(* The server comes and goes. *)
Server ==
  /\ up' = ~up
  /\ excused' = [p \in Proc |-> excused[p] \/ ~up']
  /\ UNCHANGED <<state, mutex, client, pc, counters, got, closed>>

(* The connection changes its state by itself; it only breaks, and only fails
   to be established, while the server is down. *)
Connection ==
  /\ \E c \in Client, s \in Live :
       /\ \/ state[c] = "ready" /\ s = "idle"
          \/ state[c] = "ready" /\ s = "connecting" /\ ~up
          \/ state[c] = "idle" /\ s = "connecting"
          \/ state[c] = "connecting" /\ s = "ready" /\ up
          \/ state[c] = "connecting" /\ s = "failure" /\ ~up
          \/ state[c] = "failure" /\ s = "connecting"
       /\ state' = [state EXCEPT ![c] = s]
  /\ UNCHANGED <<up, mutex, client, pc, counters, got, closed, excused>>

Step(p) == First(p) \/ Look(p) \/ CloseClient(p) \/ Reconnect(p)

Next ==
  \/ \E p \in Proc : Call(p) \/ Lock(p) \/ Step(p) \/ Done(p)
  \/ Close \/ Server \/ Connection

Spec == Init /\ [][Next]_vars

(* Goroutines run; sync.Mutex hands itself over to a goroutine that has been
   waiting, so no one waits for ever while others come and go. *)
Fairness == \A p \in Proc : WF_vars(Step(p)) /\ SF_vars(Lock(p))

FairSpec == Spec /\ Fairness

-----------------------------------------------------------------------------
(* No connection is left behind: whatever is not closed is the session's
   client, even while one is being replaced. *)
OneLiveConnection ==
  \A c \in Client : state[c] \in Live => c = client

(* A session that was closed with a client never has a connection again,
   although its goroutines may still ask for one. *)
ClosedStaysClosed ==
  closed = "client" => \A c \in Client : state[c] = "shutdown"

(* Every call ends, even while the connection never gets ready. *)
CallsEnd == \A p \in Proc : pc[p] = "lock" ~> pc[p] \in {"client", "error"}

(* A call fails only for a cause: the server was down at some time during the
   call, the attempts were used up, the session was closed, or an earlier
   reconnection failed and left the session with a closed client, which
   nothing replaces any more. *)
ErrorsHaveACause ==
  \A p \in Proc :
    pc[p] = "error" =>
      excused[p] \/ closed # "no" \/ (client # None /\ state[client] = "shutdown")

-----------------------------------------------------------------------------
(* The strengthening that makes the safety properties inductive: only the
   holder of bblfshMu is inside BblfshClient, and what it has found out about
   the client stays true while it holds the lock. *)
Inside == {"first", "look", "close", "reconnect"}

InsideHoldsMutex ==
  \A p \in Proc : pc[p] \in Inside => mutex = p

InsideKnowsClient ==
  \A p \in Proc :
    /\ pc[p] = "first" => client = None
    /\ pc[p] \in {"look", "close", "reconnect"} => client # None
    /\ pc[p] = "reconnect" => state[client] = "shutdown" /\ closed # "client"
    /\ pc[p] \in {"close", "reconnect"} =>
         attempts <= MaxAttempts /\ totalAttempts <= 3 * MaxAttempts

ClosedKeepsClient == closed = "client" => client # None

IInv ==
  /\ TypeOK
  /\ OneLiveConnection
  /\ ClosedStaysClosed
  /\ InsideHoldsMutex
  /\ InsideKnowsClient
  /\ ClosedKeepsClient
=============================================================================
