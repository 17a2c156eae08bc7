------------------------- MODULE BblfshSessionProofs -------------------------
(* Proofs about BblfshSession, for any number of goroutines, any set of
   clients and any positive bound on the attempts. *)
EXTENDS BblfshSession, TLAPS

(* The initial states satisfy the inductive invariant. *)
LEMMA InitIsInvariant == Init => IInv
<1> SUFFICES ASSUME Init PROVE IInv
  OBVIOUS
<1>1. TypeOK
  BY MaxAttemptsIsPositive DEF Init, TypeOK
<1>2. OneLiveConnection
  BY DEF Init, OneLiveConnection, Live
<1> QED
  BY <1>1, <1>2
  DEF Init, IInv, ClosedStaysClosed, InsideHoldsMutex, Inside, InsideKnowsClient,
      ClosedKeepsClient

(* connectToBblfsh opens one connection and makes it the session's, so none is
   left behind when the client before it is closed or there is none. *)
LEMMA NewClientKeepsOne ==
  ASSUME TypeOK, OneLiveConnection, NewClient,
         client # None => state[client] = "shutdown"
  PROVE  /\ client' \in Client
         /\ state' \in [Client -> Live \union {"shutdown"}]
         /\ OneLiveConnection'
<1>1. PICK c \in Client :
        /\ client' = c
        /\ state' = [state EXCEPT ![c] = "ready"]
  BY DEF NewClient
<1>2. client \in Client \union {None} /\ state \in [Client -> Live \union {"shutdown"}]
  BY DEF TypeOK
<1>3. state' \in [Client -> Live \union {"shutdown"}]
  BY <1>1, <1>2 DEF Live
<1>4. ASSUME NEW d \in Client, state'[d] \in Live PROVE d = client'
  <2>1. CASE d = c
    BY <1>1, <2>1
  <2>2. CASE d # c
    <3>1. state[d] \in Live
      BY <1>1, <1>2, <1>4, <2>2
    <3>2. d = client
      BY <3>1 DEF OneLiveConnection
    <3> QED
      BY <3>1, <3>2, NoneIsNoClient DEF Live
  <2> QED
    BY <2>1, <2>2
<1> QED
  BY <1>1, <1>3, <1>4 DEF OneLiveConnection

(* Every step of the goroutines, of Session.Close and of the environment keeps
   the inductive invariant. *)
LEMMA StepKeepsInvariant == IInv /\ [Next]_vars => IInv'
<1> SUFFICES ASSUME IInv, [Next]_vars PROVE IInv'
  OBVIOUS
<1> USE DEF Inside
<1>0. TypeOK /\ OneLiveConnection /\ ClosedStaysClosed /\ InsideHoldsMutex
      /\ InsideKnowsClient /\ ClosedKeepsClient
  BY DEF IInv
<1>1. ASSUME NEW p \in Proc, Call(p) PROVE IInv'
  <2>1. TypeOK'
    BY <1>0, <1>1 DEF TypeOK, Call, counters
  <2> QED
    BY <1>0, <1>1, <2>1
    DEF IInv, Call, counters, TypeOK, OneLiveConnection, ClosedStaysClosed,
        InsideHoldsMutex, InsideKnowsClient, ClosedKeepsClient
<1>2. ASSUME NEW p \in Proc, Lock(p) PROVE IInv'
  <2>1. TypeOK'
    BY <1>0, <1>2, MaxAttemptsIsPositive DEF TypeOK, Lock
  <2>2. \A q \in Proc : q # p => pc'[q] \notin Inside
    BY <1>0, <1>2, NoneIsNoClient DEF TypeOK, Lock, InsideHoldsMutex
  <2>3. pc'[p] = (IF client = None THEN "first" ELSE "look") /\ mutex' = p
    BY <1>0, <1>2 DEF TypeOK, Lock
  <2>4. InsideHoldsMutex' /\ InsideKnowsClient'
    BY <1>2, <2>2, <2>3 DEF Lock, InsideHoldsMutex, InsideKnowsClient
  <2> QED
    BY <1>0, <1>2, <2>1, <2>4
    DEF IInv, Lock, OneLiveConnection, ClosedStaysClosed, ClosedKeepsClient
<1>3. ASSUME NEW p \in Proc, First(p) PROVE IInv'
  <2>1. mutex = p /\ client = None /\ closed # "client"
    BY <1>0, <1>3 DEF First, InsideHoldsMutex, InsideKnowsClient, ClosedKeepsClient
  <2>2. \A q \in Proc : q # p => pc[q] \notin Inside
    BY <1>0, <2>1 DEF InsideHoldsMutex
  <2>3. CASE NewClient /\ pc' = [pc EXCEPT ![p] = "look"] /\ UNCHANGED <<mutex, got>>
    <3>1. client' \in Client /\ OneLiveConnection'
          /\ state' \in [Client -> Live \union {"shutdown"}]
      BY <1>0, <2>1, <2>3, NewClientKeepsOne
    <3>2. TypeOK'
      BY <1>0, <1>3, <2>3, <3>1 DEF TypeOK, First, counters
    <3> QED
      BY <1>0, <1>3, <2>1, <2>2, <2>3, <3>1, <3>2, NoneIsNoClient
      DEF IInv, First, counters, TypeOK, ClosedStaysClosed, InsideHoldsMutex,
          InsideKnowsClient, ClosedKeepsClient
  <2>4. CASE ReturnError(p) /\ UNCHANGED <<client, state>>
    <3>1. TypeOK'
      BY <1>0, <1>3, <2>4 DEF TypeOK, First, ReturnError, counters
    <3> QED
      BY <1>0, <1>3, <2>1, <2>2, <2>4, <3>1
      DEF IInv, First, ReturnError, counters, TypeOK, OneLiveConnection,
          ClosedStaysClosed, InsideHoldsMutex, InsideKnowsClient, ClosedKeepsClient
  <2> QED
    BY <1>3, <2>3, <2>4 DEF First
<1>4. ASSUME NEW p \in Proc, Look(p) PROVE IInv'
  <2>1. mutex = p /\ client \in Client
    BY <1>0, <1>4 DEF Look, InsideHoldsMutex, InsideKnowsClient, TypeOK
  <2>2. \A q \in Proc : q # p => pc[q] \notin Inside
    BY <1>0, <2>1 DEF InsideHoldsMutex
  <2>3. TypeOK'
    <3>1. CASE ReturnError(p) /\ UNCHANGED counters
                /\ excused' = [excused EXCEPT ![p] = TRUE]
      BY <1>0, <1>4, <3>1 DEF TypeOK, Look, ReturnError, counters
    <3>2. CASE ReturnClient(p) /\ UNCHANGED counters /\ UNCHANGED excused
      BY <1>0, <1>4, <2>1, <3>2 DEF TypeOK, Look, ReturnClient, counters
    <3>3. CASE totalAttempts <= 3 * MaxAttempts /\ Wait(p) /\ UNCHANGED excused
      BY <1>0, <1>4, <3>3, MaxAttemptsIsPositive DEF TypeOK, Look, Wait
    <3>4. CASE pc' = [pc EXCEPT ![p] = "close"] /\ UNCHANGED <<counters, mutex, got>>
               /\ UNCHANGED excused
      BY <1>0, <1>4, <3>4 DEF TypeOK, Look, counters
    <3> QED
      BY <1>4, <3>1, <3>2, <3>3, <3>4 DEF Look
  <2>4. pc'[p] \in {"client", "error", "look", "close"}
        /\ \A q \in Proc : q # p => pc'[q] = pc[q]
    BY <1>0, <1>4 DEF TypeOK, Look, ReturnClient, ReturnError, Wait
  <2>5. pc'[p] \in Inside => mutex' = p
    BY <1>0, <1>4, <2>1 DEF TypeOK, Look, ReturnClient, ReturnError, Wait
  <2>6. pc'[p] = "close" => /\ attempts' <= MaxAttempts
                            /\ totalAttempts' <= 3 * MaxAttempts
    BY <1>0, <1>4 DEF TypeOK, Look, ReturnClient, ReturnError, Wait, counters
  <2>7. client' = client /\ state' = state /\ closed' = closed
    BY <1>4 DEF Look
  <2>8. InsideHoldsMutex'
    BY <2>2, <2>4, <2>5 DEF InsideHoldsMutex
  <2>9. InsideKnowsClient'
    BY <2>1, <2>2, <2>4, <2>6, <2>7, NoneIsNoClient DEF InsideKnowsClient
  <2> QED
    BY <1>0, <2>3, <2>7, <2>8, <2>9
    DEF IInv, OneLiveConnection, ClosedStaysClosed, ClosedKeepsClient
<1>5. ASSUME NEW p \in Proc, CloseClient(p) PROVE IInv'
  <2>1. mutex = p /\ client \in Client
    BY <1>0, <1>5 DEF CloseClient, InsideHoldsMutex, InsideKnowsClient, TypeOK
  <2>2. \A q \in Proc : q # p => pc[q] \notin Inside
    BY <1>0, <2>1 DEF InsideHoldsMutex
  <2>3. attempts <= MaxAttempts /\ totalAttempts <= 3 * MaxAttempts
    BY <1>0, <1>5 DEF CloseClient, InsideKnowsClient
  <2>4. CASE ReturnError(p) /\ UNCHANGED state
    <3>1. TypeOK'
      BY <1>0, <1>5, <2>4 DEF TypeOK, CloseClient, ReturnError, counters
    <3> QED
      BY <1>0, <1>5, <2>2, <2>4, <3>1
      DEF IInv, CloseClient, ReturnError, counters, TypeOK, OneLiveConnection,
          ClosedStaysClosed, InsideHoldsMutex, InsideKnowsClient, ClosedKeepsClient
  <2>5. CASE /\ state[client] # "shutdown"
             /\ state' = [state EXCEPT ![client] = "shutdown"]
             /\ pc' = [pc EXCEPT ![p] = "reconnect"]
             /\ UNCHANGED <<mutex, got>>
    <3>1. closed # "client"
      BY <1>0, <2>1, <2>5 DEF ClosedStaysClosed
    <3>2. TypeOK'
      BY <1>0, <1>5, <2>1, <2>5 DEF TypeOK, CloseClient, counters
    <3>3. OneLiveConnection'
      BY <1>0, <1>5, <2>1, <2>5 DEF TypeOK, CloseClient, OneLiveConnection, Live
    <3>4. InsideKnowsClient'
      BY <1>0, <1>5, <2>1, <2>2, <2>3, <2>5, <3>1, NoneIsNoClient
      DEF TypeOK, CloseClient, counters, InsideKnowsClient
    <3> QED
      BY <1>0, <1>5, <2>1, <2>2, <2>5, <3>1, <3>2, <3>3, <3>4
      DEF IInv, CloseClient, TypeOK, ClosedStaysClosed, InsideHoldsMutex, ClosedKeepsClient
  <2> QED
    BY <1>5, <2>4, <2>5 DEF CloseClient
<1>6. ASSUME NEW p \in Proc, Reconnect(p) PROVE IInv'
  <2>1. mutex = p /\ client \in Client /\ state[client] = "shutdown" /\ closed # "client"
    BY <1>0, <1>6 DEF Reconnect, InsideHoldsMutex, InsideKnowsClient, TypeOK
  <2>2. \A q \in Proc : q # p => pc[q] \notin Inside
    BY <1>0, <2>1 DEF InsideHoldsMutex
  <2>3. CASE /\ NewClient
             /\ pc' = [pc EXCEPT ![p] = "look"]
             /\ attempts' = attempts + 1
             /\ totalAttempts' = totalAttempts + 1
             /\ UNCHANGED <<mutex, got>>
    <3>1. client' \in Client /\ OneLiveConnection'
          /\ state' \in [Client -> Live \union {"shutdown"}]
      BY <1>0, <2>1, <2>3, NewClientKeepsOne
    <3>2. attempts <= MaxAttempts /\ totalAttempts <= 3 * MaxAttempts
      BY <1>0, <1>6 DEF Reconnect, InsideKnowsClient
    <3>3. attempts' \in 0..(MaxAttempts + 1) /\ totalAttempts' \in 0..(3 * MaxAttempts + 1)
      BY <1>0, <2>3, <3>2, MaxAttemptsIsPositive DEF TypeOK
    <3>4. TypeOK'
      BY <1>0, <1>6, <2>3, <3>1, <3>3 DEF TypeOK, Reconnect
    <3>5. pc'[p] = "look" /\ \A q \in Proc : q # p => pc'[q] \notin Inside
      BY <1>0, <2>2, <2>3 DEF TypeOK
    <3>6. InsideKnowsClient' /\ InsideHoldsMutex'
      BY <2>1, <2>3, <3>1, <3>5, NoneIsNoClient DEF InsideKnowsClient, InsideHoldsMutex
    <3> QED
      BY <1>6, <2>1, <3>1, <3>4, <3>6
      DEF IInv, Reconnect, ClosedStaysClosed, ClosedKeepsClient
  <2>4. CASE ReturnError(p) /\ UNCHANGED <<client, state, counters>>
    <3>1. TypeOK'
      BY <1>0, <1>6, <2>4 DEF TypeOK, Reconnect, ReturnError, counters
    <3> QED
      BY <1>0, <1>6, <2>2, <2>4, <3>1
      DEF IInv, Reconnect, ReturnError, counters, TypeOK, OneLiveConnection,
          ClosedStaysClosed, InsideHoldsMutex, InsideKnowsClient, ClosedKeepsClient
  <2> QED
    BY <1>6, <2>3, <2>4 DEF Reconnect
<1>7. ASSUME NEW p \in Proc, Done(p) PROVE IInv'
  <2>1. TypeOK'
    BY <1>0, <1>7 DEF TypeOK, Done, counters
  <2> QED
    BY <1>0, <1>7, <2>1
    DEF IInv, Done, counters, TypeOK, OneLiveConnection, ClosedStaysClosed,
        InsideHoldsMutex, InsideKnowsClient, ClosedKeepsClient
<1>8. CASE Close
  <2>1. \A q \in Proc : pc[q] \notin Inside
    BY <1>0, <1>8, NoneIsNoClient DEF Close, InsideHoldsMutex
  <2>2. TypeOK'
    BY <1>0, <1>8 DEF TypeOK, Close, counters
  <2>3. OneLiveConnection'
    BY <1>0, <1>8 DEF Close, OneLiveConnection, Live
  <2>4. ClosedStaysClosed'
    <3>1. \A c \in Client : c # client => state[c] = "shutdown"
      BY <1>0 DEF OneLiveConnection, TypeOK
    <3> QED
      BY <1>8, <3>1 DEF Close, ClosedStaysClosed
  <2> QED
    BY <1>0, <1>8, <2>1, <2>2, <2>3, <2>4
    DEF IInv, Close, InsideHoldsMutex, InsideKnowsClient, ClosedKeepsClient
<1>9. CASE Server
  <2>1. TypeOK'
    BY <1>0, <1>9 DEF TypeOK, Server, counters
  <2> QED
    BY <1>0, <1>9, <2>1
    DEF IInv, Server, counters, OneLiveConnection, ClosedStaysClosed,
        InsideHoldsMutex, InsideKnowsClient, ClosedKeepsClient
<1>10. CASE Connection
  <2>1. PICK c \in Client, s \in Live :
          state[c] \in Live /\ state' = [state EXCEPT ![c] = s]
    BY <1>10 DEF Connection, Live
  <2>2. c = client /\ closed # "client"
    BY <1>0, <2>1 DEF OneLiveConnection, ClosedStaysClosed, Live
  <2>3. TypeOK'
    BY <1>0, <1>10, <2>1 DEF TypeOK, Connection, counters
  <2>4. OneLiveConnection'
    BY <1>0, <1>10, <2>1, <2>2 DEF TypeOK, Connection, OneLiveConnection
  <2>5. \A q \in Proc : pc[q] # "reconnect"
    BY <1>0, <2>1, <2>2 DEF InsideKnowsClient, Live
  <2> QED
    BY <1>0, <1>10, <2>2, <2>3, <2>4, <2>5
    DEF IInv, Connection, counters, ClosedStaysClosed, InsideHoldsMutex,
        InsideKnowsClient, ClosedKeepsClient
<1>11. CASE UNCHANGED vars
  BY <1>0, <1>11
  DEF IInv, vars, TypeOK, OneLiveConnection, ClosedStaysClosed, InsideHoldsMutex,
      InsideKnowsClient, ClosedKeepsClient
<1> QED
  BY <1>1, <1>2, <1>3, <1>4, <1>5, <1>6, <1>7, <1>8, <1>9, <1>10, <1>11 DEF Next, Step

(* The inductive invariant holds in every reachable state of a session. *)
THEOREM Invariance == Spec => []IInv
<1>1. Init => IInv
  BY InitIsInvariant
<1>2. IInv /\ [Next]_vars => IInv'
  BY StepKeepsInvariant
<1> QED
  BY <1>1, <1>2, PTL DEF Spec

(* Variables of a session keep their types, and the attempts of
   BblfshClient their bounds. *)
THEOREM Typing == Spec => []TypeOK
<1>1. IInv => TypeOK
  BY DEF IInv
<1> QED
  BY <1>1, Invariance, PTL

(* However its goroutines interleave, a session never leaves a connection
   behind when it replaces its client. *)
THEOREM NoConnectionLeaks == Spec => []OneLiveConnection
<1>1. IInv => OneLiveConnection
  BY DEF IInv
<1> QED
  BY <1>1, Invariance, PTL

(* A session closed with a client has no connection ever after. *)
THEOREM CloseIsFinal == Spec => []ClosedStaysClosed
<1>1. IInv => ClosedStaysClosed
  BY DEF IInv
<1> QED
  BY <1>1, Invariance, PTL
-----------------------------------------------------------------------------
(* Whoever is in a call while the server is down has that for an excuse. *)
DownExcuses == \A p \in Proc : pc[p] # "idle" /\ excused[p] # TRUE => up

(* A session is stuck with a closed client: no goroutine is about to replace it. *)
Stuck == client # None /\ state[client] = "shutdown" /\ \A q \in Proc : pc[q] # "reconnect"

(* The causes of an error that last: with the client closed, only a goroutine
   that closed it itself would open another. *)
CausesLast ==
  \A p \in Proc : pc[p] = "error" => excused[p] = TRUE \/ closed # "no" \/ Stuck

(* The excuse survives every step of a call: it is given at its beginning and
   whenever the server goes down, and never taken back before the call ends. *)
LEMMA ExcusesStep == TypeOK /\ DownExcuses /\ [Next]_vars => DownExcuses'
<1> SUFFICES ASSUME TypeOK, DownExcuses, [Next]_vars, NEW p \in Proc,
                    pc'[p] # "idle", excused'[p] # TRUE
             PROVE  up'
  BY DEF DownExcuses
<1>0. /\ up \in BOOLEAN
      /\ excused \in [Proc -> BOOLEAN]
      /\ DOMAIN pc = Proc /\ pc = [r \in Proc |-> pc[r]]
  BY DEF TypeOK
<1>1. ASSUME NEW q \in Proc, Call(q) PROVE up'
  <2>1. CASE p = q
    BY <1>0, <1>1, <2>1 DEF Call
  <2>2. CASE p # q
    BY <1>0, <1>1, <2>2 DEF Call, DownExcuses
  <2> QED
    BY <2>1, <2>2
<1>2. ASSUME NEW q \in Proc, Lock(q) \/ First(q) \/ CloseClient(q) \/ Reconnect(q) PROVE up'
  <2>1. /\ up' = up /\ excused' = excused /\ pc[q] # "idle"
        /\ \A r \in Proc : r # q => pc'[r] = pc[r]
    BY <1>0, <1>2 DEF Lock, First, CloseClient, Reconnect, ReturnError
  <2> QED
    BY <2>1 DEF DownExcuses
<1>3. ASSUME NEW q \in Proc, Look(q) PROVE up'
  <2>1. up' = up /\ pc[q] # "idle" /\ \A r \in Proc : r # q => pc'[r] = pc[r]
    BY <1>0, <1>3 DEF Look, ReturnError, ReturnClient, Wait
  <2>2. excused' = excused \/ excused' = [excused EXCEPT ![q] = TRUE]
    BY <1>3 DEF Look
  <2>3. excused[p] # TRUE
    BY <1>0, <2>2
  <2> QED
    BY <2>1, <2>3 DEF DownExcuses
<1>4. ASSUME NEW q \in Proc, Done(q) PROVE up'
  BY <1>0, <1>4 DEF Done, DownExcuses
<1>5. CASE Close \/ Connection \/ UNCHANGED vars
  <2>1. UNCHANGED <<up, pc, excused>>
    BY <1>5 DEF Close, Connection, vars
  <2> QED
    BY <2>1 DEF DownExcuses
<1>6. CASE Server
  <2>1. excused'[p] = (excused[p] \/ ~up')
    BY <1>6 DEF Server
  <2> QED
    BY <1>0, <2>1, Zenon
<1> QED
  BY <1>1, <1>2, <1>3, <1>4, <1>5, <1>6 DEF Next, Step

(* A step of one goroutine leaves the errors of the others their cause when the
   session stays stuck, and gives its own error one. *)
LEMMA CausesStep ==
  IInv /\ DownExcuses /\ CausesLast /\ [Next]_vars => CausesLast'
<1> SUFFICES ASSUME IInv, DownExcuses, CausesLast, [Next]_vars, NEW p \in Proc,
                    pc'[p] = "error", excused'[p] # TRUE, closed' = "no"
             PROVE  Stuck'
  BY DEF CausesLast
<1> USE DEF Inside
<1>0. TypeOK /\ OneLiveConnection /\ InsideHoldsMutex /\ InsideKnowsClient
  BY DEF IInv
<1>t. /\ up \in BOOLEAN
      /\ excused \in [Proc -> BOOLEAN]
      /\ DOMAIN pc = Proc /\ pc = [r \in Proc |-> pc[r]]
  BY <1>0 DEF TypeOK
<1>1. ASSUME NEW q \in Proc, Call(q) PROVE Stuck'
  <2>1. p # q /\ pc[p] = "error" /\ excused[p] # TRUE /\ closed = "no"
    BY <1>t, <1>1 DEF Call
  <2>2. Stuck
    BY <2>1 DEF CausesLast
  <2> QED
    BY <1>t, <1>1, <2>2 DEF Call, Stuck
<1>2. ASSUME NEW q \in Proc, Lock(q) PROVE Stuck'
  <2>1. pc[p] = "error" /\ excused[p] # TRUE /\ closed = "no"
    BY <1>t, <1>2 DEF Lock
  <2>2. Stuck
    BY <2>1 DEF CausesLast
  <2> QED
    BY <1>t, <1>2, <2>2 DEF Lock, Stuck
<1>3. ASSUME NEW q \in Proc, First(q) PROVE Stuck'
  <2>1. client = None /\ excused' = excused /\ closed' = closed
    BY <1>0, <1>3 DEF First, InsideKnowsClient
  <2>2. pc[p] # "error"
    BY <2>1 DEF CausesLast, Stuck
  <2>3. pc[q] = "first" /\ p = q /\ up # TRUE
    BY <1>t, <1>3, <2>2 DEF First, ReturnError
  <2> QED
    BY <2>1, <2>3 DEF DownExcuses
<1>4. ASSUME NEW q \in Proc, Look(q) PROVE Stuck'
  <2>1. CASE ReturnError(q) /\ excused' = [excused EXCEPT ![q] = TRUE]
    <3>1. p # q /\ pc[p] = "error" /\ excused[p] # TRUE /\ closed = "no"
      BY <1>t, <1>4, <2>1 DEF Look, ReturnError
    <3>2. Stuck
      BY <3>1 DEF CausesLast
    <3> QED
      BY <1>t, <1>4, <2>1, <3>2 DEF Look, ReturnError, Stuck
  <2>2. CASE /\ ReturnClient(q) \/ Wait(q) \/ pc' = [pc EXCEPT ![q] = "close"]
             /\ UNCHANGED excused
    <3>1. pc[p] = "error" /\ excused[p] # TRUE /\ closed = "no"
      BY <1>t, <1>4, <2>2 DEF Look, ReturnClient, Wait
    <3>2. Stuck
      BY <3>1 DEF CausesLast
    <3> QED
      BY <1>t, <1>4, <2>2, <3>2 DEF Look, ReturnClient, Wait, Stuck
  <2> QED
    BY <1>4, <2>1, <2>2 DEF Look
<1>5. ASSUME NEW q \in Proc, CloseClient(q) PROVE Stuck'
  <2>1. pc[q] = "close" /\ mutex = q /\ client # None /\ client' = client
        /\ excused' = excused /\ closed' = closed
    BY <1>0, <1>5 DEF CloseClient, InsideHoldsMutex, InsideKnowsClient
  <2>2. \A r \in Proc : pc[r] # "reconnect"
    BY <1>0, <2>1 DEF InsideHoldsMutex
  <2>3. CASE state[client] = "shutdown" /\ ReturnError(q) /\ UNCHANGED state
    BY <1>t, <2>1, <2>2, <2>3 DEF ReturnError, Stuck
  <2>4. CASE state[client] # "shutdown" /\ pc' = [pc EXCEPT ![q] = "reconnect"]
    BY <1>t, <2>1, <2>4 DEF CausesLast, Stuck
  <2> QED
    BY <1>5, <2>3, <2>4 DEF CloseClient
<1>6. ASSUME NEW q \in Proc, Reconnect(q) PROVE Stuck'
  <2>1. pc[q] = "reconnect" /\ excused' = excused /\ closed' = closed
    BY <1>6 DEF Reconnect
  <2>2. pc[p] # "error"
    BY <2>1 DEF CausesLast, Stuck
  <2>3. p = q /\ up # TRUE
    BY <1>t, <1>6, <2>2 DEF Reconnect, ReturnError
  <2> QED
    BY <2>1, <2>3 DEF DownExcuses
<1>7. ASSUME NEW q \in Proc, Done(q) PROVE Stuck'
  <2>1. pc[p] = "error" /\ excused[p] # TRUE /\ closed = "no"
    BY <1>t, <1>7 DEF Done
  <2>2. Stuck
    BY <2>1 DEF CausesLast
  <2> QED
    BY <1>t, <1>7, <2>2 DEF Done, Stuck
<1>8. CASE Close
  BY <1>8 DEF Close
<1>9. CASE Server
  <2>1. pc[p] = "error" /\ excused[p] # TRUE /\ closed = "no"
    BY <1>t, <1>9 DEF Server
  <2> QED
    BY <1>9, <2>1 DEF Server, CausesLast, Stuck
<1>10. CASE Connection
  <2>1. PICK c \in Client, s \in Live : state[c] \in Live
    BY <1>10 DEF Connection, Live
  <2>2. state[client] # "shutdown"
    BY <1>0, <2>1 DEF OneLiveConnection, Live
  <2> QED
    BY <1>10, <2>2 DEF Connection, CausesLast, Stuck
<1>11. CASE UNCHANGED vars
  BY <1>11 DEF vars, CausesLast, Stuck
<1> QED
  BY <1>1, <1>2, <1>3, <1>4, <1>5, <1>6, <1>7, <1>8, <1>9, <1>10, <1>11 DEF Next, Step

(* BblfshClient fails only for a cause: the server was down during the call,
   the attempts were used up, the session was closed, or it is stuck with a
   closed client after a reconnection that failed. *)
THEOREM FailuresHaveACause == Spec => []ErrorsHaveACause
<1>1. Init => DownExcuses /\ CausesLast
  BY DEF Init, DownExcuses, CausesLast
<1>2. IInv /\ DownExcuses /\ CausesLast /\ [Next]_vars => DownExcuses' /\ CausesLast'
  BY ExcusesStep, CausesStep DEF IInv
<1>3. CausesLast => ErrorsHaveACause
  BY DEF CausesLast, ErrorsHaveACause, Stuck
<1> QED
  BY <1>1, <1>2, <1>3, Invariance, PTL DEF Spec
=============================================================================
