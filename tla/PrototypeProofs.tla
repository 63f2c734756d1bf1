---------------------------- MODULE PrototypeProofs ----------------------------
(***************************************************************************)
(* What holds of Prototype for every set of devices, every pool, every     *)
(* bound on client processes and crashes, and every choice of --persist.   *)
(***************************************************************************)
EXTENDS Prototype, FiniteSetTheorems, SequenceTheorems, WellFoundedInduction, TLAPS

-----------------------------------------------------------------------------
(* Helpers *)

Connection == [link : {"none", "open", "uavClosed", "gsClosed"},
               toGs : ToGs \cup {None}, toUav : ToUav \cup {None}]

LEMMA ConnOwner == ASSUME NEW c \in Conn PROVE c[1] \in Uav
BY DEF Conn

\* What either end leaves of a connection is one.
LEMMA ClosedType ==
    ASSUME NEW k \in Connection
    PROVE  ClosedByGs(k) \in Connection /\ ClosedByUav(k) \in Connection
<1>1. Closed \in Connection
    BY DEF Closed, Connection
<1>2. [k EXCEPT !.link = "gsClosed", !.toGs = None] \in Connection
    BY DEF Connection
<1>3. [k EXCEPT !.link = "uavClosed", !.toUav = None] \in Connection
    BY DEF Connection
<1>4. CASE k.link = "open"
    BY <1>2, <1>3, <1>4 DEF ClosedByGs, ClosedByUav
<1>5. CASE k.link = "uavClosed"
    BY <1>1, <1>5 DEF ClosedByGs, ClosedByUav
<1>6. CASE k.link \notin {"open", "uavClosed"}
    BY <1>1, <1>6 DEF ClosedByGs, ClosedByUav
<1> QED
    BY <1>4, <1>5, <1>6

LEMMA AnsweredType ==
    ASSUME NEW k \in Connection, NEW m \in ToUav
    PROVE  Answered(k, m) \in Connection
<1> DEFINE answer == IF k.link = "open" THEN m ELSE None
<1>1. answer \in ToUav \cup {None}
    OBVIOUS
<1>2. Answered(k, m) = [k EXCEPT !.toGs = None, !.toUav = answer]
    BY DEF Answered
<1> HIDE DEF answer
<1> QED
    BY <1>1, <1>2 DEF Connection

\* Each nonempty set of natural numbers has a least element.
LEMMA LeastExists ==
    ASSUME NEW S, S \subseteq Nat, S # {}
    PROVE  \E x \in S : \A y \in S : x <= y
<1> DEFINE less == {ss \in Nat \X Nat : ss[1] < ss[2]}
<1>1. IsWellFoundedOn(less, Nat)
    BY NatLessThanWellFounded DEF OpToRel
<1>2. \A x, y \in Nat : y < x => <<y, x>> \in less
    OBVIOUS
<1> HIDE DEF less
<1>3. PICK x \in S : \A y \in S : ~ (<<y, x>> \in less)
    BY <1>1, WFMin
<1>4. \A y \in S : ~ (y < x)
    BY <1>2, <1>3, Zenon
<1> QED
    BY <1>4

\* _select_unused_crp returns a pair of the pool that is not yet consumed.
LEMMA SelectsUnused ==
    ASSUME NEW u \in Uav, Unused(u) # {}
    PROVE  SelectUnusedCrp(u) \in Unused(u)
<1>1. Unused(u) \subseteq Nat
    BY PrototypeAssumption DEF Unused, Crp
<1>2. \E x \in Unused(u) : \A y \in Unused(u) : x <= y
    BY <1>1, LeastExists
<1> QED
    BY <1>2 DEF SelectUnusedCrp, Min
-----------------------------------------------------------------------------
(* Type correctness *)

\* TypeOK is not inductive: a running client has a connection of its own.
RunsInv ==
    \A u \in Uav : /\ runs[u] <= MaxRuns[u]
                   /\ proc[u] # None => runs[u] >= 1

TypeInv == TypeOK /\ RunsInv

LEMMA InitType == Init => TypeInv
<1> SUFFICES ASSUME Init PROVE TypeInv
    OBVIOUS
<1>1. Enrolled \in Records
    BY DEF Enrolled, Records, Tid
<1>2. Closed \in Connection
    BY DEF Closed, Connection
<1>3. TypeOK
    BY <1>1, <1>2, PrototypeAssumption DEF Init, TypeOK, Connection, Records
<1>4. RunsInv
    BY PrototypeAssumption DEF Init, RunsInv
<1> QED
    BY <1>3, <1>4 DEF TypeInv

\* A running client's own connection.
LEMMA OwnType ==
    ASSUME TypeInv, NEW u \in Uav, proc[u] # None
    PROVE  Own(u) \in Conn
<1>1. runs[u] \in 1 .. MaxRuns[u]
    BY PrototypeAssumption DEF TypeInv, TypeOK, RunsInv
<1> QED
    BY <1>1 DEF Own, Conn

\* What a message in flight says of itself.
LEMMA MessageType ==
    ASSUME TypeOK, NEW c \in Conn
    PROVE  /\ conn[c] \in Connection
           /\ Arrived(c, "msg1") =>
                  conn[c].toGs.tid \in Tid /\ conn[c].toGs.nonce \in Nat
           /\ Arrived(c, "msg3") =>
                  conn[c].toGs.nonce \in Nat /\ conn[c].toGs.challenge \in Crp
<1>1. conn \in [Conn -> Connection]
    BY DEF TypeOK, Connection
<1>2. conn[c] \in Connection
    BY <1>1
<1>3. conn[c].toGs \in ToGs \cup {None}
    BY <1>2 DEF Connection
<1> QED
    BY <1>2, <1>3 DEF Arrived, ToGs

LEMMA ConnType == TypeOK <=> /\ TypeOK
                             /\ conn \in [Conn -> Connection]
BY DEF TypeOK, Connection

\* Accept
LEMMA AcceptType == ASSUME TypeInv, Accept PROVE TypeInv'
<1>1. Head(backlog) \in Conn /\ Tail(backlog) \in Seq(Conn)
    BY HeadTailProperties DEF TypeInv, TypeOK, Accept
<1>2. TypeOK'
    BY <1>1 DEF TypeInv, TypeOK, Accept, memory, client, Serving
<1> QED
    BY <1>2 DEF TypeInv, RunsInv, Accept, client

\* HandleMsg1
LEMMA HandleMsg1Type ==
    ASSUME TypeInv, NEW c \in Conn, HandleMsg1(c)
    PROVE  TypeInv'
<1> DEFINE m == conn[c].toGs
           error == [type |-> "error"]
<1>1. conn[c] \in Connection /\ m.nonce \in Nat
    BY MessageType DEF TypeInv, HandleMsg1
<1>2. error \in ToUav
    BY DEF ToUav
<1>3. CASE Refuse(c)
    <2>1. ClosedByGs(Answered(conn[c], error)) \in Connection
        BY <1>1, <1>2, AnsweredType, ClosedType
    <2>2. conn' \in [Conn -> Connection]
        BY <1>3, <2>1, ConnType DEF Refuse, TypeInv
    <2> QED
        BY <1>3, <2>2 DEF Refuse, HandleMsg1, TypeInv, TypeOK, RunsInv,
                          Connection, memory, client
<1>4. ASSUME NEW u \in Uav, Unused(u) # {},
             OpenExchange(m, u),
             conn' = [conn EXCEPT ![c] = Answered(@,
                 [type |-> "msg2", nonce |-> m.nonce,
                  challenge |-> SelectUnusedCrp(u)])],
             serving' = [serving EXCEPT !.at = "msg3"],
             UNCHANGED <<rec, sessions>>
      PROVE  TypeInv'
    <2> DEFINE msg2 == [type |-> "msg2", nonce |-> m.nonce,
                        challenge |-> SelectUnusedCrp(u)]
               p == [nonce |-> m.nonce, challenge |-> SelectUnusedCrp(u)]
    <2>1. SelectUnusedCrp(u) \in Crp
        BY <1>4, SelectsUnused DEF Unused
    <2>2. p \in Exchange /\ msg2 \in ToUav
        BY <1>1, <2>1 DEF Exchange, ToUav
    <2>3. pending' = [pending EXCEPT ![u] = p]
        BY <1>4 DEF OpenExchange
    <2>4. conn' = [conn EXCEPT ![c] = Answered(conn[c], msg2)]
        BY <1>4
    <2>5. Answered(conn[c], msg2) \in Connection
        BY <1>1, <2>2, AnsweredType
    <2> HIDE DEF p, msg2, m
    <2>6. conn' \in [Conn -> Connection]
        BY <2>4, <2>5, ConnType DEF TypeInv
    <2>7. pending' \in [Uav -> Exchange \cup {None}]
        BY <2>2, <2>3 DEF TypeInv, TypeOK
    <2>8. serving' = [conn |-> c, at |-> "msg3"]
        BY <1>4 DEF HandleMsg1, At
    <2>9. UNCHANGED <<persist, up, crashes, rec, sessions, backlog, db,
                      runs, proc, file>>
        BY <1>4 DEF HandleMsg1, client
    <2> QED
        BY <2>6, <2>7, <2>8, <2>9 DEF TypeInv, TypeOK, RunsInv, Connection, Serving
<1> QED
    BY <1>3, <1>4 DEF HandleMsg1, AcceptsMsg1

\* The memory after an accepted msg3.
LEMMA CompleteExchangeType ==
    ASSUME TypeOK, NEW u \in Uav, pending[u] # None, CompleteExchange(u)
    PROVE  /\ rec' \in Records
           /\ pending' \in [Uav -> Exchange \cup {None}]
           /\ sessions' \in [Uav -> Exchange \cup {None}]
           /\ rec'[u].tid \in Tid
<1> DEFINE p == pending[u]
           r == rec[u]
           t == Rotated(r.tid, p.nonce)
           used == Consumed(r.consumed, p.challenge)
<1>1. p \in Exchange /\ r.tid \in Tid /\ r.consumed \subseteq Crp
    BY DEF TypeOK, Records
<1>2. t \in Tid
    <2>1. Append(r.tid.nonces, p.nonce) \in Seq(Nat)
        BY <1>1, AppendProperties DEF Tid, Exchange
    <2> QED
        BY <1>1, <2>1 DEF Tid, Rotated
<1>3. used \subseteq Crp
    BY <1>1 DEF Consumed, Exchange
<1>4. rec' = [rec EXCEPT ![u] = [tid |-> t, consumed |-> used]]
    BY DEF CompleteExchange
<1>5. pending' = [pending EXCEPT ![u] = None] /\ sessions' = [sessions EXCEPT ![u] = p]
    BY DEF CompleteExchange
<1> HIDE DEF p, t, used
<1> QED
    BY <1>1, <1>2, <1>3, <1>4, <1>5 DEF TypeOK, Records

\* HandleMsg3
LEMMA HandleMsg3Type ==
    ASSUME TypeInv, NEW c \in Conn, HandleMsg3(c)
    PROVE  TypeInv'
<1> DEFINE u == c[1]
           m == conn[c].toGs
           error == [type |-> "error"]
<1>1. conn[c] \in Connection /\ m.nonce \in Nat /\ m.challenge \in Crp /\ u \in Uav
    BY MessageType, ConnOwner DEF TypeInv, HandleMsg3
<1>2. error \in ToUav
    BY DEF ToUav
<1>3. CASE Refuse(c)
    <2>1. ClosedByGs(Answered(conn[c], error)) \in Connection
        BY <1>1, <1>2, AnsweredType, ClosedType
    <2>2. conn' \in [Conn -> Connection]
        BY <1>3, <2>1, ConnType DEF Refuse, TypeInv
    <2> QED
        BY <1>3, <2>2 DEF Refuse, HandleMsg3, TypeInv, TypeOK, RunsInv,
                          Connection, memory, client
<1>4. CASE ~Refuse(c)
    <2> DEFINE msg4 == [type |-> "msg4", nonce |-> m.nonce,
                        challenge |-> m.challenge, tid |-> rec'[u].tid]
               answered == Answered(conn[c], msg4)
    <2>1. AcceptsMsg3(m, u) /\ CompleteExchange(u)
        BY <1>4 DEF HandleMsg3
    <2>2. /\ rec' \in Records
          /\ pending' \in [Uav -> Exchange \cup {None}]
          /\ sessions' \in [Uav -> Exchange \cup {None}]
          /\ rec'[u].tid \in Tid
        BY <1>1, <2>1, CompleteExchangeType DEF AcceptsMsg3, TypeInv
    <2>3. msg4 \in ToUav
        BY <1>1, <2>2 DEF ToUav
    <2>4. answered \in Connection /\ ClosedByGs(answered) \in Connection
        BY <1>1, <2>3, AnsweredType, ClosedType
    <2>5. \/ /\ conn' = [conn EXCEPT ![c] = answered]
             /\ serving' = [serving EXCEPT !.at = "save"]
          \/ /\ conn' = [conn EXCEPT ![c] = ClosedByGs(answered)]
             /\ serving' = None
        BY <1>4 DEF HandleMsg3
    <2>6. serving = [conn |-> c, at |-> "msg3"]
        BY DEF HandleMsg3, At
    <2> HIDE DEF answered, msg4, m
    <2>7. conn' \in [Conn -> Connection]
        BY <2>4, <2>5, ConnType DEF TypeInv
    <2>8. serving' \in Serving \cup {None}
        BY <2>5, <2>6 DEF Serving
    <2>9. UNCHANGED <<persist, up, crashes, backlog, db, runs, proc, file>>
        BY DEF HandleMsg3, client
    <2> QED
        BY <2>2, <2>7, <2>8, <2>9 DEF TypeInv, TypeOK, RunsInv, Connection
<1> QED
    BY <1>3, <1>4

\* SaveGsState and ClientDisconnected
LEMMA CloseType ==
    ASSUME TypeInv, NEW c \in Conn, SaveGsState(c) \/ ClientDisconnected(c)
    PROVE  TypeInv'
<1>1. conn[c] \in Connection
    BY MessageType DEF TypeInv
<1>2. conn' \in [Conn -> Connection]
    BY <1>1, ClosedType, ConnType DEF TypeInv, SaveGsState, ClientDisconnected
<1>3. serving' \in Serving \cup {None}
    BY DEF SaveGsState, ClientDisconnected, At, Serving
<1>4. db' \in Records \cup {None}
    BY DEF SaveGsState, ClientDisconnected, TypeInv, TypeOK
<1>5. UNCHANGED <<persist, up, crashes, rec, pending, sessions, backlog, runs,
                  proc, file>>
    BY DEF SaveGsState, ClientDisconnected, memory, client
<1> QED
    BY <1>2, <1>3, <1>4, <1>5 DEF TypeInv, TypeOK, RunsInv, Connection

\* Crash and Restart
LEMMA CrashType == ASSUME TypeInv, Crash \/ Restart PROVE TypeInv'
<1>1. \A c \in Conn : ClosedByGs(conn[c]) \in Connection
    BY MessageType, ClosedType DEF TypeInv
<1>2. CASE Crash
    <2>1. conn' \in [Conn -> Connection]
        BY <1>1, <1>2 DEF Crash
    <2>2. /\ UNCHANGED <<persist, rec, db, runs, proc, file>>
          /\ up' = FALSE /\ serving' = None /\ backlog' = <<>>
          /\ pending' = [u \in Uav |-> None] /\ sessions' = [u \in Uav |-> None]
          /\ crashes' = crashes + 1
        BY <1>2 DEF Crash, client
    <2>3. crashes' \in Nat /\ <<>> \in Seq(Conn)
        BY <2>2 DEF TypeInv, TypeOK
    <2> QED
        BY <2>1, <2>2, <2>3 DEF TypeInv, TypeOK, RunsInv, Connection
<1>3. CASE Restart
    BY <1>3 DEF Restart, Loaded, TypeInv, TypeOK, RunsInv, client
<1> QED
    BY <1>2, <1>3

\* StartClient
LEMMA StartClientType ==
    ASSUME TypeInv, NEW u \in Uav, StartClient(u)
    PROVE  TypeInv'
<1> DEFINE n == runs[u] + 1
           c == <<u, n>>
           msg1 == [type |-> "msg1", tid |-> file[u], nonce |-> n]
           p == [at |-> "msg2", tid |-> file[u], challenge |-> None]
           k == [link |-> "open", toUav |-> None, toGs |-> msg1]
<1>0. runs[u] < MaxRuns[u] /\ file[u] # None
    BY DEF StartClient
<1>1. n \in 1 .. MaxRuns[u] /\ file[u] \in Tid
    BY <1>0, PrototypeAssumption DEF TypeInv, TypeOK
<1>2. c \in Conn
    BY <1>1 DEF Conn
<1>3. msg1 \in ToGs
    BY <1>1 DEF ToGs
<1>4. p \in ClientProcess
    BY <1>1 DEF ClientProcess
<1> HIDE DEF msg1, p
<1>5. k \in Connection
    BY <1>3 DEF Connection
<1>6. Append(backlog, c) \in Seq(Conn)
    BY <1>2, AppendProperties DEF TypeInv, TypeOK
<1>7. /\ runs' = [runs EXCEPT ![u] = n] /\ proc' = [proc EXCEPT ![u] = p]
      /\ conn' = [conn EXCEPT ![c] = k] /\ backlog' = Append(backlog, c)
      /\ UNCHANGED <<persist, up, crashes, rec, pending, sessions, serving, db,
                     file>>
    BY DEF StartClient, memory, p, msg1
<1> HIDE DEF k, c
<1>8. conn' \in [Conn -> Connection]
    BY <1>2, <1>5, <1>7, ConnType DEF TypeInv
<1>9. TypeOK'
    BY <1>1, <1>4, <1>6, <1>7, <1>8
    DEF TypeInv, TypeOK, Connection, ClientProcess
<1>10. RunsInv'
    BY <1>1, <1>7, PrototypeAssumption DEF TypeInv, TypeOK, RunsInv
<1> QED
    BY <1>9, <1>10 DEF TypeInv

\* What a client may assume of an answer.
LEMMA AnswerType ==
    ASSUME TypeInv, NEW u \in Uav, proc[u] # None
    PROVE  /\ Own(u) \in Conn
           /\ conn[Own(u)] \in Connection
           /\ Received(u, "msg2", "msg2") => conn[Own(u)].toUav.challenge \in Crp
           /\ Received(u, "msg4", "msg4") => conn[Own(u)].toUav.tid \in Tid
           /\ ClosedByUav(conn[Own(u)]) \in Connection
<1>1. Own(u) \in Conn
    BY OwnType
<1>2. conn[Own(u)] \in Connection
    BY <1>1, MessageType DEF TypeInv
<1>3. conn[Own(u)].toUav \in ToUav \cup {None}
    BY <1>2 DEF Connection
<1>4. ClosedByUav(conn[Own(u)]) \in Connection
    BY <1>2, ClosedType
<1> QED
    BY <1>1, <1>2, <1>3, <1>4 DEF Received, ToUav

\* The end of a client process.
LEMMA ExitType ==
    ASSUME TypeInv, NEW u \in Uav, proc[u] # None, Exit(u),
           UNCHANGED <<persist, server, runs>>, file' \in [Uav -> Tid \cup {None}]
    PROVE  TypeInv'
<1>1. conn' \in [Conn -> Connection]
    BY AnswerType, ConnType DEF Exit, TypeInv
<1> QED
    BY <1>1 DEF Exit, TypeInv, TypeOK, RunsInv, Connection, server, memory

\* HandleMsg2
LEMMA HandleMsg2Type ==
    ASSUME TypeInv, NEW u \in Uav, HandleMsg2(u)
    PROVE  TypeInv'
<1> DEFINE c == Own(u)
           m == conn[c].toUav
           msg3 == [type |-> "msg3", nonce |-> runs[u], challenge |-> m.challenge]
           answer == IF conn[c].link = "open" THEN msg3 ELSE None
           k == [conn[c] EXCEPT !.toUav = None, !.toGs = answer]
           q == [proc[u] EXCEPT !.at = "msg4", !.challenge = m.challenge]
<1>1. proc[u] # None /\ c \in Conn /\ conn[c] \in Connection /\ m.challenge \in Crp
    BY AnswerType DEF HandleMsg2, Received
<1>2. CASE Exit(u)
    BY <1>1, <1>2, ExitType DEF HandleMsg2, TypeInv, TypeOK
<1>3. CASE ~Exit(u)
    <2>1. msg3 \in ToGs
        BY <1>1 DEF ToGs, TypeInv, TypeOK
    <2>2. answer \in ToGs \cup {None}
        BY <2>1
    <2>3. /\ proc' = [proc EXCEPT ![u] = q]
          /\ UNCHANGED <<persist, up, crashes, rec, pending, sessions, serving,
                         backlog, db, runs, file>>
        BY <1>3 DEF HandleMsg2, server, memory
    <2>4. conn' = [conn EXCEPT ![c] = k]
        BY <1>1, <1>3, ConnType DEF HandleMsg2, TypeInv
    <2> HIDE DEF answer, m
    <2>5. k \in Connection
        BY <1>1, <2>2 DEF Connection
    <2>6. q \in ClientProcess
        BY <1>1 DEF TypeInv, TypeOK, ClientProcess
    <2> HIDE DEF k, c, q
    <2>7. conn' \in [Conn -> Connection]
        BY <2>4, <2>5, ConnType DEF TypeInv
    <2>8. TypeOK'
        BY <2>6, <2>3, <2>7 DEF TypeInv, TypeOK, Connection, ClientProcess
    <2>9. RunsInv'
        BY <1>1, <2>3 DEF TypeInv, TypeOK, RunsInv
    <2> QED
        BY <2>8, <2>9 DEF TypeInv
<1> QED
    BY <1>2, <1>3

\* HandleMsg4
LEMMA HandleMsg4Type ==
    ASSUME TypeInv, NEW u \in Uav, HandleMsg4(u)
    PROVE  TypeInv'
<1> DEFINE c == Own(u)
           m == conn[c].toUav
           k == [conn[c] EXCEPT !.toUav = None]
           q == [proc[u] EXCEPT !.at = "save", !.tid = m.tid]
<1>1. proc[u] # None /\ c \in Conn /\ conn[c] \in Connection /\ m.tid \in Tid
    BY AnswerType DEF HandleMsg4, Received
<1>2. /\ proc' = [proc EXCEPT ![u] = q] /\ conn' = [conn EXCEPT ![c] = k]
      /\ UNCHANGED <<persist, up, crashes, rec, pending, sessions, serving,
                     backlog, db, runs, file>>
    BY DEF HandleMsg4, server, memory
<1> HIDE DEF m
<1>3. k \in Connection
    BY <1>1 DEF Connection
<1>4. q \in ClientProcess
    BY <1>1 DEF TypeInv, TypeOK, ClientProcess
<1> HIDE DEF k, c, q
<1>5. conn' \in [Conn -> Connection]
    BY <1>2, <1>3, ConnType DEF TypeInv
<1>6. TypeOK'
    BY <1>2, <1>4, <1>5 DEF TypeInv, TypeOK, Connection, ClientProcess
<1>7. RunsInv'
    BY <1>1, <1>2 DEF TypeInv, TypeOK, RunsInv
<1> QED
    BY <1>6, <1>7 DEF TypeInv

\* Fail, SaveUavState and Die
LEMMA LeaveType ==
    ASSUME TypeInv, NEW u \in Uav, Fail(u) \/ SaveUavState(u) \/ Die(u)
    PROVE  TypeInv'
<1>1. proc[u] # None /\ proc[u] \in ClientProcess
    BY DEF Fail, SaveUavState, Die, Received, TypeInv, TypeOK, ClientProcess
<1>2. UNCHANGED <<persist, server, runs>>
    BY DEF Fail, SaveUavState, Die
<1>3. file' \in [Uav -> Tid \cup {None}]
    BY <1>1 DEF Fail, SaveUavState, Die, TypeInv, TypeOK, ClientProcess
<1>4. CASE Exit(u)
    BY <1>1, <1>2, <1>3, <1>4, ExitType
<1>5. CASE ~Exit(u) /\ SaveUavState(u)
    <2> DEFINE q == [proc[u] EXCEPT !.at = "writing"]
    <2>1. proc' = [proc EXCEPT ![u] = q] /\ UNCHANGED conn
        BY <1>5 DEF SaveUavState
    <2>2. q \in ClientProcess
        BY <1>1 DEF ClientProcess
    <2> HIDE DEF q
    <2>3. TypeOK'
        BY <1>2, <1>3, <2>1, <2>2 DEF TypeInv, TypeOK, server, memory, ClientProcess
    <2>4. RunsInv'
        BY <1>1, <1>2, <2>1 DEF TypeInv, TypeOK, RunsInv
    <2> QED
        BY <2>3, <2>4 DEF TypeInv
<1>6. CASE ~Exit(u) /\ Die(u)
    <2> DEFINE k == [conn[Own(u)] EXCEPT !.toUav = None]
    <2>1. proc' = [proc EXCEPT ![u] = None] /\ conn' = [conn EXCEPT ![Own(u)] = k]
        BY <1>6 DEF Die
    <2>2. k \in Connection
        BY <1>1, AnswerType DEF Connection
    <2> HIDE DEF k
    <2>3. conn' \in [Conn -> Connection]
        BY <2>1, <2>2, ConnType DEF TypeInv
    <2>4. TypeOK'
        BY <1>2, <1>3, <2>1, <2>3 DEF TypeInv, TypeOK, server, memory, Connection
    <2>5. RunsInv'
        BY <1>1, <1>2, <2>1 DEF TypeInv, TypeOK, RunsInv
    <2> QED
        BY <2>4, <2>5 DEF TypeInv
<1> QED
    BY <1>4, <1>5, <1>6 DEF Fail

LEMMA NextType == TypeInv /\ [Next]_vars => TypeInv'
<1> SUFFICES ASSUME TypeInv, [Next]_vars PROVE TypeInv'
    OBVIOUS
<1>1. CASE UNCHANGED vars
    BY <1>1 DEF TypeInv, TypeOK, RunsInv, vars, server, memory, client
<1>2. CASE ServerStep
    BY <1>2, AcceptType, HandleMsg1Type, HandleMsg3Type, CloseType DEF ServerStep
<1>3. CASE Crash \/ Restart
    BY <1>3, CrashType
<1>4. ASSUME NEW u \in Uav, StartClient(u) \/ ClientStep(u) \/ Die(u)
      PROVE  TypeInv'
    BY <1>4, StartClientType, HandleMsg2Type, HandleMsg4Type, LeaveType
    DEF ClientStep
<1> QED
    BY <1>1, <1>2, <1>3, <1>4 DEF Next

\* The server, its memory and its file, the clients and theirs, and what is in
\* flight between them are well-formed in every reachable state, whichever of
\* them is killed, lost or restarted, and when (ground_station_server.py,
\* uav_client.py and storage.py).
THEOREM TypeCorrect == Spec => []TypeOK
<1>1. TypeInv => TypeOK
    BY DEF TypeInv
<1> QED
    BY <1>1, InitType, NextType, PTL DEF Spec
-----------------------------------------------------------------------------
(* The pool *)

\* PoolPaysForRotations is not inductive.  The pair of an open exchange is not
\* consumed in memory, and nothing is in the file that memory does not have:
\* not while the server is down, when nothing is pending.
PoolInv == \A u \in Uav :
    /\ Cardinality(rec[u].consumed) = Len(rec[u].tid.nonces)
    /\ db # None => Cardinality(db[u].consumed) = Len(db[u].tid.nonces)
    /\ pending[u] # None => up /\ pending[u].challenge \notin rec[u].consumed
    /\ up /\ db # None => db[u].consumed \subseteq rec[u].consumed

LEMMA PoolImplies == PoolInv => PoolPaysForRotations
BY DEF PoolInv, PoolPaysForRotations

LEMMA InitPool == Init => PoolInv
<1> SUFFICES ASSUME Init PROVE PoolInv
    OBVIOUS
<1>1. \A u \in Uav : rec[u].consumed = {} /\ rec[u].tid.nonces = <<>>
    BY DEF Init, Enrolled
<1>2. Cardinality({}) = 0 /\ Len(<<>>) = 0
    BY FS_EmptySet
<1> QED
    BY <1>1, <1>2 DEF Init, PoolInv

\* A step that leaves records, file and open exchanges alone.
LEMMA PoolKept ==
    ASSUME PoolInv, UNCHANGED <<up, rec, pending, db>>
    PROVE  PoolInv'
BY DEF PoolInv

\* An opened exchange is for an unused pair.
LEMMA OpenPool ==
    ASSUME TypeInv, PoolInv, NEW c \in Conn, HandleMsg1(c)
    PROVE  PoolInv'
<1>1. CASE Refuse(c)
    BY <1>1, PoolKept DEF Refuse, HandleMsg1, memory
<1>2. ASSUME NEW u \in Uav, NEW m, AcceptsMsg1(m, u), OpenExchange(m, u),
             UNCHANGED rec
      PROVE  PoolInv'
    <2> DEFINE p == [nonce |-> m.nonce, challenge |-> SelectUnusedCrp(u)]
    <2>1. SelectUnusedCrp(u) \notin rec[u].consumed
        BY <1>2, SelectsUnused DEF AcceptsMsg1, Unused
    <2>2. p.challenge \notin rec[u].consumed
        BY <2>1
    <2>3. pending' = [pending EXCEPT ![u] = p]
        BY <1>2 DEF OpenExchange
    <2>4. up /\ UNCHANGED <<up, rec, db>>
        BY <1>2 DEF HandleMsg1, At
    <2> HIDE DEF p
    <2> QED
        BY <2>2, <2>3, <2>4 DEF PoolInv, TypeInv, TypeOK
<1> QED
    BY <1>1, <1>2 DEF HandleMsg1

\* A completed exchange consumes one more pair and rotates once more.
LEMMA CompletePool ==
    ASSUME TypeInv, PoolInv, NEW c \in Conn, HandleMsg3(c)
    PROVE  PoolInv'
<1>1. CASE Refuse(c)
    BY <1>1, PoolKept DEF Refuse, HandleMsg3, memory
<1>2. CASE ~Refuse(c)
    <2> DEFINE u == c[1]
               p == pending[u]
               used == rec[u].consumed
               nonces == rec[u].tid.nonces
    <2>1. u \in Uav /\ CompleteExchange(u) /\ p # None
        BY <1>2, ConnOwner DEF HandleMsg3, AcceptsMsg3
    <2>2. /\ p \in Exchange /\ nonces \in Seq(Nat) /\ used \subseteq Crp
          /\ p.challenge \notin used /\ Cardinality(used) = Len(nonces)
        BY <2>1 DEF TypeInv, TypeOK, PoolInv, Records, Tid
    <2>3. IsFiniteSet(used)
        <3>1. NumCrps \in Int /\ 1 \in Int
            BY PrototypeAssumption
        <3>2. IsFiniteSet(Crp)
            BY <3>1, FS_Interval DEF Crp
        <3> QED
            BY <2>2, <3>2, FS_Subset
    <2>4. Cardinality(used \cup {p.challenge}) = Cardinality(used) + 1
        BY <2>2, <2>3, FS_AddElement
    <2>5. Len(Append(nonces, p.nonce)) = Len(nonces) + 1
        BY <2>2, AppendProperties DEF Exchange
    <2>6. /\ rec'[u].consumed = used \cup {p.challenge}
          /\ rec'[u].tid.nonces = Append(nonces, p.nonce)
          /\ \A v \in Uav \ {u} : rec'[v] = rec[v]
          /\ pending' = [pending EXCEPT ![u] = None]
        <3> DEFINE r == [tid |-> Rotated(rec[u].tid, p.nonce),
                         consumed |-> used \cup {p.challenge}]
        <3>1. /\ rec' = [rec EXCEPT ![u] = r]
              /\ pending' = [pending EXCEPT ![u] = None]
            BY <2>1 DEF CompleteExchange, Consumed
        <3>2. r.consumed = used \cup {p.challenge}
            OBVIOUS
        <3>3. r.tid.nonces = Append(nonces, p.nonce)
            <4>1. rec[u].tid \in Tid
                BY <2>1 DEF TypeInv, TypeOK, Records
            <4> QED
                BY <4>1 DEF Rotated, Tid
        <3>4. rec \in Records
            BY DEF TypeInv, TypeOK
        <3> HIDE DEF r
        <3> QED
            BY <2>1, <3>1, <3>2, <3>3, <3>4 DEF Records
    <2>7. Cardinality(rec'[u].consumed) = Len(rec'[u].tid.nonces)
        BY <2>2, <2>4, <2>5, <2>6
    <2>8. UNCHANGED <<up, db>>
        BY DEF HandleMsg3
    <2> HIDE DEF p, used, nonces, u
    <2>9. \A v \in Uav : Cardinality(rec'[v].consumed) = Len(rec'[v].tid.nonces)
        BY <2>6, <2>7 DEF PoolInv
    <2>10. \A v \in Uav : pending'[v] # None =>
               up /\ pending'[v].challenge \notin rec'[v].consumed
        BY <2>1, <2>6 DEF PoolInv, TypeInv, TypeOK
    <2>11. \A v \in Uav : rec[v].consumed \subseteq rec'[v].consumed
        BY <2>6 DEF used
    <2> QED
        BY <2>8, <2>9, <2>10, <2>11 DEF PoolInv
<1> QED
    BY <1>1, <1>2

\* Saving, a crash and a restart.
LEMMA FilePool ==
    ASSUME TypeInv, PoolInv, Crash \/ Restart \/ \E c \in Conn : SaveGsState(c)
    PROVE  PoolInv'
<1>1. CASE Crash
    BY <1>1 DEF Crash, PoolInv
<1>2. CASE Restart
    BY <1>2 DEF Restart, Loaded, PoolInv
<1>3. ASSUME NEW c \in Conn, SaveGsState(c) PROVE PoolInv'
    BY <1>3 DEF SaveGsState, memory, PoolInv
<1> QED
    BY <1>1, <1>2, <1>3

LEMMA NextPool == TypeInv /\ PoolInv /\ [Next]_vars => PoolInv'
<1> SUFFICES ASSUME TypeInv, PoolInv, [Next]_vars PROVE PoolInv'
    OBVIOUS
<1>1. CASE UNCHANGED vars
    BY <1>1, PoolKept DEF vars, server, memory
<1>2. CASE ServerStep
    <2>1. CASE Accept
        BY <2>1, PoolKept DEF Accept, memory
    <2>2. ASSUME NEW c \in Conn, ClientDisconnected(c) PROVE PoolInv'
        BY <2>2, PoolKept DEF ClientDisconnected, memory
    <2> QED
        BY <1>2, <2>1, <2>2, OpenPool, CompletePool, FilePool DEF ServerStep
<1>3. CASE Crash \/ Restart
    BY <1>3, FilePool
<1>4. ASSUME NEW u \in Uav, StartClient(u) \/ ClientStep(u) \/ Die(u)
      PROVE  PoolInv'
    <2>1. UNCHANGED <<up, rec, pending, db>>
        BY <1>4 DEF StartClient, ClientStep, HandleMsg2, HandleMsg4, Fail,
                    SaveUavState, Die, server, memory
    <2> QED
        BY <2>1, PoolKept
<1> QED
    BY <1>1, <1>2, <1>3, <1>4 DEF Next

\* However many pairs are enrolled, every pair used has paid for one rotation
\* of the identity, in the server's memory and in its file, and no pair whose
\* use was saved is asked for again: no failed exchange, crash or restart loses
\* a pair or brings one back (phase2_msg1, phase2_msg3, save_gs_state and
\* load_gs_state).
THEOREM PoolPays == Spec => []PoolPaysForRotations
BY InitType, NextType, InitPool, NextPool, PoolImplies, PTL DEF Spec
-----------------------------------------------------------------------------
(* What the steps of the two ends do, case by case *)

\* What an end has closed, or never opened, carries nothing to it.
WellClosed(k) ==
    /\ k.link \in {"none", "gsClosed"} => k.toGs = None
    /\ k.link \in {"none", "uavClosed"} => k.toUav = None
LinkInv == \A c \in Conn : WellClosed(conn[c])

Quiet(m) == m = None \/ m.type = "error"

\* A step of handle_client on c.
Serves(c) ==
    /\ up /\ serving # None /\ serving.conn = c
    /\ \A d \in Conn \ {c} : conn'[d] = conn[d]
    /\ WellClosed(conn'[c])
    /\ conn'[c] = conn[c] \/ conn'[c].toGs = None
    /\ conn[c].link # "uavClosed" /\ conn[c].link # "none"
       => conn'[c].link \in {conn[c].link, "gsClosed"}
    /\ UNCHANGED <<persist, up, backlog, runs, proc, file>>

Keeps == UNCHANGED <<rec, sessions, db>>

Refuses(c) ==
    /\ serving.at \in {"msg1", "msg3"} /\ serving' = None /\ Keeps
    /\ conn'[c].toGs = None /\ Quiet(conn'[c].toUav)
Opens(c) ==
    /\ serving.at = "msg1" /\ serving' = [conn |-> c, at |-> "msg3"] /\ Keeps
    /\ Arrived(c, "msg1") /\ \E v \in Uav : conn[c].toGs.tid = rec[v].tid
    /\ conn'[c].toGs = None
    /\ conn'[c].toUav = None \/ conn'[c].toUav.type = "msg2"
Completes(c, m) ==
    /\ serving.at = "msg3" /\ conn[c].toGs = m /\ m # None
    /\ rec'[c[1]].tid = Rotated(rec[c[1]].tid, m.nonce)
    /\ sessions'[c[1]] = [nonce |-> m.nonce, challenge |-> m.challenge]
    /\ \A v \in Uav \ {c[1]} : rec'[v] = rec[v] /\ sessions'[v] = sessions[v]
    /\ UNCHANGED db
    /\ \/ conn'[c].toUav = None
       \/ /\ conn'[c].toUav.type = "msg4"
          /\ conn'[c].toUav.tid = rec'[c[1]].tid
          /\ conn'[c].toUav.challenge = m.challenge
    /\ \/ serving' = [conn |-> c, at |-> "save"]
       \/ serving' = None /\ (Gs \notin persist \/ conn[c].link = "uavClosed")
Truncates(c) ==
    /\ serving.at = "save" /\ serving' = [conn |-> c, at |-> "writing"]
    /\ db' = None /\ UNCHANGED <<rec, sessions, conn>>
Saves(c) ==
    /\ serving.at = "writing" /\ serving' = None
    /\ db' = rec /\ UNCHANGED <<rec, sessions>>
    /\ conn'[c].toUav \in {None, conn[c].toUav}

LEMMA ClosedWell ==
    ASSUME NEW k \in Connection, WellClosed(k)
    PROVE  /\ WellClosed(ClosedByGs(k)) /\ WellClosed(ClosedByUav(k))
           /\ ClosedByGs(k).toGs = None
           /\ ClosedByGs(k).toUav \in {None, k.toUav}
           /\ ClosedByUav(k).toUav = None
           /\ ClosedByUav(k).toGs \in {None, k.toGs}
           /\ k.link \in {"open", "gsClosed"} => ClosedByGs(k).link = "gsClosed"
           /\ k.link = "uavClosed" => ClosedByGs(k).toUav = None
<1>1. CASE k.link = "open"
    BY <1>1 DEF ClosedByGs, ClosedByUav, Connection, WellClosed
<1>2. CASE k.link = "uavClosed"
    BY <1>2 DEF ClosedByGs, ClosedByUav, Connection, WellClosed, Closed
<1>3. CASE k.link = "gsClosed"
    BY <1>3 DEF ClosedByGs, ClosedByUav, Connection, WellClosed, Closed
<1>4. CASE k.link = "none"
    BY <1>4 DEF ClosedByGs, ClosedByUav, Connection, WellClosed, Closed
<1> QED
    BY <1>1, <1>2, <1>3, <1>4 DEF Connection

LEMMA AnsweredWell ==
    ASSUME NEW k \in Connection, NEW m
    PROVE  /\ WellClosed(Answered(k, m))
           /\ Answered(k, m).link = k.link /\ Answered(k, m).toGs = None
           /\ Answered(k, m).toUav = None \/ Answered(k, m).toUav = m
BY DEF Answered, Connection, WellClosed

\* What is left of the served connection once it is closed, after an answer.
LEMMA ClosedAnswer ==
    ASSUME NEW k \in Connection, WellClosed(k), NEW m,
           NEW after, after = ClosedByGs(Answered(k, m))
    PROVE  /\ WellClosed(after) /\ after.toGs = None
           /\ after.toUav = None \/ after.toUav = m
           /\ k.link \in {"open", "gsClosed"} => after.link = "gsClosed"
<1>1. k.link = "open" =>
        [k EXCEPT !.toGs = None, !.toUav = IF k.link = "open" THEN m ELSE None]
        = [k EXCEPT !.toGs = None, !.toUav = m]
    OBVIOUS
<1>2. CASE k.link = "open"
    BY <1>1, <1>2 DEF ClosedByGs, Answered, Connection, WellClosed
<1>3. CASE k.link = "uavClosed"
    BY <1>3 DEF ClosedByGs, Answered, Connection, WellClosed, Closed
<1>4. CASE k.link = "gsClosed"
    BY <1>4 DEF ClosedByGs, Answered, Connection, WellClosed, Closed
<1>5. CASE k.link = "none"
    BY <1>5 DEF ClosedByGs, Answered, Connection, WellClosed, Closed
<1> QED
    BY <1>2, <1>3, <1>4, <1>5 DEF Connection

LEMMA AtServing ==
    ASSUME NEW c \in Conn, NEW stage \in {"msg1", "msg3", "save", "writing"},
           At(c, stage)
    PROVE  up /\ serving # None /\ serving.conn = c /\ serving.at = stage
<1>1. serving \in Serving
    BY DEF At, Serving
<1> QED
    BY <1>1, NoneAssumption DEF At

LEMMA ServedConn ==
    ASSUME TypeInv, NEW c \in Conn, NEW k, conn' = [conn EXCEPT ![c] = k]
    PROVE  conn'[c] = k /\ \A d \in Conn \ {c} : conn'[d] = conn[d]
BY ConnType DEF TypeInv

LEMMA RefuseView ==
    ASSUME TypeInv, LinkInv, NEW c \in Conn,
           \/ HandleMsg1(c) /\ Refuse(c)
           \/ HandleMsg3(c) /\ Refuse(c)
           \/ ClientDisconnected(c)
    PROVE  Serves(c) /\ Refuses(c)
<1> DEFINE k == conn[c]
           error == [type |-> "error"]
<1>1. k \in Connection /\ WellClosed(k)
    BY MessageType DEF TypeInv, LinkInv
<1>2. /\ serving = [conn |-> c, at |-> serving.at] /\ serving.at \in {"msg1", "msg3"}
      /\ up /\ serving' = None /\ UNCHANGED <<persist, up, backlog, runs, proc, file>>
      /\ Keeps
    BY DEF HandleMsg1, HandleMsg3, ClientDisconnected, At, Refuse, memory, client, Keeps
<1>3. serving # None /\ serving.conn = c
    BY <1>2, AtServing DEF HandleMsg1, HandleMsg3, ClientDisconnected
<1>4. CASE Refuse(c)
    <2> DEFINE after == ClosedByGs(Answered(k, error))
    <2>1. conn' = [conn EXCEPT ![c] = after]
        BY <1>4 DEF Refuse
    <2>2. /\ WellClosed(after) /\ after.toGs = None
          /\ after.toUav = None \/ after.toUav = error
          /\ k.link \in {"open", "gsClosed"} => after.link = "gsClosed"
        BY <1>1, ClosedAnswer
    <2> HIDE DEF after
    <2>3. conn'[c] = after /\ \A d \in Conn \ {c} : conn'[d] = conn[d]
        BY <2>1, ServedConn
    <2>4. k.link \in {"open", "gsClosed", "uavClosed", "none"}
        BY <1>1 DEF Connection
    <2> QED
        BY <1>2, <1>3, <2>2, <2>3, <2>4 DEF Serves, Refuses, Quiet
<1>5. CASE ClientDisconnected(c)
    <2> DEFINE after == ClosedByGs(k)
    <2>1. conn' = [conn EXCEPT ![c] = after] /\ k.link = "uavClosed"
        BY <1>5 DEF ClientDisconnected
    <2>2. WellClosed(after) /\ after.toGs = None /\ after.toUav = None
        BY <1>1, <2>1, ClosedWell
    <2> HIDE DEF after
    <2>3. conn'[c] = after /\ \A d \in Conn \ {c} : conn'[d] = conn[d]
        BY <2>1, ServedConn
    <2> QED
        BY <1>2, <1>3, <2>1, <2>2, <2>3 DEF Serves, Refuses, Quiet
<1> QED
    BY <1>4, <1>5

LEMMA HandleMsg1View ==
    ASSUME TypeInv, LinkInv, NEW c \in Conn, HandleMsg1(c), ~Refuse(c)
    PROVE  Serves(c) /\ Opens(c)
<1>1. conn[c] \in Connection
    BY MessageType DEF TypeInv
<1>2. PICK u \in Uav :
        /\ AcceptsMsg1(conn[c].toGs, u) /\ OpenExchange(conn[c].toGs, u)
        /\ conn' = [conn EXCEPT ![c] = Answered(@,
               [type |-> "msg2", nonce |-> conn[c].toGs.nonce,
                challenge |-> SelectUnusedCrp(u)])]
        /\ serving' = [serving EXCEPT !.at = "msg3"]
        /\ UNCHANGED <<rec, sessions>>
    BY DEF HandleMsg1
<1> DEFINE msg2 == [type |-> "msg2", nonce |-> conn[c].toGs.nonce,
                    challenge |-> SelectUnusedCrp(u)]
           after == Answered(conn[c], msg2)
<1>3. /\ up /\ serving = [conn |-> c, at |-> "msg1"] /\ Arrived(c, "msg1")
      /\ UNCHANGED <<persist, up, crashes, backlog, db, runs, proc, file>>
    BY DEF HandleMsg1, At, client
<1>4. /\ serving # None /\ serving.conn = c /\ serving.at = "msg1"
      /\ serving' = [conn |-> c, at |-> "msg3"]
    BY <1>2, <1>3, AtServing DEF HandleMsg1
<1>5. conn[c].toGs.tid = rec[u].tid
    BY <1>2 DEF AcceptsMsg1, FindByTid
<1>6. conn' = [conn EXCEPT ![c] = after] /\ msg2.type = "msg2"
    BY <1>2
<1> HIDE DEF msg2
<1>7. /\ WellClosed(after) /\ after.link = conn[c].link /\ after.toGs = None
      /\ after.toUav = None \/ after.toUav = msg2
    BY <1>1, AnsweredWell
<1> HIDE DEF after
<1>8. conn'[c] = after /\ \A d \in Conn \ {c} : conn'[d] = conn[d]
    BY <1>6, ServedConn
<1>9. Serves(c)
    BY <1>3, <1>4, <1>7, <1>8 DEF Serves
<1>10. Keeps
    BY <1>2, <1>3 DEF Keeps
<1> QED
    BY <1>3, <1>4, <1>5, <1>6, <1>7, <1>8, <1>9, <1>10 DEF Opens

LEMMA CompleteView ==
    ASSUME TypeOK, NEW u \in Uav, CompleteExchange(u)
    PROVE  /\ rec'[u].tid = Rotated(rec[u].tid, pending[u].nonce)
           /\ sessions'[u] = pending[u]
           /\ \A v \in Uav \ {u} : rec'[v] = rec[v] /\ sessions'[v] = sessions[v]
<1> DEFINE r == [tid |-> Rotated(rec[u].tid, pending[u].nonce),
                 consumed |-> Consumed(rec[u].consumed, pending[u].challenge)]
<1>1. rec' = [rec EXCEPT ![u] = r] /\ sessions' = [sessions EXCEPT ![u] = pending[u]]
    BY DEF CompleteExchange
<1>2. r.tid = Rotated(rec[u].tid, pending[u].nonce)
    OBVIOUS
<1> HIDE DEF r
<1> QED
    BY <1>1, <1>2 DEF TypeOK, Records

LEMMA HandleMsg3View ==
    ASSUME TypeInv, LinkInv, NEW c \in Conn, HandleMsg3(c), ~Refuse(c)
    PROVE  Serves(c) /\ Completes(c, conn[c].toGs)
<1> DEFINE u == c[1]
           m == conn[c].toGs
           msg4 == [type |-> "msg4", nonce |-> m.nonce,
                    challenge |-> m.challenge, tid |-> rec'[u].tid]
           answered == Answered(conn[c], msg4)
<1>1. conn[c] \in Connection /\ u \in Uav /\ WellClosed(conn[c])
    BY MessageType, ConnOwner DEF TypeInv, LinkInv
<1>2. /\ up /\ serving = [conn |-> c, at |-> "msg3"] /\ m # None
      /\ UNCHANGED <<persist, up, crashes, backlog, db, runs, proc, file>>
    BY DEF HandleMsg3, At, client, Arrived
<1>3. serving # None /\ serving.conn = c /\ serving.at = "msg3"
    BY AtServing DEF HandleMsg3
<1>4. /\ AcceptsMsg3(m, u) /\ CompleteExchange(u)
      /\ \/ /\ conn' = [conn EXCEPT ![c] = answered]
            /\ serving' = [serving EXCEPT !.at = "save"]
         \/ /\ Gs \notin persist \/ conn[c].link = "uavClosed"
            /\ conn' = [conn EXCEPT ![c] = ClosedByGs(answered)]
            /\ serving' = None
    BY DEF HandleMsg3
<1>5. pending[u] = [nonce |-> m.nonce, challenge |-> m.challenge]
    BY <1>4 DEF AcceptsMsg3
<1>6. /\ rec'[u].tid = Rotated(rec[u].tid, m.nonce)
      /\ sessions'[u] = [nonce |-> m.nonce, challenge |-> m.challenge]
      /\ \A v \in Uav \ {u} : rec'[v] = rec[v] /\ sessions'[v] = sessions[v]
    BY <1>1, <1>4, <1>5, CompleteView DEF TypeInv
<1>7. msg4.type = "msg4" /\ msg4.tid = rec'[u].tid /\ msg4.challenge = m.challenge
    OBVIOUS
<1> HIDE DEF msg4
<1>8. /\ WellClosed(answered) /\ answered.link = conn[c].link /\ answered.toGs = None
      /\ answered.toUav = None \/ answered.toUav = msg4
    BY <1>1, AnsweredWell
<1>9. \A after : after = ClosedByGs(answered) =>
        /\ WellClosed(after) /\ after.toGs = None
        /\ after.toUav = None \/ after.toUav = msg4
        /\ conn[c].link \in {"open", "gsClosed"} => after.link = "gsClosed"
    BY <1>1, ClosedAnswer
<1>10. PICK after : /\ conn' = [conn EXCEPT ![c] = after]
                    /\ WellClosed(after) /\ after.toGs = None
                    /\ after.toUav = None \/ after.toUav = msg4
                    /\ \/ after.link = conn[c].link
                       \/ /\ conn[c].link \in {"open", "gsClosed"}
                          => after.link = "gsClosed"
    BY <1>4, <1>8, <1>9
<1>11. conn'[c] = after /\ \A d \in Conn \ {c} : conn'[d] = conn[d]
    BY <1>10, ServedConn
<1>12. conn[c].link \in {"open", "gsClosed", "uavClosed", "none"}
    BY <1>1 DEF Connection
<1> HIDE DEF answered
<1>13. Serves(c)
    BY <1>2, <1>3, <1>10, <1>11, <1>12 DEF Serves
<1>14. \/ serving' = [conn |-> c, at |-> "save"]
       \/ serving' = None /\ (Gs \notin persist \/ conn[c].link = "uavClosed")
    BY <1>2, <1>4
<1> QED
    BY <1>2, <1>3, <1>6, <1>7, <1>10, <1>11, <1>13, <1>14 DEF Completes

LEMMA SaveGsStateView ==
    ASSUME TypeInv, LinkInv, NEW c \in Conn, SaveGsState(c)
    PROVE  Serves(c) /\ (Truncates(c) \/ Saves(c))
<1>1. conn[c] \in Connection /\ WellClosed(conn[c])
    BY MessageType DEF TypeInv, LinkInv
<1>2. UNCHANGED <<persist, up, rec, sessions, backlog, runs, proc, file>>
    BY DEF SaveGsState, memory, client
<1>3. CASE At(c, "save")
    <2>1. serving = [conn |-> c, at |-> "save"]
        BY <1>3 DEF At
    <2>2. up /\ serving # None /\ serving.conn = c /\ serving.at = "save"
        BY <1>3, AtServing
    <2>3. db' = None /\ serving' = [conn |-> c, at |-> "writing"] /\ UNCHANGED conn
        BY <1>3, <2>1, <2>2, AtServing DEF SaveGsState
    <2> QED
        BY <1>1, <1>2, <2>2, <2>3 DEF Serves, Truncates
<1>4. CASE At(c, "writing")
    <2> DEFINE after == ClosedByGs(conn[c])
    <2>1. up /\ serving # None /\ serving.conn = c /\ serving.at = "writing"
        BY <1>4, AtServing
    <2>2. db' = rec /\ conn' = [conn EXCEPT ![c] = after] /\ serving' = None
        BY <2>1, AtServing DEF SaveGsState
    <2>3. /\ WellClosed(after) /\ after.toGs = None
          /\ after.toUav \in {None, conn[c].toUav}
          /\ conn[c].link \in {"open", "gsClosed"} => after.link = "gsClosed"
        BY <1>1, ClosedWell
    <2> HIDE DEF after
    <2>4. conn'[c] = after /\ \A d \in Conn \ {c} : conn'[d] = conn[d]
        BY <2>2, ServedConn
    <2>5. conn[c].link \in {"open", "gsClosed", "uavClosed", "none"}
        BY <1>1 DEF Connection
    <2>6. Serves(c)
        BY <1>2, <2>1, <2>3, <2>4, <2>5 DEF Serves
    <2> QED
        BY <1>2, <2>1, <2>2, <2>3, <2>4, <2>6 DEF Saves
<1> QED
    BY <1>3, <1>4 DEF SaveGsState

\* Every step of handle_client is one of these.
LEMMA ServerView ==
    ASSUME TypeInv, LinkInv, ServerStep, ~Accept
    PROVE  \E c \in Conn : Serves(c) /\ \/ Refuses(c)
                                        \/ Opens(c)
                                        \/ Completes(c, conn[c].toGs)
                                        \/ Truncates(c)
                                        \/ Saves(c)
BY RefuseView, HandleMsg1View, HandleMsg3View, SaveGsStateView DEF ServerStep

\* A step of the client of u.
Moves(u) ==
    /\ proc[u] # None
    /\ \A v \in Uav \ {u} : proc'[v] = proc[v] /\ file'[v] = file[v]
    /\ \A c \in Conn \ {Own(u)} : conn'[c] = conn[c]
    /\ WellClosed(conn'[Own(u)])
    /\ UNCHANGED <<persist, up, rec, sessions, serving, backlog, db, runs>>

Leaves(u) ==
    /\ proc'[u] = None
    /\ conn'[Own(u)].toUav = None
    /\ conn'[Own(u)].toGs \in {None, conn[Own(u)].toGs}
    /\ \/ file'[u] = file[u]
       \/ proc[u].at = "writing" /\ file'[u] = proc[u].tid
Replies(u) ==
    /\ Received(u, "msg2", "msg2")
    /\ proc'[u].at = "msg4" /\ file'[u] = file[u]
    /\ conn'[Own(u)].link = conn[Own(u)].link
    /\ conn'[Own(u)].toUav = None
    /\ \/ conn'[Own(u)].toGs = None
       \/ conn'[Own(u)].toGs.type = "msg3" /\ conn'[Own(u)].toGs.nonce = runs[u]
AcceptsMsg4(u) ==
    /\ Received(u, "msg4", "msg4")
    /\ proc'[u].at = "save" /\ file'[u] = file[u]
    /\ proc'[u].tid = conn[Own(u)].toUav.tid
    /\ proc'[u].challenge = conn[Own(u)].toUav.challenge
    /\ conn'[Own(u)].link = conn[Own(u)].link
    /\ conn'[Own(u)].toUav = None
    /\ conn'[Own(u)].toGs = conn[Own(u)].toGs
BeginsSave(u) ==
    /\ proc[u].at = "save" /\ file'[u] = None
    /\ proc'[u].at = "writing" /\ proc'[u].tid = proc[u].tid
    /\ proc'[u].challenge = proc[u].challenge
    /\ UNCHANGED conn

LEMMA OwnView ==
    ASSUME TypeInv, NEW u \in Uav, proc[u] # None,
           NEW k, conn' = [conn EXCEPT ![Own(u)] = k]
    PROVE  conn'[Own(u)] = k /\ \A c \in Conn \ {Own(u)} : conn'[c] = conn[c]
BY OwnType, ServedConn

LEMMA ProcView ==
    ASSUME TypeInv, NEW u \in Uav, NEW q, proc' = [proc EXCEPT ![u] = q]
    PROVE  proc'[u] = q /\ \A v \in Uav \ {u} : proc'[v] = proc[v]
BY DEF TypeInv, TypeOK

\* Exit, and a host that vanishes.
LEMMA LeaveView ==
    ASSUME TypeInv, LinkInv, NEW u \in Uav, proc[u] # None,
           proc' = [proc EXCEPT ![u] = None],
           \/ conn' = [conn EXCEPT ![Own(u)] = ClosedByUav(@)]
           \/ conn' = [conn EXCEPT ![Own(u)].toUav = None],
           \A v \in Uav \ {u} : file'[v] = file[v],
           \/ file'[u] = file[u]
           \/ proc[u].at = "writing" /\ file'[u] = proc[u].tid,
           UNCHANGED <<persist, server, runs>>
    PROVE  Moves(u) /\ Leaves(u)
<1> DEFINE c == Own(u)
<1>1. c \in Conn /\ conn[c] \in Connection /\ WellClosed(conn[c])
    BY OwnType, MessageType DEF TypeInv, LinkInv
<1>2. PICK k : /\ conn' = [conn EXCEPT ![c] = k]
               /\ WellClosed(k) /\ k.toUav = None /\ k.toGs \in {None, conn[c].toGs}
    <2>1. CASE conn' = [conn EXCEPT ![c] = ClosedByUav(@)]
        BY <1>1, <2>1, ClosedWell
    <2>2. CASE conn' = [conn EXCEPT ![c].toUav = None]
        <3> DEFINE k == [conn[c] EXCEPT !.toUav = None]
        <3>1. WellClosed(k) /\ k.toUav = None /\ k.toGs = conn[c].toGs
            BY <1>1 DEF WellClosed, Connection
        <3>2. conn' = [conn EXCEPT ![c] = k]
            BY <1>1, <2>2
        <3> QED
            BY <3>1, <3>2
    <2> QED
        BY <2>1, <2>2
<1>3. conn'[c] = k /\ \A d \in Conn \ {c} : conn'[d] = conn[d]
    BY <1>2, OwnView
<1>4. proc'[u] = None /\ \A v \in Uav \ {u} : proc'[v] = proc[v]
    BY ProcView
<1>5. UNCHANGED <<persist, up, rec, sessions, serving, backlog, db, runs>>
    BY DEF server, memory
<1> QED
    BY <1>2, <1>3, <1>4, <1>5 DEF Moves, Leaves

LEMMA ExitView ==
    ASSUME TypeInv, LinkInv, NEW u \in Uav,
           \/ HandleMsg2(u) /\ Exit(u)
           \/ Fail(u)
           \/ SaveUavState(u) /\ Exit(u)
           \/ Die(u)
    PROVE  Moves(u) /\ Leaves(u)
<1>1. proc[u] # None
    BY DEF HandleMsg2, Fail, SaveUavState, Die, Received
<1>2. proc' = [proc EXCEPT ![u] = None]
    BY DEF HandleMsg2, Fail, SaveUavState, Die, Exit
<1>3. \/ conn' = [conn EXCEPT ![Own(u)] = ClosedByUav(@)]
      \/ conn' = [conn EXCEPT ![Own(u)].toUav = None]
    BY DEF HandleMsg2, Fail, SaveUavState, Die, Exit
<1>4. UNCHANGED <<persist, server, runs>>
    BY DEF HandleMsg2, Fail, SaveUavState, Die
<1>5. /\ \A v \in Uav \ {u} : file'[v] = file[v]
      /\ \/ file'[u] = file[u]
         \/ proc[u].at = "writing" /\ file'[u] = proc[u].tid
    <2>1. CASE UNCHANGED file
        BY <2>1
    <2>2. CASE SaveUavState(u) /\ Exit(u)
        <3>1. CASE proc[u].at = "save" /\ proc' = [proc EXCEPT ![u].at = "writing"]
            <4>1. proc'[u] = None /\ proc'[u] = [proc[u] EXCEPT !.at = "writing"]
                BY <1>2, <3>1 DEF TypeInv, TypeOK
            <4>2. [proc[u] EXCEPT !.at = "writing"] \in ClientProcess
                BY <1>1 DEF TypeInv, TypeOK, ClientProcess
            <4> QED
                BY <4>1, <4>2, NoneAssumption
        <3> QED
            BY <2>2, <3>1 DEF SaveUavState, TypeInv, TypeOK
    <2> QED
        BY <2>1, <2>2 DEF HandleMsg2, Fail, Die
<1> QED
    BY <1>1, <1>2, <1>3, <1>4, <1>5, LeaveView

LEMMA HandleMsg2View ==
    ASSUME TypeInv, LinkInv, NEW u \in Uav, HandleMsg2(u), ~Exit(u)
    PROVE  Moves(u) /\ Replies(u)
<1> DEFINE c == Own(u)
           m == conn[c].toUav
           msg3 == [type |-> "msg3", nonce |-> runs[u], challenge |-> m.challenge]
           answer == IF conn[c].link = "open" THEN msg3 ELSE None
           k == [conn[c] EXCEPT !.toUav = None, !.toGs = answer]
           q == [proc[u] EXCEPT !.at = "msg4", !.challenge = m.challenge]
<1>1. /\ proc[u] # None /\ proc[u] \in ClientProcess /\ c \in Conn
      /\ conn[c] \in Connection
    BY AnswerType DEF HandleMsg2, Received, TypeInv, TypeOK
<1>2. /\ proc' = [proc EXCEPT ![u] = q] /\ UNCHANGED file
      /\ UNCHANGED <<persist, up, rec, sessions, serving, backlog, db, runs>>
    BY DEF HandleMsg2, server, memory, TypeInv, TypeOK
<1>3. conn' = [conn EXCEPT ![c] = k]
    BY <1>1, ConnType DEF HandleMsg2, TypeInv
<1>4. answer = None \/ answer = msg3
    OBVIOUS
<1>5. msg3.type = "msg3" /\ msg3.nonce = runs[u]
    OBVIOUS
<1>6. conn[c].link # "open" => answer = None
    OBVIOUS
<1> HIDE DEF answer, msg3
<1>7. k.link = conn[c].link /\ k.toUav = None /\ k.toGs = answer /\ WellClosed(k)
    BY <1>1, <1>6 DEF Connection, WellClosed
<1>8. q.at = "msg4"
    BY <1>1 DEF ClientProcess
<1> HIDE DEF k, q
<1>9. conn'[c] = k /\ \A d \in Conn \ {c} : conn'[d] = conn[d]
    BY <1>1, <1>3, OwnView
<1>10. proc'[u] = q /\ \A v \in Uav \ {u} : proc'[v] = proc[v]
    BY <1>2, ProcView
<1>11. Received(u, "msg2", "msg2")
    BY DEF HandleMsg2
<1> QED
    BY <1>1, <1>2, <1>4, <1>5, <1>7, <1>8, <1>9, <1>10, <1>11 DEF Moves, Replies

LEMMA HandleMsg4View ==
    ASSUME TypeInv, LinkInv, NEW u \in Uav, HandleMsg4(u)
    PROVE  Moves(u) /\ AcceptsMsg4(u)
<1> DEFINE c == Own(u)
           m == conn[c].toUav
           k == [conn[c] EXCEPT !.toUav = None]
           q == [proc[u] EXCEPT !.at = "save", !.tid = m.tid]
<1>1. /\ proc[u] # None /\ proc[u] \in ClientProcess /\ c \in Conn
      /\ conn[c] \in Connection /\ WellClosed(conn[c])
    BY AnswerType DEF HandleMsg4, Received, TypeInv, TypeOK, LinkInv
<1>2. /\ proc' = [proc EXCEPT ![u] = q] /\ UNCHANGED file
      /\ conn' = [conn EXCEPT ![c] = k] /\ m.challenge = proc[u].challenge
      /\ UNCHANGED <<persist, up, rec, sessions, serving, backlog, db, runs>>
    BY DEF HandleMsg4, server, memory, TypeInv, TypeOK
<1>3. k.link = conn[c].link /\ k.toUav = None /\ k.toGs = conn[c].toGs /\ WellClosed(k)
    BY <1>1 DEF Connection, WellClosed
<1>4. q.at = "save" /\ q.tid = m.tid /\ q.challenge = m.challenge
    BY <1>1, <1>2 DEF ClientProcess
<1> HIDE DEF k, q
<1>5. conn'[c] = k /\ \A d \in Conn \ {c} : conn'[d] = conn[d]
    BY <1>1, <1>2, OwnView
<1>6. proc'[u] = q /\ \A v \in Uav \ {u} : proc'[v] = proc[v]
    BY <1>2, ProcView
<1>7. Received(u, "msg4", "msg4")
    BY DEF HandleMsg4
<1> QED
    BY <1>1, <1>2, <1>3, <1>4, <1>5, <1>6, <1>7 DEF Moves, AcceptsMsg4

LEMMA BeginView ==
    ASSUME TypeInv, LinkInv, NEW u \in Uav, SaveUavState(u), ~Exit(u)
    PROVE  Moves(u) /\ BeginsSave(u)
<1> DEFINE q == [proc[u] EXCEPT !.at = "writing"]
<1>1. /\ proc[u] # None /\ proc[u] \in ClientProcess
      /\ Own(u) \in Conn /\ WellClosed(conn[Own(u)])
    BY AnswerType DEF SaveUavState, TypeInv, TypeOK, LinkInv
<1>2. /\ proc' = [proc EXCEPT ![u] = q] /\ file' = [file EXCEPT ![u] = None]
      /\ proc[u].at = "save"
      /\ UNCHANGED <<persist, up, rec, sessions, serving, backlog, conn, db, runs>>
    BY DEF SaveUavState, server, memory, TypeInv, TypeOK
<1>3. q.at = "writing" /\ q.tid = proc[u].tid /\ q.challenge = proc[u].challenge
    BY <1>1 DEF ClientProcess
<1> HIDE DEF q
<1>4. proc'[u] = q /\ \A v \in Uav \ {u} : proc'[v] = proc[v]
    BY <1>2, ProcView
<1>5. file'[u] = None /\ \A v \in Uav \ {u} : file'[v] = file[v]
    BY <1>2 DEF TypeInv, TypeOK
<1> QED
    BY <1>1, <1>2, <1>3, <1>4, <1>5 DEF Moves, BeginsSave

\* Every step of a client, its end included, is one of these.
LEMMA ClientView ==
    ASSUME TypeInv, LinkInv, NEW u \in Uav, ClientStep(u) \/ Die(u)
    PROVE  Moves(u) /\ \/ Leaves(u)
                       \/ Replies(u)
                       \/ AcceptsMsg4(u)
                       \/ BeginsSave(u)
BY ExitView, HandleMsg2View, HandleMsg4View, BeginView DEF ClientStep

\* The start of one.
Starts(u, c) ==
    /\ c = <<u, runs[u] + 1>> /\ runs'[u] = runs[u] + 1 /\ c \in Conn
    /\ proc[u] = None /\ file[u] # None /\ up
    /\ proc'[u].at = "msg2"
    /\ conn'[c].link = "open" /\ conn'[c].toUav = None
    /\ conn'[c].toGs.type = "msg1" /\ conn'[c].toGs.tid = file[u]
    /\ conn'[c].toGs.nonce = c[2]
    /\ \A v \in Uav \ {u} : runs'[v] = runs[v] /\ proc'[v] = proc[v]
    /\ \A d \in Conn \ {c} : conn'[d] = conn[d]
    /\ backlog' = Append(backlog, c)
    /\ UNCHANGED <<persist, up, rec, sessions, serving, db, file>>

LEMMA StartView ==
    ASSUME TypeInv, NEW u \in Uav, StartClient(u)
    PROVE  Starts(u, <<u, runs[u] + 1>>)
<1> DEFINE n == runs[u] + 1
           c == <<u, n>>
           msg1 == [type |-> "msg1", tid |-> file[u], nonce |-> n]
           p == [at |-> "msg2", tid |-> file[u], challenge |-> None]
           k == [link |-> "open", toUav |-> None, toGs |-> msg1]
<1>1. runs[u] < MaxRuns[u] /\ file[u] # None /\ proc[u] = None /\ up
    BY DEF StartClient
<1>2. c \in Conn
    <2>1. n \in 1 .. MaxRuns[u]
        BY <1>1, PrototypeAssumption DEF TypeInv, TypeOK
    <2> QED
        BY <2>1 DEF Conn
<1>3. /\ runs' = [runs EXCEPT ![u] = n] /\ proc' = [proc EXCEPT ![u] = p]
      /\ conn' = [conn EXCEPT ![c] = k] /\ backlog' = Append(backlog, c)
      /\ UNCHANGED <<persist, up, rec, sessions, serving, db, file>>
    BY DEF StartClient, memory
<1>4. /\ p.at = "msg2" /\ k.link = "open" /\ k.toUav = None /\ k.toGs = msg1
      /\ msg1.type = "msg1" /\ msg1.tid = file[u] /\ msg1.nonce = n
    OBVIOUS
<1> HIDE DEF p, k, msg1
<1>5. proc'[u] = p /\ \A v \in Uav \ {u} : proc'[v] = proc[v]
    BY <1>3, ProcView
<1>6. runs'[u] = n /\ \A v \in Uav \ {u} : runs'[v] = runs[v]
    BY <1>3 DEF TypeInv, TypeOK
<1>7. c[2] = n
    OBVIOUS
<1> HIDE DEF c
<1>8. conn'[c] = k /\ \A d \in Conn \ {c} : conn'[d] = conn[d]
    BY <1>2, <1>3, ServedConn
<1> QED
    BY <1>1, <1>2, <1>3, <1>4, <1>5, <1>6, <1>7, <1>8 DEF Starts, c

LEMMA InitLink == Init => LinkInv
<1> SUFFICES ASSUME Init PROVE LinkInv
    OBVIOUS
<1>1. \A c \in Conn : conn[c] = Closed
    BY DEF Init
<1> QED
    BY <1>1 DEF LinkInv, WellClosed, Closed

LEMMA NextLink == TypeInv /\ LinkInv /\ [Next]_vars => LinkInv'
<1> SUFFICES ASSUME TypeInv, LinkInv, [Next]_vars PROVE LinkInv'
    OBVIOUS
<1>1. CASE UNCHANGED vars
    BY <1>1 DEF vars, LinkInv
<1>2. CASE ServerStep
    <2>1. CASE Accept
        BY <2>1 DEF Accept, LinkInv
    <2>2. ASSUME NEW c \in Conn, Serves(c) PROVE LinkInv'
        BY <2>2 DEF Serves, LinkInv, WellClosed
    <2> QED
        BY <1>2, <2>1, <2>2, ServerView
<1>3. CASE Crash
    <2>1. \A c \in Conn : WellClosed(ClosedByGs(conn[c]))
        BY MessageType, ClosedWell DEF TypeInv, LinkInv
    <2>2. \A c \in Conn : conn'[c] = ClosedByGs(conn[c])
        BY <1>3 DEF Crash
    <2> QED
        BY <2>1, <2>2 DEF LinkInv, WellClosed
<1>4. CASE Restart
    BY <1>4 DEF Restart, LinkInv
<1>5. ASSUME NEW u \in Uav, StartClient(u) PROVE LinkInv'
    <2> DEFINE c == <<u, runs[u] + 1>>
    <2>1. Starts(u, c)
        BY <1>5, StartView
    <2> HIDE DEF c
    <2> QED
        BY <2>1 DEF Starts, LinkInv, WellClosed
<1>6. ASSUME NEW u \in Uav, ClientStep(u) \/ Die(u) PROVE LinkInv'
    <2>1. Moves(u)
        BY <1>6, ClientView
    <2> QED
        BY <2>1 DEF Moves, LinkInv, WellClosed
<1> QED
    BY <1>1, <1>2, <1>3, <1>4, <1>5, <1>6 DEF Next
-----------------------------------------------------------------------------
(* The connections of a device are served in the order its runs opened them *)

\* Waiting in the backlog, or for its msg1 to arrive; answered with msg2.
Queued(c) == \/ \E i \in 1 .. Len(backlog) : backlog[i] = c
             \/ serving = [conn |-> c, at |-> "msg1"]
Open(c) == serving = [conn |-> c, at |-> "msg3"]
InHand(c) == Queued(c) \/ Open(c)
Busy(u) == \E c \in Conn : c[1] = u /\ InHand(c)

Sorted == \A i, j \in 1 .. Len(backlog) :
    i < j /\ backlog[i][1] = backlog[j][1] => backlog[i][2] < backlog[j][2]
First == serving # None =>
    /\ serving.conn[2] <= runs[serving.conn[1]]
    /\ \A i \in 1 .. Len(backlog) :
           backlog[i][1] = serving.conn[1] => serving.conn[2] < backlog[i][2]
Latest == \A c \in Conn : InHand(c) => c[2] <= runs[c[1]] /\ InHand(Own(c[1]))

QueueInv ==
    /\ ~up => serving = None /\ backlog = <<>>
    /\ Sorted /\ First /\ Latest

LEMMA InitQueue == Init => QueueInv
<1> SUFFICES ASSUME Init PROVE QueueInv
    OBVIOUS
<1>1. serving = None /\ backlog = <<>> /\ Len(backlog) = 0
    BY DEF Init
<1>2. \A c \in Conn : ~ InHand(c)
    BY <1>1, NoneAssumption DEF InHand, Queued, Open, Serving
<1> QED
    BY <1>1, <1>2 DEF QueueInv, Sorted, First, Latest

\* A step that leaves the queue alone.
LEMMA QueueKept ==
    ASSUME QueueInv, UNCHANGED <<up, serving, backlog, runs>>
    PROVE  QueueInv'
<1>1. \A c : (InHand(c)' <=> InHand(c)) /\ Own(c[1])' = Own(c[1])
    BY DEF InHand, Queued, Open, Own
<1>2. Sorted' /\ First'
    BY DEF QueueInv, Sorted, First
<1>3. Latest'
    <2>1. \A c \in Conn : InHand(Own(c[1]))' <=> InHand(Own(c[1]))
        BY DEF InHand, Queued, Open, Own
    <2> QED
        BY <1>1, <2>1 DEF QueueInv, Latest
<1> QED
    BY <1>2, <1>3 DEF QueueInv

\* Accept takes the oldest: who is in hand stays the same.
LEMMA AcceptHand ==
    ASSUME TypeInv, Accept
    PROVE  /\ backlog[1] \in Conn /\ serving = None /\ up
           /\ serving' = [conn |-> backlog[1], at |-> "msg1"]
           /\ 1 \in 1 .. Len(backlog)
           /\ Len(backlog') = Len(backlog) - 1 /\ Len(backlog) \in Nat
           /\ \A i \in 1 .. Len(backlog') : backlog'[i] = backlog[i + 1]
           /\ \A c \in Conn : (Queued(c)' <=> Queued(c)) /\ ~Open(c)' /\ ~Open(c)
<1>1. backlog \in Seq(Conn) /\ backlog # <<>> /\ serving = None /\ up
    BY DEF Accept, TypeInv, TypeOK
<1>2. /\ Head(backlog) = backlog[1] /\ Head(backlog) \in Conn
      /\ Len(backlog') = Len(backlog) - 1 /\ Len(backlog) \in Nat
      /\ \A i \in 1 .. Len(backlog') : backlog'[i] = backlog[i + 1]
    BY <1>1, HeadTailProperties DEF Accept
<1>3. 1 \in 1 .. Len(backlog)
    BY <1>1, <1>2, EmptySeq
<1>4. serving' = [conn |-> backlog[1], at |-> "msg1"]
    BY <1>2 DEF Accept
<1>5. ASSUME NEW c \in Conn
      PROVE  (Queued(c)' <=> Queued(c)) /\ ~Open(c)' /\ ~Open(c)
    <2>1. ~Open(c)' /\ ~Open(c)
        BY <1>1, <1>4, NoneAssumption DEF Open, Serving
    <2>2. ASSUME Queued(c)' PROVE Queued(c)
        <3>1. CASE serving' = [conn |-> c, at |-> "msg1"]
            BY <1>3, <1>4, <3>1 DEF Queued
        <3>2. ASSUME NEW i \in 1 .. Len(backlog'), backlog'[i] = c PROVE Queued(c)
            <4>1. i + 1 \in 1 .. Len(backlog) /\ backlog[i + 1] = c
                BY <1>2, <3>2
            <4> QED
                BY <4>1 DEF Queued
        <3> QED
            BY <2>2, <3>1, <3>2 DEF Queued
    <2>3. ASSUME Queued(c) PROVE Queued(c)'
        <3>1. PICK i \in 1 .. Len(backlog) : backlog[i] = c
            BY <1>1, <2>3, NoneAssumption DEF Queued, Serving
        <3>2. CASE i = 1
            BY <1>4, <3>1, <3>2 DEF Queued
        <3>3. CASE i # 1
            <4>1. i - 1 \in 1 .. Len(backlog') /\ backlog'[i - 1] = c
                BY <1>2, <3>1, <3>3
            <4> QED
                BY <4>1 DEF Queued
        <3> QED
            BY <3>2, <3>3
    <2> QED
        BY <2>1, <2>2, <2>3
<1> QED
    BY <1>1, <1>2, <1>3, <1>4, <1>5

LEMMA AcceptQueue == ASSUME TypeInv, QueueInv, Accept PROVE QueueInv'
<1>1. /\ backlog[1] \in Conn /\ serving' = [conn |-> backlog[1], at |-> "msg1"]
      /\ 1 \in 1 .. Len(backlog) /\ up
      /\ Len(backlog') = Len(backlog) - 1 /\ Len(backlog) \in Nat
      /\ \A i \in 1 .. Len(backlog') : backlog'[i] = backlog[i + 1]
      /\ \A c \in Conn : (Queued(c)' <=> Queued(c)) /\ ~Open(c)' /\ ~Open(c)
    BY AcceptHand
<1>2. UNCHANGED <<up, runs>>
    BY DEF Accept, client
<1>3. Sorted'
    <2> SUFFICES ASSUME NEW i \in 1 .. Len(backlog'), NEW j \in 1 .. Len(backlog'),
                        i < j, backlog'[i][1] = backlog'[j][1]
                 PROVE  backlog'[i][2] < backlog'[j][2]
        BY DEF Sorted
    <2>1. i + 1 \in 1 .. Len(backlog) /\ j + 1 \in 1 .. Len(backlog) /\ i + 1 < j + 1
        BY <1>1
    <2> QED
        BY <1>1, <2>1 DEF QueueInv, Sorted
<1>4. First'
    <2> DEFINE h == backlog[1]
    <2>1. serving'.conn = h
        BY <1>1
    <2>2. Queued(h)
        BY <1>1 DEF Queued
    <2>3. h[2] <= runs'[h[1]]
        BY <1>1, <1>2, <2>2 DEF QueueInv, Latest, InHand
    <2>4. ASSUME NEW i \in 1 .. Len(backlog'), backlog'[i][1] = h[1]
          PROVE  h[2] < backlog'[i][2]
        <3>1. i + 1 \in 1 .. Len(backlog) /\ 1 < i + 1
            BY <1>1
        <3> QED
            BY <1>1, <2>4, <3>1 DEF QueueInv, Sorted
    <2> QED
        BY <2>1, <2>3, <2>4 DEF First
<1>5. Latest'
    <2> SUFFICES ASSUME NEW c \in Conn, InHand(c)'
                 PROVE  c[2] <= runs'[c[1]] /\ InHand(Own(c[1]))'
        BY DEF Latest
    <2>1. InHand(c)
        BY <1>1 DEF InHand
    <2>2. c[2] <= runs[c[1]] /\ InHand(Own(c[1]))
        BY <2>1 DEF QueueInv, Latest
    <2>3. Own(c[1]) \in Conn
        <3>1. c[1] \in Uav /\ c[2] \in 1 .. MaxRuns[c[1]]
            BY DEF Conn
        <3>2. runs[c[1]] \in 1 .. MaxRuns[c[1]]
            BY <2>2, <3>1, PrototypeAssumption DEF TypeInv, TypeOK, RunsInv
        <3> QED
            BY <3>1, <3>2 DEF Own, Conn
    <2>4. Own(c[1])' = Own(c[1])
        BY <1>2 DEF Own
    <2> QED
        BY <1>1, <1>2, <2>2, <2>3, <2>4 DEF InHand, Queued, Open
<1> QED
    BY <1>1, <1>2, <1>3, <1>4, <1>5 DEF QueueInv

\* A device with a connection in hand has its latest one in hand.
LEMMA LatestInHand ==
    ASSUME TypeInv, QueueInv, NEW c \in Conn, InHand(c)
    PROVE  /\ c[1] \in Uav /\ c[2] \in 1 .. MaxRuns[c[1]]
           /\ Own(c[1]) \in Conn /\ InHand(Own(c[1])) /\ c[2] <= runs[c[1]]
<1>1. c[1] \in Uav /\ c[2] \in 1 .. MaxRuns[c[1]]
    BY DEF Conn
<1>2. c[2] <= runs[c[1]] /\ InHand(Own(c[1]))
    BY DEF QueueInv, Latest
<1>3. runs[c[1]] \in 1 .. MaxRuns[c[1]]
    BY <1>1, <1>2, PrototypeAssumption DEF TypeInv, TypeOK, RunsInv
<1> QED
    BY <1>1, <1>2, <1>3 DEF Own, Conn

\* Which steps of handle_client there are.
Handles(c) == Serves(c) /\ \/ Refuses(c)
                           \/ Opens(c)
                           \/ Completes(c, conn[c].toGs)
                           \/ Truncates(c)
                           \/ Saves(c)

\* A served connection is not in the backlog; a step of its service leaves it
\* in hand at most by answering msg1, and every other one as it is.
LEMMA HandleHand ==
    ASSUME TypeInv, QueueInv, NEW c \in Conn, Handles(c)
    PROVE  /\ serving = [conn |-> c, at |-> serving.at] /\ ~Queued(c)'
           /\ serving.at # "msg1" => ~Queued(c)
           /\ serving.at # "msg3" => ~Open(c)
           /\ serving' # None => serving'.conn = c
           /\ \A d \in Conn \ {c} : /\ Queued(d)' <=> Queued(d)
                                    /\ ~Open(d)' /\ ~Open(d)
           /\ Open(c)' => Queued(c) /\ Opens(c)
           /\ \A u \in Uav : Busy(u)' => Busy(u)
<1>1. serving \in Serving /\ serving # None /\ serving.conn = c /\ UNCHANGED backlog
    BY DEF Handles, Serves, TypeInv, TypeOK
<1>2. serving = [conn |-> c, at |-> serving.at]
    BY <1>1 DEF Serving
<1>3. \/ serving' = None
      \/ serving' = [conn |-> c, at |-> "msg3"] /\ Opens(c)
      \/ serving' = [conn |-> c, at |-> "save"]
      \/ serving' = [conn |-> c, at |-> "writing"]
    BY DEF Handles, Refuses, Opens, Completes, Truncates, Saves
<1>4. ~Queued(c)' /\ (serving.at # "msg1" => ~Queued(c))
    <2>1. ASSUME NEW i \in 1 .. Len(backlog), backlog[i] = c PROVE FALSE
        <3>1. c[2] < c[2]
            BY <1>1, <2>1 DEF QueueInv, First
        <3>2. c[2] \in Int
            BY PrototypeAssumption DEF Conn
        <3> QED
            BY <3>1, <3>2
    <2>2. serving' # [conn |-> c, at |-> "msg1"]
        <3>1. None # [conn |-> c, at |-> "msg1"]
            BY NoneAssumption DEF Serving
        <3> QED
            BY <1>3, <3>1
    <2> QED
        BY <1>1, <2>1, <2>2 DEF Queued
<1>5. (serving' # None => serving'.conn = c) /\ (serving.at # "msg3" => ~Open(c))
    BY <1>3 DEF Open
<1>6. ASSUME NEW d \in Conn \ {c}
      PROVE  (Queued(d)' <=> Queued(d)) /\ ~Open(d)' /\ ~Open(d)
    <2>1. \A at \in {"msg1", "msg3"} :
            serving # [conn |-> d, at |-> at] /\ serving' # [conn |-> d, at |-> at]
        <3>1. \A at \in {"msg1", "msg3"} : None # [conn |-> d, at |-> at]
            BY NoneAssumption DEF Serving
        <3> QED
            BY <1>2, <1>3, <3>1
    <2> QED
        BY <1>1, <2>1 DEF Queued, Open
<1>7. Open(c)' => Queued(c) /\ Opens(c)
    <2>1. None # [conn |-> c, at |-> "msg3"]
        BY NoneAssumption DEF Serving
    <2> QED
        BY <1>2, <1>3, <2>1 DEF Open, Queued, Opens
<1>8. ASSUME NEW u \in Uav, Busy(u)' PROVE Busy(u)
    BY <1>4, <1>6, <1>7, <1>8 DEF Busy, InHand
<1> QED
    BY <1>2, <1>4, <1>5, <1>6, <1>7, <1>8

LEMMA HandleQueue ==
    ASSUME TypeInv, QueueInv, NEW c \in Conn, Handles(c)
    PROVE  QueueInv'
<1>1. /\ serving = [conn |-> c, at |-> serving.at] /\ ~Queued(c)'
      /\ serving' # None => serving'.conn = c
      /\ \A d \in Conn \ {c} : (Queued(d)' <=> Queued(d)) /\ ~Open(d)' /\ ~Open(d)
      /\ Open(c)' => Queued(c) /\ Opens(c)
    BY HandleHand
<1>2. up /\ serving # None /\ serving.conn = c /\ UNCHANGED <<up, backlog, runs>>
    BY DEF Handles, Serves
<1>3. Sorted' /\ First'
    BY <1>1, <1>2 DEF QueueInv, Sorted, First
<1>4. Latest'
    <2> SUFFICES ASSUME NEW d \in Conn, InHand(d)'
                 PROVE  d[2] <= runs'[d[1]] /\ InHand(Own(d[1]))'
        BY DEF Latest
    <2>1. InHand(d)
        BY <1>1 DEF InHand
    <2>2. /\ d[1] \in Uav /\ d[2] \in 1 .. MaxRuns[d[1]] /\ d[2] <= runs[d[1]]
          /\ Own(d[1]) \in Conn /\ InHand(Own(d[1]))
        BY <2>1, LatestInHand
    <2>3. Own(d[1])' = Own(d[1])
        BY <1>2 DEF Own
    <2>4. CASE Own(d[1]) # c
        BY <1>1, <1>2, <2>2, <2>3, <2>4 DEF InHand, Queued, Open
    <2>5. CASE Own(d[1]) = c /\ d = c
        BY <1>2, <2>2, <2>3, <2>5
    <2>6. CASE Own(d[1]) = c /\ d # c
        <3>1. PICK i \in 1 .. Len(backlog) : backlog[i] = d
            <4>1. Queued(d)' /\ ~Open(d)
                BY <1>1, <2>6 DEF InHand
            <4>2. Queued(d) /\ serving # [conn |-> d, at |-> "msg1"]
                BY <1>1, <1>2, <2>6, <4>1
            <4> QED
                BY <4>2 DEF Queued
        <3>2. c[1] = d[1] /\ c[2] = runs[d[1]]
            BY <2>6 DEF Own
        <3>3. c[2] < d[2]
            BY <1>2, <3>1, <3>2 DEF QueueInv, First
        <3>4. runs[d[1]] \in Int /\ d[2] \in Int
            BY <2>2, PrototypeAssumption DEF TypeInv, TypeOK
        <3> QED
            BY <2>2, <3>2, <3>3, <3>4
    <2> QED
        BY <2>4, <2>5, <2>6
<1> QED
    BY <1>2, <1>3, <1>4 DEF QueueInv

\* A new connection joins the backlog behind all others.
LEMMA StartHand ==
    ASSUME TypeInv, NEW u \in Uav, NEW c, Starts(u, c)
    PROVE  /\ Len(backlog') = Len(backlog) + 1 /\ Len(backlog) \in Nat
           /\ \A i \in 1 .. Len(backlog) : backlog'[i] = backlog[i]
           /\ backlog'[Len(backlog')] = c
           /\ \A d \in Conn : (Queued(d)' <=> Queued(d) \/ d = c) /\ (Open(d)' <=> Open(d))
<1>1. backlog \in Seq(Conn) /\ c \in Conn /\ backlog' = Append(backlog, c)
      /\ UNCHANGED serving
    BY DEF TypeInv, TypeOK, Starts
<1>2. /\ Len(backlog') = Len(backlog) + 1 /\ Len(backlog) \in Nat
      /\ \A i \in 1 .. Len(backlog) : backlog'[i] = backlog[i]
      /\ backlog'[Len(backlog')] = c
    BY <1>1, AppendProperties, LenProperties
<1>3. ASSUME NEW d \in Conn
      PROVE  (Queued(d)' <=> Queued(d) \/ d = c) /\ (Open(d)' <=> Open(d))
    <2>1. 1 .. Len(backlog') = (1 .. Len(backlog)) \cup {Len(backlog')}
        BY <1>2
    <2> QED
        BY <1>1, <1>2, <2>1 DEF Queued, Open
<1> QED
    BY <1>2, <1>3

LEMMA StartQueue ==
    ASSUME TypeInv, QueueInv, NEW u \in Uav, NEW c, Starts(u, c)
    PROVE  QueueInv'
<1>1. /\ Len(backlog') = Len(backlog) + 1 /\ Len(backlog) \in Nat
      /\ \A i \in 1 .. Len(backlog) : backlog'[i] = backlog[i]
      /\ backlog'[Len(backlog')] = c
      /\ \A d \in Conn : (Queued(d)' <=> Queued(d) \/ d = c) /\ (Open(d)' <=> Open(d))
    BY StartHand
<1>2. /\ c = <<u, runs[u] + 1>> /\ c[1] = u /\ c[2] = runs[u] + 1 /\ c \in Conn
      /\ up /\ runs'[u] = runs[u] + 1 /\ runs[u] \in Nat
      /\ \A v \in Uav \ {u} : runs'[v] = runs[v]
      /\ UNCHANGED <<up, serving>>
    BY DEF Starts, TypeInv, TypeOK
<1>3. \A d \in Conn : d[1] \in Uav /\ d[2] \in Nat
    BY PrototypeAssumption DEF Conn
<1>4. \A i \in 1 .. Len(backlog) :
        backlog[i] \in Conn /\ InHand(backlog[i])
    <2>1. backlog \in Seq(Conn)
        BY DEF TypeInv, TypeOK
    <2> QED
        BY <2>1, ElementOfSeq DEF InHand, Queued
<1>5. \A i \in 1 .. Len(backlog) : backlog[i][1] = u => backlog[i][2] <= runs[u]
    BY <1>4 DEF QueueInv, Latest
<1>6. Sorted'
    <2> SUFFICES ASSUME NEW i \in 1 .. Len(backlog'), NEW j \in 1 .. Len(backlog'),
                        i < j, backlog'[i][1] = backlog'[j][1]
                 PROVE  backlog'[i][2] < backlog'[j][2]
        BY DEF Sorted
    <2>1. i \in 1 .. Len(backlog) /\ backlog'[i] = backlog[i]
        BY <1>1
    <2>2. CASE j = Len(backlog')
        <3>1. backlog[i][1] = u
            BY <1>1, <1>2, <2>1, <2>2
        <3>2. backlog[i][2] <= runs[u] /\ backlog[i][2] \in Nat
            BY <1>3, <1>4, <1>5, <2>1, <3>1
        <3> QED
            BY <1>1, <1>2, <2>1, <2>2, <3>2
    <2>3. CASE j # Len(backlog')
        BY <1>1, <2>1, <2>3 DEF QueueInv, Sorted
    <2> QED
        BY <2>2, <2>3
<1>7. First'
    <2> SUFFICES ASSUME serving # None PROVE First'
        BY <1>2 DEF First
    <2> DEFINE s == serving.conn
    <2>1. s \in Conn
        BY DEF TypeInv, TypeOK, Serving
    <2>2. s[1] \in Uav /\ s[2] \in Nat /\ s[2] <= runs[s[1]] /\ runs[s[1]] \in Nat
        BY <1>3, <2>1 DEF QueueInv, First, TypeInv, TypeOK
    <2>3. s[2] <= runs'[s[1]]
        BY <1>2, <2>2
    <2>4. ASSUME NEW i \in 1 .. Len(backlog'), backlog'[i][1] = s[1]
          PROVE  s[2] < backlog'[i][2]
        <3>1. CASE i = Len(backlog')
            BY <1>1, <1>2, <2>2, <2>4, <3>1
        <3>2. CASE i # Len(backlog')
            BY <1>1, <2>4, <3>2 DEF QueueInv, First
        <3> QED
            BY <3>1, <3>2
    <2> QED
        BY <1>2, <2>3, <2>4 DEF First
<1>8. Latest'
    <2> SUFFICES ASSUME NEW d \in Conn, InHand(d)'
                 PROVE  d[2] <= runs'[d[1]] /\ InHand(Own(d[1]))'
        BY DEF Latest
    <2>1. CASE d[1] = u
        <3>1. Own(d[1])' = c /\ InHand(c)'
            BY <1>1, <1>2, <2>1 DEF Own, InHand
        <3>2. d = c \/ d[2] <= runs[u]
            BY <1>1, <2>1 DEF InHand, QueueInv, Latest
        <3> QED
            BY <1>2, <1>3, <2>1, <3>1, <3>2
    <2>2. CASE d[1] # u
        <3>1. InHand(d)
            BY <1>1, <1>2, <2>2 DEF InHand
        <3>2. d[2] <= runs[d[1]] /\ Own(d[1]) \in Conn /\ InHand(Own(d[1]))
            BY <3>1, LatestInHand
        <3>3. Own(d[1])' = Own(d[1]) /\ runs'[d[1]] = runs[d[1]]
            BY <1>2, <1>3, <2>2 DEF Own
        <3> QED
            BY <1>1, <3>2, <3>3 DEF InHand
    <2> QED
        BY <2>1, <2>2
<1> QED
    BY <1>2, <1>6, <1>7, <1>8 DEF QueueInv

\* A crash drops the queue; a restart finds it empty.
LEMMA CrashHand ==
    ASSUME QueueInv, Crash \/ Restart
    PROVE  \A c \in Conn : ~InHand(c)'
<1>1. serving' = None /\ backlog' = <<>>
    BY DEF Crash, Restart, QueueInv
<1>2. Len(backlog') = 0
    BY <1>1
<1> QED
    BY <1>1, <1>2, NoneAssumption DEF InHand, Queued, Open, Serving

LEMMA NextQueue == TypeInv /\ LinkInv /\ QueueInv /\ [Next]_vars => QueueInv'
<1> SUFFICES ASSUME TypeInv, LinkInv, QueueInv, [Next]_vars PROVE QueueInv'
    OBVIOUS
<1>1. CASE UNCHANGED vars
    BY <1>1, QueueKept DEF vars, server, client
<1>2. CASE ServerStep
    <2>1. CASE ~Accept
        <3>1. \E c \in Conn : Handles(c)
            BY <1>2, <2>1, ServerView DEF Handles
        <3> QED
            BY <3>1, HandleQueue
    <2> QED
        BY <2>1, AcceptQueue
<1>3. CASE Crash \/ Restart
    <2>1. serving' = None /\ backlog' = <<>> /\ Len(backlog') = 0
        BY <1>3 DEF Crash, Restart, QueueInv
    <2> QED
        BY <1>3, <2>1, CrashHand DEF QueueInv, Sorted, First, Latest
<1>4. ASSUME NEW u \in Uav, StartClient(u) PROVE QueueInv'
    BY <1>4, StartView, StartQueue
<1>5. ASSUME NEW u \in Uav, ClientStep(u) \/ Die(u) PROVE QueueInv'
    <2>1. Moves(u)
        BY <1>5, ClientView
    <2> QED
        BY <2>1, QueueKept DEF Moves
<1> QED
    BY <1>1, <1>2, <1>3, <1>4, <1>5 DEF Next
-----------------------------------------------------------------------------
(* The files of the two ends stay in step *)

\* A msg1 in flight is the one its connection was opened with, and what it
\* says is still in the client's file.
MsgInv == \A c \in Conn :
    /\ conn[c].toGs # None => conn[c].toGs.nonce = c[2]
    /\ conn[c].toGs # None /\ conn[c].toGs.type = "msg1"
       => Queued(c) /\ conn[c].toGs.tid = file[c[1]]
    /\ Queued(c) => conn[c].toUav = None
    /\ Open(c) => conn[c].toUav = None \/ conn[c].toUav.type = "msg2"

\* A client saves only when no connection of its device is in hand any more;
\* and the exchange that is open began from what its file says.
ProcInv == \A u \in Uav :
    /\ proc[u] # None => /\ conn[Own(u)].link \in {"open", "gsClosed"}
                         /\ InHand(Own(u)) => proc[u].at \in {"msg2", "msg4"}
                         /\ Queued(Own(u)) => proc[u].at = "msg2"
    /\ Busy(u) => file[u] # None
    /\ \A c \in Conn : c[1] = u /\ Open(c) => file[u] = rec[u].tid

OfInv == \A u \in Uav : /\ rec[u].tid.of = u
                        /\ db # None => db[u].tid.of = u
                        /\ file[u] # None => file[u].of = u

Near(t, s, x) == t = s \/ t = Rotated(s, x)

\* The latest client of u has taken t from a msg4, or may yet.
Offered(u, t, challenge) ==
    \/ /\ proc[u] # None /\ proc[u].at \in {"save", "writing"}
       /\ t = proc[u].tid /\ challenge = proc[u].challenge
    \/ /\ Own(u) \in Conn
       /\ conn[Own(u)].toUav # None /\ conn[Own(u)].toUav.type = "msg4"
       /\ t = conn[Own(u)].toUav.tid /\ challenge = conn[Own(u)].toUav.challenge

\* No exchange of u is open any more, and what the server holds and has saved
\* of u is this identity or the one before it.
Issued(u, t, challenge) ==
    /\ ~Busy(u) /\ t.of = u
    /\ Gs \in persist => /\ up => Near(t, rec[u].tid, runs[u])
                         /\ db # None => Near(t, db[u].tid, runs[u])
    /\ sessions[u] # None =>
           /\ sessions[u] = [nonce |-> runs[u], challenge |-> challenge]
           /\ rec[u].tid = t
IssuedInv == \A u \in Uav :
    /\ ~up => sessions[u] = None
    /\ \A t, challenge : Offered(u, t, challenge) => Issued(u, t, challenge)

\* What the server has not saved it is about to, or it has lost: then the
\* device still says what the server's file does, and is refused until the
\* server restarts.
Idle(u) == proc[u] # None => proc[u].at = "msg2" /\ Quiet(conn[Own(u)].toUav)
SavedInv == \A u \in Uav :
    Gs \in persist /\ up /\ db # None =>
        \/ db[u].tid = rec[u].tid
        \/ serving # None /\ serving.at = "save" /\ serving.conn[1] = u
        \/ (file[u] # None => file[u] = db[u].tid) /\ Idle(u)

ApartInv == \A u \in Uav : Gs \in persist /\ file[u] # None =>
    /\ up => Apart(file[u], rec[u].tid)
    /\ db # None => Apart(file[u], db[u].tid)

InStepInv == /\ TypeInv /\ LinkInv /\ QueueInv /\ MsgInv /\ ProcInv
             /\ OfInv /\ IssuedInv /\ SavedInv /\ ApartInv

LEMMA InStepImplies == InStepInv => IdentitiesInStep
<1> SUFFICES ASSUME InStepInv PROVE IdentitiesInStep
    OBVIOUS
<1>1. ASSUME NEW u \in Uav, proc[u] # None, proc[u].at \in {"save", "writing"},
             sessions[u] # None
      PROVE  /\ sessions[u] = [nonce |-> runs[u], challenge |-> proc[u].challenge]
             /\ rec[u].tid = proc[u].tid
    <2>1. Offered(u, proc[u].tid, proc[u].challenge)
        BY <1>1 DEF Offered
    <2>2. Issued(u, proc[u].tid, proc[u].challenge)
        BY <2>1 DEF InStepInv, IssuedInv
    <2> QED
        BY <1>1, <2>2 DEF Issued
<1> QED
    BY <1>1 DEF InStepInv, ApartInv, IdentitiesInStep

LEMMA InitInStep == Init => InStepInv
<1> SUFFICES ASSUME Init PROVE InStepInv
    OBVIOUS
<1>1. TypeInv /\ LinkInv /\ QueueInv
    BY InitType, InitLink, InitQueue
<1>2. /\ serving = None /\ Len(backlog) = 0 /\ up
      /\ \A c \in Conn : conn[c] = Closed
      /\ \A u \in Uav : /\ sessions[u] = None /\ proc[u] = None
                        /\ rec[u] = Enrolled[u] /\ db = rec
                        /\ file[u] = rec[u].tid /\ rec[u].tid.of = u
    BY DEF Init, Enrolled
<1>3. \A c \in Conn : ~Queued(c) /\ ~Open(c)
    BY <1>2, NoneAssumption DEF Queued, Open, Serving
<1>4. MsgInv
    BY <1>2, <1>3 DEF MsgInv, Closed
<1>5. ProcInv
    BY <1>2, <1>3 DEF ProcInv, Busy, InHand
<1>6. OfInv /\ SavedInv /\ ApartInv
    BY <1>2 DEF OfInv, SavedInv, ApartInv, Apart
<1>7. IssuedInv
    BY <1>2 DEF IssuedInv, Offered, Closed
<1> QED
    BY <1>1, <1>4, <1>5, <1>6, <1>7 DEF InStepInv

\* A client that saves has no connection in hand, and its device has none.
LEMMA NotBusy ==
    ASSUME InStepInv, NEW u \in Uav, proc[u] # None, proc[u].at \notin {"msg2", "msg4"}
    PROVE  ~Busy(u)
<1>1. ~InHand(Own(u))
    BY DEF InStepInv, ProcInv
<1> QED
    BY <1>1, LatestInHand DEF Busy, InStepInv

\* Steps of clients leave the queue alone.
LEMMA MovesHand ==
    ASSUME NEW u \in Uav, Moves(u)
    PROVE  /\ \A c : (Queued(c)' <=> Queued(c)) /\ (Open(c)' <=> Open(c))
           /\ \A v : Own(v)' = Own(v) /\ (Busy(v)' <=> Busy(v))
BY DEF Moves, Queued, Open, InHand, Busy, Own

\* A client that has a connection in hand does not touch its file.
LEMMA FileInHand ==
    ASSUME InStepInv, NEW u \in Uav, NEW v \in Uav, Moves(u),
           Leaves(u) \/ Replies(u) \/ AcceptsMsg4(u) \/ BeginsSave(u), Busy(v)
    PROVE  file'[v] = file[v]
<1>1. CASE v # u
    BY <1>1 DEF Moves
<1>2. CASE v = u
    <2>1. proc[u].at \in {"msg2", "msg4"}
        BY <1>2, NotBusy DEF Moves
    <2> QED
        BY <1>2, <2>1 DEF Leaves, Replies, AcceptsMsg4, BeginsSave
<1> QED
    BY <1>1, <1>2

\* Messages in flight
LEMMA MovesMsg ==
    ASSUME InStepInv, NEW u \in Uav, Moves(u),
           Leaves(u) \/ Replies(u) \/ AcceptsMsg4(u) \/ BeginsSave(u)
    PROVE  MsgInv'
<1>1. \A c : (Queued(c)' <=> Queued(c)) /\ (Open(c)' <=> Open(c))
    BY MovesHand
<1>2. Own(u) \in Conn /\ Own(u)[1] = u /\ Own(u)[2] = runs[u]
    BY OwnType DEF Moves, InStepInv, Own
<1>3. \A c \in Conn : Queued(c) => c[1] \in Uav /\ file'[c[1]] = file[c[1]]
    <2> SUFFICES ASSUME NEW c \in Conn, Queued(c)
                 PROVE  c[1] \in Uav /\ file'[c[1]] = file[c[1]]
        OBVIOUS
    <2>1. c[1] \in Uav /\ Busy(c[1])
        BY ConnOwner DEF Busy, InHand
    <2> QED
        BY <2>1, FileInHand
<1>4. conn'[Own(u)].toUav = None \/ UNCHANGED conn
    BY DEF Leaves, Replies, AcceptsMsg4, BeginsSave
<1>5. \/ conn'[Own(u)].toGs = None
      \/ conn'[Own(u)].toGs = conn[Own(u)].toGs
      \/ conn'[Own(u)].toGs.type = "msg3" /\ conn'[Own(u)].toGs.nonce = runs[u]
    BY DEF Leaves, Replies, AcceptsMsg4, BeginsSave
<1> SUFFICES ASSUME NEW c \in Conn
             PROVE  /\ conn'[c].toGs # None => conn'[c].toGs.nonce = c[2]
                    /\ conn'[c].toGs # None /\ conn'[c].toGs.type = "msg1"
                       => Queued(c)' /\ conn'[c].toGs.tid = file'[c[1]]
                    /\ Queued(c)' => conn'[c].toUav = None
                    /\ Open(c)' => conn'[c].toUav = None \/ conn'[c].toUav.type = "msg2"
    BY DEF MsgInv
<1>6. /\ conn[c].toGs # None => conn[c].toGs.nonce = c[2]
      /\ conn[c].toGs # None /\ conn[c].toGs.type = "msg1"
         => Queued(c) /\ conn[c].toGs.tid = file[c[1]]
      /\ Queued(c) => conn[c].toUav = None
      /\ Open(c) => conn[c].toUav = None \/ conn[c].toUav.type = "msg2"
    BY DEF InStepInv, MsgInv
<1>7. CASE c # Own(u)
    <2>1. conn'[c] = conn[c]
        BY <1>7 DEF Moves
    <2> QED
        BY <1>1, <1>3, <1>6, <2>1
<1>8. CASE c = Own(u)
    BY <1>1, <1>2, <1>3, <1>4, <1>5, <1>6, <1>8
<1> QED
    BY <1>7, <1>8

LEMMA HandlesMsg ==
    ASSUME InStepInv, NEW c \in Conn, Handles(c)
    PROVE  MsgInv'
<1>1. /\ ~Queued(c)' /\ (serving.at # "msg1" => ~Queued(c))
      /\ (serving.at # "msg3" => ~Open(c))
      /\ \A d \in Conn \ {c} : (Queued(d)' <=> Queued(d)) /\ ~Open(d)'
      /\ Open(c)' => Opens(c)
    BY HandleHand DEF InStepInv
<1>2. /\ UNCHANGED file /\ \A d \in Conn \ {c} : conn'[d] = conn[d]
      /\ conn'[c] = conn[c] \/ conn'[c].toGs = None
    BY DEF Handles, Serves
<1>3. conn'[c] = conn[c] /\ conn'[c].toGs # None => serving.at # "msg1"
    <2>1. serving.at = "msg1" => Refuses(c) \/ Opens(c)
        BY DEF Handles, Completes, Truncates, Saves
    <2> QED
        BY <2>1 DEF Refuses, Opens
<1> QED
    BY <1>1, <1>2, <1>3 DEF InStepInv, MsgInv, Opens

\* The connections of a server that has just crashed, or just restarted.
LEMMA CrashConn ==
    ASSUME InStepInv, Crash \/ Restart
    PROVE  /\ UNCHANGED <<persist, db, runs, proc, file>>
           /\ \A c \in Conn : /\ WellClosed(conn[c]) /\ conn[c] \in Connection
                              /\ ~Queued(c)' /\ ~Open(c)' /\ ~InHand(c)'
                              /\ \/ conn'[c] = ClosedByGs(conn[c])
                                 \/ Restart /\ conn'[c] = conn[c] /\ ~InHand(c)
           /\ \A u \in Uav : ~Busy(u)'
<1>1. \A c \in Conn : ~InHand(c)'
    BY CrashHand DEF InStepInv
<1>2. \A c \in Conn : WellClosed(conn[c]) /\ conn[c] \in Connection
    BY MessageType DEF InStepInv, TypeInv, LinkInv
<1>3. UNCHANGED <<persist, db, runs, proc, file>>
    BY DEF Crash, Restart, client
<1>4. \A c \in Conn : \/ conn'[c] = ClosedByGs(conn[c])
                      \/ Restart /\ conn'[c] = conn[c] /\ ~InHand(c)
    <2>1. CASE Crash
        BY <2>1 DEF Crash
    <2>2. CASE Restart
        <3>1. UNCHANGED <<conn, serving, backlog>>
            BY <2>2 DEF Restart
        <3> QED
            BY <1>1, <2>2, <3>1 DEF InHand, Queued, Open
    <2> QED
        BY <2>1, <2>2
<1> QED
    BY <1>1, <1>2, <1>3, <1>4 DEF InHand, Busy

LEMMA CrashMsg == ASSUME InStepInv, Crash \/ Restart PROVE MsgInv'
<1> SUFFICES ASSUME NEW c \in Conn
             PROVE  /\ conn'[c].toGs # None => /\ conn'[c].toGs.nonce = c[2]
                                               /\ conn'[c].toGs.type # "msg1"
                    /\ ~Queued(c)' /\ ~Open(c)'
    BY DEF MsgInv
<1>1. /\ WellClosed(conn[c]) /\ conn[c] \in Connection /\ ~Queued(c)' /\ ~Open(c)'
      /\ \/ conn'[c] = ClosedByGs(conn[c])
         \/ Restart /\ conn'[c] = conn[c] /\ ~InHand(c)
    BY CrashConn
<1>2. CASE conn'[c] = ClosedByGs(conn[c])
    BY <1>1, <1>2, ClosedWell
<1>3. CASE Restart /\ conn'[c] = conn[c] /\ ~InHand(c)
    BY <1>1, <1>3 DEF InStepInv, MsgInv, InHand
<1> QED
    BY <1>1, <1>2, <1>3

LEMMA NextMsg == InStepInv /\ [Next]_vars => MsgInv'
<1> SUFFICES ASSUME InStepInv, [Next]_vars PROVE MsgInv'
    OBVIOUS
<1>1. CASE UNCHANGED vars
    BY <1>1 DEF vars, server, client, InStepInv, MsgInv, Queued, Open
<1>2. CASE Accept
    <2>1. UNCHANGED <<conn, file>>
        BY <1>2 DEF Accept, client
    <2> QED
        BY <1>2, <2>1, AcceptHand DEF InStepInv, MsgInv
<1>3. CASE ServerStep /\ ~Accept
    <2>1. \E c \in Conn : Handles(c)
        BY <1>3, ServerView DEF Handles, InStepInv
    <2> QED
        BY <2>1, HandlesMsg
<1>4. CASE Crash \/ Restart
    BY <1>4, CrashMsg
<1>5. ASSUME NEW u \in Uav, StartClient(u) PROVE MsgInv'
    <2> DEFINE c == <<u, runs[u] + 1>>
    <2>1. Starts(u, c)
        BY <1>5, StartView DEF InStepInv
    <2> HIDE DEF c
    <2>2. \A d \in Conn : (Queued(d)' <=> Queued(d) \/ d = c) /\ (Open(d)' <=> Open(d))
        BY <2>1, StartHand DEF InStepInv
    <2>3. c[1] = u
        BY <2>1 DEF Starts
    <2> QED
        BY <2>1, <2>2, <2>3 DEF Starts, InStepInv, MsgInv
<1>6. ASSUME NEW u \in Uav, ClientStep(u) \/ Die(u) PROVE MsgInv'
    BY <1>6, ClientView, MovesMsg DEF InStepInv
<1> QED
    BY <1>1, <1>2, <1>3, <1>4, <1>5, <1>6 DEF Next

\* The clients and what they are served
LEMMA OtherOwn ==
    ASSUME NEW u, NEW v, u # v
    PROVE  Own(u) # Own(v)
BY DEF Own

LEMMA MovesProc ==
    ASSUME InStepInv, NEW u \in Uav, Moves(u),
           Leaves(u) \/ Replies(u) \/ AcceptsMsg4(u) \/ BeginsSave(u)
    PROVE  ProcInv'
<1>1. /\ \A c : (Queued(c)' <=> Queued(c)) /\ (Open(c)' <=> Open(c))
      /\ \A v : Own(v)' = Own(v) /\ (Busy(v)' <=> Busy(v))
    BY MovesHand
<1>2. Own(u) \in Conn
    BY OwnType DEF Moves, InStepInv
<1>3. ASSUME NEW v \in Uav, Busy(v)' PROVE file'[v] = file[v] /\ file[v] # None
    BY <1>1, <1>3, FileInHand DEF InStepInv, ProcInv
<1>4. ASSUME NEW v \in Uav, NEW c \in Conn, c[1] = v, Open(c)'
      PROVE  file'[v] = rec'[v].tid
    <2>1. Open(c) /\ Busy(v)
        BY <1>1, <1>4 DEF Busy, InHand
    <2>2. file'[v] = file[v] /\ rec' = rec
        BY <2>1, FileInHand DEF Moves
    <2> QED
        BY <1>4, <2>1, <2>2 DEF InStepInv, ProcInv
<1>5. ASSUME NEW v \in Uav, proc'[v] # None
      PROVE  /\ conn'[Own(v)].link \in {"open", "gsClosed"}
             /\ InHand(Own(v)) => proc'[v].at \in {"msg2", "msg4"}
             /\ Queued(Own(v)) => proc'[v].at = "msg2"
    <2>1. CASE v # u
        <3>1. proc'[v] = proc[v]
            BY <2>1 DEF Moves
        <3>2. Own(v) \in Conn /\ Own(v) # Own(u)
            BY <1>5, <2>1, <3>1, OwnType, OtherOwn DEF InStepInv
        <3>3. conn'[Own(v)] = conn[Own(v)]
            BY <3>2 DEF Moves
        <3> QED
            BY <1>5, <3>1, <3>3 DEF InStepInv, ProcInv
    <2>2. CASE v = u
        <3>1. /\ conn[Own(u)].link \in {"open", "gsClosed"}
              /\ InHand(Own(u)) => proc[u].at \in {"msg2", "msg4"}
            BY DEF InStepInv, ProcInv, Moves
        <3>2. /\ Queued(Own(u)) => conn[Own(u)].toUav = None
              /\ Open(Own(u)) => \/ conn[Own(u)].toUav = None
                                 \/ conn[Own(u)].toUav.type = "msg2"
            BY <1>2 DEF InStepInv, MsgInv
        <3>3. CASE Leaves(u)
            BY <1>5, <2>2, <3>3 DEF Leaves
        <3>4. CASE Replies(u)
            BY <2>2, <3>1, <3>2, <3>4 DEF Replies, Received
        <3>5. CASE AcceptsMsg4(u)
            BY <2>2, <3>1, <3>2, <3>5 DEF AcceptsMsg4, Received, InHand
        <3>6. CASE BeginsSave(u)
            BY <2>2, <3>1, <3>6 DEF BeginsSave, InHand
        <3> QED
            BY <3>3, <3>4, <3>5, <3>6
    <2> QED
        BY <2>1, <2>2
<1> QED
    BY <1>1, <1>3, <1>4, <1>5 DEF ProcInv, InHand

\* phase2_msg1 finds the record of the device that the connection is of.
LEMMA OpensOwn ==
    ASSUME InStepInv, NEW c \in Conn, Opens(c), Queued(c)
    PROVE  c[1] \in Uav /\ file[c[1]] # None /\ file[c[1]] = rec[c[1]].tid
<1>1. c[1] \in Uav /\ file[c[1]] # None
    BY ConnOwner DEF InStepInv, ProcInv, Busy, InHand
<1>2. conn[c].toGs.tid = file[c[1]]
    BY DEF Opens, Arrived, InStepInv, MsgInv
<1>3. PICK v \in Uav : conn[c].toGs.tid = rec[v].tid
    BY DEF Opens
<1>4. file[c[1]].of = c[1] /\ rec[v].tid.of = v
    BY <1>1 DEF InStepInv, OfInv
<1> QED
    BY <1>1, <1>2, <1>3, <1>4

LEMMA HandlesProc ==
    ASSUME InStepInv, NEW c \in Conn, Handles(c)
    PROVE  ProcInv'
<1>1. /\ ~Queued(c)'
      /\ \A d \in Conn \ {c} : (Queued(d)' <=> Queued(d)) /\ ~Open(d)' /\ ~Open(d)
      /\ Open(c)' => Queued(c) /\ Opens(c)
      /\ \A u \in Uav : Busy(u)' => Busy(u)
    BY HandleHand DEF InStepInv
<1>2. /\ UNCHANGED <<runs, proc, file>>
      /\ \A d \in Conn \ {c} : conn'[d] = conn[d]
      /\ conn[c].link # "uavClosed" /\ conn[c].link # "none"
         => conn'[c].link \in {conn[c].link, "gsClosed"}
    BY DEF Handles, Serves
<1>3. ASSUME NEW u \in Uav, proc[u] # None
      PROVE  /\ conn'[Own(u)].link \in {"open", "gsClosed"}
             /\ InHand(Own(u))' => proc[u].at \in {"msg2", "msg4"}
             /\ Queued(Own(u))' => proc[u].at = "msg2"
    <2>1. Own(u) \in Conn /\ Own(u)' = Own(u)
        BY <1>2, <1>3, OwnType DEF InStepInv, Own
    <2>2. conn[Own(u)].link \in {"open", "gsClosed"}
        BY <1>3 DEF InStepInv, ProcInv
    <2>3. conn'[Own(u)].link \in {"open", "gsClosed"}
        BY <1>2, <2>1, <2>2
    <2>4. (InHand(Own(u))' => InHand(Own(u))) /\ (Queued(Own(u))' => Queued(Own(u)))
        BY <1>1, <2>1 DEF InHand
    <2> QED
        BY <1>3, <2>3, <2>4 DEF InStepInv, ProcInv
<1>4. ASSUME NEW d \in Conn, Open(d)' PROVE file[d[1]] = rec'[d[1]].tid
    <2>1. d = c /\ Opens(c) /\ Queued(c)
        BY <1>1, <1>4
    <2>2. file[c[1]] = rec[c[1]].tid /\ rec' = rec
        BY <2>1, OpensOwn DEF Opens, Keeps
    <2> QED
        BY <2>1, <2>2
<1>5. \A u \in Uav : Own(u)' = Own(u)
    BY <1>2 DEF Own
<1> QED
    BY <1>1, <1>2, <1>3, <1>4, <1>5 DEF InStepInv, ProcInv

LEMMA NextProc == InStepInv /\ [Next]_vars => ProcInv'
<1> SUFFICES ASSUME InStepInv, [Next]_vars PROVE ProcInv'
    OBVIOUS
<1>1. CASE UNCHANGED vars
    BY <1>1 DEF vars, server, client, memory, InStepInv, ProcInv, Busy, InHand,
                Queued, Open, Own
<1>2. CASE Accept
    <2>1. UNCHANGED <<conn, rec, runs, proc, file>>
        BY <1>2 DEF Accept, client, memory
    <2>2. \A c \in Conn : (Queued(c)' <=> Queued(c)) /\ ~Open(c)' /\ ~Open(c)
        BY <1>2, AcceptHand DEF InStepInv
    <2>3. \A u \in Uav : Own(u)' = Own(u) /\ (proc[u] # None => Own(u) \in Conn)
        BY <2>1, OwnType DEF InStepInv, Own
    <2> QED
        BY <2>1, <2>2, <2>3 DEF InStepInv, ProcInv, Busy, InHand
<1>3. CASE ServerStep /\ ~Accept
    <2>1. \E c \in Conn : Handles(c)
        BY <1>3, ServerView DEF Handles, InStepInv
    <2> QED
        BY <2>1, HandlesProc
<1>4. CASE Crash \/ Restart
    <2>1. \A u \in Uav : Own(u)' = Own(u) /\ (proc[u] # None => Own(u) \in Conn)
        BY <1>4, CrashConn, OwnType DEF InStepInv, Own
    <2>2. ASSUME NEW u \in Uav, proc[u] # None
          PROVE  conn'[Own(u)].link \in {"open", "gsClosed"} /\ ~InHand(Own(u))'
        BY <1>4, <2>1, <2>2, CrashConn, ClosedWell DEF InStepInv, ProcInv
    <2> QED
        BY <1>4, <2>1, <2>2, CrashConn DEF ProcInv, InHand
<1>5. ASSUME NEW u \in Uav, StartClient(u) PROVE ProcInv'
    <2> DEFINE c == <<u, runs[u] + 1>>
    <2>1. Starts(u, c)
        BY <1>5, StartView DEF InStepInv
    <2>2. Own(u)' = c /\ c[1] = u
        BY <2>1 DEF Starts, Own
    <2>3. \A v \in Uav \ {u} : Own(v)' = Own(v) /\ Own(v) # c
        BY <2>1 DEF Starts, Own
    <2> HIDE DEF c
    <2>4. \A d \in Conn : (Queued(d)' <=> Queued(d) \/ d = c) /\ (Open(d)' <=> Open(d))
        BY <2>1, StartHand DEF InStepInv
    <2>5. ASSUME NEW v \in Uav \ {u}, proc'[v] # None
          PROVE  /\ conn'[Own(v)'].link \in {"open", "gsClosed"}
                 /\ InHand(Own(v))' => proc'[v].at \in {"msg2", "msg4"}
                 /\ Queued(Own(v))' => proc'[v].at = "msg2"
        <3>1. proc'[v] = proc[v] /\ Own(v) \in Conn /\ conn'[Own(v)] = conn[Own(v)]
            BY <2>1, <2>3, <2>5, OwnType DEF Starts, InStepInv
        <3> QED
            BY <2>3, <2>4, <2>5, <3>1 DEF InStepInv, ProcInv, InHand
    <2>6. \A v \in Uav : Busy(v)' => file[v] # None
        BY <2>1, <2>2, <2>4 DEF Busy, InHand, Starts, InStepInv, ProcInv
    <2>7. conn'[Own(u)'].link = "open" /\ proc'[u].at = "msg2"
        BY <2>1, <2>2 DEF Starts
    <2>8. UNCHANGED <<rec, file>>
        BY <2>1 DEF Starts
    <2> QED
        BY <2>4, <2>5, <2>6, <2>7, <2>8 DEF InStepInv, ProcInv
<1>6. ASSUME NEW u \in Uav, ClientStep(u) \/ Die(u) PROVE ProcInv'
    BY <1>6, ClientView, MovesProc DEF InStepInv
<1> QED
    BY <1>1, <1>2, <1>3, <1>4, <1>5, <1>6 DEF Next

\* Whose identities they are
LEMMA RotatedOf ==
    ASSUME NEW t \in Tid, NEW n
    PROVE  Rotated(t, n).of = t.of
BY DEF Rotated, Tid

\* An accepted msg3 is the latest client's, and its server had what its file
\* says.
LEMMA CompletesOwn ==
    ASSUME InStepInv, NEW c \in Conn, Handles(c), Completes(c, conn[c].toGs)
    PROVE  /\ c[1] \in Uav /\ ~InHand(c)' /\ Open(c)
           /\ c[2] \in 1 .. MaxRuns[c[1]]
           /\ file[c[1]] # None /\ file[c[1]] = rec[c[1]].tid
           /\ rec'[c[1]].tid = Rotated(rec[c[1]].tid, c[2])
           /\ rec'[c[1]].tid.of = c[1] /\ rec[c[1]].tid.of = c[1]
           /\ \A v \in Uav \ {c[1]} : rec'[v] = rec[v] /\ sessions'[v] = sessions[v]
           /\ UNCHANGED <<persist, up, db, runs, proc, file>> /\ up
<1>1. serving = [conn |-> c, at |-> "msg3"]
    BY HandleHand DEF InStepInv, Completes
<1>2. Open(c) /\ c[1] \in Uav /\ c[2] \in 1 .. MaxRuns[c[1]]
    BY <1>1 DEF Open, Conn
<1>3. file[c[1]] # None /\ file[c[1]] = rec[c[1]].tid
    BY <1>2 DEF InStepInv, ProcInv, Busy, InHand
<1>4. conn[c].toGs # None /\ conn[c].toGs.nonce = c[2]
    BY DEF Completes, InStepInv, MsgInv
<1>5. rec'[c[1]].tid = Rotated(rec[c[1]].tid, c[2])
    BY <1>4 DEF Completes
<1>6. rec[c[1]].tid \in Tid /\ rec[c[1]].tid.of = c[1]
    BY <1>2 DEF InStepInv, TypeInv, TypeOK, Records, OfInv
<1>7. rec'[c[1]].tid.of = c[1]
    BY <1>5, <1>6, RotatedOf
<1>8. ~InHand(c)'
    BY HandleHand DEF InStepInv, InHand, Opens, Completes
<1> QED
    BY <1>2, <1>3, <1>5, <1>6, <1>7, <1>8 DEF Completes, Handles, Serves

LEMMA NextOf == InStepInv /\ [Next]_vars => OfInv'
<1> SUFFICES ASSUME InStepInv, [Next]_vars PROVE OfInv'
    OBVIOUS
<1>1. CASE UNCHANGED <<rec, db, file>>
    BY <1>1 DEF InStepInv, OfInv
<1>2. ASSUME NEW c \in Conn, Handles(c) PROVE OfInv'
    <2>1. CASE Completes(c, conn[c].toGs)
        BY <1>2, <2>1, CompletesOwn DEF InStepInv, OfInv
    <2>2. CASE ~Completes(c, conn[c].toGs)
        BY <1>2, <2>2
        DEF Handles, Serves, Refuses, Opens, Truncates, Saves, Keeps, InStepInv, OfInv
    <2> QED
        BY <2>1, <2>2
<1>3. CASE ServerStep /\ ~Accept
    <2>1. \E c \in Conn : Handles(c)
        BY <1>3, ServerView DEF Handles, InStepInv
    <2> QED
        BY <2>1, <1>2
<1>4. CASE Restart
    BY <1>4 DEF Restart, Loaded, client, InStepInv, OfInv
<1>5. ASSUME NEW u \in Uav, ClientStep(u) \/ Die(u) PROVE OfInv'
    <2>1. /\ Moves(u)
          /\ Leaves(u) \/ Replies(u) \/ AcceptsMsg4(u) \/ BeginsSave(u)
        BY <1>5, ClientView DEF InStepInv
    <2>2. \/ file'[u] = file[u]
          \/ proc[u].at = "writing" /\ file'[u] = proc[u].tid
          \/ file'[u] = None
        BY <2>1 DEF Leaves, Replies, AcceptsMsg4, BeginsSave
    <2>3. proc[u].at = "writing" => proc[u].tid.of = u
        BY <2>1 DEF Moves, InStepInv, IssuedInv, Offered, Issued
    <2> QED
        BY <2>1, <2>2, <2>3 DEF Moves, InStepInv, OfInv
<1> QED
    BY <1>1, <1>3, <1>4, <1>5
    DEF Next, vars, server, client, memory, ServerStep, Accept, Crash, StartClient

\* What the server has issued
LEMMA IssuedKept ==
    ASSUME NEW u \in Uav, NEW t, NEW challenge, Issued(u, t, challenge),
           runs'[u] = runs[u], Busy(u)' => Busy(u), persist' = persist,
           up' => \/ up /\ rec'[u].tid = rec[u].tid
                  \/ db # None /\ rec'[u].tid = db[u].tid,
           db' # None => \/ db # None /\ db'[u].tid = db[u].tid
                         \/ up /\ db'[u].tid = rec[u].tid,
           sessions'[u] # None => sessions'[u] = sessions[u] /\ rec'[u] = rec[u]
    PROVE  Issued(u, t, challenge)'
BY DEF Issued

LEMMA MovesIssued ==
    ASSUME InStepInv, NEW u \in Uav, Moves(u),
           Leaves(u) \/ Replies(u) \/ AcceptsMsg4(u) \/ BeginsSave(u)
    PROVE  IssuedInv'
<1>1. \A v : Own(v)' = Own(v) /\ (Busy(v)' <=> Busy(v))
    BY MovesHand
<1>2. UNCHANGED <<persist, up, rec, sessions, db, runs>>
    BY DEF Moves
<1>3. ASSUME NEW v \in Uav, NEW t, NEW challenge, Offered(v, t, challenge)'
      PROVE  Offered(v, t, challenge)
    <2>1. CASE v # u
        <3>1. proc'[v] = proc[v] /\ Own(v) # Own(u)
            BY <2>1, OtherOwn DEF Moves
        <3>2. Own(v) \in Conn => conn'[Own(v)] = conn[Own(v)]
            BY <3>1 DEF Moves
        <3> QED
            BY <1>1, <1>3, <3>1, <3>2 DEF Offered
    <2>2. CASE v = u /\ Leaves(u)
        BY <1>1, <1>3, <2>2 DEF Offered, Leaves
    <2>3. CASE v = u /\ Replies(u)
        BY <1>1, <1>3, <2>3 DEF Offered, Replies
    <2>4. CASE v = u /\ AcceptsMsg4(u)
        <3>1. Own(u) \in Conn
            BY OwnType DEF Moves, InStepInv
        <3> QED
            BY <1>1, <1>3, <2>4, <3>1 DEF Offered, AcceptsMsg4, Received
    <2>5. CASE v = u /\ BeginsSave(u)
        BY <1>1, <1>3, <2>5 DEF Offered, BeginsSave, Moves
    <2> QED
        BY <2>1, <2>2, <2>3, <2>4, <2>5
<1>4. ASSUME NEW v \in Uav, NEW t, NEW challenge, Offered(v, t, challenge)'
      PROVE  Issued(v, t, challenge)'
    <2>1. Issued(v, t, challenge)
        BY <1>3, <1>4 DEF InStepInv, IssuedInv
    <2> QED
        BY <1>1, <1>2, <2>1 DEF Issued
<1>5. \A v \in Uav : ~up' => sessions'[v] = None
    BY <1>2 DEF InStepInv, IssuedInv
<1> QED
    BY <1>4, <1>5 DEF IssuedInv

\* An answered msg3 makes its identity the one on offer.
LEMMA CompletesIssued ==
    ASSUME InStepInv, NEW c \in Conn, Handles(c), Completes(c, conn[c].toGs)
    PROVE  IssuedInv'
<1> DEFINE u == c[1]
           m == conn[c].toGs
<1>1. /\ u \in Uav /\ ~InHand(c)' /\ Open(c) /\ c[2] \in 1 .. MaxRuns[u]
      /\ file[u] # None /\ file[u] = rec[u].tid
      /\ rec'[u].tid = Rotated(rec[u].tid, c[2]) /\ rec'[u].tid.of = u
      /\ \A v \in Uav \ {u} : rec'[v] = rec[v] /\ sessions'[v] = sessions[v]
      /\ UNCHANGED <<persist, up, db, runs, proc, file>> /\ up
    BY CompletesOwn
<1>2. /\ m.nonce = c[2]
      /\ sessions'[u] = [nonce |-> m.nonce, challenge |-> m.challenge]
      /\ \/ conn'[c].toUav = None
         \/ /\ conn'[c].toUav.type = "msg4" /\ conn'[c].toUav.tid = rec'[u].tid
            /\ conn'[c].toUav.challenge = m.challenge
      /\ \A d \in Conn \ {c} : conn'[d] = conn[d]
    BY DEF Completes, Handles, Serves, InStepInv, MsgInv
<1>3. \A v \in Uav : (Busy(v)' => Busy(v)) /\ Own(v)' = Own(v)
    BY <1>1, HandleHand DEF InStepInv, Own
<1>4. Busy(u)
    BY <1>1 DEF Busy, InHand
<1>5. \A t, challenge : ~Offered(u, t, challenge)
    BY <1>1, <1>4 DEF InStepInv, IssuedInv, Issued
<1>6. ASSUME NEW v \in Uav \ {u}, NEW t, NEW challenge, Offered(v, t, challenge)'
      PROVE  Issued(v, t, challenge)'
    <2>1. Own(v) # c
        BY <1>6 DEF Own
    <2>2. Offered(v, t, challenge)
        BY <1>1, <1>2, <1>3, <1>6, <2>1 DEF Offered
    <2>3. Issued(v, t, challenge)
        BY <2>2 DEF InStepInv, IssuedInv
    <2> QED
        BY <1>1, <1>3, <1>6, <2>3, IssuedKept
<1>7. ASSUME NEW t, NEW challenge, Offered(u, t, challenge)'
      PROVE  Issued(u, t, challenge)'
    <2>1. Own(u) = c
        <3>1. Own(u) # c => Offered(u, t, challenge)
            BY <1>1, <1>2, <1>3, <1>7 DEF Offered
        <3> QED
            BY <1>5, <3>1
    <2>2. t = rec'[u].tid /\ challenge = m.challenge
        <3>1. ~(proc[u] # None /\ proc[u].at \in {"save", "writing"})
            BY <1>5 DEF Offered
        <3> QED
            BY <1>1, <1>2, <1>3, <1>7, <2>1, <3>1 DEF Offered
    <2>3. c[2] = runs[u]
        BY <2>1 DEF Own
    <2>4. ~Busy(u)'
        <3>1. \A d \in Conn : d[1] = u /\ InHand(d)' => d = c
            <4> SUFFICES ASSUME NEW d \in Conn, d[1] = u, InHand(d)', d # c PROVE FALSE
                OBVIOUS
            <4>1. InHand(d) /\ d[2] <= runs[u] /\ Queued(d)' /\ ~Open(d)
                BY HandleHand, LatestInHand DEF InStepInv, InHand
            <4>2. PICK i \in 1 .. Len(backlog) : backlog[i] = d
                <5>1. Queued(d) /\ serving.conn = c /\ serving # [conn |-> d, at |-> "msg1"]
                    BY <4>1, HandleHand DEF InStepInv, Handles, Serves
                <5> QED
                    BY <5>1 DEF Queued
            <4>3. c[2] < d[2]
                BY <4>2 DEF InStepInv, QueueInv, First, Handles, Serves
            <4>4. d[2] \in Int /\ c[2] \in Int
                BY PrototypeAssumption DEF Conn
            <4> QED
                BY <2>3, <4>1, <4>3, <4>4
        <3> QED
            BY <1>1, <3>1 DEF Busy
    <2>5. Gs \in persist /\ db # None => Near(t, db[u].tid, runs[u])
        <3>1. Gs \in persist /\ db # None => db[u].tid = rec[u].tid
            BY <1>1 DEF InStepInv, SavedInv, Completes
        <3> QED
            BY <1>1, <2>2, <2>3, <3>1 DEF Near
    <2>6. Near(t, rec'[u].tid, runs[u])
        BY <2>2 DEF Near
    <2> QED
        BY <1>1, <1>2, <2>2, <2>3, <2>4, <2>5, <2>6 DEF Issued
<1> QED
    BY <1>1, <1>6, <1>7 DEF IssuedInv

LEMMA HandlesIssued ==
    ASSUME InStepInv, NEW c \in Conn, Handles(c), ~Completes(c, conn[c].toGs)
    PROVE  IssuedInv'
<1>1. /\ UNCHANGED <<persist, up, rec, sessions, runs, proc>> /\ up
      /\ \A d \in Conn \ {c} : conn'[d] = conn[d]
      /\ db' \in {db, None, rec}
    BY DEF Handles, Serves, Refuses, Opens, Truncates, Saves, Keeps
<1>2. conn'[c].toUav # None /\ conn'[c].toUav.type = "msg4"
      => conn'[c].toUav = conn[c].toUav
    BY DEF Handles, Refuses, Opens, Truncates, Saves, Quiet
<1>3. \A v \in Uav : (Busy(v)' => Busy(v)) /\ Own(v)' = Own(v)
    BY <1>1, HandleHand DEF InStepInv, Own
<1>4. ASSUME NEW v \in Uav, NEW t, NEW challenge, Offered(v, t, challenge)'
      PROVE  Issued(v, t, challenge)'
    <2>1. Offered(v, t, challenge)
        BY <1>1, <1>2, <1>3, <1>4 DEF Offered
    <2>2. Issued(v, t, challenge)
        BY <2>1 DEF InStepInv, IssuedInv
    <2> QED
        BY <1>1, <1>3, <2>2, IssuedKept
<1> QED
    BY <1>1, <1>4 DEF IssuedInv

LEMMA CrashIssued == ASSUME InStepInv, Crash \/ Restart PROVE IssuedInv'
<1>1. /\ UNCHANGED <<persist, db, runs, proc, file>>
      /\ \A c \in Conn : \/ conn'[c] = ClosedByGs(conn[c])
                         \/ conn'[c] = conn[c]
      /\ \A v \in Uav : ~Busy(v)' /\ Own(v)' = Own(v)
    BY CrashConn DEF Own
<1>2. \A c \in Conn : conn'[c].toUav \in {None, conn[c].toUav}
    BY <1>1, CrashConn, ClosedWell
<1>3. ASSUME NEW v \in Uav
      PROVE  /\ sessions'[v] = None
             /\ up' => db # None /\ rec'[v].tid = db[v].tid
    BY DEF Crash, Restart, Loaded, InStepInv, IssuedInv
<1>4. ASSUME NEW v \in Uav, NEW t, NEW challenge, Offered(v, t, challenge)'
      PROVE  Issued(v, t, challenge)'
    <2>1. Offered(v, t, challenge)
        BY <1>1, <1>2, <1>4 DEF Offered
    <2>2. Issued(v, t, challenge)
        BY <2>1 DEF InStepInv, IssuedInv
    <2> QED
        BY <1>1, <1>3, <2>2, IssuedKept
<1> QED
    BY <1>3, <1>4 DEF IssuedInv

LEMMA NextIssued == InStepInv /\ [Next]_vars => IssuedInv'
<1> SUFFICES ASSUME InStepInv, [Next]_vars PROVE IssuedInv'
    OBVIOUS
<1>1. CASE UNCHANGED vars
    BY <1>1 DEF vars, server, client, memory, InStepInv, IssuedInv, Offered, Issued,
                Busy, InHand, Queued, Open, Own
<1>2. CASE Accept
    <2>1. UNCHANGED <<persist, up, rec, sessions, conn, db, runs, proc>>
        BY <1>2 DEF Accept, client, memory
    <2>2. \A u \in Uav : Busy(u)' <=> Busy(u)
        BY <1>2, AcceptHand DEF InStepInv, Busy, InHand
    <2>3. \A v : Own(v)' = Own(v)
        BY <2>1 DEF Own
    <2> QED
        BY <2>1, <2>2, <2>3 DEF InStepInv, IssuedInv, Offered, Issued
<1>3. CASE ServerStep /\ ~Accept
    <2>1. \E c \in Conn : Handles(c)
        BY <1>3, ServerView DEF Handles, InStepInv
    <2> QED
        BY <2>1, HandlesIssued, CompletesIssued
<1>4. CASE Crash \/ Restart
    BY <1>4, CrashIssued
<1>5. ASSUME NEW u \in Uav, StartClient(u) PROVE IssuedInv'
    <2> DEFINE c == <<u, runs[u] + 1>>
    <2>1. Starts(u, c)
        BY <1>5, StartView DEF InStepInv
    <2>2. Own(u)' = c /\ c[1] = u
        BY <2>1 DEF Starts, Own
    <2>3. \A v \in Uav \ {u} : Own(v)' = Own(v) /\ Own(v) # c
        BY <2>1 DEF Starts, Own
    <2> HIDE DEF c
    <2>4. \A d \in Conn : (Queued(d)' <=> Queued(d) \/ d = c) /\ (Open(d)' <=> Open(d))
        BY <2>1, StartHand DEF InStepInv
    <2>5. \A t, challenge : ~Offered(u, t, challenge)'
        BY <2>1, <2>2 DEF Starts, Offered
    <2>6. ASSUME NEW v \in Uav \ {u}, NEW t, NEW challenge, Offered(v, t, challenge)'
          PROVE  Issued(v, t, challenge)'
        <3>1. Offered(v, t, challenge)
            BY <2>1, <2>3, <2>6 DEF Starts, Offered
        <3>2. Busy(v)' => Busy(v)
            BY <2>2, <2>4 DEF Busy, InHand
        <3>3. Issued(v, t, challenge)
            BY <3>1 DEF InStepInv, IssuedInv
        <3>4. runs'[v] = runs[v] /\ UNCHANGED <<persist, up, rec, sessions, db>> /\ up
            BY <2>1 DEF Starts
        <3> QED
            BY <3>2, <3>3, <3>4, IssuedKept
    <2> QED
        BY <2>1, <2>5, <2>6 DEF Starts, InStepInv, IssuedInv
<1>6. ASSUME NEW u \in Uav, ClientStep(u) \/ Die(u) PROVE IssuedInv'
    BY <1>6, ClientView, MovesIssued DEF InStepInv
<1> QED
    BY <1>1, <1>2, <1>3, <1>4, <1>5, <1>6 DEF Next

\* What the server has saved
LEMMA MovesSaved ==
    ASSUME InStepInv, NEW u \in Uav, Moves(u),
           Leaves(u) \/ Replies(u) \/ AcceptsMsg4(u) \/ BeginsSave(u)
    PROVE  SavedInv'
<1>1. UNCHANGED <<persist, up, rec, serving, db, runs>>
    BY DEF Moves
<1>2. ASSUME NEW v \in Uav, file[v] # None => file[v] = db[v].tid, Idle(v)
      PROVE  (file'[v] # None => file'[v] = db[v].tid) /\ Idle(v)'
    <2>1. Own(v)' = Own(v)
        BY MovesHand
    <2>2. CASE v # u
        <3>1. proc'[v] = proc[v] /\ file'[v] = file[v] /\ Own(v) # Own(u)
            BY <2>2, OtherOwn DEF Moves
        <3>2. proc[v] # None => conn'[Own(v)] = conn[Own(v)]
            BY <3>1, OwnType DEF InStepInv, Moves
        <3> QED
            BY <1>2, <2>1, <3>1, <3>2 DEF Idle
    <2>3. CASE v = u
        <3>1. proc[u].at = "msg2" /\ Quiet(conn[Own(u)].toUav)
            BY <1>2, <2>3 DEF Idle, Moves
        <3>2. proc'[u] = None /\ file'[u] = file[u]
            BY <3>1 DEF Quiet, Leaves, Replies, AcceptsMsg4, BeginsSave, Received
        <3> QED
            BY <1>2, <2>3, <3>2 DEF Idle
    <2> QED
        BY <2>2, <2>3
<1> QED
    BY <1>1, <1>2 DEF InStepInv, SavedInv

LEMMA CompletesSaved ==
    ASSUME InStepInv, NEW c \in Conn, Handles(c), Completes(c, conn[c].toGs)
    PROVE  SavedInv'
<1> DEFINE u == c[1]
<1>1. /\ u \in Uav /\ Open(c) /\ file[u] # None /\ file[u] = rec[u].tid
      /\ \A v \in Uav \ {u} : rec'[v] = rec[v]
      /\ UNCHANGED <<persist, up, db, runs, proc, file>> /\ up
    BY CompletesOwn
<1>2. /\ serving.at = "msg3" /\ serving.conn = c
      /\ \A d \in Conn \ {c} : conn'[d] = conn[d]
      /\ \/ serving' = [conn |-> c, at |-> "save"]
         \/ serving' = None /\ (Gs \notin persist \/ conn[c].link = "uavClosed")
    BY DEF Completes, Handles, Serves
<1>3. \A v \in Uav : Own(v)' = Own(v)
    BY <1>1 DEF Own
<1>4. ASSUME NEW v \in Uav \ {u}, Idle(v) PROVE Idle(v)'
    <2>1. Own(v) # c
        BY <1>4 DEF Own
    <2>2. proc[v] # None => conn'[Own(v)] = conn[Own(v)]
        BY <1>2, <2>1, OwnType DEF InStepInv
    <2> QED
        BY <1>1, <1>3, <1>4, <2>2 DEF Idle
<1>5. ASSUME Gs \in persist, db # None, conn[c].link = "uavClosed"
      PROVE  file[u] = db[u].tid /\ Idle(u)'
    <2>1. file[u] = db[u].tid
        BY <1>1, <1>2, <1>5 DEF InStepInv, SavedInv
    <2>2. ASSUME proc[u] # None
          PROVE  proc[u].at = "msg2" /\ conn'[Own(u)].toUav = None
        <3>1. Own(u) \in Conn /\ Own(u) # c
            BY <1>1, <1>5, <2>2, OwnType DEF InStepInv, ProcInv
        <3>2. InHand(Own(u)) /\ ~Open(Own(u))
            BY <1>1, <3>1, LatestInHand, HandleHand DEF InStepInv, InHand
        <3> QED
            BY <1>1, <1>2, <2>2, <3>1, <3>2 DEF InHand, InStepInv, ProcInv, MsgInv
    <2> QED
        BY <1>1, <1>3, <2>1, <2>2 DEF Idle, Quiet
<1>6. \A v \in Uav \ {u} : Gs \in persist /\ db # None =>
        db[v].tid = rec'[v].tid
        \/ ((file[v] # None => file[v] = db[v].tid) /\ Idle(v)')
    BY <1>1, <1>2, <1>4 DEF InStepInv, SavedInv
<1>7. Gs \in persist /\ db # None =>
        \/ serving' = [conn |-> c, at |-> "save"]
        \/ (file[u] # None => file[u] = db[u].tid) /\ Idle(u)'
    BY <1>2, <1>5
<1>8. serving' = [conn |-> c, at |-> "save"]
      => serving' # None /\ serving'.at = "save" /\ serving'.conn[1] = u
    BY NoneAssumption DEF Serving
<1> QED
    BY <1>1, <1>6, <1>7, <1>8 DEF SavedInv

LEMMA HandlesSaved ==
    ASSUME InStepInv, NEW c \in Conn, Handles(c), ~Completes(c, conn[c].toGs)
    PROVE  SavedInv'
<1>1. /\ UNCHANGED <<persist, up, rec, runs, proc, file>> /\ up
      /\ \A d \in Conn \ {c} : conn'[d] = conn[d]
    BY DEF Handles, Serves, Refuses, Opens, Truncates, Saves, Keeps
<1>2. \A v \in Uav : Own(v)' = Own(v)
    BY <1>1 DEF Own
<1>3. ASSUME NEW v \in Uav, Idle(v), Own(v) = c => Quiet(conn'[c].toUav)
      PROVE  Idle(v)'
    <2>1. proc[v] # None => Own(v) \in Conn
        BY OwnType DEF InStepInv
    <2> QED
        BY <1>1, <1>2, <1>3, <2>1 DEF Idle
<1>4. CASE Refuses(c)
    <2>1. db' = db /\ serving.at # "save" /\ Quiet(conn'[c].toUav)
        BY <1>4 DEF Refuses, Keeps
    <2> QED
        BY <1>1, <1>3, <2>1 DEF InStepInv, SavedInv
<1>5. CASE Opens(c)
    <2>1. db' = db /\ serving.at = "msg1"
        BY <1>5 DEF Opens, Keeps
    <2>2. Queued(c)
        <3>1. serving = [conn |-> c, at |-> "msg1"]
            BY <1>5, <2>1, HandleHand DEF InStepInv
        <3> QED
            BY <3>1 DEF Queued
    <2>3. file[c[1]] # None /\ file[c[1]] = rec[c[1]].tid
        BY <1>5, <2>2, OpensOwn
    <2>4. ASSUME NEW v \in Uav, Gs \in persist, db # None
          PROVE  \/ db[v].tid = rec[v].tid
                 \/ (file[v] # None => file[v] = db[v].tid) /\ Idle(v)'
        <3>1. \/ db[v].tid = rec[v].tid
              \/ (file[v] # None => file[v] = db[v].tid) /\ Idle(v)
            BY <1>1, <2>1, <2>4 DEF InStepInv, SavedInv
        <3>2. CASE Own(v) = c
            <4>1. c[1] = v
                BY <3>2 DEF Own
            <4> QED
                BY <2>3, <3>1, <4>1
        <3>3. CASE Own(v) # c
            BY <1>3, <3>1, <3>3
        <3> QED
            BY <3>2, <3>3
    <2> QED
        BY <1>1, <2>1, <2>4 DEF SavedInv
<1>6. CASE Truncates(c) \/ Saves(c)
    BY <1>1, <1>6 DEF Truncates, Saves, SavedInv
<1> QED
    BY <1>4, <1>5, <1>6 DEF Handles

LEMMA NextSaved == InStepInv /\ [Next]_vars => SavedInv'
<1> SUFFICES ASSUME InStepInv, [Next]_vars PROVE SavedInv'
    OBVIOUS
<1>1. CASE UNCHANGED vars
    BY <1>1 DEF vars, server, client, memory, InStepInv, SavedInv, Idle, Own
<1>2. CASE Accept
    <2>1. UNCHANGED <<persist, up, rec, conn, db, runs, proc, file>>
        BY <1>2 DEF Accept, client, memory
    <2>2. serving = None
        BY <1>2 DEF Accept
    <2> QED
        BY <2>1, <2>2 DEF InStepInv, SavedInv, Idle, Own
<1>3. CASE ServerStep /\ ~Accept
    <2>1. \E c \in Conn : Handles(c)
        BY <1>3, ServerView DEF Handles, InStepInv
    <2> QED
        BY <2>1, HandlesSaved, CompletesSaved
<1>4. CASE Crash \/ Restart
    BY <1>4 DEF Crash, Restart, Loaded, SavedInv
<1>5. ASSUME NEW u \in Uav, StartClient(u) PROVE SavedInv'
    <2> DEFINE c == <<u, runs[u] + 1>>
    <2>1. Starts(u, c)
        BY <1>5, StartView DEF InStepInv
    <2>2. Own(u)' = c
        BY <2>1 DEF Starts, Own
    <2>3. \A v \in Uav \ {u} : Own(v)' = Own(v) /\ Own(v) # c
        BY <2>1 DEF Starts, Own
    <2> HIDE DEF c
    <2>4. Idle(u)'
        BY <2>1, <2>2 DEF Starts, Idle, Quiet
    <2>5. ASSUME NEW v \in Uav \ {u}, Idle(v) PROVE Idle(v)'
        <3>1. proc[v] # None => conn'[Own(v)] = conn[Own(v)]
            BY <2>1, <2>3, OwnType DEF InStepInv, Starts
        <3> QED
            BY <2>1, <2>3, <2>5, <3>1 DEF Starts, Idle
    <2> QED
        BY <2>1, <2>4, <2>5 DEF Starts, InStepInv, SavedInv
<1>6. ASSUME NEW u \in Uav, ClientStep(u) \/ Die(u) PROVE SavedInv'
    BY <1>6, ClientView, MovesSaved DEF InStepInv
<1> QED
    BY <1>1, <1>2, <1>3, <1>4, <1>5, <1>6 DEF Next

\* How far apart they are
LEMMA NearIsApart ==
    ASSUME NEW t, NEW s, NEW x \in 1 .. MaxRuns[t.of], Near(t, s, x)
    PROVE  Apart(t, s)
BY DEF Near, Apart

LEMMA MovesApart ==
    ASSUME InStepInv, NEW u \in Uav, Moves(u),
           Leaves(u) \/ Replies(u) \/ AcceptsMsg4(u) \/ BeginsSave(u)
    PROVE  ApartInv'
<1>1. UNCHANGED <<persist, up, rec, db>> /\ \A v \in Uav \ {u} : file'[v] = file[v]
    BY DEF Moves
<1>2. CASE file'[u] = file[u] \/ file'[u] = None
    BY <1>1, <1>2 DEF InStepInv, ApartInv
<1>3. CASE proc[u].at = "writing" /\ file'[u] = proc[u].tid
    <2>1. Issued(u, proc[u].tid, proc[u].challenge)
        BY <1>3 DEF InStepInv, IssuedInv, Offered, Moves
    <2>2. runs[u] \in 1 .. MaxRuns[u] /\ proc[u].tid.of = u
        BY <2>1, PrototypeAssumption
        DEF InStepInv, TypeInv, TypeOK, RunsInv, Moves, Issued
    <2>3. Gs \in persist => /\ up => Apart(file'[u], rec[u].tid)
                            /\ db # None => Apart(file'[u], db[u].tid)
        BY <1>3, <2>1, <2>2, NearIsApart DEF Issued
    <2> QED
        BY <1>1, <2>3 DEF InStepInv, ApartInv
<1> QED
    BY <1>2, <1>3 DEF Leaves, Replies, AcceptsMsg4, BeginsSave

LEMMA HandlesApart ==
    ASSUME InStepInv, NEW c \in Conn, Handles(c)
    PROVE  ApartInv'
<1>1. CASE Completes(c, conn[c].toGs)
    <2> DEFINE u == c[1]
    <2>1. /\ u \in Uav /\ c[2] \in 1 .. MaxRuns[u]
          /\ file[u] # None /\ file[u] = rec[u].tid
          /\ rec'[u].tid = Rotated(rec[u].tid, c[2]) /\ rec[u].tid.of = u
          /\ \A v \in Uav \ {u} : rec'[v] = rec[v]
          /\ UNCHANGED <<persist, up, db, file>> /\ up
        BY <1>1, CompletesOwn
    <2>2. Apart(file[u], rec'[u].tid)
        BY <2>1 DEF Apart
    <2> HIDE DEF u
    <2> QED
        BY <2>1, <2>2 DEF InStepInv, ApartInv
<1>2. CASE ~Completes(c, conn[c].toGs)
    <2>1. /\ UNCHANGED <<persist, up, rec, file>> /\ up
          /\ db' \in {db, None, rec}
        BY <1>2 DEF Handles, Serves, Refuses, Opens, Truncates, Saves, Keeps
    <2> QED
        BY <2>1 DEF InStepInv, ApartInv
<1> QED
    BY <1>1, <1>2

LEMMA NextApart == InStepInv /\ [Next]_vars => ApartInv'
<1> SUFFICES ASSUME InStepInv, [Next]_vars PROVE ApartInv'
    OBVIOUS
<1>1. CASE UNCHANGED <<persist, up, rec, db, file>>
    BY <1>1 DEF InStepInv, ApartInv
<1>2. CASE ServerStep /\ ~Accept
    <2>1. \E c \in Conn : Handles(c)
        BY <1>2, ServerView DEF Handles, InStepInv
    <2> QED
        BY <2>1, HandlesApart
<1>3. CASE Crash \/ Restart
    BY <1>3 DEF Crash, Restart, Loaded, client, InStepInv, ApartInv
<1>4. ASSUME NEW u \in Uav, ClientStep(u) \/ Die(u) PROVE ApartInv'
    BY <1>4, ClientView, MovesApart DEF InStepInv
<1> QED
    BY <1>1, <1>2, <1>3, <1>4
    DEF Next, vars, server, client, memory, ServerStep, Accept, StartClient

LEMMA NextInStep == InStepInv /\ [Next]_vars => InStepInv'
<1> SUFFICES ASSUME InStepInv, [Next]_vars PROVE InStepInv'
    OBVIOUS
<1>1. TypeInv' /\ LinkInv' /\ QueueInv'
    BY NextType, NextLink, NextQueue DEF InStepInv
<1>2. MsgInv' /\ ProcInv' /\ OfInv'
    BY NextMsg, NextProc, NextOf
<1>3. IssuedInv' /\ SavedInv' /\ ApartInv'
    BY NextIssued, NextSaved, NextApart
<1> QED
    BY <1>1, <1>2, <1>3 DEF InStepInv

\* Whatever is killed and when, and however often, as long as the server saves
\* the identity in a client's file is at most one rotation away from the one
\* in the server's memory and the one in its file; and a client that has just
\* accepted msg4 has the key and the identity of the server's session, unless
\* the server has restarted (phase2_msg1, phase2_msg3, handle_client,
\* save_gs_state, load_gs_state and the client's run).
THEOREM InStep == Spec => []IdentitiesInStep
BY InitInStep, NextInStep, InStepImplies, PTL DEF Spec
=============================================================================
