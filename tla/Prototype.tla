------------------------------- MODULE Prototype -------------------------------
(***************************************************************************)
(* The Python prototype run on two machines (src/UAV-Authentication):      *)
(* ground_station_server.py, uav_client.py, and the JSON files that        *)
(* storage.py keeps for them.                                              *)
(*                                                                         *)
(* The server answers one TCP connection at a time and blocks in recv.     *)
(* Each run of the client is one process, one connection and one           *)
(* authentication: it loads its file, exchanges msg1..msg4 and, with       *)
(* --persist, saves.  Either process may be killed at any point, and a     *)
(* client's host may disappear without closing its connection.             *)
(*                                                                         *)
(* A client process is numbered; the number stands for nonce_u, nonce2 and *)
(* the keys hashed from them.  An identity is the device's first one and   *)
(* the nonces hashed onto it.  The response to a challenge is named by the *)
(* challenge.  MACs are those of honest parties and verify.  The machines  *)
(* have clocks of their own: a timestamp may be found stale at any time.   *)
(***************************************************************************)
EXTENDS Integers, Sequences, FiniteSetsExt

CONSTANTS
    Uav,
    NumCrps,    \* pairs enrolled for each device
    MaxRuns,    \* MaxRuns[u]: bound on the client processes of u
    Persisting, \* the sets of processes that may be started with --persist
    MaxCrashes, \* bound on the crashes of the server
    Gs,         \* names the server's --persist
    None        \* no process, no message, no session; an unreadable file

ASSUME PrototypeAssumption == /\ NumCrps \in Nat /\ MaxRuns \in [Uav -> Nat]
                              /\ MaxCrashes \in Nat
                              /\ Gs \notin Uav
                              /\ Persisting \subseteq SUBSET (Uav \cup {Gs})

VARIABLES
    persist,    \* who was started with --persist: devices, Gs
    up,         \* the server runs
    crashes,    \* how often it has crashed
    rec,        \* rec[u]: the identity and the used challenges in _records
    pending,    \* pending[u]: _pending, or None
    sessions,   \* sessions[u]: _sessions, or None
    serving,    \* the connection in handle_client and where it stands, or None
    backlog,    \* connections not yet accepted, oldest first
    conn,       \* conn[c]: a connection and what is in flight on it
    db,         \* the server's file: records, or None while it is not whole
    runs,       \* runs[u]: client processes started
    proc,       \* proc[u]: the running client process, or None
    file        \* file[u]: the identity in the client's file, or None

memory == <<rec, pending, sessions>>
server == <<up, crashes, memory, serving, backlog, db>>
client == <<runs, proc, file>>
vars == <<persist, server, conn, client>>
-----------------------------------------------------------------------------
Conn == UNION {{u} \X (1 .. MaxRuns[u]) : u \in Uav}
Crp == 1 .. NumCrps
Tid == [of : Uav, nonces : Seq(Nat)]
Records == [Uav -> [tid : Tid, consumed : SUBSET Crp]]
Exchange == [nonce : Nat, challenge : Crp]
Serving == [conn : Conn, at : {"msg1", "msg3", "save", "writing"}]
ClientProcess == [at : {"msg2", "msg4", "save", "writing"}, tid : Tid,
                  challenge : Crp \cup {None}]

ToGs == [type : {"msg1"}, tid : Tid, nonce : Nat]
        \cup [type : {"msg3"}, nonce : Nat, challenge : Crp]
ToUav == [type : {"error"}]
         \cup [type : {"msg2"}, nonce : Nat, challenge : Crp]
         \cup [type : {"msg4"}, nonce : Nat, challenge : Crp, tid : Tid]

ASSUME NoneAssumption == None \notin Serving \cup ClientProcess

TypeOK ==
    /\ persist \subseteq Uav \cup {Gs}
    /\ up \in BOOLEAN /\ crashes \in Nat
    /\ rec \in Records
    /\ pending \in [Uav -> Exchange \cup {None}]
    /\ sessions \in [Uav -> Exchange \cup {None}]
    /\ serving \in Serving \cup {None}
    /\ backlog \in Seq(Conn)
    /\ conn \in [Conn -> [link : {"none", "open", "uavClosed", "gsClosed"},
                          toGs : ToGs \cup {None}, toUav : ToUav \cup {None}]]
    /\ db \in Records \cup {None}
    /\ runs \in [Uav -> Nat]
    /\ proc \in [Uav -> ClientProcess \cup {None}]
    /\ file \in [Uav -> Tid \cup {None}]

\* enroll_uav and provision.py: both files, then the server's first start.
Enrolled == [u \in Uav |-> [tid |-> [of |-> u, nonces |-> <<>>], consumed |-> {}]]
Closed == [link |-> "none", toGs |-> None, toUav |-> None]
Init ==
    /\ persist \in Persisting
    /\ up = TRUE /\ crashes = 0
    /\ rec = Enrolled /\ db = Enrolled
    /\ pending = [u \in Uav |-> None]
    /\ sessions = [u \in Uav |-> None]
    /\ serving = None /\ backlog = <<>>
    /\ conn = [c \in Conn |-> Closed]
    /\ runs = [u \in Uav |-> 0]
    /\ proc = [u \in Uav |-> None]
    /\ file = [u \in Uav |-> Enrolled[u].tid]
-----------------------------------------------------------------------------
(* Connections *)

\* What one end leaves of a connection when it closes: what is on its way to
\* the other end is still delivered, what is on its way to itself is not.
MutantClosedByGs(k) == [k EXCEPT !.toGs = None]
ClosedByGs(k) ==
    CASE k.link = "open" -> [k EXCEPT !.link = "gsClosed", !.toGs = None]
      [] k.link = "uavClosed" -> Closed
      [] OTHER -> k
ClosedByUav(k) ==
    CASE k.link = "open" -> [k EXCEPT !.link = "uavClosed", !.toUav = None]
      [] OTHER -> Closed

\* sendall of the server: a client that has left receives nothing.
Answered(k, m) == [k EXCEPT !.toGs = None, !.toUav = IF k.link = "open" THEN m ELSE None]
-----------------------------------------------------------------------------
(* The ground station's handlers (entities.py) *)

\* get_record_by_tid: _tid_to_id is the inverse of the records' identities.
FindByTid(t) == {u \in Uav : rec[u].tid = t}
Unused(u) == Crp \ rec[u].consumed
MutantSelectUnusedCrp(u) == Cardinality(rec[u].consumed)
SelectUnusedCrp(u) == Min(Unused(u))

\* phase2_msg1 accepts m, with the record of u.
AcceptsMsg1(m, u) == u \in FindByTid(m.tid) /\ Unused(u) # {}
OpenExchange(m, u) ==
    pending' = [pending EXCEPT ![u] =
                   [nonce |-> m.nonce, challenge |-> SelectUnusedCrp(u)]]

\* phase2_msg3 accepts m from u: unmasked with the pending nonce, the response
\* is that of the pending challenge.
AcceptsMsg3(m, u) ==
    pending[u] # None /\ pending[u] = [nonce |-> m.nonce, challenge |-> m.challenge]
Rotated(t, nonce) == [t EXCEPT !.nonces = Append(@, nonce)]
Consumed(used, challenge) == used \cup {challenge}
CompleteExchange(u) ==
    LET p == pending[u]
    IN  /\ rec' = [rec EXCEPT ![u] = [tid |-> Rotated(@.tid, p.nonce),
                                      consumed |-> Consumed(@.consumed, p.challenge)]]
        /\ sessions' = [sessions EXCEPT ![u] = p]
        /\ pending' = [pending EXCEPT ![u] = None]
-----------------------------------------------------------------------------
(* The server (ground_station_server.py) *)

At(c, stage) == up /\ serving = [conn |-> c, at |-> stage]
Arrived(c, type) == conn[c].toGs # None /\ conn[c].toGs.type = type

Accept ==
    /\ up /\ serving = None /\ backlog # <<>>
    /\ serving' = [conn |-> Head(backlog), at |-> "msg1"]
    /\ backlog' = Tail(backlog)
    /\ UNCHANGED <<persist, up, crashes, memory, db, conn, client>>

\* An error is sent and the connection closed.
Refuse(c) ==
    /\ conn' = [conn EXCEPT ![c] = ClosedByGs(Answered(@, [type |-> "error"]))]
    /\ serving' = None
    /\ UNCHANGED memory

HandleMsg1(c) ==
    /\ At(c, "msg1") /\ Arrived(c, "msg1")
    /\ \E fresh \in BOOLEAN :
        LET m == conn[c].toGs
            accepting == {u \in Uav : fresh /\ AcceptsMsg1(m, u)}
        IN  \/ /\ accepting = {}
               /\ Refuse(c)
            \/ \E u \in accepting :
                /\ OpenExchange(m, u)
                /\ conn' = [conn EXCEPT ![c] = Answered(@,
                       [type |-> "msg2", nonce |-> m.nonce,
                        challenge |-> SelectUnusedCrp(u)])]
                /\ serving' = [serving EXCEPT !.at = "msg3"]
                /\ UNCHANGED <<rec, sessions>>
    /\ UNCHANGED <<persist, up, crashes, backlog, db, client>>

\* msg4 is sent before anything is saved.  Sending to a client that has left
\* may raise, and nothing is saved then.
HandleMsg3(c) ==
    /\ At(c, "msg3") /\ Arrived(c, "msg3")
    /\ \E fresh \in BOOLEAN :
        LET u == c[1]
            m == conn[c].toGs
            accepts == fresh /\ AcceptsMsg3(m, u)
        IN  \/ /\ ~accepts
               /\ Refuse(c)
            \/ /\ accepts
               /\ CompleteExchange(u)
               /\ LET answered == Answered(conn[c],
                          [type |-> "msg4", nonce |-> m.nonce,
                           challenge |-> m.challenge, tid |-> rec'[u].tid])
                  IN  \/ /\ Gs \in persist
                         /\ conn' = [conn EXCEPT ![c] = answered]
                         /\ serving' = [serving EXCEPT !.at = "save"]
                      \/ /\ Gs \notin persist \/ conn[c].link = "uavClosed"
                         /\ conn' = [conn EXCEPT ![c] = ClosedByGs(answered)]
                         /\ serving' = None
    /\ UNCHANGED <<persist, up, crashes, backlog, db, client>>

\* save_gs_state: write_text truncates the file, then writes and closes it.
SaveGsState(c) ==
    /\ \/ /\ At(c, "save")
          /\ db' = None
          /\ serving' = [serving EXCEPT !.at = "writing"]
          /\ UNCHANGED conn
       \/ /\ At(c, "writing")
          /\ db' = rec
          /\ conn' = [conn EXCEPT ![c] = ClosedByGs(@)]
          /\ serving' = None
    /\ UNCHANGED <<persist, up, crashes, memory, backlog, client>>

\* recv finds that the client has closed: ConnectionError.
ClientDisconnected(c) ==
    /\ At(c, "msg1") \/ At(c, "msg3")
    /\ conn[c].link = "uavClosed" /\ conn[c].toGs = None
    /\ conn' = [conn EXCEPT ![c] = ClosedByGs(@)]
    /\ serving' = None
    /\ UNCHANGED <<persist, up, crashes, memory, backlog, db, client>>

\* The process ends, in the middle of anything; its connections are closed.
Crash ==
    /\ up /\ crashes < MaxCrashes
    /\ up' = FALSE
    /\ crashes' = crashes + 1
    /\ pending' = [u \in Uav |-> None]
    /\ sessions' = [u \in Uav |-> None]
    /\ serving' = None /\ backlog' = <<>>
    /\ conn' = [c \in Conn |-> ClosedByGs(conn[c])]
    /\ UNCHANGED <<persist, rec, db, client>>

\* load_gs_state: records and identities; a file that is not whole is no JSON.
MutantLoadedTids(records) ==
    [u \in Uav |-> [records[u] EXCEPT !.tid = Enrolled[u].tid]]
MutantLoadedPool(records) == [u \in Uav |-> [records[u] EXCEPT !.consumed = {}]]
Loaded(records) == records
Restart ==
    /\ ~up /\ db # None
    /\ up' = TRUE
    /\ rec' = Loaded(db)
    /\ UNCHANGED <<persist, crashes, pending, sessions, serving, backlog, db,
                   conn, client>>
-----------------------------------------------------------------------------
(* The client (uav_client.py) *)

Own(u) == <<u, runs[u]>>
Received(u, at, type) ==
    /\ proc[u] # None /\ proc[u].at = at
    /\ conn[Own(u)].toUav # None /\ conn[Own(u)].toUav.type = type
Exit(u) ==
    /\ proc' = [proc EXCEPT ![u] = None]
    /\ conn' = [conn EXCEPT ![Own(u)] = ClosedByUav(@)]

\* load_uav_state, connect, msg1.  The kernel completes the connection whether
\* or not the server is accepting.
StartClient(u) ==
    /\ proc[u] = None /\ runs[u] < MaxRuns[u]
    /\ file[u] # None /\ up
    /\ runs' = [runs EXCEPT ![u] = @ + 1]
    /\ proc' = [proc EXCEPT ![u] = [at |-> "msg2", tid |-> file[u], challenge |-> None]]
    /\ conn' = [conn EXCEPT ![<<u, runs[u] + 1>>] =
           [link |-> "open", toUav |-> None,
            toGs |-> [type |-> "msg1", tid |-> file[u], nonce |-> runs[u] + 1]]]
    /\ backlog' = Append(backlog, <<u, runs[u] + 1>>)
    /\ UNCHANGED <<persist, up, crashes, memory, serving, db, file>>

HandleMsg2(u) ==
    /\ Received(u, "msg2", "msg2")
    /\ LET m == conn[Own(u)].toUav
       IN  \/ Exit(u)       \* reproduce fails: too many bit errors
           \/ /\ m.nonce = runs[u]
              /\ proc' = [proc EXCEPT ![u].at = "msg4", ![u].challenge = m.challenge]
              /\ conn' = [conn EXCEPT ![Own(u)].toUav = None,
                     ![Own(u)].toGs = IF conn[Own(u)].link = "open"
                         THEN [type |-> "msg3", nonce |-> runs[u], challenge |-> m.challenge]
                         ELSE None]
    /\ UNCHANGED <<persist, server, runs, file>>

HandleMsg4(u) ==
    /\ Received(u, "msg4", "msg4")
    /\ LET m == conn[Own(u)].toUav
       IN  /\ m.nonce = runs[u] /\ m.challenge = proc[u].challenge
           /\ proc' = [proc EXCEPT ![u].at = "save", ![u].tid = m.tid]
           /\ conn' = [conn EXCEPT ![Own(u)].toUav = None]
    /\ UNCHANGED <<persist, server, runs, file>>

\* An error answer, or a connection closed by the server: RuntimeError.
Fail(u) ==
    /\ \/ Received(u, "msg2", "error") \/ Received(u, "msg4", "error")
       \/ /\ proc[u] # None /\ proc[u].at \in {"msg2", "msg4"}
          /\ conn[Own(u)].link = "gsClosed" /\ conn[Own(u)].toUav = None
    /\ Exit(u)
    /\ UNCHANGED <<persist, server, runs, file>>

\* save_uav_state, with --persist; then the process ends.
SaveUavState(u) ==
    /\ proc[u] # None
    /\ \/ /\ proc[u].at = "save" /\ u \in persist
          /\ file' = [file EXCEPT ![u] = None]
          /\ proc' = [proc EXCEPT ![u].at = "writing"]
          /\ UNCHANGED conn
       \/ /\ proc[u].at = "writing"
          /\ file' = [file EXCEPT ![u] = proc[u].tid]
          /\ Exit(u)
       \/ /\ proc[u].at = "save" /\ u \notin persist
          /\ Exit(u)
          /\ UNCHANGED file
    /\ UNCHANGED <<persist, server, runs>>

\* The process is killed, and the kernel closes its connection; or the host
\* disappears and nobody does.
Die(u) ==
    /\ proc[u] # None
    /\ \/ Exit(u)
       \/ /\ proc' = [proc EXCEPT ![u] = None]
          /\ conn' = [conn EXCEPT ![Own(u)].toUav = None]
    /\ UNCHANGED <<persist, server, runs, file>>
-----------------------------------------------------------------------------
ServerStep ==
    \/ Accept
    \/ \E c \in Conn : \/ HandleMsg1(c) \/ HandleMsg3(c)
                       \/ SaveGsState(c) \/ ClientDisconnected(c)
ClientStep(u) == HandleMsg2(u) \/ HandleMsg4(u) \/ Fail(u) \/ SaveUavState(u)

Next ==
    \/ ServerStep
    \/ Crash
    \/ Restart
    \/ \E u \in Uav : StartClient(u) \/ ClientStep(u) \/ Die(u)

\* A process that can take a step takes one.  Nobody has to start a client, to
\* restart the server, or to kill either.
Spec == Init /\ [][Next]_vars /\ WF_vars(ServerStep)
        /\ \A u \in Uav : WF_vars(ClientStep(u))
-----------------------------------------------------------------------------
(* Properties *)

Vanished(c) == conn[c].link = "open" /\ (proc[c[1]] = None \/ runs[c[1]] # c[2])

Apart(s, t) == \/ s = t
               \/ \E x \in 1 .. MaxRuns[s.of] : s = Rotated(t, x) \/ t = Rotated(s, x)

\* phase2_msg3 installs the rotated identity before msg4 has arrived and before
\* it is saved, and keeps no copy of the old one.  All the same the two ends
\* are never more than one rotation apart, whatever is killed and when, as long
\* as the server saves; and a client that has just accepted msg4 has the key
\* and the identity of the server's session, unless the server has restarted.
IdentitiesInStep == \A u \in Uav :
    /\ Gs \in persist /\ file[u] # None =>
        /\ up => Apart(file[u], rec[u].tid)
        /\ db # None => Apart(file[u], db[u].tid)
    /\ (/\ proc[u] # None /\ proc[u].at \in {"save", "writing"}
        /\ sessions[u] # None) =>
        /\ sessions[u] = [nonce |-> runs[u], challenge |-> proc[u].challenge]
        /\ rec[u].tid = proc[u].tid

\* The pool is finite and never refilled.  Each used pair has paid for one
\* rotation, in memory and in the file: failed attempts and restarts cost none;
\* and a pair whose use has been saved is not asked for again.
PoolPaysForRotations == \A u \in Uav :
    /\ Cardinality(rec[u].consumed) = Len(rec[u].tid.nonces)
    /\ db # None => /\ Cardinality(db[u].consumed) = Len(db[u].tid.nonces)
                    /\ pending[u] # None => pending[u].challenge \notin db[u].consumed

\* "Keep the server running even if one client misbehaves"
\* (ground_station_server.py:115), as far as it holds: a client that waits for
\* an answer gets one or an end of the connection, unless the server is blocked
\* in recv for a client whose host has vanished.  There is no timeout.
Waiting(u) == proc[u] # None /\ proc[u].at \in {"msg2", "msg4"}
WaitsOnlyForTheVanished == \A u \in Uav :
    Waiting(u) ~> \/ ~Waiting(u)
                  \/ serving # None /\ Vanished(serving.conn)
===============================================================================
