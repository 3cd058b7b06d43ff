------------------------------- MODULE Socket -------------------------------
(***************************************************************************)
(* Stream sockets (kern/fs/socket.c): connection set-up through the queue  *)
(* of a listening socket, the two streams of a connection, shutdown and    *)
(* close.  A process has one thread and its sockets to itself.             *)
(*                                                                         *)
(* A step is a section under one socket's lock.  The buffer is a sequence: *)
(* it is filled and emptied by the copies of the pipe, see Pipe.  A writer *)
(* holds the lock of its peer and gives up its own state_lock before it    *)
(* sleeps: at "write_full" it has decided to, and still has the lock.      *)
(***************************************************************************)
EXTENDS Naturals, Sequences, FiniteSetsExt

CONSTANTS
    Servers, Clients,   \* the processes that accept and that connect
    Writers, Shutters,  \* those of them that call write() and shutdown()
    SOCKET_COUNT, PENDING_COUNT, SOCKET_BUFFER_SIZE,
    ServerPort, FirstPort, LastPort,    \* LastPort bounds local_port
    Reads, Writes, MaxBytes,            \* lengths; bound on a stream
    Orderly,            \* what programs refrain from: see the guards
    NULL

Procs == Servers \cup Clients
Sockets == 0..SOCKET_COUNT - 1

ASSUME SocketAssumption ==
    /\ SOCKET_COUNT \in Nat /\ PENDING_COUNT \in Nat \ {0} /\ SOCKET_BUFFER_SIZE \in Nat \ {0}
    /\ 0 < ServerPort /\ ServerPort < FirstPort /\ LastPort \in Nat
    /\ Reads \cup Writes \subseteq Nat \ {0} /\ MaxBytes \in Nat
    /\ Writers \cup Shutters \subseteq Procs /\ Orderly \in BOOLEAN /\ NULL \notin Procs

VARIABLES
    sockets,
    local_port,     \* the static counter of gen_local_socket_addr()
    pc,             \* per process: where it is, its socket s, its peer t, the
                    \* n and i of a call, and the channel it sleeps on
    machine         \* "up", or the lock that was kept or released twice

vars == <<sockets, local_port, pc, machine>>

\* Addresses are ports.  queue and h: the requests from waiting_h up to
\* waiting_t, and the slot of the first.  est, sent, rcvd and eof are for the
\* properties: is it connected as far as its program knows, how many bytes did
\* it pass on and read, and has read() reported the end of the stream?
ZeroSocket ==
    [used |-> FALSE, tid |-> NULL, port |-> 0, target |-> 0, listening |-> FALSE, queue |-> <<>>, h |-> 0,
     buf |-> <<>>, is_close |-> FALSE, opposite_write_close |-> FALSE,
     self_read_close |-> FALSE, self_write_close |-> FALSE,
     est |-> FALSE, sent |-> 0, rcvd |-> 0, eof |-> FALSE]
Idle == [at |-> "user", s |-> 0, t |-> 0, n |-> 0, i |-> 0, chan |-> NULL]

Init ==
    /\ sockets = [s \in Sockets |-> ZeroSocket]
    /\ local_port = FirstPort
    /\ pc = [p \in Procs |-> Idle]
    /\ machine = "up"

At(p, at) == machine = "up" /\ pc[p].at = at
Go(p, c) == pc' = [pc EXCEPT ![p] = c]
Panic(why) == machine' = why /\ UNCHANGED <<sockets, pc>>

\* sleep() and wakeup().  waiting_queue, on which accept() sleeps, is the
\* address of its slot 0, on which a connect() sleeps.
Awake == [conn_sleep |-> "conn_woken", acc_sleep |-> "acc_woken",
          read_sleep |-> "read_woken", write_sleep |-> "write_woken"]
Slot(s, i) == <<"waiting_queue", s, i>>
ReadPos(s) == <<"socketReadPos", s, 0>>
WritePos(s) == <<"socketWritePos", s, 0>>
Wakeup(f, cs) ==
    [p \in Procs |-> IF f[p].at \in DOMAIN Awake /\ f[p].chan \in cs
                     THEN [f[p] EXCEPT !.at = Awake[@], !.chan = NULL] ELSE f[p]]

\* A search locks one socket after the other, up to the one it finds.
Locked(s) == \E p \in Procs : pc[p].at = "write_full" /\ pc[p].t = s
MayScan(found) == \A i \in Sockets : (\A j \in found : i <= j) => ~Locked(i)

PeerOf_AnyTarget(s) ==
    {i \in Sockets \ {s} : sockets[i].used /\ sockets[i].port = sockets[s].target}
PeerOf(s) == {i \in Sockets \ {s} : /\ sockets[i].used
                                    /\ sockets[i].port = sockets[s].target
                                    /\ sockets[i].target = sockets[s].port}
ListeningOn(port) == {i \in Sockets : sockets[i].used /\ sockets[i].port = port /\ sockets[i].listening}

Owns(p, s) == sockets[s].used /\ sockets[s].tid = p
Calls(p, s) == At(p, "user") /\ Owns(p, s)

(***************************************************************************)
(* socket(), bind(), listen() and socketFree()                             *)
(***************************************************************************)
Unused == {s \in Sockets : ~sockets[s].used}

Made_KeepsState(r, p) ==
    [r EXCEPT !.used = TRUE, !.tid = p, !.target = 0, !.queue = <<>>, !.h = 0,
              !.self_read_close = FALSE, !.self_write_close = FALSE, !.is_close = FALSE]
Made(r, p) ==
    [r EXCEPT !.used = TRUE, !.tid = p, !.target = 0, !.queue = <<>>, !.h = 0,
              !.self_read_close = FALSE, !.self_write_close = FALSE,
              !.is_close = FALSE, !.opposite_write_close = FALSE]

SocketFree(r) ==
    [r EXCEPT !.used = FALSE, !.buf = <<>>, !.listening = FALSE, !.queue = <<>>, !.h = 0,
              !.port = 0, !.target = 0, !.is_close = FALSE,
              !.est = FALSE, !.sent = 0, !.rcvd = 0, !.eof = FALSE]

\* Here a client uses one socket at a time, and a server listens on one; no
\* socket is made once the bound on connections is reached.
SysSocket(p) ==
    /\ At(p, "user") /\ Unused # {} /\ \A s \in Sockets : ~Owns(p, s)
    /\ local_port <= LastPort
    /\ sockets' = [sockets EXCEPT ![Min(Unused)] = Made(@, p)]
    /\ UNCHANGED <<local_port, pc, machine>>

Bind(p, s) ==
    /\ p \in Servers /\ Calls(p, s) /\ sockets[s].port = 0
    /\ sockets' = [sockets EXCEPT ![s].port = ServerPort]
    /\ UNCHANGED <<local_port, pc, machine>>

Listen(p, s) ==
    /\ p \in Servers /\ Calls(p, s) /\ sockets[s].port # 0 /\ ~sockets[s].est
    /\ sockets' = [sockets EXCEPT ![s].listening = TRUE]
    /\ UNCHANGED <<local_port, pc, machine>>

(***************************************************************************)
(* connect().  The counter of ports is read and written back under no      *)
(* common lock.                                                            *)
(***************************************************************************)
Connecting(p) == pc[p].at \in {"conn_port", "conn_queue", "conn_sleep", "conn_woken"}

ConnectPort(p, s) ==
    /\ p \in Clients /\ Calls(p, s) /\ sockets[s].target = 0
    /\ local_port <= LastPort
    /\ Orderly => \A q \in Procs : ~Connecting(q)
    /\ Go(p, [Idle EXCEPT !.at = "conn_port", !.s = s, !.n = local_port])
    /\ UNCHANGED <<sockets, local_port, machine>>

ConnectAddr(p) ==
    /\ At(p, "conn_port")
    /\ local_port' = pc[p].n + 1
    /\ sockets' = [sockets EXCEPT ![pc[p].s].port = pc[p].n, ![pc[p].s].target = ServerPort]
    /\ Go(p, [pc[p] EXCEPT !.at = "conn_queue", !.n = 0])
    /\ UNCHANGED machine

\* Nobody listens: -1.  A full queue: -1, and the lock is not released.
ConnectQueue_NoWait(p) ==
    LET s == pc[p].s found == ListeningOn(sockets[s].target) l == Min(found) IN
    /\ At(p, "conn_queue") /\ MayScan(found)
    /\ IF found = {} THEN Go(p, Idle) /\ UNCHANGED <<sockets, machine>>
       ELSE /\ sockets' = [sockets EXCEPT ![l].queue = Append(@, sockets[s].port)]
            /\ pc' = Wakeup([pc EXCEPT ![p].at = "conn_woken"], {Slot(l, 0)})
            /\ UNCHANGED machine
    /\ UNCHANGED local_port
ConnectQueue(p) ==
    LET s     == pc[p].s
        found == ListeningOn(sockets[s].target)
        l     == Min(found)
        pos   == (sockets[l].h + Len(sockets[l].queue)) % PENDING_COUNT
    IN
    /\ At(p, "conn_queue") /\ MayScan(found)
    /\ IF found = {} THEN Go(p, Idle) /\ UNCHANGED <<sockets, machine>>
       ELSE IF Len(sockets[l].queue) = PENDING_COUNT THEN Panic("lock kept")
       ELSE /\ sockets' = [sockets EXCEPT ![l].queue = Append(@, sockets[s].port)]
            /\ pc' = [Wakeup(pc, {Slot(l, 0)}) EXCEPT ![p] =
                        IF sockets[s].tid # sockets[l].tid
                        THEN [pc[p] EXCEPT !.at = "conn_sleep", !.chan = Slot(l, pos)]
                        ELSE [pc[p] EXCEPT !.at = "conn_woken"]]
            /\ UNCHANGED machine
    /\ UNCHANGED local_port

\* sleep() has returned: nothing is tested again.
ConnectDone(p) ==
    /\ At(p, "conn_woken")
    /\ sockets' = [sockets EXCEPT ![pc[p].s].est = TRUE]
    /\ Go(p, Idle)
    /\ UNCHANGED <<local_port, machine>>

(***************************************************************************)
(* accept(): the loop, at its start and after each sleep.  Without a free  *)
(* socket it returns with the lock held.                                   *)
(***************************************************************************)
AcceptLoop(p, s) ==
    LET l == sockets[s]
        c == Min(Unused)
    IN
    IF l.queue = <<>>
    THEN Go(p, [Idle EXCEPT !.at = "acc_sleep", !.s = s, !.chan = Slot(s, 0)]) /\ UNCHANGED <<sockets, machine>>
    ELSE IF Unused = {} THEN Panic("lock kept")
    ELSE /\ sockets' = [sockets EXCEPT
                ![c] = [Made(@, p) EXCEPT !.port = l.port, !.target = Head(l.queue), !.est = TRUE],
                ![s].queue = Tail(@), ![s].h = (@ + 1) % PENDING_COUNT]
         /\ pc' = Wakeup([pc EXCEPT ![p] = Idle], {Slot(s, l.h)})
         /\ UNCHANGED machine

Accept(p, s) ==
    /\ Calls(p, s) /\ sockets[s].listening
    /\ AcceptLoop(p, s)
    /\ UNCHANGED local_port

AcceptAgain(p) ==
    /\ At(p, "acc_woken")
    /\ AcceptLoop(p, pc[p].s)
    /\ UNCHANGED local_port

(***************************************************************************)
(* fd_socket_read()                                                        *)
(***************************************************************************)
\* For the properties: the bytes that were in the buffer given to write().
Genuine(bytes) == SelectSeq(bytes, LAMBDA b : b.no # 0)

ReadLoop(p, s, n) ==
    LET r    == sockets[s]
        size == Min({n, Len(r.buf)})
    IN
    /\ ~Locked(s)
    /\ IF r.buf = <<>> /\ ~r.is_close /\ ~r.opposite_write_close
       THEN /\ pc' = Wakeup([pc EXCEPT ![p] = [Idle EXCEPT !.at = "read_sleep", !.s = s, !.n = n,
                                                           !.chan = ReadPos(s)]], {WritePos(s)})
            /\ UNCHANGED sockets
       ELSE /\ sockets' = [sockets EXCEPT ![s].buf = SubSeq(@, size + 1, Len(@)),
                                          ![s].rcvd = @ + Len(Genuine(SubSeq(r.buf, 1, size))),
                                          ![s].eof = @ \/ size = 0]
            /\ pc' = Wakeup([pc EXCEPT ![p] = Idle], {WritePos(s)})

\* A socket shut for reading: -EPIPE.
Read(p, s, n) ==
    /\ Calls(p, s) /\ sockets[s].est /\ ~sockets[s].self_read_close
    /\ ReadLoop(p, s, n)
    /\ UNCHANGED <<local_port, machine>>

ReadAgain(p) ==
    /\ At(p, "read_woken")
    /\ ReadLoop(p, pc[p].s, pc[p].n)
    /\ UNCHANGED <<local_port, machine>>

(***************************************************************************)
(* fd_socket_write()                                                       *)
(***************************************************************************)
\* A socket shut for writing: -EPIPE.
Write(p, s, n) ==
    /\ p \in Writers /\ Calls(p, s) /\ sockets[s].est /\ ~sockets[s].self_write_close
    /\ sockets[s].sent + n <= MaxBytes /\ ~Locked(s)
    /\ Go(p, [Idle EXCEPT !.at = "write", !.s = s, !.n = n])
    /\ UNCHANGED <<sockets, local_port, machine>>

\* Of size bytes the first left are the caller's, the others follow its buffer.
Bytes(s, size, left) ==
    [k \in 1..size |-> [from |-> sockets[s].port, to |-> sockets[s].target,
                        no |-> IF k <= left THEN sockets[s].sent + k ELSE 0]]

\* The loop, under the lock of peer t and the state_lock of s.  Once data has
\* been written, or when t is shut for reading, break comes after state_lock
\* was released, and it is released again.  A piece is cut to n, not to the
\* n - i that are left: the last one may go past the end of the caller's buffer.
WriteLoop(p, s, t) ==
    LET c    == pc[p]
        size == Min({SOCKET_BUFFER_SIZE - Len(sockets[t].buf), c.n})
        new  == Bytes(s, size, c.n - c.i)
        i    == c.i + size
    IN
    IF sockets[s].is_close /\ c.i = 0 THEN Go(p, Idle) /\ UNCHANGED <<sockets, machine>>
    ELSE IF sockets[s].is_close \/ sockets[t].self_read_close THEN Panic("lock released twice")
    ELSE /\ sockets' = [sockets EXCEPT ![t].buf = @ \o new, ![s].sent = @ + Len(Genuine(new))]
         /\ pc' = Wakeup([pc EXCEPT ![p] = IF i >= c.n THEN Idle
                                           ELSE [c EXCEPT !.at = "write_full", !.t = t, !.i = i]], {ReadPos(t)})
         /\ UNCHANGED machine

\* No peer: -EPIPE.  A peer shut for reading: -EPIPE, and its lock is kept.
WriteFind(p) ==
    LET found == PeerOf(pc[p].s) t == Min(found) IN
    /\ At(p, "write") /\ MayScan(found)
    /\ IF found = {} THEN Go(p, Idle) /\ UNCHANGED <<sockets, machine>>
       ELSE IF sockets[t].self_read_close THEN Panic("lock kept")
       ELSE WriteLoop(p, pc[p].s, t)
    /\ UNCHANGED local_port

WriteSleep(p) ==
    /\ At(p, "write_full")
    /\ Go(p, [pc[p] EXCEPT !.at = "write_sleep", !.chan = WritePos(pc[p].t)])
    /\ UNCHANGED <<sockets, local_port, machine>>

WriteAgain(p) ==
    /\ At(p, "write_woken") /\ ~Locked(pc[p].t)
    /\ WriteLoop(p, pc[p].s, pc[p].t)
    /\ UNCHANGED local_port

(***************************************************************************)
(* shutdown() and fd_socket_close()                                        *)
(***************************************************************************)
BlockedIn(s) == \E q \in Procs : pc[q].at \in {"write_full", "write_sleep", "write_woken"} /\ pc[q].t = s

\* The peer learns of it first, and its reader is woken.
TellPeer(s, field) ==
    LET found == PeerOf(s) t == Min(found) IN
    /\ MayScan(found)
    /\ sockets' = IF found = {} THEN sockets
                  ELSE [sockets EXCEPT ![t] = IF field = "is_close" THEN [@ EXCEPT !.is_close = TRUE]
                                              ELSE [@ EXCEPT !.opposite_write_close = TRUE]]

PeerReader_Nobody(s) == {}
PeerReader(s) == {ReadPos(t) : t \in PeerOf(s)}

ShutRead(p, s) ==
    /\ p \in Shutters /\ Calls(p, s) /\ sockets[s].est /\ ~Locked(s)
    /\ Orderly => \A t \in PeerOf(s) : sockets[t].self_write_close
    /\ sockets' = [sockets EXCEPT ![s].self_read_close = TRUE]
    /\ pc' = Wakeup(pc, {WritePos(s)})
    /\ UNCHANGED <<local_port, machine>>

\* SHUT_WR, and SHUT_RDWR (both).
ShutWrite(p, s, both) ==
    /\ p \in Shutters /\ Calls(p, s) /\ sockets[s].est /\ ~sockets[s].self_write_close
    /\ Orderly /\ both => \A t \in PeerOf(s) : sockets[t].self_write_close
    /\ TellPeer(s, "opposite_write_close")
    /\ pc' = Wakeup([pc EXCEPT ![p] = [Idle EXCEPT !.at = IF both THEN "shut_both" ELSE "shut_write", !.s = s]],
                    PeerReader(s))
    /\ UNCHANGED <<local_port, machine>>

ShutSelf(p) ==
    LET s == pc[p].s both == pc[p].at = "shut_both" IN
    /\ At(p, "shut_write") \/ At(p, "shut_both")
    /\ ~Locked(s)
    /\ sockets' = [sockets EXCEPT ![s].self_write_close = TRUE, ![s].self_read_close = @ \/ both]
    /\ pc' = Wakeup([pc EXCEPT ![p] = Idle], IF both THEN {WritePos(s)} ELSE {})
    /\ UNCHANGED <<local_port, machine>>

\* Two sockets without addresses are each other's peer for this search.
Close(p, s) ==
    /\ Calls(p, s)
    /\ Orderly => /\ sockets[s].port # 0 /\ ~BlockedIn(s)
                  /\ sockets[s].listening => local_port > LastPort /\ \A q \in Procs : ~Connecting(q)
    /\ TellPeer(s, "is_close")
    /\ pc' = Wakeup([pc EXCEPT ![p] = [Idle EXCEPT !.at = "close_wake", !.s = s]], PeerReader(s))
    /\ UNCHANGED <<local_port, machine>>

CloseWake(p) ==
    /\ At(p, "close_wake")
    /\ pc' = Wakeup([pc EXCEPT ![p].at = "close_free"], {WritePos(pc[p].s)})
    /\ UNCHANGED <<sockets, local_port, machine>>

CloseFree(p) ==
    /\ At(p, "close_free") /\ ~Locked(pc[p].s)
    /\ sockets' = [sockets EXCEPT ![pc[p].s] = SocketFree(@)]
    /\ Go(p, Idle)
    /\ UNCHANGED <<local_port, machine>>

Next == \E p \in Procs :
    \/ SysSocket(p) \/ ConnectAddr(p) \/ ConnectQueue(p) \/ ConnectDone(p) \/ AcceptAgain(p)
    \/ ReadAgain(p) \/ WriteFind(p) \/ WriteSleep(p) \/ WriteAgain(p)
    \/ ShutSelf(p) \/ CloseWake(p) \/ CloseFree(p)
    \/ \E s \in Sockets :
          \/ Bind(p, s) \/ Listen(p, s) \/ ConnectPort(p, s) \/ Accept(p, s)
          \/ \E n \in Reads : Read(p, s, n)
          \/ \E n \in Writes : Write(p, s, n)
          \/ ShutRead(p, s) \/ \E both \in BOOLEAN : ShutWrite(p, s, both)
          \/ Close(p, s)

Spec == Init /\ [][Next]_vars

(***************************************************************************)
(* Properties                                                              *)
(***************************************************************************)
\* May the owner of socket t still write to its peer?
MayWrite(t) ==
    /\ ~sockets[t].self_write_close
    /\ ~\E p \in Procs : pc[p].at \in {"shut_write", "shut_both", "close_wake", "close_free"} /\ pc[p].s = t

\* sleep() and wakeup() in fd_socket_read(), fd_socket_write(), connect() and
\* accept(): who sleeps has somebody to wait for.  A reader has an empty buffer
\* and a peer that can write, a writer a full one and a peer that can read, a
\* client its request in the slot it sleeps on, a server no request.
NoLostWakeup == \A p \in Procs :
    LET s == pc[p].s t == pc[p].t IN
    CASE pc[p].at = "read_sleep" -> sockets[s].buf = <<>> /\ \E x \in PeerOf(s) : MayWrite(x)
      [] pc[p].at = "write_sleep" -> /\ t \in PeerOf(s) /\ ~sockets[t].self_read_close
                                     /\ Len(sockets[t].buf) = SOCKET_BUFFER_SIZE
      [] pc[p].at = "conn_sleep" ->
            \E l \in ListeningOn(sockets[s].target) : \E k \in DOMAIN sockets[l].queue :
                /\ sockets[l].queue[k] = sockets[s].port
                /\ pc[p].chan = Slot(l, (sockets[l].h + k - 1) % PENDING_COUNT)
      [] pc[p].at = "acc_sleep" -> sockets[s].queue = <<>>
      [] OTHER -> TRUE

\* remote_find_peer_socket() and the re-use of sockets: what is in a buffer was
\* written for this connection and no other, and no byte of those given to
\* write() is lost, repeated or out of order.
StreamExact == \A s \in Sockets : LET r == sockets[s] IN
    LET own == Genuine(r.buf) IN
    /\ own = [k \in 1..Len(own) |-> [from |-> r.target, to |-> r.port, no |-> r.rcvd + k]]
    /\ \A t \in PeerOf(s) : r.est => sockets[t].sent = r.rcvd + Len(own)

\* state.is_close and state.opposite_write_close: when read() has reported the
\* end of the stream there is nothing to read and nobody to write any more.
EofIsTrue == \A s \in Sockets :
    sockets[s].eof => sockets[s].buf = <<>> /\ \A t \in PeerOf(s) : ~MayWrite(t)

\* connect() returns when the server has accepted: from then on the socket has
\* a peer, or knows that its peer has closed.
ConnectIsAccepted == \A s \in Sockets :
    sockets[s].est => PeerOf(s) # {} \/ sockets[s].is_close
=============================================================================
