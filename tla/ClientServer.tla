----------------------------- MODULE ClientServer -----------------------------
(***************************************************************************)
(* A request's way from the client's prompt (src/client) through the TLS   *)
(* session, the session monitor and the transaction balancer to a worker   *)
(* and back (cassa_server.cpp, ssl_session_handler.hpp,                    *)
(* transaction_balancer.hpp, NidBuffer::notify).                           *)
(*                                                                         *)
(* One client process has one connection, so one SSL object and one entry  *)
(* of ssl_sessions_. Session ids are random strings of 36^6: they do not   *)
(* repeat, and the entry of client c goes by the name c. The map has no    *)
(* lock: emplace and erase take two steps, and a find of another thread in *)
(* between may miss its key. If both happen at once the new entry may be   *)
(* lost or the enclave stop (broken); so it may if an entry is used that   *)
(* was erased.                                                             *)
(*                                                                         *)
(* OpenSSL keeps a queue of errors per thread. The code never clears it,   *)
(* and SSL_get_error asks it first.                                        *)
(*                                                                         *)
(* What a transaction does is the subject of SiloTx, when a commit becomes *)
(* durable that of SiloLog; here it commits or fails, and the logger of    *)
(* the worker tells the client some time after the commit.                 *)
(***************************************************************************)
EXTENDS Integers, Sequences, FiniteSets

CONSTANTS NC,        \* client processes 1 .. NC
          NW,        \* worker threads 0 .. NW-1, each with a logger of its own
          Times,     \* what clock_gettime may say: <<tv_sec, tv_nsec>>
          Lines,     \* what a user types for an operation: [op, args]
          MaxOps,    \* bound on the operations of a transaction
          MaxReq     \* per client: bound on its requests, the first included

Clients == 1 .. NC
Workers == 0 .. NW - 1

ASSUME ClientServerAssumption ==
  /\ NC \in Nat /\ NW \in Nat \ {0} /\ MaxOps \in Nat
  /\ MaxReq \in [Clients -> Nat \ {0}]
  /\ \A t \in Times : t \in (Nat \ {0}) \X Nat
  /\ \A l \in Lines : DOMAIN l = {"op", "args"} /\ l.args \in Nat

VARIABLES
  client,    \* per client: the process, see NewClient
  up, down,  \* per client: the two directions of the connection
  sessions,  \* ssl_sessions_: the latest timestamp of each session
  acceptor,  \* the client whose session addSession is putting in, or 0
  monitor,   \* the iterator and the step of ecall_ssl_session_monitor
  queue,     \* per worker: its TransactionQueue
  task,      \* per worker and per logger: what it is doing
  nids,      \* per worker: the commits its logger has to report
  missed,    \* history: clients whose session was not found, or ended before them
  errors,    \* OpenSSL's error queue of the monitor's thread has an entry
  broken     \* undefined behaviour stopped the enclave

vars == <<client, up, down, sessions, acceptor, monitor, queue, task, nids,
          missed, errors, broken>>

End == 0       \* ssl_sessions_.end()

NoTime == <<0, 0>>

\* A message: who sends it, the how-manieth it is, what it asks for, its
\* timestamp, and whether the client's clock had moved forward.
\* Size is what the first SSL_write sends, Empty what is read if that is all.
Size == [c |-> 0, n |-> 0, kind |-> "size", ts |-> NoTime, fresh |-> FALSE]
Empty == [Size EXCEPT !.kind = "empty"]

NewClient == [pc |-> "off", in_tx |-> FALSE, ops |-> <<>>, n |-> 0, last |-> NoTime,
              out |-> Empty]

Sender == {"worker", "logger"} \X Workers
Idle == [pc |-> "idle", req |-> Empty, res |-> "none"]

Init ==
  /\ client = [c \in Clients |-> NewClient]
  /\ up = [c \in Clients |-> <<>>]
  /\ down = [c \in Clients |-> <<>>]
  /\ sessions = <<>>
  /\ acceptor = 0
  /\ monitor = [it |-> End, pc |-> "visit"]
  /\ queue = [w \in Workers |-> <<>>]
  /\ task = [p \in Sender |-> Idle]
  /\ nids = [w \in Workers |-> <<>>]
  /\ missed = {}
  /\ errors = FALSE
  /\ broken = FALSE

Alive(c) == client[c].pc \notin {"off", "gone"}

\* compare_timestamps(t, latest) > 0.
Newer(t, latest) ==
  t[1] > latest[1] \/ (t[1] = latest[1] /\ t[2] > latest[2])

-----------------------------------------------------------------------------
(* src/client                                                              *)

Connect(c) ==
  /\ client[c].pc = "off"
  /\ client' = [client EXCEPT ![c].pc = "connecting"]
  /\ UNCHANGED <<up, down, sessions, acceptor, monitor, queue, task, nids, missed, errors>>

\* send_data: tls_write_to_session_peer sends the size and then the payload;
\* me is the client's state otherwise.
send_data(c, me, kind) ==
  \E ts \in Times :
    /\ client' = [client EXCEPT ![c] =
         [me EXCEPT !.pc = "sending", !.n = @ + 1, !.last = IF Newer(ts, @) THEN ts ELSE @,
                    !.out = [c |-> c, n |-> me.n + 1, kind |-> kind, ts |-> ts,
                             fresh |-> Newer(ts, me.last)]]]
    /\ up' = [up EXCEPT ![c] = Append(@, Size)]
    /\ UNCHANGED <<down, sessions, acceptor, monitor, queue, task, nids, missed, errors>>

SendPayload(c) ==
  /\ client[c].pc = "sending"
  /\ client' = [client EXCEPT ![c].pc = "wait"]
  /\ up' = [up EXCEPT ![c] = Append(@, client[c].out)]
  /\ UNCHANGED <<down, sessions, acceptor, monitor, queue, task, nids, missed, errors>>

\* send_data goes on: tls_read_from_session_peer waits for the answer.
Receive(c) ==
  /\ client[c].pc = "wait"
  /\ down[c] # <<>>
  /\ down' = [down EXCEPT ![c] = Tail(@)]
  /\ client' = [client EXCEPT ![c].pc = "prompt", ![c].out = Empty]
  /\ UNCHANGED <<up, sessions, acceptor, monitor, queue, task, nids, missed, errors>>

RequestSessionId(c) ==
  /\ client[c].pc = "open"
  /\ send_data(c, client[c], "id")

\* handle_command: a user at the prompt of a client.
Typing(c) == client[c].pc = "prompt" /\ client[c].n < MaxReq[c]

MakeTx(c) ==
  /\ Typing(c)
  /\ ~client[c].in_tx
  /\ client' = [client EXCEPT ![c].in_tx = TRUE, ![c].ops = <<>>]
  /\ UNCHANGED <<up, down, sessions, acceptor, monitor, queue, task, nids, missed, errors>>

\* The operation is known and has as many arguments as it needs. RMW is known.
checkOperationSyntax(line) ==
  \/ line.op \in {"INSERT", "WRITE", "RMW"} /\ line.args = 2
  \/ line.op \in {"READ", "DELETE"} /\ line.args = 1
  \/ line.op = "SCAN" /\ line.args = 4

AddOperation(c) ==
  /\ Typing(c)
  /\ client[c].in_tx
  /\ Len(client[c].ops) < MaxOps
  /\ \E line \in Lines :
       /\ checkOperationSyntax(line)
       /\ client' = [client EXCEPT ![c].ops = Append(@, line.op)]
  /\ UNCHANGED <<up, down, sessions, acceptor, monitor, queue, task, nids, missed, errors>>

Undo(c) ==
  /\ Typing(c)
  /\ client[c].in_tx
  /\ client[c].ops # <<>>
  /\ client' = [client EXCEPT ![c].ops = SubSeq(@, 1, Len(@) - 1)]
  /\ UNCHANGED <<up, down, sessions, acceptor, monitor, queue, task, nids, missed, errors>>

\* parse_command: what matters of the operations on the way.
parse_command(ops) ==
  LET found == {ops[i] : i \in DOMAIN ops}
  IN  CASE "RMW" \in found -> "unknown"
        [] found \subseteq {"READ", "SCAN"} -> "read-only"
        [] OTHER -> "update"

\* A transaction without operations is not sent.
EndTx(c) ==
  /\ Typing(c)
  /\ client[c].in_tx
  /\ \/ /\ client[c].ops = <<>>
        /\ client' = [client EXCEPT ![c].in_tx = FALSE]
        /\ UNCHANGED <<up, down, sessions, acceptor, monitor, queue, task, nids, missed, errors>>
     \/ /\ client[c].ops # <<>>
        /\ send_data(c, [client[c] EXCEPT !.in_tx = FALSE, !.ops = <<>>],
                     parse_command(client[c].ops))

\* The command /test sends a transaction of its own; one that is being typed
\* stays as it is.
Test(c) ==
  /\ Typing(c)
  /\ send_data(c, client[c], "update")

\* /exit at the prompt, or the process is killed: the socket is closed without
\* a close_notify. A half-typed transaction is lost.
Quit(c) ==
  /\ Alive(c)
  /\ client' = [client EXCEPT ![c] = [NewClient EXCEPT !.pc = "gone"]]
  /\ down' = [down EXCEPT ![c] = <<>>]
  /\ UNCHANGED <<up, sessions, acceptor, monitor, queue, task, nids, missed, errors>>

Client(c) ==
  \/ Connect(c) \/ RequestSessionId(c) \/ SendPayload(c) \/ Receive(c)
  \/ MakeTx(c) \/ AddOperation(c) \/ Undo(c) \/ EndTx(c) \/ Test(c) \/ Quit(c)

-----------------------------------------------------------------------------
(* SSLSessionHandler                                                       *)

\* What find(c) may come back with: whether the entry was found.
Lookup(c, busy) ==
  {c \in DOMAIN sessions} \cup (IF busy THEN {FALSE} ELSE {})

\* Another thread is in emplace or in erase.
MapBusy == acceptor # 0 \/ monitor.pc = "erase"

\* setTimestamp: a session that is not found is left alone.
setTimestamp(c, ts, found) ==
  IF found THEN [sessions EXCEPT ![c] = ts] ELSE sessions

\* ecall_ssl_connection_acceptor: accept_client_connection and the first half of
\* addSession; a client that has gone fails the handshake and leaves nothing.
Accept(c) ==
  /\ acceptor = 0
  /\ client[c].pc = "connecting"
  /\ acceptor' = c
  /\ client' = [client EXCEPT ![c].pc = "open"]
  /\ UNCHANGED <<up, down, sessions, monitor, queue, task, nids, missed, errors>>

addSession ==
  /\ acceptor # 0
  /\ sessions' = [c \in DOMAIN sessions \cup {acceptor} |->
                    IF c = acceptor THEN NoTime ELSE sessions[c]]
  /\ acceptor' = 0
  /\ UNCHANGED <<client, up, down, monitor, queue, task, nids, missed, errors>>

Acceptor == (\E c \in Clients : Accept(c)) \/ addSession

-----------------------------------------------------------------------------
(* ecall_ssl_session_monitor                                               *)

First(S) == IF S = {} THEN End ELSE CHOOSE c \in S : \A d \in S : c <= d

\* begin() and it++; next to an emplace the increment may go too far.
Begin == First(DOMAIN sessions)
After(c) ==
  LET more == {d \in DOMAIN sessions : d > c}
  IN  IF acceptor # 0 THEN more \cup {End} ELSE {First(more)}

\* The end of the inner loop, or an empty map.
MonitorBegin ==
  /\ monitor.pc = "visit"
  /\ monitor.it = End
  /\ DOMAIN sessions # {}
  /\ monitor' = [monitor EXCEPT !.it = Begin]
  /\ UNCHANGED <<client, up, down, sessions, acceptor, queue, task, nids, missed, errors>>

\* SSL_get_error: an entry in the error queue of the thread hides what the last
\* call met. Nobody clears the queue.
SSL_get_error(code) == IF errors THEN "SSL" ELSE code

\* Faulty form: every code is WANT_READ.
removeSession_None(code) == FALSE

\* removeSession: whether the code, one of NONE, SSL, WANT_READ, SYSCALL and
\* ZERO_RETURN, ends the session.
removeSession(code) == code # "WANT_READ"

\* What follows removeSession: the session is being erased, or the next one's turn.
Ends(code) ==
  \/ removeSession(code) /\ monitor' = [monitor EXCEPT !.pc = "erase"]
  \/ /\ ~removeSession(code)
     /\ \E d \in After(monitor.it) : monitor' = [monitor EXCEPT !.it = d]

\* From here on the monitor holds the mutex of the session. SSL_peek finds data,
\* of a peer that may have gone since; nothing so far; the end of the stream,
\* which without a close_notify leaves an entry in the error queue; or a reset.
Visit ==
  LET c == monitor.it IN
  /\ monitor.pc = "visit"
  /\ c # End
  /\ \/ /\ up[c] # <<>>
        /\ monitor' = [monitor EXCEPT !.pc = "read"]
        /\ UNCHANGED errors
     \/ /\ up[c] = <<>> /\ Alive(c)
        /\ Ends(SSL_get_error("WANT_READ"))
        /\ UNCHANGED errors
     \/ /\ up[c] = <<>> /\ ~Alive(c)
        /\ Ends("NONE")
        /\ errors' = TRUE
     \/ /\ ~Alive(c)
        /\ Ends(SSL_get_error("SYSCALL"))
        /\ UNCHANGED errors
  /\ UNCHANGED <<client, up, down, sessions, acceptor, queue, task, nids, missed>>

\* Faulty form: the iterator is not reset.
Erase_KeepIterator ==
  /\ monitor.pc = "erase"
  /\ sessions' = [c \in DOMAIN sessions \ {monitor.it} |-> sessions[c]]
  /\ monitor' = [monitor EXCEPT !.pc = "visit"]
  /\ UNCHANGED <<client, up, down, acceptor, queue, task, nids, missed, errors>>

\* erase: the mutex the monitor holds goes with the entry. Then it = begin(). The
\* socket of a peer that is still there stays open. An entry that is being put in
\* may get lost.
Erase ==
  LET ended == {monitor.it} \cap {c \in Clients : Alive(c)} IN
  /\ monitor.pc = "erase"
  /\ sessions' = [c \in DOMAIN sessions \ {monitor.it} |-> sessions[c]]
  /\ monitor' = [it |-> First(DOMAIN sessions'), pc |-> "visit"]
  /\ \/ UNCHANGED acceptor /\ missed' = missed \cup ended
     \/ acceptor # 0 /\ acceptor' = 0 /\ missed' = missed \cup ended \cup {acceptor}
  /\ UNCHANGED <<client, up, down, queue, task, nids, errors>>

\* Faulty form: one queue too many.
putTransaction_OneMore(req) ==
  \E w \in 0 .. NW :
    queue' = [v \in Workers |-> IF v = w THEN Append(queue[v], req) ELSE queue[v]]

\* TransactionBalancer::putTransaction.
putTransaction(req) ==
  \E w \in Workers : queue' = [queue EXCEPT ![w] = Append(@, req)]

\* tls_read_from_session_peer spins for the payload as long as SSL_get_error says
\* WANT_READ. If the peer goes before the payload is there, or an entry of the
\* error queue hides that it is still to come, the string stays empty and is put
\* in a queue all the same.
Read ==
  LET c    == monitor.it
      data == IF Len(up[c]) > 1 THEN up[c][2] ELSE Empty
  IN  /\ monitor.pc = "read"
      /\ up[c][1] = Size
      /\ \/ Len(up[c]) > 1 /\ UNCHANGED errors
         \/ Len(up[c]) = 1 /\ Alive(c) /\ SSL_get_error("WANT_READ") # "WANT_READ" /\ UNCHANGED errors
         \/ Len(up[c]) = 1 /\ ~Alive(c) /\ errors' \in {errors, TRUE}
      /\ up' = [up EXCEPT ![c] = SubSeq(@, 3, Len(@))]
      /\ \/ /\ data.kind = "id"
            /\ \E found \in Lookup(c, acceptor # 0) :
                 sessions' = setTimestamp(c, data.ts, found)
            /\ down' = IF Alive(c) THEN [down EXCEPT ![c] = Append(@, data.n)] ELSE down
            /\ UNCHANGED queue
         \/ /\ data.kind # "id"
            /\ putTransaction(data)
            /\ UNCHANGED <<sessions, down>>
      /\ \E d \in After(c) : monitor' = [it |-> d, pc |-> "visit"]
      /\ UNCHANGED <<client, acceptor, task, nids, missed>>

Monitor == MonitorBegin \/ Visit \/ Erase \/ Read

-----------------------------------------------------------------------------
(* ecall_execute_worker_task and execute_transaction                       *)

Worker(w) == <<"worker", w>>
Logger(w) == <<"logger", w>>

\* getTransaction; an empty string is taken for an empty queue.
getTransaction(w) ==
  /\ task[Worker(w)].pc = "idle"
  /\ queue[w] # <<>>
  /\ queue' = [queue EXCEPT ![w] = Tail(@)]
  /\ task' = IF Head(queue[w]).kind = "empty" THEN task
             ELSE [task EXCEPT ![Worker(w)] = [pc |-> "check", req |-> Head(queue[w]),
                                               res |-> "none"]]
  /\ UNCHANGED <<client, up, down, sessions, acceptor, monitor, nids, missed, errors>>

\* Faulty form: the seconds and the nanoseconds both have to grow.
Refused_Parts(ts, latest) == ts[1] < latest[1] \/ ts[2] <= latest[2]

Refused(ts, latest) == ~Newer(ts, latest)

\* json_to_procedures: the timestamp is compared with the session's; a session
\* that is not found counts as 0.
CheckTimestamp(w) ==
  LET req  == task[Worker(w)].req
      part(i, found) == IF found THEN sessions[req.c][i] ELSE 0
  IN  /\ task[Worker(w)].pc = "check"
      /\ \E sec, nsec \in Lookup(req.c, MapBusy) :
           IF Refused(req.ts, <<part(1, sec), part(2, nsec)>>)
           THEN task' = [task EXCEPT ![Worker(w)].pc = "answer", ![Worker(w)].res = "refused"]
           ELSE task' = [task EXCEPT ![Worker(w)].pc = "stamp"]
      /\ UNCHANGED <<client, up, down, sessions, acceptor, monitor, queue, nids, missed, errors>>

\* ... and kept in a second step; then an operation may turn out to be unknown.
SetTimestamp(w) ==
  LET req == task[Worker(w)].req IN
  /\ task[Worker(w)].pc = "stamp"
  /\ \E found \in Lookup(req.c, MapBusy) : sessions' = setTimestamp(req.c, req.ts, found)
  /\ IF req.kind = "unknown"
     THEN task' = [task EXCEPT ![Worker(w)].pc = "answer", ![Worker(w)].res = "unknown"]
     ELSE task' = [task EXCEPT ![Worker(w)].pc = "run"]
  /\ UNCHANGED <<client, up, down, acceptor, monitor, queue, nids, missed, errors>>

\* Faulty form: every result is answered at once.
Answered_Always(req, res) == TRUE

\* send_responce: what the worker tells the client itself.
Answered(req, res) == res # "committed" \/ req.kind = "read-only"

\* execute_transaction: the commit of an update is left to the logger.
Execute(w) ==
  LET req == task[Worker(w)].req IN
  /\ task[Worker(w)].pc = "run"
  /\ \E res \in {"committed", "aborted"} :
       /\ task' = [task EXCEPT ![Worker(w)] =
                     IF Answered(req, res) THEN [@ EXCEPT !.pc = "answer", !.res = res]
                     ELSE Idle]
       /\ nids' = IF res = "committed" /\ req.kind = "update"
                  THEN [nids EXCEPT ![w] = Append(@, req)] ELSE nids
  /\ UNCHANGED <<client, up, down, sessions, acceptor, monitor, queue, missed, errors>>

\* NidBuffer::notify takes the next commit of an epoch that is durable.
Notify(w) ==
  /\ task[Logger(w)].pc = "idle"
  /\ nids[w] # <<>>
  /\ nids' = [nids EXCEPT ![w] = Tail(@)]
  /\ task' = [task EXCEPT ![Logger(w)] = [pc |-> "answer", req |-> Head(nids[w]),
                                          res |-> "committed"]]
  /\ UNCHANGED <<client, up, down, sessions, acceptor, monitor, queue, missed, errors>>

\* getSession: a pointer to the entry, or the answer is dropped.
getSession(p) ==
  LET c == task[p].req.c IN
  /\ task[p].pc = "answer"
  /\ \E found \in Lookup(c, MapBusy) :
       /\ task' = [task EXCEPT ![p] = IF found THEN [@ EXCEPT !.pc = "send"] ELSE Idle]
       /\ missed' = IF ~found /\ c \in DOMAIN sessions THEN missed \cup {c} ELSE missed
  /\ UNCHANGED <<client, up, down, sessions, acceptor, monitor, queue, nids, errors>>

\* The monitor holds the mutex of the session of c.
MonitorHolds(c) == monitor.pc # "visit" /\ monitor.it = c

\* The mutex of the session is taken and the answer written. Over a session that
\* was erased in between it may or may not reach a client that is still there.
Send(p) ==
  LET c == task[p].req.c IN
  /\ task[p].pc = "send"
  /\ c \in DOMAIN sessions => ~MonitorHolds(c)
  /\ task' = [task EXCEPT ![p] = Idle]
  /\ \/ Alive(c) /\ down' = [down EXCEPT ![c] = Append(@, task[p].req.n)]
     \/ (~Alive(c) \/ c \notin DOMAIN sessions) /\ UNCHANGED down
  /\ UNCHANGED <<client, up, sessions, acceptor, monitor, queue, nids, missed, errors>>

WorkerStep(w) ==
  \/ getTransaction(w) \/ CheckTimestamp(w) \/ SetTimestamp(w) \/ Execute(w)
  \/ getSession(Worker(w)) \/ Send(Worker(w))

LoggerStep(w) == Notify(w) \/ getSession(Logger(w)) \/ Send(Logger(w))

-----------------------------------------------------------------------------
(* The specification                                                       *)

\* Two threads change the map at once, or an answer is about to be sent over a
\* session that was erased after it was looked up: the enclave may stop.
Undefined ==
  \/ acceptor # 0 /\ monitor.pc = "erase"
  \/ \E p \in Sender : task[p].pc = "send" /\ task[p].req.c \notin DOMAIN sessions

Crash ==
  /\ Undefined
  /\ broken' = TRUE
  /\ UNCHANGED <<client, up, down, sessions, acceptor, monitor, queue, task, nids, missed, errors>>

\* A payload whose size was dropped by Read: its first bytes are taken for a size
\* that cannot be reserved, and nobody catches what reserve throws.
ReadGarbled ==
  /\ monitor.pc = "read"
  /\ up[monitor.it][1] # Size
  /\ broken' = TRUE
  /\ UNCHANGED <<client, up, down, sessions, acceptor, monitor, queue, task, nids, missed, errors>>

Running(A) == ~broken /\ A /\ UNCHANGED broken

Stopped == broken \/ \A c \in Clients : client[c].pc = "gone"

Next ==
  \/ \E c \in Clients : Running(Client(c))
  \/ Running(Acceptor)
  \/ Running(Monitor)
  \/ \E w \in Workers : Running(WorkerStep(w)) \/ Running(LoggerStep(w))
  \/ ~broken /\ (Crash \/ ReadGarbled)
  \/ Stopped /\ UNCHANGED vars

\* The threads of the server go on, and a client goes on sending and receiving;
\* users type and quit as they like.
Fairness ==
  /\ WF_vars(Running(Acceptor))
  /\ WF_vars(Running(Monitor) \/ (~broken /\ ReadGarbled))
  /\ \A w \in Workers : WF_vars(Running(WorkerStep(w))) /\ WF_vars(Running(LoggerStep(w)))
  /\ \A c \in Clients : WF_vars(Running(RequestSessionId(c) \/ SendPayload(c) \/ Receive(c)))

Spec == Init /\ [][Next]_vars /\ Fairness

-----------------------------------------------------------------------------
(* Properties                                                              *)

Requests == [c : 0 .. NC, n : Nat, kind : {"size", "empty", "id", "unknown",
             "read-only", "update"}, ts : Times \cup {NoTime}, fresh : BOOLEAN]

OpNames == {line.op : line \in Lines}

ClientStates ==
  [pc : {"off", "connecting", "open", "sending", "wait", "prompt", "gone"},
   in_tx : BOOLEAN, ops : Seq(OpNames), n : Nat,
   last : Times \cup {NoTime}, out : Requests]

Tasks == [pc : {"idle", "check", "stamp", "run", "answer", "send"}, req : Requests,
          res : {"none", "refused", "unknown", "committed", "aborted"}]

ConnectionTypes ==
  /\ client \in [Clients -> ClientStates]
  /\ up \in [Clients -> Seq(Requests)]
  /\ down \in [Clients -> Seq(Nat)]

SessionTypes ==
  /\ DOMAIN sessions \subseteq Clients
  /\ \A c \in DOMAIN sessions : sessions[c] \in Times \cup {NoTime}
  /\ acceptor \in Clients \cup {0}
  /\ monitor \in [it : Clients \cup {End}, pc : {"visit", "read", "erase"}]
  /\ missed \subseteq Clients
  /\ errors \in BOOLEAN

ServerTypes ==
  /\ queue \in [Workers -> Seq(Requests \ {Size})]
  /\ task \in [Sender -> Tasks]
  /\ nids \in [Workers -> Seq(Requests)]
  /\ broken \in BOOLEAN

\* The shape of the state: only a transaction that was begun has operations, a
\* client stays within its requests and the monitor's iterator within the map.
TypeOK ==
  /\ ConnectionTypes /\ SessionTypes /\ ServerTypes
  /\ \A c \in Clients :
       /\ client[c].ops # <<>> => client[c].in_tx
       /\ client[c].n <= MaxReq[c]
  /\ monitor.it \in DOMAIN sessions \cup {End}
  /\ monitor.pc # "visit" => monitor.it # End

\* A client takes the next message it gets for the answer to its last request
\* (send_data): that is what it is, and there is only one, whichever of the
\* monitor, a worker and a logger sends it.
OwnAnswer ==
  \A c \in Clients :
    /\ Len(down[c]) <= 1
    /\ down[c] # <<>> => client[c].pc = "wait" /\ down[c][1] = client[c].n

\* A request of a client that was told its session id is refused as a replay
\* only if its clock did not move forward, whatever session lookups missed
\* meanwhile (json_to_procedures).
RefusedIsOld ==
  \A p \in Sender : task[p].res = "refused" => ~task[p].req.fresh

\* The monitor closes the session of no client that is still there, whatever the
\* other clients do: that a client has sent nothing is no error (removeSession).
LiveSessionStays ==
  [][\A c \in Clients : c \in DOMAIN sessions /\ Alive(c) => c \in DOMAIN sessions']_vars

\* Nothing of a client that has gone is kept: its session is closed.
ClosedSessionGoes ==
  \A c \in Clients :
    c \in DOMAIN sessions /\ ~Alive(c) ~> c \notin DOMAIN sessions \/ broken

\* A client that sends a request gets an answer: its session is visited, the
\* request reaches a worker and the answer the session. It may wait for ever only
\* if a lookup of its session coincided with a change of the map, or the monitor
\* ended its session (LiveSessionStays).
EveryRequestAnswered ==
  \A c \in Clients :
    client[c].pc \in {"sending", "wait"} ~>
      client[c].pc \in {"prompt", "gone"} \/ c \in missed \/ broken
=============================================================================
