-------------------------- MODULE ClientServerProofs --------------------------
(***************************************************************************)
(* Proofs about ClientServer, for every number of clients, workers, clock  *)
(* values and requests.                                                    *)
(*                                                                         *)
(* The argument: a client has at most one request on its way.  It is on    *)
(* the connection, or at one place of the server, or it has been answered, *)
(* so that the next message the client gets is the answer to it, and only  *)
(* it can move the timestamp of the client's session.                      *)
(***************************************************************************)
EXTENDS ClientServer, SequenceTheorems, WellFoundedInduction, TLAPS

-----------------------------------------------------------------------------
(* The inductive invariant                                                 *)

\* The places of the server a request may be at, and the requests at each.
Places == {"queue", "nids", "worker", "logger"} \X Workers

Holds(s) ==
  CASE s[1] = "queue" -> queue[s[2]]
    [] s[1] = "nids" -> nids[s[2]]
    [] OTHER -> IF task[s].pc = "idle" THEN <<>> ELSE <<task[s].req>>

\* A request as send_data makes it.
Proper(r, c) ==
  /\ r \in Requests
  /\ r.c = c
  /\ r.kind \in {"id", "unknown", "read-only", "update"}
  /\ r.ts \in Times

\* What a client has sent and the monitor has not read: nothing, the size of a
\* request, both, or the request without its size.
OnWire(q, c) ==
  \/ q = <<>> \/ q = <<Size>>
  \/ Len(q) = 2 /\ Proper(q[2], c)
  \/ Len(q) = 1 /\ Proper(q[1], c)

\* What is on the connection of a client, by what the client is doing.
WireOf(c) ==
  /\ client[c].pc \in {"off", "connecting", "open"} => client[c].n = 0 /\ client[c].last = NoTime
  /\ client[c].pc \in {"off", "connecting", "open", "prompt"} => up[c] = <<>> /\ down[c] = <<>>
  /\ client[c].pc = "sending" =>
       /\ up[c] = <<Size>> \/ up[c] = <<>>
       /\ down[c] = <<>>
       /\ Proper(client[c].out, c) /\ client[c].out.n = client[c].n
  /\ client[c].pc = "wait" =>
       \/ up[c] = <<>>
       \/ /\ up[c] # <<Size>> /\ (Len(up[c]) = 2 => up[c][2].n = client[c].n)
          /\ down[c] = <<>>
  /\ client[c].pc = "gone" => down[c] = <<>>
  /\ OnWire(up[c], c)
  /\ down[c] = <<>> \/ (client[c].pc = "wait" /\ down[c] = <<client[c].n>>)

Wire == \A c \in Clients : WireOf(c)

\* The requests in the server, by place and position.
Slots == {x \in Places \X (Nat \ {0}) : x[2] <= Len(Holds(x[1]))}
Item(x) == Holds(x[1])[x[2]]

\* A request at a place of the server has left the connection of its client, who
\* waits for the answer to it or has gone.
Awaits(r, c) ==
  /\ Proper(r, c)
  /\ up[c] = <<>> /\ down[c] = <<>>
  /\ client[c].pc \in {"wait", "gone"}
  /\ client[c].pc = "wait" => r.n = client[c].n

HeldBy(r, s) ==
  \/ r = Empty /\ s[1] = "queue"
  \/ \E c \in Clients : Awaits(r, c)

Held == \A x \in Slots : HeldBy(Item(x), x[1])

\* No client has two requests in the server.
OneRequest ==
  \A x, y \in Slots : Item(x).c = Item(y).c /\ Item(x).c # 0 => x = y

\* t is not later than u.
NotAfter(t, u) == t[1] < u[1] \/ (t[1] = u[1] /\ t[2] <= u[2])

\* A request r of c that has not been compared with its session yet: if the
\* client's clock had moved forward it is newer than the session.
Unchecked(r) ==
  r.fresh /\ r.c \in DOMAIN sessions => Newer(r.ts, sessions[r.c])

\* The session of a client has no later timestamp than the client's last one.
Stamps ==
  \A c \in Clients :
    /\ Alive(c) /\ c \in DOMAIN sessions => NotAfter(sessions[c], client[c].last)
    /\ client[c].pc = "sending" => /\ NotAfter(client[c].out.ts, client[c].last)
                                   /\ Unchecked(client[c].out)
    /\ Len(up[c]) = 2 => /\ Alive(c) => NotAfter(up[c][2].ts, client[c].last)
                         /\ Unchecked(up[c][2])

\* The requests at s have not been compared with their session yet.
Pending(s) == s[1] = "queue" \/ (s[1] = "worker" /\ task[s].pc = "check")

HeldStamps ==
  \A x \in Slots : Item(x).c # 0 =>
    /\ Alive(Item(x).c) => NotAfter(Item(x).ts, client[Item(x).c].last)
    /\ Pending(x[1]) => Unchecked(Item(x))

\* A session belongs to a client that has connected, and the monitor reads where
\* there is something to read.
SessionsOpen ==
  /\ \A c \in Clients :
       c \in DOMAIN sessions \/ acceptor = c => client[c].pc \notin {"off", "connecting"}
  /\ monitor.pc = "read" => up[monitor.it] # <<>>

IInv ==
  /\ TypeOK /\ Wire /\ Held /\ OneRequest /\ Stamps /\ HeldStamps /\ SessionsOpen
  /\ RefusedIsOld

-----------------------------------------------------------------------------
(* The steps of a client                                                   *)

\* What a step of client c changes, as far as anyone else is concerned: it
\* connects or types at the prompt; starts to send a request; sends the rest of
\* it; takes an answer; goes away.
Types(c) ==
  /\ client[c].pc \in {"off", "prompt"}
  /\ client'[c].pc = IF client[c].pc = "off" THEN "connecting" ELSE "prompt"
  /\ client'[c].n = client[c].n /\ client'[c].last = client[c].last
  /\ UNCHANGED <<up, down>>

Sends(c) ==
  /\ client[c].pc \in {"open", "prompt"}
  /\ client'[c].pc = "sending"
  /\ client'[c].n = client[c].n + 1
  /\ Proper(client'[c].out, c)
  /\ client'[c].out.n = client'[c].n
  /\ client'[c].out.fresh => Newer(client'[c].out.ts, client[c].last)
  /\ client'[c].last = IF Newer(client'[c].out.ts, client[c].last) THEN client'[c].out.ts
                                                                  ELSE client[c].last
  /\ up' = [up EXCEPT ![c] = Append(@, Size)]
  /\ UNCHANGED down

Pays(c) ==
  /\ client[c].pc = "sending" /\ client'[c].pc = "wait"
  /\ client'[c].n = client[c].n /\ client'[c].last = client[c].last
  /\ up' = [up EXCEPT ![c] = Append(@, client[c].out)]
  /\ UNCHANGED down

Receives(c) ==
  /\ client[c].pc = "wait" /\ client'[c].pc = "prompt"
  /\ client'[c].n = client[c].n /\ client'[c].last = client[c].last
  /\ down[c] # <<>>
  /\ down' = [down EXCEPT ![c] = Tail(@)]
  /\ UNCHANGED up

Quits(c) ==
  /\ client[c].pc \notin {"off", "gone"} /\ client'[c].pc = "gone"
  /\ client'[c].n = 0
  /\ down' = [down EXCEPT ![c] = <<>>]
  /\ UNCHANGED up

ClientView(c) == Types(c) \/ Sends(c) \/ Pays(c) \/ Receives(c) \/ Quits(c)

\* The messages that are not requests have the shape of one.
LEMMA FixedRequests == Size \in Requests /\ Empty \in Requests /\ Empty # Size
<1>1. 0 \in 0 .. NC
  BY ClientServerAssumption
<1>2. Size \in Requests
  BY <1>1 DEF Size, Requests
<1>3. Empty \in Requests /\ Empty.kind = "empty"
  BY <1>2 DEF Empty, Requests
<1> QED
  BY <1>2, <1>3 DEF Size

\* send_data makes a proper request.
LEMMA SendData ==
  ASSUME ConnectionTypes, NEW c \in Clients, NEW me \in ClientStates,
         NEW kind \in {"id", "unknown", "read-only", "update"},
         client[c].pc \in {"open", "prompt"},
         me.n = client[c].n, me.last = client[c].last, send_data(c, me, kind)
  PROVE  /\ client' \in [Clients -> ClientStates]
         /\ Sends(c)
         /\ \A d \in Clients \ {c} : client'[d] = client[d]
         /\ client'[c].ops = me.ops /\ client'[c].in_tx = me.in_tx
         /\ UNCHANGED <<down, sessions, acceptor, monitor, queue, task, nids, missed, errors>>
<1> DEFINE out(ts) == [c |-> c, n |-> me.n + 1, kind |-> kind, ts |-> ts,
                       fresh |-> Newer(ts, me.last)]
           new(ts) == [me EXCEPT !.pc = "sending", !.n = @ + 1,
                                 !.last = IF Newer(ts, @) THEN ts ELSE @, !.out = out(ts)]
<1>1. PICK ts \in Times : /\ client' = [client EXCEPT ![c] = new(ts)]
                          /\ up' = [up EXCEPT ![c] = Append(@, Size)]
                          /\ UNCHANGED <<down, sessions, acceptor, monitor, queue, task, nids, missed, errors>>
  BY DEF send_data
<1>2. out(ts) \in Requests /\ Proper(out(ts), c)
  BY ClientServerAssumption DEF Requests, Proper, Clients, ClientStates, Newer
<1>3. client'[c] = new(ts) /\ \A d \in Clients \ {c} : client'[d] = client[d]
  BY <1>1 DEF ConnectionTypes
<1>4. /\ new(ts).pc = "sending" /\ new(ts).n = me.n + 1 /\ new(ts).out = out(ts)
      /\ new(ts).last = IF Newer(ts, me.last) THEN ts ELSE me.last
      /\ new(ts).ops = me.ops /\ new(ts).in_tx = me.in_tx
  BY DEF ClientStates
<1>5. out(ts).n = me.n + 1 /\ out(ts).ts = ts /\ out(ts).fresh = Newer(ts, me.last)
  OBVIOUS
<1>6. new(ts) \in ClientStates
  <2>1. (IF Newer(ts, me.last) THEN ts ELSE me.last) \in Times \cup {NoTime} /\ me.n + 1 \in Nat
    BY DEF ClientStates
  <2> DEFINE upd(x, y, z) == [me EXCEPT !.pc = "sending", !.n = x, !.last = y, !.out = z]
  <2>2. \A x \in Nat, y \in Times \cup {NoTime}, z \in Requests : upd(x, y, z) \in ClientStates
    BY DEF ClientStates
  <2>3. new(ts) = upd(me.n + 1, IF Newer(ts, me.last) THEN ts ELSE me.last, out(ts))
    OBVIOUS
  <2> HIDE DEF out, new, upd
  <2> QED
    BY <1>2, <2>1, <2>2, <2>3
<1> HIDE DEF out, new
<1>7. client' \in [Clients -> ClientStates]
  BY <1>1, <1>6 DEF ConnectionTypes
<1>8. Sends(c)
  BY <1>1, <1>2, <1>3, <1>4, <1>5 DEF Sends
<1> QED
  BY <1>1, <1>3, <1>4, <1>7, <1>8

\* A transaction that is begun or sent leaves the rest of the client as it is.
LEMMA TypedOps ==
  ASSUME NEW me \in ClientStates, NEW x \in BOOLEAN, NEW o \in Seq(OpNames)
  PROVE  /\ [me EXCEPT !.in_tx = x, !.ops = o] \in ClientStates
         /\ [me EXCEPT !.in_tx = x, !.ops = o].n = me.n
         /\ [me EXCEPT !.in_tx = x, !.ops = o].last = me.last
         /\ [me EXCEPT !.in_tx = x, !.ops = o].ops = o
BY DEF ClientStates

\* Every step of a client is one of these, and touches its own connection only.
LEMMA ClientSteps ==
  ASSUME TypeOK, NEW c \in Clients, Client(c)
  PROVE  /\ client' \in [Clients -> ClientStates]
         /\ ClientView(c)
         /\ \A d \in Clients \ {c} : client'[d] = client[d]
         /\ client'[c].ops # <<>> => client'[c].in_tx
         /\ client'[c].n = client[c].n + 1 => client[c].pc = "open" \/ client[c].n < MaxReq[c]
         /\ UNCHANGED <<sessions, acceptor, monitor, queue, task, nids, missed, errors>>
<1>0. /\ client \in [Clients -> ClientStates] /\ client[c] \in ClientStates
      /\ client[c].n \in Nat
  BY DEF TypeOK, ConnectionTypes, ClientStates
<1>a. client[c].ops # <<>> => client[c].in_tx
  BY DEF TypeOK
<1>b. client[c].ops \in Seq(OpNames) /\ <<>> \in Seq(OpNames)
  BY <1>0 DEF ClientStates
<1> USE DEF ClientView
<1>1. CASE Connect(c)
  <2>1. [client[c] EXCEPT !.pc = "connecting"] \in ClientStates
    BY <1>0 DEF ClientStates
  <2> QED
    BY <1>0, <1>1, <1>a, <2>1 DEF Connect, Types, ClientStates
<1>2. CASE RequestSessionId(c)
  BY <1>0, <1>2, <1>a, SendData DEF RequestSessionId, TypeOK
<1>3. CASE SendPayload(c)
  <2>1. [client[c] EXCEPT !.pc = "wait"] \in ClientStates
    BY <1>0 DEF ClientStates
  <2> QED
    BY <1>0, <1>3, <1>a, <2>1 DEF SendPayload, Pays, ClientStates
<1>4. CASE Receive(c)
  <2>1. [client[c] EXCEPT !.pc = "prompt", !.out = Empty] \in ClientStates
    BY <1>0, FixedRequests DEF ClientStates
  <2> QED
    BY <1>0, <1>4, <1>a, <2>1 DEF Receive, Receives, ClientStates
<1>5. CASE MakeTx(c)
  <2>1. [client[c] EXCEPT !.in_tx = TRUE, !.ops = <<>>] \in ClientStates
    BY <1>0, <1>b, TypedOps
  <2> QED
    BY <1>0, <1>5, <2>1 DEF MakeTx, Typing, Types, ClientStates
<1>6. CASE AddOperation(c)
  <2>1. PICK line \in Lines : client' = [client EXCEPT ![c].ops = Append(@, line.op)]
    BY <1>6 DEF AddOperation
  <2>2. Append(client[c].ops, line.op) \in Seq(OpNames)
    <3>1. line.op \in OpNames
      BY DEF OpNames
    <3> QED
      BY <1>b, <3>1
  <2>3. [client[c] EXCEPT !.ops = Append(@, line.op)] \in ClientStates
    BY <1>0, <2>2 DEF ClientStates
  <2> QED
    BY <1>0, <1>6, <2>1, <2>3 DEF AddOperation, Typing, Types, ClientStates
<1>7. CASE Undo(c)
  <2>1. SubSeq(client[c].ops, 1, Len(client[c].ops) - 1) \in Seq(OpNames)
    BY <1>7, <1>b DEF Undo
  <2>2. [client[c] EXCEPT !.ops = SubSeq(@, 1, Len(@) - 1)] \in ClientStates
    BY <1>0, <2>1 DEF ClientStates
  <2> QED
    BY <1>0, <1>7, <2>2 DEF Undo, Typing, Types, ClientStates
<1>8. CASE EndTx(c)
  <2>1. [client[c] EXCEPT !.in_tx = FALSE] \in ClientStates
    BY <1>0 DEF ClientStates
  <2>2. CASE client[c].ops = <<>>
    <3>1. /\ client[c].pc = "prompt"
          /\ client' = [client EXCEPT ![c] = [client[c] EXCEPT !.in_tx = FALSE]]
          /\ UNCHANGED <<up, down, sessions, acceptor, monitor, queue, task, nids, missed, errors>>
      BY <1>8, <2>2 DEF EndTx, Typing
    <3> QED
      <4>1. client'[c] = [client[c] EXCEPT !.in_tx = FALSE]
        BY <1>0, <3>1
      <4>2. /\ client'[c].pc = client[c].pc /\ client'[c].n = client[c].n
            /\ client'[c].last = client[c].last
        BY <1>0, <4>1 DEF ClientStates
      <4>3. Types(c)
        BY <3>1, <4>2 DEF Types
      <4>4. client'[c].ops = <<>>
        BY <1>0, <2>2, <4>1 DEF ClientStates
      <4>5. client'[c].n # client[c].n + 1
        BY <1>0, <4>2 DEF ClientStates
      <4>6. client' \in [Clients -> ClientStates] /\ \A d \in Clients \ {c} : client'[d] = client[d]
        BY <1>0, <2>1, <3>1
      <4> QED
        BY <3>1, <4>3, <4>4, <4>5, <4>6
  <2>3. CASE client[c].ops # <<>>
    <3> DEFINE me == [client[c] EXCEPT !.in_tx = FALSE, !.ops = <<>>]
    <3>1. me \in ClientStates /\ me.n = client[c].n /\ me.last = client[c].last /\ me.ops = <<>>
      BY <1>0, <1>b, TypedOps
    <3>2. parse_command(client[c].ops) \in {"id", "unknown", "read-only", "update"}
      BY DEF parse_command
    <3>3. /\ client[c].pc = "prompt" /\ client[c].n < MaxReq[c]
          /\ send_data(c, me, parse_command(client[c].ops))
      BY <1>8, <2>3 DEF EndTx, Typing
    <3> HIDE DEF me
    <3> QED
      BY <3>1, <3>2, <3>3, SendData DEF TypeOK
  <2> QED
    BY <2>2, <2>3
<1>9. CASE Test(c)
  BY <1>0, <1>9, <1>a, SendData DEF Test, Typing, TypeOK
<1>10. CASE Quit(c)
  <2>1. [NewClient EXCEPT !.pc = "gone"] \in ClientStates
    <3>1. NewClient \in ClientStates
      BY FixedRequests DEF ClientStates, NewClient
    <3> QED
      BY <3>1 DEF ClientStates
  <2>2. [NewClient EXCEPT !.pc = "gone"].pc = "gone" /\ [NewClient EXCEPT !.pc = "gone"].ops = <<>>
        /\ [NewClient EXCEPT !.pc = "gone"].n = 0
    BY DEF NewClient
  <2>3. /\ client' = [client EXCEPT ![c] = [NewClient EXCEPT !.pc = "gone"]]
        /\ client[c].pc \notin {"off", "gone"}
        /\ down' = [down EXCEPT ![c] = <<>>]
        /\ UNCHANGED <<up, sessions, acceptor, monitor, queue, task, nids, missed, errors>>
    BY <1>10 DEF Quit, Alive
  <2>4. client'[c] = [NewClient EXCEPT !.pc = "gone"] /\ \A d \in Clients \ {c} : client'[d] = client[d]
    BY <1>0, <2>3
  <2>5. client' \in [Clients -> ClientStates]
    BY <1>0, <2>1, <2>3
  <2> QED
    BY <1>0, <2>2, <2>3, <2>4, <2>5 DEF Quits
<1> QED
  BY <1>1, <1>2, <1>3, <1>4, <1>5, <1>6, <1>7, <1>8, <1>9, <1>10 DEF Client

-----------------------------------------------------------------------------
(* Types                                                                   *)

\* The iterator goes to an entry of the map or to its end.
LEMMA FirstIn ==
  ASSUME NEW S \in SUBSET Clients
  PROVE  First(S) \in S \cup {End} /\ First(S) \in Clients \cup {End}
<1> DEFINE R == {p \in Nat \X Nat : p[1] < p[2]}
<1>1. CASE S = {}
  BY <1>1 DEF First
<1>2. CASE S # {}
  <2>1. S \subseteq Nat
    BY ClientServerAssumption DEF Clients
  <2>2. IsWellFoundedOn(R, Nat)
    BY NatLessThanWellFounded DEF OpToRel
  <2>3. \E x \in S : \A y \in S : <<y, x>> \notin R
    BY <1>2, <2>1, <2>2, WFMin
  <2>4. \A x, y \in Nat : <<y, x>> \notin R => x <= y
    OBVIOUS
  <2>5. \E x \in S : \A y \in S : x <= y
    <3> HIDE DEF R
    <3> QED
      BY <2>1, <2>3, <2>4
  <2> QED
    BY <1>2, <2>5 DEF First
<1> QED
  BY <1>1, <1>2

\* The iterator after an increment.
LEMMA AfterIn ==
  ASSUME SessionTypes, NEW c \in Clients, NEW d \in After(c)
  PROVE  d \in DOMAIN sessions \cup {End} /\ d \in Clients \cup {End}
<1> DEFINE more == {e \in DOMAIN sessions : e > c}
<1>1. more \in SUBSET Clients /\ more \subseteq DOMAIN sessions
  BY DEF SessionTypes
<1>2. d \in more \cup {End} \/ d = First(more)
  BY DEF After
<1> HIDE DEF more
<1> QED
  BY <1>1, <1>2, FirstIn

\* A step of the process: of a client, the acceptor, the monitor, a worker or a
\* logger.
Step ==
  \/ \E c \in Clients : Client(c)
  \/ Acceptor
  \/ Monitor
  \/ \E w \in Workers : WorkerStep(w) \/ LoggerStep(w)

\* The steps of the workers and loggers leave the connections to the server, the
\* iterator and the acceptor alone.
LEMMA TaskFrame ==
  ASSUME NEW w \in Workers, WorkerStep(w) \/ LoggerStep(w)
  PROVE  UNCHANGED <<client, up, acceptor, monitor>>
BY DEF WorkerStep, LoggerStep, getTransaction, CheckTimestamp, SetTimestamp, Execute, Notify,
       getSession, Send

\* The acceptor puts the new client in, and nothing else.
LEMMA AcceptorFrame ==
  ASSUME Acceptor
  PROVE  UNCHANGED <<up, down, monitor, queue, task, nids, missed, errors>>
BY DEF Acceptor, Accept, addSession

\* The monitor leaves the clients and the tasks of workers and loggers alone.
LEMMA MonitorFrame ==
  ASSUME Monitor
  PROVE  UNCHANGED <<client, task, nids>>
BY DEF Monitor, MonitorBegin, Visit, Erase, Read

\* A worker has a task of its own, and so has its logger.
LEMMA Senders == \A w \in Workers : Worker(w) \in Sender /\ Logger(w) \in Sender
BY DEF Worker, Logger, Sender

\* The connections keep their types.
LEMMA ConnectionTypesStep == TypeOK /\ Wire /\ Step => ConnectionTypes'
<1> SUFFICES ASSUME TypeOK, Wire, Step PROVE ConnectionTypes'
  OBVIOUS
<1>0. /\ client \in [Clients -> ClientStates] /\ up \in [Clients -> Seq(Requests)]
      /\ down \in [Clients -> Seq(Nat)]
  BY DEF TypeOK, ConnectionTypes
<1>1. ASSUME NEW c \in Clients, Client(c) PROVE ConnectionTypes'
  <2>1. client' \in [Clients -> ClientStates] /\ ClientView(c)
    BY <1>1, ClientSteps
  <2>2. client[c].out \in Requests
    BY <1>0 DEF ClientStates
  <2>3. up' \in [Clients -> Seq(Requests)]
    <3>1. CASE up' = [up EXCEPT ![c] = Append(@, Size)]
      BY <1>0, <3>1, FixedRequests
    <3>2. CASE up' = [up EXCEPT ![c] = Append(@, client[c].out)]
      BY <1>0, <2>2, <3>2
    <3> QED
      BY <1>0, <2>1, <3>1, <3>2 DEF ClientView, Types, Sends, Pays, Receives, Quits
  <2>4. down' \in [Clients -> Seq(Nat)]
    <3>1. CASE down[c] # <<>> /\ down' = [down EXCEPT ![c] = Tail(@)]
      BY <1>0, <3>1
    <3>2. CASE down' = [down EXCEPT ![c] = <<>>]
      <4>1. <<>> \in Seq(Nat)
        OBVIOUS
      <4> QED
        BY <1>0, <3>2, <4>1
    <3> QED
      BY <1>0, <2>1, <3>1, <3>2 DEF ClientView, Types, Sends, Pays, Receives, Quits
  <2> QED
    BY <2>1, <2>3, <2>4 DEF ConnectionTypes
<1>2. CASE Acceptor
  <2>1. UNCHANGED <<up, down>>
    BY <1>2, AcceptorFrame
  <2>2. UNCHANGED client \/ \E c \in Clients : client' = [client EXCEPT ![c].pc = "open"]
    BY <1>2 DEF Acceptor, Accept, addSession
  <2>3. \A c \in Clients : [client[c] EXCEPT !.pc = "open"] \in ClientStates
    BY <1>0 DEF ClientStates
  <2>4. client' \in [Clients -> ClientStates]
    BY <1>0, <2>2, <2>3
  <2> QED
    BY <1>0, <2>1, <2>4 DEF ConnectionTypes
<1>3. CASE Monitor
  <2>1. UNCHANGED client
    BY <1>3, MonitorFrame
  <2>2. CASE Read
    <3> DEFINE c == monitor.it
               data == IF Len(up[c]) > 1 THEN up[c][2] ELSE Empty
    <3>1. c \in Clients
      BY <2>2 DEF Read, TypeOK, SessionTypes
    <3>2. data \in Requests
      BY <1>0, <3>1, FixedRequests
    <3>3. data.n \in Nat
      BY <3>2 DEF Requests
    <3>4. /\ up' = [up EXCEPT ![c] = SubSeq(@, 3, Len(@))]
          /\ down' \in {down, [down EXCEPT ![c] = Append(@, data.n)]}
      BY <2>2 DEF Read
    <3> HIDE DEF c, data
    <3>5. SubSeq(up[c], 3, Len(up[c])) \in Seq(Requests)
      BY <1>0, <3>1
    <3>6. up' \in [Clients -> Seq(Requests)]
      BY <1>0, <3>4, <3>5
    <3>7. down' \in [Clients -> Seq(Nat)]
      <4>1. CASE down' = [down EXCEPT ![c] = Append(@, data.n)]
        BY <1>0, <3>1, <3>3, <4>1
      <4> QED
        BY <1>0, <3>4, <4>1
    <3> QED
      BY <1>0, <2>1, <3>6, <3>7 DEF ConnectionTypes
  <2>3. CASE MonitorBegin \/ Visit \/ Erase
    BY <1>0, <2>3 DEF MonitorBegin, Visit, Erase, ConnectionTypes
  <2> QED
    BY <1>3, <2>2, <2>3 DEF Monitor
<1>4. ASSUME NEW w \in Workers, WorkerStep(w) \/ LoggerStep(w) PROVE ConnectionTypes'
  <2>1. UNCHANGED <<client, up>>
    BY <1>4, TaskFrame
  <2>2. UNCHANGED down \/ \E p \in Sender :
          down' = [down EXCEPT ![task[p].req.c] = Append(@, task[p].req.n)]
    BY <1>4, Senders DEF WorkerStep, LoggerStep, getTransaction, CheckTimestamp, SetTimestamp,
                Execute, Notify, getSession, Send
  <2>3. \A p \in Sender : task[p].req.n \in Nat
    BY DEF TypeOK, ServerTypes, Tasks, Requests
  <2>4. ASSUME NEW c, NEW n \in Nat, down' = [down EXCEPT ![c] = Append(@, n)]
        PROVE  down' \in [Clients -> Seq(Nat)]
    <3>1. CASE c \in Clients
      BY <1>0, <2>4, <3>1
    <3>2. CASE c \notin Clients
      BY <1>0, <2>4, <3>2
    <3> QED
      BY <3>1, <3>2
  <2>5. down' \in [Clients -> Seq(Nat)]
    BY <1>0, <2>2, <2>3, <2>4
  <2> QED
    BY <1>0, <2>1, <2>5 DEF ConnectionTypes
<1> QED
  BY <1>1, <1>2, <1>3, <1>4 DEF Step

\* What the iterator of the monitor needs: it is at an entry or at the end, and
\* at an entry while the monitor reads or erases.
IteratorOK ==
  /\ monitor.it \in DOMAIN sessions \cup {End}
  /\ monitor.pc # "visit" => monitor.it # End

\* A timestamp is stored under a session that is there.
LEMMA StampTypes ==
  ASSUME SessionTypes, NEW c, NEW ts \in Times \cup {NoTime}, NEW found \in BOOLEAN,
         sessions' = setTimestamp(c, ts, found)
  PROVE  /\ DOMAIN sessions' = DOMAIN sessions
         /\ \A d \in DOMAIN sessions :
              /\ sessions'[d] \in Times \cup {NoTime}
              /\ sessions'[d] = sessions[d] \/ (d = c /\ sessions'[d] = ts)
BY DEF SessionTypes, setTimestamp

\* The session map, the iterator and the acceptor keep their types; the iterator
\* never points to an entry that was erased.
LEMMA SessionTypesStep == TypeOK /\ Step => SessionTypes' /\ IteratorOK'
<1> SUFFICES ASSUME TypeOK, Step PROVE SessionTypes' /\ IteratorOK'
  OBVIOUS
<1>0. SessionTypes /\ IteratorOK
  BY DEF TypeOK, IteratorOK
<1>a. DOMAIN sessions \in SUBSET Clients
  BY <1>0 DEF SessionTypes
<1>b. ASSUME NEW p \in Sender PROVE task[p].req.ts \in Times \cup {NoTime}
  BY <1>b DEF TypeOK, ServerTypes, Tasks, Requests
<1>1. ASSUME UNCHANGED <<sessions, acceptor, monitor, missed, errors>> PROVE SessionTypes' /\ IteratorOK'
  BY <1>0, <1>1 DEF SessionTypes, IteratorOK
<1>2. ASSUME NEW c \in Clients, Accept(c) PROVE SessionTypes' /\ IteratorOK'
  BY <1>0, <1>2 DEF Accept, SessionTypes, IteratorOK
<1>3. CASE addSession
  <2>1. /\ DOMAIN sessions' = DOMAIN sessions \cup {acceptor}
        /\ \A c \in DOMAIN sessions' : sessions'[c] = NoTime \/ (c \in DOMAIN sessions /\ sessions'[c] = sessions[c])
        /\ acceptor # 0 /\ acceptor' = 0 /\ UNCHANGED <<monitor, missed, errors>>
    BY <1>3 DEF addSession
  <2> QED
    BY <1>0, <2>1 DEF SessionTypes, IteratorOK
<1>4. CASE MonitorBegin
  <2>1. monitor' = [monitor EXCEPT !.it = First(DOMAIN sessions)] /\ UNCHANGED <<sessions, acceptor, missed, errors>>
    BY <1>4 DEF MonitorBegin, Begin
  <2>2. monitor.pc = "visit"
    BY <1>4 DEF MonitorBegin
  <2> QED
    BY <1>0, <1>a, <2>1, <2>2, FirstIn DEF SessionTypes, IteratorOK
<1>5. CASE Visit
  <2>1. UNCHANGED <<sessions, acceptor, missed>> /\ monitor.pc = "visit" /\ monitor.it # End
    BY <1>5 DEF Visit
  <2>2. \/ \E x \in {"read", "erase"} : monitor' = [monitor EXCEPT !.pc = x]
        \/ \E d \in After(monitor.it) : monitor' = [monitor EXCEPT !.it = d]
    BY <1>5 DEF Visit, Ends
  <2>a. errors' \in BOOLEAN
    BY <1>0, <1>5 DEF Visit, SessionTypes
  <2>3. monitor.it \in Clients
    BY <1>0, <2>1 DEF SessionTypes
  <2>4. \A d \in After(monitor.it) : d \in DOMAIN sessions \cup {End} /\ d \in Clients \cup {End}
    BY <1>0, <2>3, AfterIn
  <2> QED
    BY <1>0, <2>1, <2>2, <2>4, <2>a DEF SessionTypes, IteratorOK
<1>6. CASE Erase
  <2>1. DOMAIN sessions' = DOMAIN sessions \ {monitor.it} /\ \A c \in DOMAIN sessions' : sessions'[c] = sessions[c]
    BY <1>6 DEF Erase
  <2>2. DOMAIN sessions' \in SUBSET Clients
    BY <1>a, <2>1
  <2>3. First(DOMAIN sessions') \in DOMAIN sessions' \cup {End} /\ First(DOMAIN sessions') \in Clients \cup {End}
    BY <2>2, FirstIn
  <2>4. /\ monitor' = [it |-> First(DOMAIN sessions'), pc |-> "visit"]
        /\ acceptor' \in {acceptor, 0}
        /\ UNCHANGED errors
    BY <1>6 DEF Erase
  <2>5. missed' \subseteq Clients
    BY <1>0, <1>6 DEF Erase, SessionTypes
  <2> QED
    BY <1>0, <2>1, <2>2, <2>3, <2>4, <2>5 DEF SessionTypes, IteratorOK
<1>7. CASE Read
  <2> DEFINE c == monitor.it
             data == IF Len(up[c]) > 1 THEN up[c][2] ELSE Empty
  <2>1. c \in Clients
    BY <1>0, <1>7 DEF Read, SessionTypes, IteratorOK
  <2>2. data \in Requests
    BY <2>1, FixedRequests DEF TypeOK, ConnectionTypes
  <2>3. data.ts \in Times \cup {NoTime}
    BY <2>2 DEF Requests
  <2>4. sessions' = sessions \/ \E found \in BOOLEAN : sessions' = setTimestamp(c, data.ts, found)
    BY <1>7 DEF Read, Lookup
  <2>5. UNCHANGED <<acceptor, missed>> /\ \E d \in After(c) : monitor' = [it |-> d, pc |-> "visit"]
    BY <1>7 DEF Read
  <2> HIDE DEF c, data
  <2>6. \A d \in After(c) : d \in DOMAIN sessions \cup {End} /\ d \in Clients \cup {End}
    BY <1>0, <2>1, AfterIn
  <2>7. DOMAIN sessions' = DOMAIN sessions /\ \A d \in DOMAIN sessions : sessions'[d] \in Times \cup {NoTime}
    BY <1>0, <2>3, <2>4, StampTypes DEF SessionTypes
  <2>8. errors' \in BOOLEAN
    BY <1>0, <1>7 DEF Read, SessionTypes
  <2> QED
    BY <1>0, <2>5, <2>6, <2>7, <2>8 DEF SessionTypes, IteratorOK
<1>8. ASSUME NEW w \in Workers, WorkerStep(w) \/ LoggerStep(w) PROVE SessionTypes' /\ IteratorOK'
  <2>1. UNCHANGED <<acceptor, monitor>>
    BY <1>8, TaskFrame
  <2>a. UNCHANGED errors
    BY <1>8 DEF WorkerStep, LoggerStep, getTransaction, CheckTimestamp, SetTimestamp, Execute,
                Notify, getSession, Send
  <2>2. missed' = missed \/ \E c \in DOMAIN sessions : missed' = missed \cup {c}
    BY <1>8 DEF WorkerStep, LoggerStep, getTransaction, CheckTimestamp, SetTimestamp, Execute,
                Notify, getSession, Send
  <2>3. \/ sessions' = sessions
        \/ \E found \in BOOLEAN : \E p \in Sender :
             sessions' = setTimestamp(task[p].req.c, task[p].req.ts, found)
    BY <1>8, Senders DEF WorkerStep, LoggerStep, getTransaction, CheckTimestamp, SetTimestamp, Execute,
                Notify, getSession, Send, Lookup
  <2>4. DOMAIN sessions' = DOMAIN sessions /\ \A d \in DOMAIN sessions : sessions'[d] \in Times \cup {NoTime}
    BY <1>0, <1>b, <2>3, StampTypes DEF SessionTypes
  <2> QED
    BY <1>0, <2>1, <2>2, <2>4, <2>a DEF SessionTypes, IteratorOK
<1>9. ASSUME NEW c \in Clients, Client(c) PROVE SessionTypes' /\ IteratorOK'
  BY <1>1, <1>9, ClientSteps
<1> QED
  BY <1>2, <1>3, <1>4, <1>5, <1>6, <1>7, <1>8, <1>9 DEF Step, Acceptor, Monitor

\* What the monitor puts in a queue is a request or the empty string.
LEMMA ReadData ==
  ASSUME TypeOK, Wire, Read
  PROVE  /\ monitor.it \in Clients
         /\ \/ up[monitor.it] = <<Size>>
            \/ Len(up[monitor.it]) = 2 /\ Proper(up[monitor.it][2], monitor.it)
<1>1. monitor.it \in Clients
  BY DEF Read, TypeOK, SessionTypes
<1>2. (Len(up[monitor.it]) > 1 \/ Len(up[monitor.it]) = 1) /\ up[monitor.it][1] = Size
  BY DEF Read
<1>3. OnWire(up[monitor.it], monitor.it)
  BY <1>1 DEF Wire, WireOf
<1>4. ~Proper(Size, monitor.it)
  BY DEF Proper, Size
<1>5. Len(<<>>) = 0
  OBVIOUS
<1> QED
  BY <1>1, <1>2, <1>3, <1>4, <1>5 DEF OnWire

\* Queues, tasks and lists of commits keep their types.
LEMMA ServerTypesStep == TypeOK /\ Wire /\ Step /\ UNCHANGED broken => ServerTypes'
<1> SUFFICES ASSUME TypeOK, Wire, Step, UNCHANGED broken PROVE ServerTypes'
  OBVIOUS
<1>0. /\ queue \in [Workers -> Seq(Requests \ {Size})] /\ task \in [Sender -> Tasks]
      /\ nids \in [Workers -> Seq(Requests)] /\ broken' \in BOOLEAN
  BY DEF TypeOK, ServerTypes
<1>a. Idle \in Tasks
  BY FixedRequests DEF Idle, Tasks
<1>1. ASSUME UNCHANGED <<queue, task, nids>> PROVE ServerTypes'
  BY <1>0, <1>1 DEF ServerTypes
<1>2. CASE Monitor
  <2>1. UNCHANGED <<task, nids>>
    BY <1>2, MonitorFrame
  <2>2. CASE Read
    <3> DEFINE data == IF Len(up[monitor.it]) > 1 THEN up[monitor.it][2] ELSE Empty
    <3>1. data \in Requests \ {Size}
      <4>1. \A r \in Requests, c \in Clients : Proper(r, c) => r # Size
        BY DEF Proper, Size
      <4>2. \A r, c : Proper(r, c) => r \in Requests
        BY DEF Proper
      <4>3. Len(<<>>) = 0 /\ Len(<<Size>>) = 1
        OBVIOUS
      <4> QED
        BY <2>2, <4>1, <4>2, <4>3, ReadData, FixedRequests
    <3>2. UNCHANGED queue \/ \E w \in Workers : queue' = [queue EXCEPT ![w] = Append(@, data)]
      BY <2>2 DEF Read, putTransaction
    <3> HIDE DEF data
    <3>3. ASSUME NEW w \in Workers, queue' = [queue EXCEPT ![w] = Append(@, data)]
          PROVE  queue' \in [Workers -> Seq(Requests \ {Size})]
      BY <1>0, <3>1, <3>3
    <3> QED
      BY <1>0, <2>1, <3>2, <3>3 DEF ServerTypes
  <2>3. CASE MonitorBegin \/ Visit \/ Erase
    BY <1>1, <2>1, <2>3 DEF MonitorBegin, Visit, Erase
  <2> QED
    BY <1>2, <2>2, <2>3 DEF Monitor
<1>3. ASSUME NEW w \in Workers, getTransaction(w) PROVE ServerTypes'
  <2>1. queue[w] \in Seq(Requests \ {Size}) /\ queue[w] # <<>>
    BY <1>0, <1>3 DEF getTransaction
  <2>2. Head(queue[w]) \in Requests
    BY <2>1
  <2>3. [pc |-> "check", req |-> Head(queue[w]), res |-> "none"] \in Tasks
    BY <2>2 DEF Tasks
  <2>4. queue' = [queue EXCEPT ![w] = Tail(@)] /\ UNCHANGED nids
    BY <1>3 DEF getTransaction
  <2>5. queue' \in [Workers -> Seq(Requests \ {Size})]
    BY <1>0, <2>1, <2>4
  <2>6. task' = task \/ task' = [task EXCEPT ![Worker(w)] = [pc |-> "check", req |-> Head(queue[w]), res |-> "none"]]
    BY <1>3 DEF getTransaction
  <2>7. task' \in [Sender -> Tasks]
    BY <1>0, <2>3, <2>6
  <2> QED
    BY <1>0, <2>4, <2>5, <2>7 DEF ServerTypes
<1>4. ASSUME NEW w \in Workers, CheckTimestamp(w) \/ SetTimestamp(w) PROVE ServerTypes'
  <2>1. task[Worker(w)] \in Tasks
    BY <1>0, Senders
  <2>2. /\ [task[Worker(w)] EXCEPT !.pc = "answer", !.res = "refused"] \in Tasks
        /\ [task[Worker(w)] EXCEPT !.pc = "answer", !.res = "unknown"] \in Tasks
        /\ [task[Worker(w)] EXCEPT !.pc = "stamp"] \in Tasks
        /\ [task[Worker(w)] EXCEPT !.pc = "run"] \in Tasks
    BY <2>1 DEF Tasks
  <2>3. UNCHANGED <<queue, nids>>
    BY <1>4 DEF CheckTimestamp, SetTimestamp
  <2>4. \/ task' = [task EXCEPT ![Worker(w)] = [task[Worker(w)] EXCEPT !.pc = "answer", !.res = "refused"]]
        \/ task' = [task EXCEPT ![Worker(w)] = [task[Worker(w)] EXCEPT !.pc = "answer", !.res = "unknown"]]
        \/ task' = [task EXCEPT ![Worker(w)] = [task[Worker(w)] EXCEPT !.pc = "stamp"]]
        \/ task' = [task EXCEPT ![Worker(w)] = [task[Worker(w)] EXCEPT !.pc = "run"]]
    BY <1>0, <1>4, Senders DEF CheckTimestamp, SetTimestamp
  <2>5. task' \in [Sender -> Tasks]
    BY <1>0, <2>2, <2>4
  <2> QED
    BY <1>0, <2>3, <2>5 DEF ServerTypes
<1>5. ASSUME NEW w \in Workers, Execute(w) PROVE ServerTypes'
  <2> DEFINE req == task[Worker(w)].req
  <2>1. task[Worker(w)] \in Tasks /\ req \in Requests
    BY <1>0, Senders DEF Tasks
  <2>2. PICK res \in {"committed", "aborted"} :
          /\ task' = [task EXCEPT ![Worker(w)] =
                        IF Answered(req, res) THEN [@ EXCEPT !.pc = "answer", !.res = res] ELSE Idle]
          /\ nids' = nids \/ nids' = [nids EXCEPT ![w] = Append(@, req)]
          /\ UNCHANGED queue
    BY <1>5 DEF Execute
  <2>3. [task[Worker(w)] EXCEPT !.pc = "answer", !.res = res] \in Tasks
    BY <2>1 DEF Tasks
  <2>4. task' = [task EXCEPT ![Worker(w)] = Idle]
        \/ task' = [task EXCEPT ![Worker(w)] = [task[Worker(w)] EXCEPT !.pc = "answer", !.res = res]]
    BY <1>0, <2>2, Senders
  <2>5. task' \in [Sender -> Tasks]
    BY <1>0, <1>a, <2>3, <2>4
  <2> HIDE DEF req
  <2>6. nids' \in [Workers -> Seq(Requests)]
    <3>1. CASE nids' = [nids EXCEPT ![w] = Append(@, req)]
      BY <1>0, <2>1, <3>1
    <3> QED
      BY <1>0, <2>2, <3>1
  <2> QED
    BY <1>0, <2>2, <2>5, <2>6 DEF ServerTypes
<1>6. ASSUME NEW w \in Workers, Notify(w) PROVE ServerTypes'
  <2>1. nids[w] \in Seq(Requests) /\ nids[w] # <<>>
    BY <1>0, <1>6 DEF Notify
  <2>2. Head(nids[w]) \in Requests
    BY <2>1
  <2>3. [pc |-> "answer", req |-> Head(nids[w]), res |-> "committed"] \in Tasks
    BY <2>2 DEF Tasks
  <2>4. /\ nids' = [nids EXCEPT ![w] = Tail(@)] /\ UNCHANGED queue
        /\ task' = [task EXCEPT ![Logger(w)] = [pc |-> "answer", req |-> Head(nids[w]), res |-> "committed"]]
    BY <1>6 DEF Notify
  <2>5. nids' \in [Workers -> Seq(Requests)]
    BY <1>0, <2>1, <2>4
  <2>6. task' \in [Sender -> Tasks]
    BY <1>0, <2>3, <2>4
  <2> QED
    BY <1>0, <2>4, <2>5, <2>6 DEF ServerTypes
<1>7. ASSUME NEW p \in Sender, getSession(p) \/ Send(p) PROVE ServerTypes'
  <2>1. task[p] \in Tasks
    BY <1>0
  <2>2. [task[p] EXCEPT !.pc = "send"] \in Tasks
    BY <2>1 DEF Tasks
  <2>3. task' = [task EXCEPT ![p] = Idle] \/ task' = [task EXCEPT ![p] = [task[p] EXCEPT !.pc = "send"]]
    BY <1>0, <1>7 DEF getSession, Send
  <2>4. task' \in [Sender -> Tasks]
    BY <1>0, <1>a, <2>2, <2>3
  <2>5. UNCHANGED <<queue, nids>>
    BY <1>7 DEF getSession, Send
  <2> QED
    BY <1>0, <2>4, <2>5 DEF ServerTypes
<1>8. ASSUME NEW c \in Clients, Client(c) PROVE ServerTypes'
  BY <1>1, <1>8, ClientSteps
<1>9. CASE Acceptor
  BY <1>1, <1>9, AcceptorFrame
<1> QED
  BY <1>2, <1>3, <1>4, <1>5, <1>6, <1>7, <1>8, <1>9, Senders DEF Step, WorkerStep, LoggerStep

\* All types are kept, and a client stays within its requests.
LEMMA TypeOKStep == TypeOK /\ Wire /\ Step /\ UNCHANGED broken => TypeOK'
<1> SUFFICES ASSUME TypeOK, Wire, Step, UNCHANGED broken PROVE TypeOK'
  OBVIOUS
<1>1. ConnectionTypes' /\ SessionTypes' /\ IteratorOK' /\ ServerTypes'
  BY ConnectionTypesStep, SessionTypesStep, ServerTypesStep
<1>2. ASSUME NEW d \in Clients
      PROVE  (client'[d].ops # <<>> => client'[d].in_tx) /\ client'[d].n <= MaxReq[d]
  <2>0. /\ client \in [Clients -> ClientStates] /\ client[d] \in ClientStates
        /\ client[d].ops # <<>> => client[d].in_tx
        /\ client[d].n <= MaxReq[d]
    BY DEF TypeOK, ConnectionTypes
  <2>1. CASE client'[d] = client[d]
    BY <2>0, <2>1
  <2>2. ASSUME NEW c \in Clients, Client(c)
        PROVE  (client'[d].ops # <<>> => client'[d].in_tx) /\ client'[d].n <= MaxReq[d]
    <3>1. CASE d # c
      BY <2>1, <2>2, <3>1, ClientSteps
    <3>2. CASE d = c
      <4>1. /\ ClientView(d)
            /\ client'[d].ops # <<>> => client'[d].in_tx
            /\ client'[d].n = client[d].n + 1 => client[d].pc = "open" \/ client[d].n < MaxReq[d]
        BY <2>2, <3>2, ClientSteps
      <4>2. client[d].n \in Nat /\ MaxReq[d] \in Nat \ {0}
        BY <2>0, ClientServerAssumption DEF ClientStates
      <4>3. client[d].pc = "open" => client[d].n = 0
        BY DEF Wire, WireOf
      <4>4. client'[d].n = client[d].n \/ client'[d].n = client[d].n + 1 \/ client'[d].n = 0
        BY <4>1 DEF ClientView, Types, Sends, Pays, Receives, Quits
      <4> QED
        BY <2>0, <4>1, <4>2, <4>3, <4>4
    <3> QED
      BY <3>1, <3>2
  <2>3. CASE Acceptor
    <3>1. client'[d] = client[d] \/ client'[d] = [client[d] EXCEPT !.pc = "open"]
      BY <2>0, <2>3 DEF Acceptor, Accept, addSession
    <3> QED
      BY <2>0, <3>1 DEF ClientStates
  <2>4. CASE Monitor \/ \E w \in Workers : WorkerStep(w) \/ LoggerStep(w)
    BY <2>1, <2>4, MonitorFrame, TaskFrame
  <2> QED
    BY <2>2, <2>3, <2>4 DEF Step
<1> QED
  BY <1>1, <1>2 DEF TypeOK, IteratorOK

-----------------------------------------------------------------------------
(* A request at the places of the server                                   *)

\* What a step does with the requests in the server: it puts one at the end of a
\* place, moves the first of one place to another, or drops the first of one.
Same(S) == \A s \in S : Holds(s)' = Holds(s)

Puts(r, s) == Holds(s)' = Append(Holds(s), r) /\ Same(Places \ {s})

Drops(s) == Holds(s) # <<>> /\ Holds(s)' = Tail(Holds(s)) /\ Same(Places \ {s})

Moves(s, t) ==
  /\ Holds(s) # <<>> /\ Holds(s)' = Tail(Holds(s))
  /\ Holds(t)' = Append(Holds(t), Head(Holds(s)))
  /\ Same(Places \ {s, t})

Queue(w) == <<"queue", w>>
Nids(w) == <<"nids", w>>

\* What is held where.
LEMMA HoldsAt ==
  ASSUME NEW w \in Workers
  PROVE  /\ Holds(Queue(w)) = queue[w] /\ Holds(Queue(w))' = queue'[w]
         /\ Holds(Nids(w)) = nids[w] /\ Holds(Nids(w))' = nids'[w]
         /\ Holds(Worker(w)) = IF task[Worker(w)].pc = "idle" THEN <<>> ELSE <<task[Worker(w)].req>>
         /\ Holds(Worker(w))' = IF task'[Worker(w)].pc = "idle" THEN <<>> ELSE <<task'[Worker(w)].req>>
         /\ Holds(Logger(w)) = IF task[Logger(w)].pc = "idle" THEN <<>> ELSE <<task[Logger(w)].req>>
         /\ Holds(Logger(w))' = IF task'[Logger(w)].pc = "idle" THEN <<>> ELSE <<task'[Logger(w)].req>>
BY DEF Holds, Queue, Nids, Worker, Logger

\* The places by name, all different.
LEMMA PlacesAre ==
  /\ \A s \in Places : \E w \in Workers : s \in {Queue(w), Nids(w), Worker(w), Logger(w)}
  /\ \A w \in Workers : {Queue(w), Nids(w), Worker(w), Logger(w)} \subseteq Places
  /\ \A v, w \in Workers :
       /\ Queue(v) \notin {Nids(w), Worker(w), Logger(w)}
       /\ Nids(v) \notin {Worker(w), Logger(w)}
       /\ Worker(v) # Logger(w)
       /\ v # w => /\ Queue(v) # Queue(w) /\ Nids(v) # Nids(w)
                   /\ Worker(v) # Worker(w) /\ Logger(v) # Logger(w)
  /\ \A p \in Sender : \E w \in Workers : p \in {Worker(w), Logger(w)}
<1>1. \A s \in Places : \E w \in Workers : s \in {Queue(w), Nids(w), Worker(w), Logger(w)}
  BY DEF Places, Queue, Nids, Worker, Logger
<1>2. \A w \in Workers : {Queue(w), Nids(w), Worker(w), Logger(w)} \subseteq Places
  BY DEF Places, Queue, Nids, Worker, Logger
<1>3. \A p \in Sender : \E w \in Workers : p \in {Worker(w), Logger(w)}
  BY DEF Sender, Worker, Logger
<1>4. \A v, w \in Workers :
       /\ Queue(v) \notin {Nids(w), Worker(w), Logger(w)}
       /\ Nids(v) \notin {Worker(w), Logger(w)}
       /\ Worker(v) # Logger(w)
       /\ v # w => /\ Queue(v) # Queue(w) /\ Nids(v) # Nids(w)
                   /\ Worker(v) # Worker(w) /\ Logger(v) # Logger(w)
  BY DEF Queue, Nids, Worker, Logger
<1> QED
  BY <1>1, <1>2, <1>3, <1>4

\* A task goes on with the request it has.
SameTask(p) ==
  \/ task'[p] = task[p]
  \/ task[p].pc # "idle" /\ task'[p].pc # "idle" /\ task'[p].req = task[p].req

\* When the places of S hold what they held.
LEMMA SameIf ==
  ASSUME NEW S \in SUBSET Places,
         \A v \in Workers : /\ Queue(v) \in S => queue'[v] = queue[v]
                            /\ Nids(v) \in S => nids'[v] = nids[v]
                            /\ Worker(v) \in S => SameTask(Worker(v))
                            /\ Logger(v) \in S => SameTask(Logger(v))
  PROVE  Same(S)
<1> SUFFICES ASSUME NEW s \in S PROVE Holds(s)' = Holds(s)
  BY DEF Same
<1>1. PICK v \in Workers : s \in {Queue(v), Nids(v), Worker(v), Logger(v)}
  BY PlacesAre
<1>2. CASE s = Queue(v)
  BY <1>2, HoldsAt
<1>3. CASE s = Nids(v)
  BY <1>3, HoldsAt
<1>4. CASE s = Worker(v)
  BY <1>4, HoldsAt DEF SameTask
<1>5. CASE s = Logger(v)
  BY <1>5, HoldsAt DEF SameTask
<1> QED
  BY <1>1, <1>2, <1>3, <1>4, <1>5

\* A step starts no comparison, but for the request it takes from place to place.
Stay == Same(Places) /\ \A u \in Places : Pending(u)' => Pending(u)

Drop(s) == Drops(s) /\ \A u \in Places : Pending(u)' => Pending(u)

Move(s, t) ==
  /\ s # t /\ Moves(s, t)
  /\ s[1] = "queue" => Head(Holds(s)) # Empty
  /\ \A u \in Places \ {t} : Pending(u)' => Pending(u)
  /\ Pending(t)' => Pending(s) /\ Holds(t) = <<>>

\* Which places hold requests that are not compared yet.
LEMMA PendingAre ==
  ASSUME NEW w \in Workers
  PROVE  /\ Pending(Queue(w)) /\ Pending(Queue(w))'
         /\ ~Pending(Nids(w)) /\ ~Pending(Nids(w))'
         /\ ~Pending(Logger(w)) /\ ~Pending(Logger(w))'
         /\ Pending(Worker(w)) <=> task[Worker(w)].pc = "check"
         /\ Pending(Worker(w))' <=> task'[Worker(w)].pc = "check"
BY DEF Pending, Queue, Nids, Worker, Logger

\* Where no worker takes up a request, no place gets one that is not compared.
LEMMA PendingIf ==
  ASSUME NEW S \in SUBSET Places,
         \A v \in Workers : Worker(v) \in S /\ task'[Worker(v)].pc = "check" => task[Worker(v)].pc = "check"
  PROVE  \A u \in S : Pending(u)' => Pending(u)
<1> SUFFICES ASSUME NEW u \in S PROVE Pending(u)' => Pending(u)
  OBVIOUS
<1>1. PICK v \in Workers : u \in {Queue(v), Nids(v), Worker(v), Logger(v)}
  BY PlacesAre
<1>2. u = Queue(v) \/ u = Nids(v) \/ u = Worker(v) \/ u = Logger(v)
  BY <1>1
<1> QED
  BY <1>2, PendingAre

\* getTransaction takes the first request of the queue, if the worker is idle.
LEMMA GetsTransaction ==
  ASSUME TypeOK, NEW w \in Workers, getTransaction(w)
  PROVE  Drop(Queue(w)) \/ Move(Queue(w), Worker(w))
<1>0. /\ queue \in [Workers -> Seq(Requests \ {Size})] /\ task \in [Sender -> Tasks]
      /\ Worker(w) \in Sender /\ queue[w] # <<>> /\ task[Worker(w)].pc = "idle"
      /\ queue' = [queue EXCEPT ![w] = Tail(@)] /\ UNCHANGED nids
  BY Senders DEF TypeOK, ServerTypes, getTransaction
<1>1. queue'[w] = Tail(queue[w]) /\ \A v \in Workers \ {w} : queue'[v] = queue[v]
  BY <1>0
<1>2. Holds(Queue(w)) # <<>> /\ Holds(Queue(w))' = Tail(Holds(Queue(w)))
  BY <1>0, <1>1, HoldsAt
<1>3. CASE Head(queue[w]).kind = "empty"
  <2>0. task' = task
    BY <1>3 DEF getTransaction
  <2>1. Same(Places \ {Queue(w)})
    BY <1>0, <1>1, <2>0, SameIf DEF SameTask
  <2>2. \A u \in Places : Pending(u)' => Pending(u)
    BY <2>0, PendingIf
  <2> QED
    BY <1>2, <2>1, <2>2 DEF Drop, Drops
<1>4. CASE Head(queue[w]).kind # "empty"
  <2>0. task' = [task EXCEPT ![Worker(w)] = [pc |-> "check", req |-> Head(queue[w]), res |-> "none"]]
    BY <1>4 DEF getTransaction
  <2>1. /\ task'[Worker(w)].pc = "check" /\ task'[Worker(w)].req = Head(queue[w])
        /\ \A p \in Sender \ {Worker(w)} : task'[p] = task[p]
    BY <1>0, <2>0
  <2>2. Same(Places \ {Queue(w), Worker(w)})
    <3>1. \A v \in Workers : Worker(v) # Worker(w) => task'[Worker(v)] = task[Worker(v)]
      BY <2>1, Senders
    <3>2. \A v \in Workers : task'[Logger(v)] = task[Logger(v)]
      BY <2>1, Senders, PlacesAre
    <3> QED
      BY <1>0, <1>1, <3>1, <3>2, SameIf DEF SameTask
  <2>3. \A u \in Places \ {Worker(w)} : Pending(u)' => Pending(u)
    <3>1. \A v \in Workers : Worker(v) # Worker(w) => task'[Worker(v)] = task[Worker(v)]
      BY <2>1, Senders
    <3> QED
      BY <3>1, PendingIf
  <2>4. Holds(Worker(w)) = <<>> /\ Holds(Worker(w))' = Append(<<>>, Head(Holds(Queue(w))))
    BY <1>0, <2>1, HoldsAt
  <2>5. Queue(w) # Worker(w)
    BY PlacesAre
  <2>6. Head(Holds(Queue(w))) # Empty
    BY <1>4, HoldsAt DEF Empty, Size
  <2> QED
    BY <1>2, <2>2, <2>3, <2>4, <2>5, <2>6, PendingAre DEF Move, Moves
<1> QED
  BY <1>3, <1>4

\* The task of p goes on with its request, and nothing else changes place.
LEMMA GoesOn ==
  ASSUME NEW p \in Sender, UNCHANGED <<queue, nids>>, SameTask(p), task'[p].pc # "check",
         \A q \in Sender \ {p} : task'[q] = task[q]
  PROVE  Stay
<1>1. \A q \in Sender : SameTask(q)
  BY DEF SameTask
<1>2. Same(Places)
  BY <1>1, SameIf, Senders
<1>3. \A q \in Sender : task'[q].pc = "check" => task[q].pc = "check"
  OBVIOUS
<1>4. \A u \in Places : Pending(u)' => Pending(u)
  BY <1>3, PendingIf, Senders
<1> QED
  BY <1>2, <1>4 DEF Stay

\* p is done with its request, which is gone.
LEMMA Finishes ==
  ASSUME NEW p \in Sender, UNCHANGED <<queue, nids>>, task[p].pc # "idle", task'[p].pc = "idle",
         \A q \in Sender \ {p} : task'[q] = task[q]
  PROVE  Drop(p) /\ p \in Places
<1>1. PICK w \in Workers : p = Worker(w) \/ p = Logger(w)
  BY PlacesAre
<1>2. Holds(p) = <<task[p].req>> /\ Holds(p)' = <<>> /\ p \in Places
  BY <1>1, HoldsAt, PlacesAre
<1>3. Holds(p) # <<>> /\ Holds(p)' = Tail(Holds(p))
  <2>1. Tail(<<task[p].req>>) = <<>> /\ <<task[p].req>> # <<>>
    OBVIOUS
  <2> QED
    BY <1>2, <2>1
<1>4. \A q \in Sender \ {p} : SameTask(q)
  BY DEF SameTask
<1>5. Same(Places \ {p})
  BY <1>4, SameIf, Senders
<1>6. \A q \in Sender : task'[q].pc = "check" => task[q].pc = "check"
  OBVIOUS
<1>7. \A u \in Places : Pending(u)' => Pending(u)
  BY <1>6, PendingIf, Senders
<1> QED
  BY <1>2, <1>3, <1>5, <1>7 DEF Drop, Drops

\* json_to_procedures leaves the request with its worker.
LEMMA ChecksAndStamps ==
  ASSUME TypeOK, NEW w \in Workers, CheckTimestamp(w) \/ SetTimestamp(w)
  PROVE  Stay
<1>0. task \in [Sender -> Tasks] /\ Worker(w) \in Sender /\ task[Worker(w)] \in Tasks
  BY Senders DEF TypeOK, ServerTypes
<1>1. \/ task' = [task EXCEPT ![Worker(w)] = [task[Worker(w)] EXCEPT !.pc = "answer", !.res = "refused"]]
      \/ task' = [task EXCEPT ![Worker(w)] = [task[Worker(w)] EXCEPT !.pc = "answer", !.res = "unknown"]]
      \/ task' = [task EXCEPT ![Worker(w)] = [task[Worker(w)] EXCEPT !.pc = "stamp"]]
      \/ task' = [task EXCEPT ![Worker(w)] = [task[Worker(w)] EXCEPT !.pc = "run"]]
  BY <1>0 DEF CheckTimestamp, SetTimestamp
<1>2. task'[Worker(w)].pc \in {"answer", "stamp", "run"} /\ task'[Worker(w)].req = task[Worker(w)].req
  <2>1. ASSUME NEW t \in {[task[Worker(w)] EXCEPT !.pc = "answer", !.res = "refused"],
                         [task[Worker(w)] EXCEPT !.pc = "answer", !.res = "unknown"],
                         [task[Worker(w)] EXCEPT !.pc = "stamp"], [task[Worker(w)] EXCEPT !.pc = "run"]}
        PROVE  t.pc \in {"answer", "stamp", "run"} /\ t.req = task[Worker(w)].req
    BY <1>0 DEF Tasks
  <2>2. \A t : task' = [task EXCEPT ![Worker(w)] = t] => task'[Worker(w)] = t
    BY <1>0
  <2> QED
    BY <1>1, <2>1, <2>2
<1>3. \A q \in Sender \ {Worker(w)} : task'[q] = task[q]
  BY <1>0, <1>1
<1>4. UNCHANGED <<queue, nids>> /\ task[Worker(w)].pc # "idle"
  BY DEF CheckTimestamp, SetTimestamp
<1> QED
  BY <1>0, <1>2, <1>3, <1>4, GoesOn DEF SameTask

\* Execute keeps the request to answer it, leaves it to the logger or drops it.
LEMMA Executes ==
  ASSUME TypeOK, NEW w \in Workers, Execute(w)
  PROVE  Stay \/ Drop(Worker(w)) \/ Move(Worker(w), Nids(w))
<1> DEFINE req == task[Worker(w)].req
<1>0. /\ task \in [Sender -> Tasks] /\ Worker(w) \in Sender /\ task[Worker(w)] \in Tasks
      /\ nids \in [Workers -> Seq(Requests)]
  BY Senders DEF TypeOK, ServerTypes
<1>1. PICK res \in {"committed", "aborted"} :
        /\ task' = [task EXCEPT ![Worker(w)] =
                      IF Answered(req, res) THEN [@ EXCEPT !.pc = "answer", !.res = res] ELSE Idle]
        /\ nids' = IF res = "committed" /\ req.kind = "update"
                   THEN [nids EXCEPT ![w] = Append(@, req)] ELSE nids
        /\ UNCHANGED queue
        /\ task[Worker(w)].pc = "run"
  BY DEF Execute
<1>2. \A q \in Sender \ {Worker(w)} : task'[q] = task[q]
  BY <1>0, <1>1
<1>3. CASE Answered(req, res)
  <2>1. task'[Worker(w)] = [task[Worker(w)] EXCEPT !.pc = "answer", !.res = res]
    BY <1>0, <1>1, <1>3
  <2>2. task'[Worker(w)].pc = "answer" /\ task'[Worker(w)].req = req
    BY <1>0, <2>1 DEF Tasks
  <2>3. UNCHANGED nids
    BY <1>1, <1>3 DEF Answered
  <2> QED
    BY <1>0, <1>1, <1>2, <2>2, <2>3, GoesOn DEF SameTask
<1>4. CASE ~Answered(req, res)
  <2>1. task'[Worker(w)] = Idle
    BY <1>0, <1>1, <1>4
  <2>2. task'[Worker(w)].pc = "idle" /\ task[Worker(w)].pc # "idle"
    <3>1. task[Worker(w)].pc = "run"
      BY <1>1
    <3> QED
      BY <2>1, <3>1 DEF Idle
  <2>3. CASE nids' = nids
    BY <1>0, <1>1, <1>2, <2>2, <2>3, Finishes
  <2>4. CASE nids' = [nids EXCEPT ![w] = Append(@, req)]
    <3>1. nids'[w] = Append(nids[w], req) /\ \A v \in Workers \ {w} : nids'[v] = nids[v]
      BY <1>0, <2>4
    <3>2. Holds(Worker(w)) = <<req>> /\ Holds(Worker(w))' = <<>>
      BY <2>2, HoldsAt
    <3>3. Holds(Nids(w))' = Append(Holds(Nids(w)), req)
      BY <3>1, HoldsAt
    <3>4. Holds(Worker(w)) # <<>> /\ Holds(Worker(w))' = Tail(Holds(Worker(w))) /\ Head(Holds(Worker(w))) = req
      <4>1. Tail(<<req>>) = <<>> /\ <<req>> # <<>> /\ Head(<<req>>) = req
        OBVIOUS
      <4> QED
        BY <3>2, <4>1
    <3>5. \A q \in Sender \ {Worker(w)} : SameTask(q)
      BY <1>2 DEF SameTask
    <3>6. Same(Places \ {Worker(w), Nids(w)})
      <4>1. \A v \in Workers : Worker(v) # Worker(w) => SameTask(Worker(v))
        BY <3>5, Senders
      <4>2. \A v \in Workers : SameTask(Logger(v))
        BY <3>5, Senders, PlacesAre
      <4> QED
        BY <1>1, <3>1, <4>1, <4>2, SameIf
    <3>7. \A q \in Sender : task'[q].pc = "check" => task[q].pc = "check"
      BY <1>2, <2>2
    <3>8. \A u \in Places : Pending(u)' => Pending(u)
      BY <3>7, PendingIf, Senders
    <3>9. Worker(w) # Nids(w) /\ Worker(w)[1] # "queue"
      BY PlacesAre DEF Worker
    <3> QED
      BY <3>3, <3>4, <3>6, <3>8, <3>9, PendingAre DEF Move, Moves
  <2> QED
    BY <1>1, <2>3, <2>4
<1> QED
  BY <1>3, <1>4

\* The logger takes the first of the commits it has to report.
LEMMA Notifies ==
  ASSUME TypeOK, NEW w \in Workers, Notify(w)
  PROVE  Move(Nids(w), Logger(w))
<1>0. /\ nids \in [Workers -> Seq(Requests)] /\ task \in [Sender -> Tasks]
      /\ Logger(w) \in Sender /\ nids[w] # <<>> /\ task[Logger(w)].pc = "idle"
      /\ nids' = [nids EXCEPT ![w] = Tail(@)] /\ UNCHANGED queue
      /\ task' = [task EXCEPT ![Logger(w)] = [pc |-> "answer", req |-> Head(nids[w]), res |-> "committed"]]
  BY Senders DEF TypeOK, ServerTypes, Notify
<1>1. nids'[w] = Tail(nids[w]) /\ \A v \in Workers \ {w} : nids'[v] = nids[v]
  BY <1>0
<1>2. Holds(Nids(w)) # <<>> /\ Holds(Nids(w))' = Tail(Holds(Nids(w)))
  BY <1>0, <1>1, HoldsAt
<1>3. /\ task'[Logger(w)].pc = "answer" /\ task'[Logger(w)].req = Head(nids[w])
      /\ \A p \in Sender \ {Logger(w)} : task'[p] = task[p]
  BY <1>0
<1>4. Same(Places \ {Nids(w), Logger(w)})
  <2>1. \A v \in Workers : Logger(v) # Logger(w) => SameTask(Logger(v))
    BY <1>3, Senders DEF SameTask
  <2>2. \A v \in Workers : SameTask(Worker(v))
    BY <1>3, Senders, PlacesAre DEF SameTask
  <2> QED
    BY <1>0, <1>1, <2>1, <2>2, SameIf
<1>5. \A u \in Places : Pending(u)' => Pending(u)
  <2>1. \A v \in Workers : task'[Worker(v)] = task[Worker(v)]
    BY <1>3, Senders, PlacesAre
  <2> QED
    BY <2>1, PendingIf
<1>6. Holds(Logger(w)) = <<>> /\ Holds(Logger(w))' = Append(<<>>, Head(Holds(Nids(w))))
  BY <1>0, <1>3, HoldsAt
<1>7. Nids(w) # Logger(w) /\ Nids(w)[1] # "queue"
  BY PlacesAre DEF Nids
<1> QED
  BY <1>2, <1>4, <1>5, <1>6, <1>7, PendingAre DEF Move, Moves

\* getSession keeps the request or, where it finds no session, drops it.
LEMMA GetsSession ==
  ASSUME TypeOK, NEW p \in Sender, getSession(p)
  PROVE  Stay \/ Drop(p)
<1>0. /\ task \in [Sender -> Tasks] /\ task[p] \in Tasks /\ task[p].pc = "answer"
      /\ UNCHANGED <<queue, nids>>
      /\ task' = [task EXCEPT ![p] = [task[p] EXCEPT !.pc = "send"]] \/ task' = [task EXCEPT ![p] = Idle]
  BY DEF TypeOK, ServerTypes, getSession
<1>1. \A q \in Sender \ {p} : task'[q] = task[q]
  BY <1>0
<1>2. CASE task' = [task EXCEPT ![p] = [task[p] EXCEPT !.pc = "send"]]
  <2>1. task'[p] = [task[p] EXCEPT !.pc = "send"]
    BY <1>0, <1>2
  <2>2. task'[p].pc = "send" /\ task'[p].req = task[p].req
    BY <1>0, <2>1 DEF Tasks
  <2> QED
    BY <1>0, <1>1, <2>2, GoesOn DEF SameTask
<1>3. CASE task' = [task EXCEPT ![p] = Idle]
  <2>1. task'[p] = Idle
    BY <1>0, <1>3
  <2>2. task'[p].pc = "idle"
    BY <2>1 DEF Idle
  <2> QED
    BY <1>0, <1>1, <2>2, Finishes
<1> QED
  BY <1>0, <1>2, <1>3

\* Send is done with the request.
LEMMA SendDrops ==
  ASSUME TypeOK, NEW p \in Sender, Send(p)
  PROVE  Drop(p) /\ p \in Places /\ Holds(p) = <<task[p].req>>
<1>0. /\ task \in [Sender -> Tasks] /\ task[p].pc = "send" /\ UNCHANGED <<queue, nids>>
      /\ task' = [task EXCEPT ![p] = Idle]
  BY DEF TypeOK, ServerTypes, Send
<1>1. task'[p] = Idle /\ \A q \in Sender \ {p} : task'[q] = task[q]
  BY <1>0
<1>2. task'[p].pc = "idle"
  BY <1>1 DEF Idle
<1>3. PICK w \in Workers : p = Worker(w) \/ p = Logger(w)
  BY PlacesAre
<1> QED
  BY <1>0, <1>1, <1>2, <1>3, Finishes, HoldsAt

\* What a step of a worker or a logger does with the requests in the server.
LEMMA TaskPlaces ==
  ASSUME TypeOK, NEW w \in Workers, WorkerStep(w) \/ LoggerStep(w)
  PROVE  \/ Stay
         \/ \E s \in Places : Drop(s)
         \/ \E s, t \in Places : Move(s, t)
<1>1. {Queue(w), Nids(w), Worker(w), Logger(w)} \subseteq Places
  BY PlacesAre
<1>2. Worker(w) \in Sender /\ Logger(w) \in Sender
  BY Senders
<1>3. CASE getTransaction(w)
  BY <1>1, <1>3, GetsTransaction
<1>4. CASE CheckTimestamp(w) \/ SetTimestamp(w)
  BY <1>4, ChecksAndStamps
<1>5. CASE Execute(w)
  BY <1>1, <1>5, Executes
<1>6. CASE Notify(w)
  BY <1>1, <1>6, Notifies
<1>7. CASE getSession(Worker(w)) \/ getSession(Logger(w))
  BY <1>1, <1>2, <1>7, GetsSession
<1>8. CASE Send(Worker(w)) \/ Send(Logger(w))
  BY <1>1, <1>2, <1>8, SendDrops
<1> QED
  BY <1>3, <1>4, <1>5, <1>6, <1>7, <1>8 DEF WorkerStep, LoggerStep

\* Where tasks, queues and commits stay the same, so do the requests held.
LEMMA StayIf ==
  ASSUME UNCHANGED <<queue, task, nids>>
  PROVE  Stay
BY SameIf, PendingIf DEF Stay, SameTask

\* What the monitor reads was on the connection: a whole request, or the size of
\* one that is still being sent or whose sender has gone. It answers a request for the session id, and puts
\* anything else in a queue.
Data == IF Len(up[monitor.it]) > 1 THEN up[monitor.it][2] ELSE Empty

TellsId ==
  /\ Data.kind = "id" /\ Stay
  /\ \E found \in Lookup(monitor.it, acceptor # 0) :
       sessions' = setTimestamp(monitor.it, Data.ts, found)
  /\ down' = IF Alive(monitor.it) THEN [down EXCEPT ![monitor.it] = <<Data.n>>] ELSE down

Queues ==
  /\ \E w \in Workers : Puts(Data, Queue(w))
  /\ \A u \in Places : Pending(u)' => Pending(u)
  /\ UNCHANGED <<sessions, down>>

\* What Read does, with the invariant.
LEMMA Reads ==
  ASSUME TypeOK, Wire, SessionsOpen, Read
  PROVE  /\ monitor.it \in Clients
         /\ up[monitor.it] # <<>> /\ down[monitor.it] = <<>>
         /\ \/ Data = Empty /\ client[monitor.it].pc \in {"sending", "gone"}
            \/ /\ Len(up[monitor.it]) = 2 /\ Data = up[monitor.it][2] /\ Proper(Data, monitor.it)
               /\ client[monitor.it].pc \in {"wait", "gone"}
         /\ client[monitor.it].pc = "wait" => Data.n = client[monitor.it].n
         /\ up' = [up EXCEPT ![monitor.it] = <<>>]
         /\ TellsId \/ Queues
<1> DEFINE c == monitor.it
<1>0. /\ client \in [Clients -> ClientStates] /\ up \in [Clients -> Seq(Requests)]
      /\ down \in [Clients -> Seq(Nat)]
  BY DEF TypeOK, ConnectionTypes
<1>1. /\ c \in Clients
      /\ \/ up[c] = <<Size>>
         \/ Len(up[c]) = 2 /\ Proper(up[c][2], c)
  BY ReadData
<1>2. up[c] # <<>> /\ monitor.pc = "read"
  BY DEF Read, SessionsOpen
<1>3. WireOf(c)
  BY <1>1 DEF Wire
<1>4. Len(<<Size>>) = 1 /\ Len(<<>>) = 0
  OBVIOUS
<1>5. /\ client[c].pc \in {"sending", "wait", "gone"} /\ down[c] = <<>>
      /\ client[c].pc = "sending" => up[c] = <<Size>>
      /\ client[c].pc = "wait" => up[c] # <<Size>>
  <2>1. client[c].pc \in {"off", "connecting", "open", "sending", "wait", "prompt", "gone"}
    BY <1>0, <1>1 DEF ClientStates
  <2> QED
    BY <1>1, <1>2, <1>3, <1>4, <2>1 DEF WireOf, Alive
<1>6. \/ Data = Empty /\ client[c].pc \in {"sending", "gone"}
      \/ Len(up[c]) = 2 /\ Data = up[c][2] /\ Proper(Data, c) /\ client[c].pc \in {"wait", "gone"}
  BY <1>1, <1>2, <1>4, <1>5 DEF Data
<1>7. client[c].pc = "wait" => Data.n = client[c].n
  BY <1>2, <1>3, <1>6 DEF WireOf
<1>8. up' = [up EXCEPT ![c] = <<>>]
  <2>1. up' = [up EXCEPT ![c] = SubSeq(up[c], 3, Len(up[c]))]
    BY DEF Read
  <2>2. Len(up[c]) = 1 \/ Len(up[c]) = 2
    BY <1>1, <1>2, <1>4
  <2>3. SubSeq(up[c], 3, Len(up[c])) = <<>>
    <3>1. SubSeq(up[c], 3, 1) = <<>> /\ SubSeq(up[c], 3, 2) = <<>>
      BY SubSeqEmpty
    <3> QED
      BY <2>2, <3>1
  <2> QED
    BY <2>1, <2>3
<1>9. \/ /\ Data.kind = "id"
         /\ \E found \in Lookup(c, acceptor # 0) : sessions' = setTimestamp(c, Data.ts, found)
         /\ down' = IF Alive(c) THEN [down EXCEPT ![c] = Append(@, Data.n)] ELSE down
         /\ UNCHANGED queue
      \/ putTransaction(Data) /\ UNCHANGED <<sessions, down>>
  BY DEF Read, Data
<1>10. UNCHANGED <<task, nids>>
  BY DEF Read
<1>11. ASSUME Data.kind = "id", UNCHANGED queue,
               \E found \in Lookup(c, acceptor # 0) : sessions' = setTimestamp(c, Data.ts, found),
               down' = IF Alive(c) THEN [down EXCEPT ![c] = Append(@, Data.n)] ELSE down
       PROVE  TellsId
  <2>1. Stay
    BY <1>10, <1>11, StayIf
  <2>2. Append(down[c], Data.n) = <<Data.n>>
    BY <1>5
  <2>3. down' = IF Alive(c) THEN [down EXCEPT ![c] = <<Data.n>>] ELSE down
    BY <1>0, <1>1, <1>11, <2>2
  <2> QED
    BY <1>11, <2>1, <2>3 DEF TellsId
<1>12. ASSUME putTransaction(Data), UNCHANGED <<sessions, down>> PROVE Queues
  <2>1. PICK w \in Workers : queue' = [queue EXCEPT ![w] = Append(@, Data)]
    BY <1>12 DEF putTransaction
  <2>2. queue'[w] = Append(queue[w], Data) /\ \A v \in Workers \ {w} : queue'[v] = queue[v]
    BY <2>1 DEF TypeOK, ServerTypes
  <2>3. Holds(Queue(w))' = Append(Holds(Queue(w)), Data)
    BY <2>2, HoldsAt
  <2>4. Same(Places \ {Queue(w)})
    BY <1>10, <2>2, SameIf DEF SameTask
  <2>5. \A u \in Places : Pending(u)' => Pending(u)
    BY <1>10, PendingIf
  <2> QED
    BY <1>12, <2>3, <2>4, <2>5 DEF Puts, Queues
<1> QED
  BY <1>1, <1>2, <1>5, <1>6, <1>7, <1>8, <1>9, <1>11, <1>12

\* Every place holds a sequence of requests.
LEMMA HoldsType ==
  ASSUME TypeOK, NEW s \in Places
  PROVE  Holds(s) \in Seq(Requests)
<1>1. PICK w \in Workers : s \in {Queue(w), Nids(w), Worker(w), Logger(w)}
  BY PlacesAre
<1>2. /\ queue[w] \in Seq(Requests \ {Size}) /\ nids[w] \in Seq(Requests)
      /\ \A p \in Sender : task[p].req \in Requests
  BY DEF TypeOK, ServerTypes, Tasks
<1>3. queue[w] \in Seq(Requests)
  BY <1>2
<1>4. \A p \in Sender : <<>> \in Seq(Requests) /\ <<task[p].req>> \in Seq(Requests)
  BY <1>2
<1>5. CASE s = Queue(w) \/ s = Nids(w)
  BY <1>2, <1>3, <1>5, HoldsAt
<1>6. CASE s = Worker(w)
  BY <1>4, <1>6, HoldsAt, Senders
<1>7. CASE s = Logger(w)
  BY <1>4, <1>7, HoldsAt, Senders
<1> QED
  BY <1>1, <1>5, <1>6, <1>7

\* What is in a slot after a step was in a slot before it: o says where, and no
\* two slots get the same request.
Origin(o) ==
  /\ o \in [Slots' -> Slots]
  /\ \A x \in Slots' : /\ Item(x)' = Item(o[x])
                       /\ Pending(x[1])' => Pending(o[x][1])
                       /\ \/ x[1] = o[x][1]
                          \/ o[x][1][1] = "queue" => Item(o[x]) # Empty
  /\ \A x, y \in Slots' : o[x] = o[y] => x = y

\* A step that leaves all requests where they are has an origin for each.
LEMMA StayOrigin == TypeOK /\ Stay => \E o : Origin(o)
<1> SUFFICES ASSUME TypeOK, Stay PROVE \E o : Origin(o)
  OBVIOUS
<1> DEFINE o == [x \in Slots' |-> x]
<1>1. Slots' = Slots /\ \A x \in Slots : Item(x)' = Item(x)
  BY DEF Stay, Same, Slots, Item
<1>2. \A x \in Slots : x[1] \in Places
  BY DEF Slots
<1>3. \A x \in Slots' : o[x] = x
  OBVIOUS
<1>4. o \in [Slots' -> Slots]
  BY <1>1
<1>5. \A x \in Slots' : Pending(x[1])' => Pending(x[1])
  BY <1>1, <1>2 DEF Stay
<1> HIDE DEF o
<1>6. Origin(o)
  BY <1>1, <1>3, <1>4, <1>5 DEF Origin
<1> QED
  BY <1>6

\* So has one that drops the first request of a place; what it dropped is not one.
LEMMA DropOrigin ==
  ASSUME TypeOK, NEW s \in Places, Drop(s)
  PROVE  \E o : Origin(o) /\ \A x \in Slots' : o[x] # <<s, 1>>
<1> DEFINE f(x) == IF x[1] = s THEN <<s, x[2] + 1>> ELSE x
           o == [x \in Slots' |-> f(x)]
<1>0. Holds(s) \in Seq(Requests) /\ Holds(s) # <<>> /\ Holds(s)' = Tail(Holds(s))
  BY HoldsType DEF Drop, Drops
<1>1. /\ Len(Holds(s)') = Len(Holds(s)) - 1 /\ Len(Holds(s)) \in Nat
      /\ \A i \in 1 .. Len(Holds(s)') : Holds(s)'[i] = Holds(s)[i + 1]
  BY <1>0
<1>2. \A u \in Places \ {s} : Holds(u)' = Holds(u)
  BY DEF Drop, Drops, Same
<1>3. ASSUME NEW x \in Slots'
      PROVE  f(x) \in Slots /\ Item(x)' = Item(f(x)) /\ f(x)[1] = x[1] /\ x[1] \in Places
  <2>1. x = <<x[1], x[2]>> /\ x[1] \in Places /\ x[2] \in Nat \ {0} /\ x[2] <= Len(Holds(x[1])')
    BY <1>3 DEF Slots
  <2>2. CASE x[1] = s
    BY <1>1, <2>1, <2>2 DEF Slots, Item
  <2>3. CASE x[1] # s
    BY <1>2, <2>1, <2>3 DEF Slots, Item
  <2> QED
    BY <2>2, <2>3
<1>4. ASSUME NEW x \in Slots', NEW y \in Slots', f(x) = f(y) PROVE x = y
  <2>1. /\ x = <<x[1], x[2]>> /\ x[2] \in Nat
        /\ y = <<y[1], y[2]>> /\ y[2] \in Nat
    BY <1>4 DEF Slots
  <2> QED
    BY <1>4, <2>1
<1>5. \A x \in Slots' : o[x] = f(x)
  OBVIOUS
<1>6. \A x \in Slots' : f(x) # <<s, 1>>
  <2>1. \A x \in Slots' : x = <<x[1], x[2]>> /\ x[2] \in Nat \ {0}
    BY DEF Slots
  <2> QED
    BY <2>1
<1> HIDE DEF f
<1>7. o \in [Slots' -> Slots]
  BY <1>3
<1> HIDE DEF o
<1>8. \A u \in Places : Pending(u)' => Pending(u)
  BY DEF Drop
<1>9. Origin(o)
  BY <1>3, <1>4, <1>5, <1>7, <1>8 DEF Origin
<1> QED
  BY <1>5, <1>6, <1>9

\* So has one that moves the first request of a place to the end of another.
LEMMA MoveOrigin ==
  ASSUME TypeOK, NEW s \in Places, NEW t \in Places, Move(s, t)
  PROVE  \E o : Origin(o)
<1> DEFINE last == <<t, Len(Holds(t)) + 1>>
           f(x) == IF x[1] = s THEN <<s, x[2] + 1>> ELSE IF x = last THEN <<s, 1>> ELSE x
           o == [x \in Slots' |-> f(x)]
<1>0. /\ Holds(s) \in Seq(Requests) /\ Holds(s) # <<>> /\ Holds(s)' = Tail(Holds(s))
      /\ Holds(t) \in Seq(Requests) /\ Holds(t)' = Append(Holds(t), Head(Holds(s)))
      /\ s # t
  BY HoldsType DEF Move, Moves
<1>1. /\ Len(Holds(s)') = Len(Holds(s)) - 1 /\ Len(Holds(s)) \in Nat /\ Len(Holds(s)) > 0
      /\ \A i \in 1 .. Len(Holds(s)') : Holds(s)'[i] = Holds(s)[i + 1]
  BY <1>0
<1>2. /\ Len(Holds(t)') = Len(Holds(t)) + 1 /\ Len(Holds(t)) \in Nat
      /\ \A i \in 1 .. Len(Holds(t)) : Holds(t)'[i] = Holds(t)[i]
      /\ Holds(t)'[Len(Holds(t)) + 1] = Holds(s)[1]
  BY <1>0
<1>3. \A u \in Places \ {s, t} : Holds(u)' = Holds(u)
  BY DEF Move, Moves, Same
<1>4. ASSUME NEW x \in Slots'
      PROVE  /\ f(x) \in Slots /\ Item(x)' = Item(f(x)) /\ x[1] \in Places
             /\ x = last \/ (f(x)[1] = x[1] /\ (x[1] = t => Holds(t) # <<>>))
  <2>1. x = <<x[1], x[2]>> /\ x[1] \in Places /\ x[2] \in Nat \ {0} /\ x[2] <= Len(Holds(x[1])')
    BY <1>4 DEF Slots
  <2>2. CASE x[1] = s
    BY <1>0, <1>1, <2>1, <2>2 DEF Slots, Item
  <2>3. CASE x = last
    <3>1. f(x) = <<s, 1>>
      BY <1>0, <2>3
    <3> QED
      BY <1>1, <1>2, <2>1, <2>3, <3>1 DEF Slots, Item
  <2>4. CASE x[1] = t /\ x # last
    <3>1. f(x) = x /\ x[2] <= Len(Holds(t))
      BY <1>0, <1>2, <2>1, <2>4
    <3>2. Holds(t) # <<>>
      BY <1>2, <2>1, <3>1
    <3> QED
      BY <1>2, <2>1, <2>4, <3>1, <3>2 DEF Slots, Item
  <2>5. CASE x[1] \notin {s, t}
    BY <1>3, <2>1, <2>5 DEF Slots, Item
  <2> QED
    BY <2>2, <2>3, <2>4, <2>5
<1>5. ASSUME NEW x \in Slots', NEW y \in Slots', f(x) = f(y) PROVE x = y
  <2>1. /\ x = <<x[1], x[2]>> /\ x[2] \in Nat \ {0}
        /\ y = <<y[1], y[2]>> /\ y[2] \in Nat \ {0}
    BY <1>5 DEF Slots
  <2>2. last[1] # s
    BY <1>0
  <2> QED
    BY <1>5, <2>1, <2>2
<1>6. \A x \in Slots' : o[x] = f(x)
  OBVIOUS
<1>7. f(last) = <<s, 1>> /\ last[1] = t
  BY <1>0
<1> HIDE DEF f, last
<1>8. o \in [Slots' -> Slots]
  BY <1>4
<1> HIDE DEF o
<1>9. ASSUME NEW x \in Slots'
      PROVE  /\ Pending(x[1])' => Pending(f(x)[1])
             /\ \/ x[1] = f(x)[1]
                \/ f(x)[1][1] = "queue" => Item(f(x)) # Empty
  <2>1. CASE x = last
    <3>1. Item(<<s, 1>>) = Head(Holds(s)) /\ f(x)[1] = s
      BY <1>0, <1>7, <2>1 DEF Item
    <3> QED
      BY <1>7, <2>1, <3>1 DEF Move
  <2>2. CASE x # last
    <3>1. f(x)[1] = x[1] /\ x[1] \in Places /\ (x[1] = t => Holds(t) # <<>>)
      BY <1>4, <1>9, <2>2
    <3> QED
      BY <3>1 DEF Move
  <2> QED
    BY <2>1, <2>2
<1>10. Origin(o)
  BY <1>4, <1>5, <1>6, <1>8, <1>9 DEF Origin
<1> QED
  BY <1>10

\* A request put at the end of a place is in a new slot, the others where they were.
LEMMA PutSlots ==
  ASSUME TypeOK, NEW s \in Places, NEW r, Puts(r, s)
  PROVE  \A x \in Slots' : \/ x \in Slots /\ Item(x)' = Item(x)
                           \/ x = <<s, Len(Holds(s)) + 1>> /\ Item(x)' = r
<1> SUFFICES ASSUME NEW x \in Slots'
             PROVE  \/ x \in Slots /\ Item(x)' = Item(x)
                    \/ x = <<s, Len(Holds(s)) + 1>> /\ Item(x)' = r
  OBVIOUS
<1>0. x = <<x[1], x[2]>> /\ x[1] \in Places /\ x[2] \in Nat \ {0} /\ x[2] <= Len(Holds(x[1])')
  BY DEF Slots
<1>1. Holds(s) \in Seq(Requests) /\ Holds(s)' = Append(Holds(s), r) /\ Same(Places \ {s})
  BY HoldsType DEF Puts
<1>2. /\ Len(Holds(s)') = Len(Holds(s)) + 1 /\ Len(Holds(s)) \in Nat
      /\ \A i \in 1 .. Len(Holds(s)) : Holds(s)'[i] = Holds(s)[i]
      /\ Holds(s)'[Len(Holds(s)) + 1] = r
  BY <1>1
<1>3. CASE x[1] # s
  BY <1>0, <1>1, <1>3 DEF Same, Slots, Item
<1>4. CASE x[1] = s
  BY <1>0, <1>2, <1>4 DEF Slots, Item
<1> QED
  BY <1>3, <1>4

\* What any step does with the requests in the server.
LEMMA ServerView ==
  ASSUME TypeOK, Wire, SessionsOpen, Step
  PROVE  (\E o : Origin(o)) \/ (Read /\ Queues)
<1>1. ASSUME UNCHANGED <<queue, task, nids>> PROVE \E o : Origin(o)
  BY <1>1, StayIf, StayOrigin
<1>2. ASSUME NEW c \in Clients, Client(c) PROVE \E o : Origin(o)
  BY <1>1, <1>2, ClientSteps
<1>3. CASE Acceptor
  BY <1>1, <1>3, AcceptorFrame
<1>4. CASE MonitorBegin \/ Visit \/ Erase
  BY <1>1, <1>4 DEF MonitorBegin, Visit, Erase
<1>5. CASE Read
  BY <1>5, Reads, StayOrigin DEF TellsId
<1>6. ASSUME NEW w \in Workers, WorkerStep(w) \/ LoggerStep(w) PROVE \E o : Origin(o)
  BY <1>6, TaskPlaces, StayOrigin, DropOrigin, MoveOrigin
<1> QED
  BY <1>2, <1>3, <1>4, <1>5, <1>6 DEF Step, Monitor

\* Only an answer of the server goes to a client.
LEMMA TaskAnswers ==
  ASSUME TypeOK, NEW w \in Workers, WorkerStep(w) \/ LoggerStep(w)
  PROVE  down' = down \/ \E p \in Sender : Send(p)
BY Senders DEF WorkerStep, LoggerStep, getTransaction, CheckTimestamp, SetTimestamp, Execute,
            Notify, getSession

\* A client that waits for the server has no part in what happens, unless the
\* answer is sent to it or it goes away.
LEMMA AwaitsStep ==
  ASSUME TypeOK, Wire, SessionsOpen, Step, NEW c \in Clients, NEW r, Awaits(r, c),
         \A p \in Sender : Send(p) => task[p].req.c # c
  PROVE  Awaits(r, c)'
<1>0. /\ client \in [Clients -> ClientStates] /\ up \in [Clients -> Seq(Requests)]
      /\ down \in [Clients -> Seq(Nat)]
  BY DEF TypeOK, ConnectionTypes
<1>1. ASSUME client'[c] = client[c], up'[c] = up[c], down'[c] = down[c] PROVE Awaits(r, c)'
  BY <1>1 DEF Awaits, Proper
<1>2. ASSUME NEW d \in Clients, Client(d) PROVE Awaits(r, c)'
  <2>1. ClientView(d) /\ \A e \in Clients \ {d} : client'[e] = client[e]
    BY <1>2, ClientSteps
  <2>2. CASE d # c
    <3>1. up'[c] = up[c] /\ down'[c] = down[c]
      BY <1>0, <2>1, <2>2 DEF ClientView, Types, Sends, Pays, Receives, Quits
    <3> QED
      BY <1>1, <2>1, <2>2, <3>1
  <2>3. CASE d = c
    <3>1. Quits(c)
      BY <2>1, <2>3 DEF ClientView, Types, Sends, Pays, Receives, Awaits
    <3>2. client'[c].pc = "gone" /\ up'[c] = <<>> /\ down'[c] = <<>>
      BY <1>0, <3>1 DEF Quits, Awaits
    <3> QED
      BY <3>2 DEF Awaits, Proper
  <2> QED
    BY <2>2, <2>3
<1>3. CASE Acceptor
  <2>1. client'[c] = client[c]
    BY <1>0, <1>3 DEF Acceptor, Accept, addSession, Awaits
  <2> QED
    BY <1>1, <1>3, <2>1, AcceptorFrame
<1>4. CASE MonitorBegin \/ Visit \/ Erase
  BY <1>1, <1>4 DEF MonitorBegin, Visit, Erase
<1>5. CASE Read
  <2>1. monitor.it # c
    BY <1>5, Reads DEF Awaits
  <2>2. up'[c] = up[c] /\ down'[c] = down[c]
    BY <1>0, <1>5, <2>1, Reads DEF TellsId, Queues
  <2> QED
    BY <1>1, <1>5, <2>2 DEF Read
<1>6. ASSUME NEW w \in Workers, WorkerStep(w) \/ LoggerStep(w) PROVE Awaits(r, c)'
  <2>1. UNCHANGED <<client, up>>
    BY <1>6, TaskFrame
  <2>2. CASE down' = down
    BY <1>1, <2>1, <2>2
  <2>3. ASSUME NEW p \in Sender, Send(p) PROVE Awaits(r, c)'
    <3>1. task[p].req.c # c
      BY <2>3
    <3>2. down'[c] = down[c]
      BY <1>0, <2>3, <3>1 DEF Send
    <3> QED
      BY <1>1, <2>1, <3>2
  <2> QED
    BY <1>6, <2>2, <2>3, TaskAnswers
<1> QED
  BY <1>2, <1>3, <1>4, <1>5, <1>6 DEF Step, Monitor

\* A place with one request has one slot.
LEMMA OnlySlot ==
  ASSUME NEW s \in Places, NEW r, Holds(s) = <<r>>
  PROVE  <<s, 1>> \in Slots /\ Item(<<s, 1>>) = r
<1>1. Len(<<r>>) = 1 /\ <<r>>[1] = r
  OBVIOUS
<1>2. <<s, 1>> \in Places \X (Nat \ {0}) /\ <<s, 1>>[1] = s /\ <<s, 1>>[2] = 1
  OBVIOUS
<1>3. Len(Holds(s)) = 1 /\ Holds(s)[1] = r
  BY <1>1
<1>4. Item(<<s, 1>>) = r
  BY <1>2, <1>3 DEF Item
<1>5. <<s, 1>> \in Slots
  <2>1. PICK x : x = <<s, 1>>
    OBVIOUS
  <2>2. x \in Places \X (Nat \ {0}) /\ x[1] = s /\ x[2] = 1
    BY <1>2, <2>1
  <2>3. x \in Slots
    BY <1>3, <2>2 DEF Slots
  <2> QED
    BY <2>1, <2>3
<1> QED
  BY <1>4, <1>5

\* The requests in the server keep waiting for their answer.
LEMMA HeldStep == TypeOK /\ Wire /\ Held /\ OneRequest /\ SessionsOpen /\ Step => Held'
<1> SUFFICES ASSUME TypeOK, Wire, Held, OneRequest, SessionsOpen, Step,
                    NEW x \in Slots'
             PROVE  HeldBy(Item(x), x[1])'
  BY DEF Held
<1>0. \A r, c : Awaits(r, c) => r.c = c
  BY DEF Awaits, Proper
<1>00. 0 \notin Clients
  BY ClientServerAssumption DEF Clients
<1>1. ASSUME NEW o, Origin(o), \A p \in Sender : Send(p) => o[x] # <<p, 1>>
      PROVE  HeldBy(Item(x), x[1])'
  <2>1. /\ o[x] \in Slots /\ Item(x)' = Item(o[x])
        /\ x[1] = o[x][1] \/ (o[x][1][1] = "queue" => Item(o[x]) # Empty)
    BY <1>1 DEF Origin
  <2>2. HeldBy(Item(o[x]), o[x][1])
    BY <2>1 DEF Held
  <2>3. CASE Item(o[x]) = Empty /\ o[x][1][1] = "queue"
    BY <2>1, <2>3 DEF HeldBy
  <2>4. ASSUME NEW c \in Clients, Awaits(Item(o[x]), c) PROVE HeldBy(Item(x), x[1])'
    <3>1. ASSUME NEW p \in Sender, Send(p) PROVE task[p].req.c # c
      <4>1. p \in Places /\ Holds(p) = <<task[p].req>>
        BY <3>1, SendDrops
      <4>2. <<p, 1>> \in Slots /\ Item(<<p, 1>>) = task[p].req
        BY <4>1, OnlySlot
      <4>3. o[x] # <<p, 1>>
        BY <1>1, <3>1
      <4> QED
        BY <1>0, <1>00, <2>1, <2>4, <4>2, <4>3 DEF OneRequest
    <3>2. PICK r : r = Item(o[x])
      OBVIOUS
    <3>3. Awaits(r, c)
      BY <2>4, <3>2
    <3>4. Awaits(r, c)'
      BY <3>1, <3>3, AwaitsStep
    <3> QED
      BY <2>1, <3>2, <3>4 DEF HeldBy
  <2> QED
    BY <2>2, <2>3, <2>4 DEF HeldBy
<1>2. ASSUME NEW p \in Sender, Send(p) PROVE HeldBy(Item(x), x[1])'
  <2>1. PICK o : Origin(o) /\ \A y \in Slots' : o[y] # <<p, 1>>
    BY <1>2, SendDrops, DropOrigin
  <2>2. \A q \in Sender : Send(q) => q = p
    <3>1. task \in [Sender -> Tasks] /\ Idle.pc = "idle"
      BY DEF TypeOK, ServerTypes, Idle
    <3> QED
      BY <1>2, <3>1 DEF Send
  <2> QED
    BY <1>1, <2>1, <2>2
<1>3. CASE Read /\ Queues
  <2>1. PICK w \in Workers : Puts(Data, Queue(w))
    BY <1>3 DEF Queues
  <2>2. Queue(w) \in Places
    BY PlacesAre
  <2>3. PICK r : r = Data
    OBVIOUS
  <2>4. \/ x \in Slots /\ Item(x)' = Item(x)
        \/ x = <<Queue(w), Len(Holds(Queue(w))) + 1>> /\ Item(x)' = r
    BY <2>1, <2>2, <2>3, PutSlots
  <2>5. CASE x \in Slots /\ Item(x)' = Item(x)
    <3>1. PICK q : q = Item(x)
      OBVIOUS
    <3>2. CASE q = Empty /\ x[1][1] = "queue"
      BY <2>5, <3>1, <3>2 DEF HeldBy
    <3>3. ASSUME NEW c \in Clients, Awaits(q, c) PROVE HeldBy(Item(x), x[1])'
      <4>1. \A p \in Sender : ~Send(p)
        <5>1. \A p \in Sender : Send(p) => monitor' = monitor
          BY DEF Send
        <5>2. monitor' # monitor
          BY <1>3 DEF Read
        <5> QED
          BY <5>1, <5>2
      <4>2. Awaits(q, c)'
        BY <3>3, <4>1, AwaitsStep
      <4> QED
        BY <2>5, <3>1, <4>2 DEF HeldBy
    <3> QED
      BY <2>5, <3>1, <3>2, <3>3 DEF Held, HeldBy
  <2>6. CASE x = <<Queue(w), Len(Holds(Queue(w))) + 1>> /\ Item(x)' = r
    <3>1. x[1][1] = "queue"
      BY <2>6 DEF Queue
    <3>2. CASE r = Empty
      BY <2>6, <3>1, <3>2 DEF HeldBy
    <3>3. CASE r # Empty
      <4>1. /\ Proper(r, monitor.it) /\ monitor.it \in Clients /\ UNCHANGED client
            /\ client[monitor.it].pc \in {"wait", "gone"}
            /\ client[monitor.it].pc = "wait" => r.n = client[monitor.it].n
        BY <1>3, <2>3, <3>3, Reads, MonitorFrame DEF Monitor
      <4>2. up'[monitor.it] = <<>> /\ down'[monitor.it] = <<>>
        BY <1>3, Reads DEF Queues, TypeOK, ConnectionTypes
      <4>3. PICK c \in Clients : c = monitor.it
        BY <4>1
      <4>4. Awaits(r, c)'
        BY <4>1, <4>2, <4>3 DEF Awaits, Proper
      <4> QED
        BY <2>6, <4>4 DEF HeldBy
    <3> QED
      BY <3>2, <3>3
  <2> QED
    BY <2>4, <2>5, <2>6
<1>4. CASE \A p \in Sender : ~Send(p)
  BY <1>1, <1>3, <1>4, ServerView
<1> QED
  BY <1>2, <1>4

\* No client gets a second request into the server.
LEMMA OneRequestStep == TypeOK /\ Wire /\ Held /\ OneRequest /\ SessionsOpen /\ Step => OneRequest'
<1> SUFFICES ASSUME TypeOK, Wire, Held, OneRequest, SessionsOpen, Step,
                    NEW x \in Slots', NEW y \in Slots',
                    Item(x)'.c = Item(y)'.c, Item(x)'.c # 0
             PROVE  x = y
  BY DEF OneRequest
<1>1. ASSUME NEW o, Origin(o) PROVE x = y
  BY <1>1 DEF Origin, OneRequest
<1>2. CASE Read /\ Queues
  <2>1. PICK w \in Workers : Puts(Data, Queue(w))
    BY <1>2 DEF Queues
  <2>2. Queue(w) \in Places
    BY PlacesAre
  <2> DEFINE new == <<Queue(w), Len(Holds(Queue(w))) + 1>>
  <2>3. \A z \in Slots' : (z \in Slots /\ Item(z)' = Item(z)) \/ (z = new /\ Item(z)' = Data)
    BY <2>1, <2>2, PutSlots
  <2> HIDE DEF new
  <2>4. Data.c # 0 => \A z \in Slots : Item(z).c # Data.c
    <3> SUFFICES ASSUME Data.c # 0, NEW z \in Slots PROVE Item(z).c # Data.c
      OBVIOUS
    <3>1. Empty.c = 0
      BY DEF Empty, Size
    <3>2. Proper(Data, monitor.it) /\ up[monitor.it] # <<>>
      BY <1>2, <3>1, Reads
    <3>3. Data.c = monitor.it
      BY <3>2 DEF Proper
    <3>4. HeldBy(Item(z), z[1])
      BY DEF Held
    <3>5. ASSUME NEW c \in Clients, Awaits(Item(z), c) PROVE Item(z).c # monitor.it
      BY <3>2, <3>5 DEF Awaits, Proper
    <3> QED
      BY <3>1, <3>3, <3>4, <3>5 DEF HeldBy
  <2> QED
    BY <2>3, <2>4 DEF OneRequest
<1> QED
  BY <1>1, <1>2, ServerView

\* What is sent is the answer to a request that waits for it.
LEMMA SendAwaits ==
  ASSUME Held, NEW p \in Sender, task[p].pc # "idle"
  PROVE  /\ p \in Places /\ <<p, 1>> \in Slots /\ Item(<<p, 1>>) = task[p].req
         /\ \E c \in Clients : Awaits(task[p].req, c)
<1>1. PICK w \in Workers : p = Worker(w) \/ p = Logger(w)
  BY PlacesAre
<1>2. p \in Places /\ Holds(p) = <<task[p].req>> /\ p[1] # "queue"
  <2>1. p[1] # "queue"
    BY <1>1 DEF Worker, Logger
  <2> QED
    BY <1>1, <2>1, PlacesAre, HoldsAt
<1>3. <<p, 1>> \in Slots /\ Item(<<p, 1>>) = task[p].req
  BY <1>2, OnlySlot
<1>4. HeldBy(task[p].req, p)
  <2>1. <<p, 1>>[1] = p
    OBVIOUS
  <2> QED
    BY <1>3, <2>1 DEF Held
<1> QED
  BY <1>2, <1>3, <1>4 DEF HeldBy

\* The connections stay in step with the clients.
LEMMA WireStep == TypeOK /\ Wire /\ Held /\ SessionsOpen /\ Step => Wire'
<1> SUFFICES ASSUME TypeOK, Wire, Held, SessionsOpen, Step, NEW c \in Clients PROVE WireOf(c)'
  BY DEF Wire
<1>0. /\ client \in [Clients -> ClientStates] /\ up \in [Clients -> Seq(Requests)]
      /\ down \in [Clients -> Seq(Nat)]
  BY DEF TypeOK, ConnectionTypes
<1>a. WireOf(c)
  BY DEF Wire
<1>1. ASSUME client'[c] = client[c], up'[c] = up[c], down'[c] = down[c] PROVE WireOf(c)'
  BY <1>1, <1>a DEF WireOf, OnWire, Proper
<1>2. ASSUME NEW d \in Clients, Client(d) PROVE WireOf(c)'
  <2>1. ClientView(d) /\ \A e \in Clients \ {d} : client'[e] = client[e]
    BY <1>2, ClientSteps
  <2>2. CASE d # c
    <3>1. up'[c] = up[c] /\ down'[c] = down[c]
      BY <1>0, <2>1, <2>2 DEF ClientView, Types, Sends, Pays, Receives, Quits
    <3> QED
      BY <1>1, <2>1, <2>2, <3>1
  <2>3. CASE Types(c)
    <3>1. up'[c] = <<>> /\ down'[c] = <<>>
      BY <1>0, <1>a, <2>3 DEF Types, WireOf
    <3> QED
      BY <1>a, <2>3, <3>1 DEF Types, WireOf
  <2>4. CASE Sends(c)
    <3>1. up'[c] = Append(<<>>, Size) /\ down'[c] = <<>>
      BY <1>0, <1>a, <2>4 DEF Sends, WireOf
    <3>2. up'[c] = <<Size>>
      BY <3>1
    <3> QED
      BY <2>4, <3>1, <3>2 DEF Sends, WireOf, OnWire, Proper
  <2>5. CASE Pays(c)
    <3>1. /\ \/ up'[c] = Append(<<Size>>, client[c].out)
             \/ up'[c] = Append(<<>>, client[c].out)
          /\ down'[c] = <<>>
      BY <1>0, <1>a, <2>5 DEF Pays, WireOf
    <3>2. Proper(client[c].out, c) /\ client[c].out.n = client[c].n
      BY <1>a, <2>5 DEF Pays, WireOf
    <3>3. \/ Len(up'[c]) = 2 /\ up'[c][2] = client[c].out
          \/ Len(up'[c]) = 1 /\ up'[c][1] = client[c].out
      <4>1. \A r : /\ Len(Append(<<Size>>, r)) = 2 /\ Append(<<Size>>, r)[2] = r
                   /\ Len(Append(<<>>, r)) = 1 /\ Append(<<>>, r)[1] = r
        OBVIOUS
      <4> QED
        BY <3>1, <4>1
    <3>4. client[c].out # Size /\ Len(<<Size>>) = 1 /\ <<Size>>[1] = Size
      BY <3>2 DEF Proper, Size
    <3>5. up'[c] # <<Size>>
      BY <3>3, <3>4
    <3>6. client'[c].pc = "wait" /\ client'[c].n = client[c].n
      BY <2>5 DEF Pays
    <3>7. OnWire(up[c], c)'
      BY <3>2, <3>3 DEF OnWire, Proper
    <3> QED
      BY <3>1, <3>2, <3>3, <3>5, <3>6, <3>7 DEF WireOf
  <2>6. CASE Receives(c)
    <3>1. up'[c] = <<>> /\ down'[c] = Tail(<<client[c].n>>)
      <4>1. down[c] = <<client[c].n>> /\ up[c] = <<>>
        BY <1>a, <2>6 DEF Receives, WireOf
      <4> QED
        BY <1>0, <2>6, <4>1 DEF Receives
    <3>2. down'[c] = <<>>
      BY <3>1
    <3> QED
      BY <2>6, <3>1, <3>2 DEF Receives, WireOf, OnWire
  <2>7. CASE Quits(c)
    <3>1. up'[c] = up[c] /\ down'[c] = <<>> /\ client'[c].pc = "gone"
      BY <1>0, <2>7 DEF Quits
    <3> QED
      BY <1>a, <3>1 DEF WireOf, OnWire, Proper
  <2> QED
    BY <2>1, <2>2, <2>3, <2>4, <2>5, <2>6, <2>7 DEF ClientView
<1>3. CASE Acceptor
  <2>1. UNCHANGED <<up, down>>
    BY <1>3, AcceptorFrame
  <2>2. CASE client'[c] = client[c]
    BY <1>1, <2>1, <2>2
  <2>3. CASE Accept(c)
    <3>1. /\ client[c].pc = "connecting" /\ client'[c].pc = "open"
          /\ client'[c].n = client[c].n /\ client'[c].last = client[c].last
      BY <1>0, <2>3 DEF Accept, ClientStates
    <3> QED
      BY <1>a, <2>1, <3>1 DEF WireOf
  <2> QED
    BY <1>0, <1>3, <2>2, <2>3 DEF Acceptor, Accept, addSession
<1>4. CASE MonitorBegin \/ Visit \/ Erase
  BY <1>1, <1>4 DEF MonitorBegin, Visit, Erase
<1>5. CASE Read
  <2>1. UNCHANGED client
    BY <1>5 DEF Read
  <2>2. CASE monitor.it # c
    <3>1. up'[c] = up[c] /\ down'[c] = down[c]
      BY <1>0, <1>5, <2>2, Reads DEF TellsId, Queues
    <3> QED
      BY <1>1, <2>1, <3>1
  <2>3. CASE monitor.it = c
    <3>1. /\ client[c].pc \in {"sending", "wait", "gone"} /\ up'[c] = <<>>
          /\ client[c].pc = "wait" => Data.n = client[c].n
      BY <1>0, <1>5, <2>3, Reads
    <3>2. down'[c] = <<>> \/ (client[c].pc = "wait" /\ down'[c] = <<Data.n>>)
      <4>1. CASE Queues
        BY <1>5, <2>3, <4>1, Reads DEF Queues
      <4>2. CASE TellsId
        <5>1. Data # Empty
          BY <4>2 DEF TellsId, Empty, Size
        <5>2. client[c].pc \in {"wait", "gone"} /\ down[c] = <<>>
          BY <1>5, <2>3, <5>1, Reads
        <5> QED
          BY <1>0, <2>3, <4>2, <5>2 DEF TellsId, Alive
      <4> QED
        BY <1>5, <4>1, <4>2, Reads
    <3>3. client[c].pc = "sending" => Proper(client[c].out, c) /\ client[c].out.n = client[c].n
      BY <1>a DEF WireOf
    <3> QED
      BY <2>1, <3>1, <3>2, <3>3 DEF WireOf, OnWire, Proper
  <2> QED
    BY <2>2, <2>3
<1>6. ASSUME NEW w \in Workers, WorkerStep(w) \/ LoggerStep(w) PROVE WireOf(c)'
  <2>1. UNCHANGED <<client, up>>
    BY <1>6, TaskFrame
  <2>2. CASE down' = down
    BY <1>1, <2>1, <2>2
  <2>3. ASSUME NEW p \in Sender, Send(p) PROVE WireOf(c)'
    <3>1. PICK d \in Clients : Awaits(task[p].req, d)
      BY <2>3, SendAwaits DEF Send
    <3>2. task[p].req.c = d
      BY <3>1 DEF Awaits, Proper
    <3>3. \/ down' = down
          \/ Alive(d) /\ down' = [down EXCEPT ![d] = Append(@, task[p].req.n)]
      BY <2>3, <3>2 DEF Send
    <3>4. CASE d # c
      BY <1>0, <1>1, <2>1, <3>3, <3>4
    <3>5. CASE d = c
      <4>1. /\ client[c].pc \in {"wait", "gone"} /\ up[c] = <<>> /\ down[c] = <<>>
            /\ client[c].pc = "wait" => task[p].req.n = client[c].n
        BY <3>1, <3>5 DEF Awaits
      <4>2. down'[c] = <<>> \/ (client[c].pc = "wait" /\ down'[c] = Append(<<>>, client[c].n))
        BY <1>0, <3>3, <3>5, <4>1 DEF Alive
      <4>3. down'[c] = <<>> \/ (client[c].pc = "wait" /\ down'[c] = <<client[c].n>>)
        BY <4>2
      <4> QED
        BY <2>1, <4>1, <4>3 DEF WireOf, OnWire
    <3> QED
      BY <3>4, <3>5
  <2> QED
    BY <1>6, <2>2, <2>3, TaskAnswers
<1> QED
  BY <1>2, <1>3, <1>4, <1>5, <1>6 DEF Step, Monitor

\* Sessions are of clients that have connected, and the monitor has data to read.
LEMMA SessionsOpenStep == TypeOK /\ SessionsOpen /\ Step => SessionsOpen'
<1> SUFFICES ASSUME TypeOK, SessionsOpen, Step PROVE SessionsOpen'
  OBVIOUS
<1>0. /\ client \in [Clients -> ClientStates] /\ up \in [Clients -> Seq(Requests)]
      /\ monitor \in [it : Clients \cup {End}, pc : {"visit", "read", "erase"}]
      /\ monitor.it \in DOMAIN sessions \cup {End}
      /\ monitor.pc # "visit" => monitor.it \in Clients
      /\ 0 \notin Clients /\ acceptor \in Clients \cup {0}
  BY ClientServerAssumption DEF TypeOK, ConnectionTypes, SessionTypes, Clients
<1>a. \A c \in Clients : c \in DOMAIN sessions \/ acceptor = c => client[c].pc \notin {"off", "connecting"}
  BY DEF SessionsOpen
<1>b. monitor.pc = "read" => up[monitor.it] # <<>>
  BY DEF SessionsOpen
<1>1. ASSUME NEW d \in Clients, Client(d) PROVE SessionsOpen'
  <2>1. /\ ClientView(d) /\ \A e \in Clients \ {d} : client'[e] = client[e]
        /\ UNCHANGED <<sessions, acceptor, monitor>>
    BY <1>1, ClientSteps
  <2>2. \A c \in Clients : client[c].pc \notin {"off", "connecting"} => client'[c].pc \notin {"off", "connecting"}
    BY <2>1 DEF ClientView, Types, Sends, Pays, Receives, Quits
  <2>3. \A c \in Clients : client[c].pc = "gone" => client'[c].pc = "gone"
    BY <2>1 DEF ClientView, Types, Sends, Pays, Receives, Quits
  <2>4. \A c \in Clients : up[c] # <<>> => up'[c] # <<>>
    <3>1. UNCHANGED up \/ \E r : up' = [up EXCEPT ![d] = Append(@, r)]
      BY <2>1 DEF ClientView, Types, Sends, Pays, Receives, Quits
    <3>2. \A r : Append(up[d], r) # <<>>
      <4>1. up[d] \in Seq(Requests)
        BY <1>0
      <4>2. \A r : Len(Append(up[d], r)) = Len(up[d]) + 1 /\ Len(up[d]) \in Nat
        BY <4>1
      <4>3. Len(<<>>) = 0
        OBVIOUS
      <4> QED
        BY <4>2, <4>3
    <3> QED
      BY <1>0, <3>1, <3>2
  <2> QED
    BY <1>0, <1>a, <1>b, <2>1, <2>2, <2>3, <2>4 DEF SessionsOpen
<1>2. CASE Acceptor
  <2>1. UNCHANGED <<up, monitor>>
    BY <1>2, AcceptorFrame
  <2>2. \A c \in Clients : /\ client[c].pc = "gone" => client'[c].pc = "gone"
                           /\ client[c].pc \notin {"off", "connecting"} => client'[c].pc \notin {"off", "connecting"}
    <3>1. ASSUME NEW d \in Clients, Accept(d)
          PROVE  /\ client[d].pc = "connecting" /\ client'[d].pc = "open"
                 /\ \A e \in Clients \ {d} : client'[e] = client[e]
      BY <1>0, <3>1 DEF Accept, ClientStates
    <3>2. CASE addSession
      BY <3>2 DEF addSession
    <3> QED
      BY <1>2, <3>1, <3>2 DEF Acceptor
  <2>3. \A c \in Clients : c \in DOMAIN sessions' \/ acceptor' = c => client'[c].pc \notin {"off", "connecting"}
    <3>1. ASSUME NEW d \in Clients, Accept(d), NEW c \in Clients, c \in DOMAIN sessions' \/ acceptor' = c
          PROVE  client'[c].pc \notin {"off", "connecting"}
      <4>1. acceptor' = d /\ UNCHANGED sessions /\ client'[d].pc = "open"
        BY <1>0, <3>1 DEF Accept, ClientStates
      <4> QED
        BY <1>a, <2>2, <3>1, <4>1
    <3>2. CASE addSession
      <4>1. DOMAIN sessions' = DOMAIN sessions \cup {acceptor} /\ acceptor' = 0
        BY <3>2 DEF addSession
      <4> QED
        BY <1>0, <1>a, <2>2, <4>1
    <3> QED
      BY <1>2, <3>1, <3>2 DEF Acceptor
  <2> QED
    BY <1>0, <1>b, <2>1, <2>2, <2>3 DEF SessionsOpen
<1>3. CASE MonitorBegin
  <2>1. UNCHANGED <<client, sessions, acceptor>> /\ monitor'.pc = "visit"
    BY <1>0, <1>3 DEF MonitorBegin
  <2> QED
    BY <1>a, <2>1 DEF SessionsOpen
<1>4. CASE Visit
  <2>1. UNCHANGED <<client, up, sessions, acceptor>> /\ monitor.it # End
    BY <1>4 DEF Visit
  <2>2. \/ monitor'.it = monitor.it /\ monitor'.pc = "read" /\ up[monitor.it] # <<>>
        \/ monitor'.pc \in {"erase", "visit"}
    BY <1>0, <1>4 DEF Visit, Ends
  <2> QED
    BY <1>a, <2>1, <2>2 DEF SessionsOpen
<1>5. CASE Erase
  <2>1. /\ DOMAIN sessions' \subseteq DOMAIN sessions /\ UNCHANGED client
        /\ monitor'.pc = "visit" /\ (acceptor' = acceptor \/ acceptor' = 0)
    BY <1>5 DEF Erase
  <2> QED
    BY <1>0, <1>a, <2>1 DEF SessionsOpen
<1>6. CASE Read
  <2>1. UNCHANGED <<client, acceptor>> /\ monitor'.pc = "visit"
    BY <1>6 DEF Read
  <2>2. DOMAIN sessions' = DOMAIN sessions
    BY <1>6 DEF Read, setTimestamp
  <2> QED
    BY <1>a, <2>1, <2>2 DEF SessionsOpen
<1>7. ASSUME NEW w \in Workers, WorkerStep(w) \/ LoggerStep(w) PROVE SessionsOpen'
  <2>1. UNCHANGED <<client, up, acceptor, monitor>>
    BY <1>7, TaskFrame
  <2>2. DOMAIN sessions' = DOMAIN sessions
    BY <1>7 DEF WorkerStep, LoggerStep, getTransaction, CheckTimestamp, SetTimestamp, Execute,
                Notify, getSession, Send, setTimestamp
  <2> QED
    BY <1>a, <1>b, <2>1, <2>2 DEF SessionsOpen
<1> QED
  BY <1>1, <1>2, <1>3, <1>4, <1>5, <1>6, <1>7 DEF Step, Acceptor, Monitor

-----------------------------------------------------------------------------
(* Timestamps                                                              *)

Stamp == Times \cup {NoTime}

\* The order of timestamps; 0 comes before all that a clock says.
LEMMA TimeOrder ==
  ASSUME NEW t \in Stamp, NEW u \in Stamp, NEW v \in Stamp
  PROVE  /\ Newer(t, u) /\ NotAfter(v, u) => Newer(t, v)
         /\ NotAfter(t, u) /\ NotAfter(u, v) => NotAfter(t, v)
         /\ NotAfter(t, t) /\ NotAfter(NoTime, t)
         /\ Newer(t, u) => NotAfter(u, t)
         /\ ~Newer(t, u) => NotAfter(t, u)
         /\ t \in Times => Newer(t, NoTime)
<1>1. \A x \in Stamp : x[1] \in Nat /\ x[2] \in Nat /\ (x \in Times => x[1] > 0)
  BY ClientServerAssumption DEF Stamp, NoTime
<1>2. NoTime[1] = 0 /\ NoTime[2] = 0
  BY DEF NoTime
<1> QED
  BY <1>1, <1>2 DEF Newer, NotAfter

\* A request that is newer than the session is newer than any mix of its parts
\* with the 0 of a lookup that failed.
LEMMA NewerThanParts ==
  ASSUME NEW t \in Times, NEW u \in Stamp, Newer(t, u),
         NEW a \in {0, u[1]}, NEW b \in {0, u[2]}
  PROVE  Newer(t, <<a, b>>)
<1>1. t[1] \in Nat /\ t[2] \in Nat /\ t[1] > 0 /\ u[1] \in Nat /\ u[2] \in Nat
  BY ClientServerAssumption DEF Stamp, NoTime
<1> QED
  BY <1>1 DEF Newer

\* What has been sent and what is kept has a timestamp.
LEMMA StampsAre ==
  ASSUME TypeOK
  PROVE  /\ \A c \in DOMAIN sessions : sessions[c] \in Stamp /\ c \in Clients
         /\ \A c \in Clients : client[c].last \in Stamp
         /\ \A r, c : Proper(r, c) => r.ts \in Stamp
BY DEF TypeOK, SessionTypes, ConnectionTypes, ClientStates, Stamp, Proper

\* The session of c gets the timestamp ts of a request of c: no other request of
\* c is left that would be compared with it.
Stamped(c, ts) ==
  /\ ts \in Times /\ (Alive(c) => NotAfter(ts, client[c].last))
  /\ client'[c] = client[c] /\ client[c].pc \in {"wait", "gone"} /\ up'[c] = <<>>
  /\ \A x \in Slots' : Item(x)'.c = c => ~Pending(x[1])'

\* The timestamp of a session in the map after a step is the one it had, that of
\* a new session, or that of a request.
Kept(c) == sessions'[c] = NoTime \/ (c \in DOMAIN sessions /\ sessions'[c] = sessions[c])

\* The monitor stamps a session when it tells the client its id: the client has no
\* other request in the server.
LEMMA IdStamped ==
  ASSUME TypeOK, Wire, Held, Stamps, SessionsOpen, Read, TellsId
  PROVE  Stamped(monitor.it, Data.ts)
<1> DEFINE c == monitor.it
<1>0. Data.kind = "id" /\ Stay
  BY DEF TellsId
<1>1. Empty.kind = "empty"
  BY DEF Empty, Size
<1>2. /\ c \in Clients /\ client[c].pc \in {"wait", "gone"} /\ up[c] # <<>>
      /\ Len(up[c]) = 2 /\ Data = up[c][2] /\ Proper(Data, c)
      /\ up' = [up EXCEPT ![c] = <<>>]
  BY <1>0, <1>1, Reads
<1>3. up'[c] = <<>>
  BY <1>2 DEF TypeOK, ConnectionTypes
<1>4. Data.ts \in Times /\ (Alive(c) => NotAfter(Data.ts, client[c].last))
  BY <1>2 DEF Stamps, Proper
<1>5. UNCHANGED client
  BY DEF Read
<1>6. ASSUME NEW x \in Slots', Item(x)'.c = c PROVE FALSE
  <2>1. x \in Slots /\ Item(x)' = Item(x)
    BY <1>0, <1>6 DEF Stay, Same, Slots, Item
  <2>2. HeldBy(Item(x), x[1])
    BY <2>1 DEF Held
  <2>3. Empty.c = 0 /\ 0 \notin Clients
    BY ClientServerAssumption DEF Empty, Size, Clients
  <2>4. PICK d \in Clients : Awaits(Item(x), d)
    BY <1>2, <1>6, <2>1, <2>2, <2>3 DEF HeldBy
  <2>5. d = c
    BY <1>6, <2>1, <2>4 DEF Awaits, Proper
  <2> QED
    BY <1>2, <2>4, <2>5 DEF Awaits
<1> QED
  BY <1>2, <1>3, <1>4, <1>5, <1>6 DEF Stamped

\* A worker stamps a session with the only request of its client.
LEMMA RequestStamped ==
  ASSUME TypeOK, Held, OneRequest, HeldStamps, NEW w \in Workers, SetTimestamp(w)
  PROVE  Stamped(task[Worker(w)].req.c, task[Worker(w)].req.ts)
<1> DEFINE req == task[Worker(w)].req
<1>0. Worker(w) \in Sender /\ task[Worker(w)].pc = "stamp" /\ UNCHANGED <<client, up>>
  BY Senders DEF SetTimestamp
<1>1. /\ Worker(w) \in Places /\ <<Worker(w), 1>> \in Slots /\ Item(<<Worker(w), 1>>) = req
      /\ \E c \in Clients : Awaits(req, c)
  BY <1>0, SendAwaits
<1>2. PICK c \in Clients : Awaits(req, c)
  BY <1>1
<1>3. /\ req.c = c /\ req.ts \in Times
      /\ client[c].pc \in {"wait", "gone"} /\ up[c] = <<>>
  BY <1>2 DEF Awaits, Proper
<1>4. c # 0
  BY ClientServerAssumption DEF Clients
<1>5. Alive(c) => NotAfter(req.ts, client[c].last)
  BY <1>1, <1>3, <1>4 DEF HeldStamps
<1>6. Stay
  BY ChecksAndStamps
<1>7. task'[Worker(w)].pc # "check"
  <2>1. task \in [Sender -> Tasks] /\ task[Worker(w)] \in Tasks
    BY <1>0 DEF TypeOK, ServerTypes
  <2> QED
    BY <1>0, <2>1 DEF SetTimestamp, Tasks
<1> HIDE DEF req
<1>8. ASSUME NEW x \in Slots', Item(x)'.c = c PROVE ~Pending(x[1])'
  <2>1. x \in Slots /\ Item(x)' = Item(x)
    BY <1>6, <1>8 DEF Stay, Same, Slots, Item
  <2>2. x = <<Worker(w), 1>>
    BY <1>1, <1>3, <1>4, <1>8, <2>1 DEF OneRequest
  <2>3. x[1] = Worker(w)
    BY <2>2
  <2> QED
    BY <1>7, <2>3, PendingAre
<1> USE DEF req
<1> QED
  BY <1>0, <1>3, <1>5, <1>8 DEF Stamped

\* There are no other changes of a timestamp.
LEMMA SessionView ==
  ASSUME TypeOK, Wire, Held, OneRequest, Stamps, HeldStamps, SessionsOpen, Step,
         NEW c \in DOMAIN sessions'
  PROVE  Kept(c) \/ Stamped(c, sessions'[c])
<1>1. CASE UNCHANGED sessions
  BY <1>1 DEF Kept
<1>2. CASE Acceptor
  BY <1>2 DEF Acceptor, Accept, addSession, Kept
<1>3. CASE Erase
  BY <1>3 DEF Erase, Kept
<1>4. CASE MonitorBegin \/ Visit
  BY <1>1, <1>4 DEF MonitorBegin, Visit
<1>5. CASE Read
  <2>1. CASE TellsId
    <3>1. PICK found \in Lookup(monitor.it, acceptor # 0) : sessions' = setTimestamp(monitor.it, Data.ts, found)
      BY <2>1 DEF TellsId
    <3>2. Stamped(monitor.it, Data.ts)
      BY <1>5, <2>1, IdStamped
    <3>3. Kept(c) \/ (c = monitor.it /\ sessions'[c] = Data.ts)
      BY <3>1 DEF setTimestamp, Kept
    <3> QED
      BY <3>2, <3>3
  <2> QED
    BY <1>1, <1>5, <2>1, Reads DEF Queues
<1>6. ASSUME NEW w \in Workers, SetTimestamp(w) PROVE Kept(c) \/ Stamped(c, sessions'[c])
  <2> DEFINE req == task[Worker(w)].req
  <2>1. PICK found \in Lookup(req.c, MapBusy) : sessions' = setTimestamp(req.c, req.ts, found)
    BY <1>6 DEF SetTimestamp
  <2>2. Stamped(req.c, req.ts)
    BY <1>6, RequestStamped
  <2>3. Kept(c) \/ (c = req.c /\ sessions'[c] = req.ts)
    BY <2>1 DEF setTimestamp, Kept
  <2> QED
    BY <2>2, <2>3
<1>7. ASSUME NEW w \in Workers, WorkerStep(w) \/ LoggerStep(w) PROVE Kept(c) \/ Stamped(c, sessions'[c])
  <2>1. UNCHANGED sessions \/ SetTimestamp(w)
    BY <1>7 DEF WorkerStep, LoggerStep, getTransaction, CheckTimestamp, Execute, Notify, getSession, Send
  <2> QED
    BY <1>1, <1>6, <2>1
<1>8. ASSUME NEW d \in Clients, Client(d) PROVE Kept(c)
  BY <1>1, <1>8, ClientSteps DEF Kept
<1> QED
  BY <1>2, <1>3, <1>4, <1>5, <1>7, <1>8 DEF Step, Monitor

\* What a session is compared with stays newer where the session is kept.
LEMMA UncheckedKept ==
  ASSUME TypeOK, NEW r, NEW c \in Clients, Proper(r, c), Unchecked(r),
         c \in DOMAIN sessions' => Kept(c)
  PROVE  Unchecked(r)'
<1>1. r.c = c /\ r.ts \in Times
  BY DEF Proper
<1>2. SUFFICES ASSUME r.fresh, c \in DOMAIN sessions' PROVE Newer(r.ts, sessions'[c])
  BY <1>1 DEF Unchecked
<1>3. r.ts \in Stamp /\ NoTime \in Stamp
  BY <1>1 DEF Stamp
<1>4. Newer(r.ts, NoTime)
  BY <1>1, <1>3, TimeOrder
<1> QED
  BY <1>1, <1>2, <1>4 DEF Kept, Unchecked

\* A client that waits stays as it is, or goes away.
LEMMA WaitingClient ==
  ASSUME TypeOK, Step, NEW c \in Clients, client[c].pc \in {"wait", "gone"}, down[c] = <<>>
  PROVE  client'[c] = client[c] \/ client'[c].pc = "gone"
<1>1. ASSUME NEW d \in Clients, Client(d) PROVE client'[c] = client[c] \/ client'[c].pc = "gone"
  <2>1. ClientView(d) /\ \A e \in Clients \ {d} : client'[e] = client[e]
    BY <1>1, ClientSteps
  <2>2. CASE d = c
    BY <2>1, <2>2 DEF ClientView, Types, Sends, Pays, Receives, Quits
  <2> QED
    BY <2>1, <2>2
<1>2. CASE Acceptor
  BY <1>2 DEF Acceptor, Accept, addSession, TypeOK, ConnectionTypes
<1> QED
  BY <1>1, <1>2, MonitorFrame, TaskFrame DEF Step

\* What only the client itself changes: its clock goes forward, and a request it
\* sends is compared with its own last timestamp.
LEMMA ClientStamps ==
  ASSUME TypeOK, Wire, Stamps, SessionsOpen, NEW c \in Clients, Client(c)
  PROVE  /\ Alive(c)' /\ c \in DOMAIN sessions =>
              Alive(c) /\ NotAfter(client[c].last, client'[c].last)
         /\ client'[c].pc = "sending" => /\ NotAfter(client'[c].out.ts, client'[c].last)
                                         /\ Unchecked(client'[c].out)
         /\ Len(up'[c]) = 2 => /\ Alive(c)' => NotAfter(up'[c][2].ts, client'[c].last)
                               /\ Unchecked(up'[c][2])
<1>0. /\ client \in [Clients -> ClientStates] /\ up \in [Clients -> Seq(Requests)]
      /\ down \in [Clients -> Seq(Nat)]
  BY DEF TypeOK, ConnectionTypes
<1>a. WireOf(c)
  BY DEF Wire
<1>b. /\ client[c].last \in Stamp
      /\ c \in DOMAIN sessions => sessions[c] \in Stamp
      /\ \A r : Proper(r, c) => r.ts \in Stamp
  BY StampsAre
<1>c. c \in DOMAIN sessions => client[c].pc \notin {"off", "connecting"}
  BY DEF SessionsOpen
<1>d. /\ Alive(c) /\ c \in DOMAIN sessions => NotAfter(sessions[c], client[c].last)
      /\ client[c].pc = "sending" => /\ NotAfter(client[c].out.ts, client[c].last)
                                     /\ Unchecked(client[c].out)
      /\ Len(up[c]) = 2 => Unchecked(up[c][2])
  BY DEF Stamps
<1>e. NotAfter(client[c].last, client[c].last)
  BY <1>b, TimeOrder
<1>f. Len(<<>>) = 0 /\ Len(<<Size>>) = 1
  OBVIOUS
<1>1. CASE Types(c)
  <2>1. up'[c] = <<>>
    BY <1>a, <1>1 DEF Types, WireOf
  <2> QED
    BY <1>c, <1>e, <1>f, <1>1, <2>1 DEF Types, Alive
<1>2. CASE Sends(c)
  <2> DEFINE out == client'[c].out
  <2>1. up'[c] = Append(<<>>, Size)
    BY <1>0, <1>a, <1>2 DEF Sends, WireOf
  <2>2. Len(up'[c]) = 1
    BY <2>1
  <2>3. Proper(out, c) /\ out.ts \in Stamp /\ out.c = c
    BY <1>b, <1>2 DEF Sends, Proper
  <2>4. Alive(c)
    BY <1>2 DEF Sends, Alive
  <2>5. /\ client'[c].last = IF Newer(out.ts, client[c].last) THEN out.ts ELSE client[c].last
        /\ out.fresh => Newer(out.ts, client[c].last)
    BY <1>2 DEF Sends
  <2> HIDE DEF out
  <2>6. NotAfter(client[c].last, client'[c].last) /\ NotAfter(out.ts, client'[c].last)
    BY <1>b, <2>3, <2>5, TimeOrder
  <2>7. Unchecked(out)
    <3>1. ASSUME out.fresh, c \in DOMAIN sessions PROVE Newer(out.ts, sessions[c])
      <4>1. NotAfter(sessions[c], client[c].last) /\ Newer(out.ts, client[c].last)
        BY <1>d, <2>4, <2>5, <3>1
      <4> QED
        BY <1>b, <2>3, <3>1, <4>1, TimeOrder
    <3> QED
      BY <2>3, <3>1 DEF Unchecked
  <2> QED
    BY <2>2, <2>4, <2>6, <2>7 DEF out
<1>3. CASE Pays(c)
  <2>1. up'[c] = Append(<<Size>>, client[c].out) \/ up'[c] = Append(<<>>, client[c].out)
    BY <1>0, <1>a, <1>3 DEF Pays, WireOf
  <2>2. Len(up'[c]) = 2 => up'[c][2] = client[c].out
    <3>1. \A r : Append(<<Size>>, r)[2] = r /\ Len(Append(<<>>, r)) = 1
      OBVIOUS
    <3> QED
      BY <2>1, <3>1
  <2> QED
    BY <1>d, <1>e, <1>3, <2>2 DEF Pays, Alive
<1>4. CASE Receives(c)
  <2>1. up'[c] = <<>>
    BY <1>a, <1>4 DEF Receives, WireOf
  <2> QED
    BY <1>e, <1>f, <1>4, <2>1 DEF Receives, Alive
<1>5. CASE Quits(c)
  <2>1. up'[c] = up[c] /\ client'[c].pc = "gone"
    BY <1>5 DEF Quits
  <2> QED
    BY <1>d, <2>1 DEF Alive
<1>6. ClientView(c)
  BY ClientSteps
<1> QED
  BY <1>1, <1>2, <1>3, <1>4, <1>5, <1>6 DEF ClientView

\* What the others do to a client and its connection.
LEMMA OtherStep ==
  ASSUME TypeOK, Wire, SessionsOpen, Step, NEW c \in Clients, ~Client(c)
  PROVE  /\ \/ client'[c] = client[c]
            \/ /\ client[c].pc = "connecting" /\ client'[c].pc = "open"
               /\ client'[c].last = client[c].last
         /\ up'[c] = up[c] \/ up'[c] = <<>>
<1>0. client \in [Clients -> ClientStates] /\ up \in [Clients -> Seq(Requests)]
  BY DEF TypeOK, ConnectionTypes
<1>1. ASSUME NEW d \in Clients, Client(d) PROVE client'[c] = client[c] /\ up'[c] = up[c]
  <2>1. d # c
    BY <1>1
  <2>2. ClientView(d) /\ client'[c] = client[c]
    BY <1>1, <2>1, ClientSteps
  <2> QED
    BY <1>0, <2>1, <2>2 DEF ClientView, Types, Sends, Pays, Receives, Quits
<1>2. CASE Acceptor
  <2>1. UNCHANGED up
    BY <1>2, AcceptorFrame
  <2>2. ASSUME NEW d \in Clients, Accept(d)
        PROVE  /\ client[d].pc = "connecting"
               /\ client' = [client EXCEPT ![d].pc = "open"]
    BY <2>2 DEF Accept
  <2>3. addSession => UNCHANGED client
    BY DEF addSession
  <2>4. ASSUME NEW d \in Clients, Accept(d)
        PROVE  \/ client'[c] = client[c]
               \/ /\ client[c].pc = "connecting" /\ client'[c].pc = "open"
                  /\ client'[c].last = client[c].last
    BY <1>0, <2>2, <2>4 DEF ClientStates
  <2> QED
    BY <1>2, <2>1, <2>3, <2>4 DEF Acceptor
<1>3. CASE MonitorBegin \/ Visit \/ Erase
  BY <1>3 DEF MonitorBegin, Visit, Erase
<1>4. CASE Read
  <2>1. UNCHANGED client
    BY <1>4 DEF Read
  <2>2. monitor.it \in Clients /\ up' = [up EXCEPT ![monitor.it] = <<>>]
    BY <1>4, Reads
  <2> QED
    BY <1>0, <2>1, <2>2
<1>5. CASE \E w \in Workers : WorkerStep(w) \/ LoggerStep(w)
  BY <1>5, TaskFrame
<1> QED
  BY <1>1, <1>2, <1>3, <1>4, <1>5 DEF Step, Monitor

\* No session gets ahead of its client.
LEMMA StampsStep ==
  /\ TypeOK /\ Wire /\ Held /\ OneRequest /\ Stamps /\ HeldStamps /\ SessionsOpen /\ Step
  => Stamps'
<1> SUFFICES ASSUME TypeOK, Wire, Held, OneRequest, Stamps, HeldStamps, SessionsOpen, Step,
                    NEW c \in Clients
             PROVE  /\ Alive(c)' /\ c \in DOMAIN sessions' => NotAfter(sessions'[c], client'[c].last)
                    /\ client'[c].pc = "sending" => /\ NotAfter(client'[c].out.ts, client'[c].last)
                                                    /\ Unchecked(client[c].out)'
                    /\ Len(up'[c]) = 2 => /\ Alive(c)' => NotAfter(up'[c][2].ts, client'[c].last)
                                          /\ Unchecked(up[c][2])'
  BY DEF Stamps
<1>0. /\ Alive(c) /\ c \in DOMAIN sessions => NotAfter(sessions[c], client[c].last)
      /\ client[c].pc = "sending" => /\ NotAfter(client[c].out.ts, client[c].last)
                                     /\ Unchecked(client[c].out)
      /\ Len(up[c]) = 2 => /\ Alive(c) => NotAfter(up[c][2].ts, client[c].last)
                           /\ Unchecked(up[c][2])
  BY DEF Stamps
<1>a. c \in DOMAIN sessions => client[c].pc \notin {"off", "connecting"}
  BY DEF SessionsOpen
<1>b. /\ c \in DOMAIN sessions => sessions[c] \in Stamp
      /\ client[c].last \in Stamp
  BY StampsAre
<1>c. Len(<<>>) = 0 /\ Len(<<Size>>) = 1
  OBVIOUS
<1>1. CASE Client(c)
  <2>1. UNCHANGED sessions /\ client' \in [Clients -> ClientStates]
    BY <1>1, ClientSteps
  <2>2. client'[c].last \in Stamp
    BY <2>1 DEF ClientStates, Stamp
  <2>3. Alive(c)' /\ c \in DOMAIN sessions' => NotAfter(sessions'[c], client'[c].last)
    <3> SUFFICES ASSUME Alive(c)', c \in DOMAIN sessions PROVE NotAfter(sessions[c], client'[c].last)
      BY <2>1
    <3>1. Alive(c) /\ NotAfter(client[c].last, client'[c].last)
      BY <1>1, ClientStamps
    <3>2. NotAfter(sessions[c], client[c].last)
      BY <1>0, <3>1
    <3> QED
      BY <1>b, <2>2, <3>1, <3>2, TimeOrder
  <2>4. client'[c].pc = "sending" => /\ NotAfter(client'[c].out.ts, client'[c].last)
                                     /\ Unchecked(client[c].out)'
    BY <1>1, <2>1, ClientStamps DEF Unchecked
  <2>5. Len(up'[c]) = 2 => /\ Alive(c)' => NotAfter(up'[c][2].ts, client'[c].last)
                           /\ Unchecked(up[c][2])'
    BY <1>1, <2>1, ClientStamps DEF Unchecked
  <2> QED
    BY <2>3, <2>4, <2>5
<1>2. CASE ~Client(c)
  <2>1. /\ \/ client'[c] = client[c]
           \/ /\ client[c].pc = "connecting" /\ client'[c].pc = "open"
              /\ client'[c].last = client[c].last
        /\ up'[c] = up[c] \/ up'[c] = <<>>
    BY <1>2, OtherStep
  <2>2. WireOf(c)
    BY DEF Wire
  <2>3. CASE c \in DOMAIN sessions' => Kept(c)
    <3>1. Alive(c)' /\ c \in DOMAIN sessions' => NotAfter(sessions'[c], client'[c].last)
      <4>1. SUFFICES ASSUME Alive(c)', c \in DOMAIN sessions' PROVE NotAfter(sessions'[c], client'[c].last)
        OBVIOUS
      <4>2. client'[c].last = client[c].last
        BY <2>1
      <4>3. NotAfter(NoTime, client[c].last)
        BY <1>b, TimeOrder
      <4>4. c \in DOMAIN sessions => Alive(c)
        BY <1>a, <2>1, <4>1 DEF Alive
      <4> QED
        BY <1>0, <2>3, <4>1, <4>2, <4>3, <4>4 DEF Kept
    <3>2. client'[c].pc = "sending" => /\ NotAfter(client'[c].out.ts, client'[c].last)
                                       /\ Unchecked(client[c].out)'
      <4>1. SUFFICES ASSUME client'[c].pc = "sending" PROVE /\ NotAfter(client'[c].out.ts, client'[c].last)
                                                            /\ Unchecked(client[c].out)'
        OBVIOUS
      <4>2. client'[c] = client[c] /\ client[c].pc = "sending"
        BY <2>1, <4>1
      <4>3. PICK r : r = client[c].out
        OBVIOUS
      <4>4. Proper(r, c) /\ Unchecked(r) /\ NotAfter(r.ts, client[c].last)
        BY <1>0, <2>2, <4>2, <4>3 DEF WireOf
      <4>5. Unchecked(r)'
        BY <2>3, <4>4, UncheckedKept
      <4> QED
        BY <4>2, <4>3, <4>4, <4>5
    <3>3. Len(up'[c]) = 2 => /\ Alive(c)' => NotAfter(up'[c][2].ts, client'[c].last)
                             /\ Unchecked(up[c][2])'
      <4>1. SUFFICES ASSUME Len(up'[c]) = 2 PROVE /\ Alive(c)' => NotAfter(up'[c][2].ts, client'[c].last)
                                                  /\ Unchecked(up[c][2])'
        OBVIOUS
      <4>2. up'[c] = up[c] /\ Len(up[c]) = 2
        BY <1>c, <2>1, <4>1
      <4>3. client'[c] = client[c]
        <5>1. up[c] # <<>>
          BY <1>c, <4>2
        <5>2. client[c].pc = "connecting" => up[c] = <<>>
          BY <2>2 DEF WireOf
        <5> QED
          BY <2>1, <5>1, <5>2
      <4>4. PICK r : r = up[c][2]
        OBVIOUS
      <4>5. Proper(r, c) /\ Unchecked(r) /\ (Alive(c) => NotAfter(r.ts, client[c].last))
        <5>1. Proper(r, c)
          <6>1. Len(<<>>) = 0 /\ Len(<<Size>>) = 1
            OBVIOUS
          <6> QED
            BY <2>2, <4>2, <4>4, <6>1 DEF WireOf, OnWire
        <5> QED
          BY <1>0, <1>c, <4>2, <4>4, <5>1
      <4>6. Unchecked(r)'
        BY <2>3, <4>5, UncheckedKept
      <4> QED
        BY <4>2, <4>3, <4>4, <4>5, <4>6 DEF Alive
    <3> QED
      BY <3>1, <3>2, <3>3
  <2>4. CASE c \in DOMAIN sessions' /\ Stamped(c, sessions'[c])
    <3>1. /\ client'[c] = client[c] /\ client[c].pc \in {"wait", "gone"} /\ up'[c] = <<>>
          /\ Alive(c) => NotAfter(sessions'[c], client[c].last)
      BY <2>4 DEF Stamped
    <3> QED
      BY <1>c, <3>1 DEF Alive
  <2> QED
    BY <2>3, <2>4, SessionView
<1> QED
  BY <1>1, <1>2

\* The requests in the server are no later than their client, and newer than its
\* session as long as they are not compared.
LEMMA HeldStampsStep ==
  /\ TypeOK /\ Wire /\ Held /\ OneRequest /\ Stamps /\ HeldStamps /\ SessionsOpen /\ Step
  => HeldStamps'
<1> SUFFICES ASSUME TypeOK, Wire, Held, OneRequest, Stamps, HeldStamps, SessionsOpen, Step,
                    NEW x \in Slots', NEW r, r = Item(x)', r.c # 0
             PROVE  /\ Alive(r.c)' => NotAfter(r.ts, client'[r.c].last)
                    /\ Pending(x[1])' => Unchecked(r)'
  BY DEF HeldStamps, Unchecked, Alive
<1>0. Empty.c = 0
  BY DEF Empty, Size
<1>1. ASSUME NEW y \in Slots, r = Item(y), Pending(x[1])' => Pending(y[1])
      PROVE  /\ Alive(r.c)' => NotAfter(r.ts, client'[r.c].last)
             /\ Pending(x[1])' => Unchecked(r)'
  <2>1. HeldBy(r, y[1])
    BY <1>1 DEF Held
  <2>2. PICK c \in Clients : Awaits(r, c)
    BY <1>0, <2>1 DEF HeldBy
  <2>3. /\ Proper(r, c) /\ r.c = c
        /\ client[c].pc \in {"wait", "gone"} /\ down[c] = <<>>
    BY <2>2 DEF Awaits, Proper
  <2>4. /\ Alive(c) => NotAfter(r.ts, client[c].last)
        /\ Pending(y[1]) => Unchecked(r)
    BY <1>1, <2>3 DEF HeldStamps
  <2>5. client'[c] = client[c] \/ client'[c].pc = "gone"
    BY <2>3, WaitingClient
  <2>6. Alive(c)' => NotAfter(r.ts, client'[c].last)
    BY <2>4, <2>5 DEF Alive
  <2>7. ASSUME Pending(x[1])' PROVE Unchecked(r)'
    <3>1. c \in DOMAIN sessions' => Kept(c)
      BY <2>3, <2>7, SessionView DEF Stamped
    <3> QED
      BY <1>1, <2>3, <2>4, <2>7, <3>1, UncheckedKept
  <2> QED
    BY <2>3, <2>6, <2>7
<1>2. CASE \E o : Origin(o)
  <2>1. PICK o : Origin(o)
    BY <1>2
  <2>2. o[x] \in Slots /\ r = Item(o[x]) /\ (Pending(x[1])' => Pending(o[x][1]))
    BY <2>1 DEF Origin
  <2>3. PICK y \in Slots : y = o[x]
    BY <2>2
  <2> QED
    BY <1>1, <2>2, <2>3
<1>3. CASE Read /\ Queues
  <2>1. PICK w \in Workers : Puts(Data, Queue(w))
    BY <1>3 DEF Queues
  <2>2. Queue(w) \in Places
    BY PlacesAre
  <2>3. \/ x \in Slots /\ r = Item(x)
        \/ r = Data
    BY <2>1, <2>2, PutSlots
  <2>4. CASE x \in Slots /\ r = Item(x)
    <3>1. x[1] \in Places
      BY <2>4 DEF Slots
    <3>2. Pending(x[1])' => Pending(x[1])
      BY <1>3, <3>1 DEF Queues
    <3> QED
      BY <1>1, <2>4, <3>2
  <2>5. CASE r = Data
    <3>1. /\ monitor.it \in Clients
          /\ Len(up[monitor.it]) = 2 /\ r = up[monitor.it][2] /\ Proper(r, monitor.it)
      BY <1>0, <1>3, <2>5, Reads
    <3>2. r.c = monitor.it
      BY <3>1 DEF Proper
    <3>3. (Alive(r.c) => NotAfter(r.ts, client[r.c].last)) /\ Unchecked(r)
      BY <3>1, <3>2 DEF Stamps
    <3>4. UNCHANGED <<client, sessions>>
      BY <1>3 DEF Read, Queues
    <3> QED
      BY <3>3, <3>4 DEF Alive, Unchecked
  <2> QED
    BY <2>3, <2>4, <2>5
<1> QED
  BY <1>2, <1>3, ServerView

\* A worker refuses no request whose client's clock had moved forward.
LEMMA RefusedStep ==
  TypeOK /\ Held /\ HeldStamps /\ RefusedIsOld /\ Step => RefusedIsOld'
<1> SUFFICES ASSUME TypeOK, Held, HeldStamps, RefusedIsOld, Step,
                    NEW p \in Sender, task'[p].res = "refused"
             PROVE  ~task'[p].req.fresh
  BY DEF RefusedIsOld
<1>0. task \in [Sender -> Tasks] /\ task[p] \in Tasks
  BY DEF TypeOK, ServerTypes
<1>a. task[p].res = "refused" => ~task[p].req.fresh
  BY DEF RefusedIsOld
<1>b. Idle.res = "none"
  BY DEF Idle
<1>1. CASE task'[p] = task[p]
  BY <1>a, <1>1
<1>2. ASSUME NEW c \in Clients, Client(c) PROVE task'[p] = task[p]
  BY <1>2, ClientSteps
<1>3. CASE Acceptor \/ Monitor
  BY <1>1, <1>3, AcceptorFrame, MonitorFrame
<1>4. ASSUME NEW w \in Workers, getTransaction(w) PROVE task'[p] = task[p]
  BY <1>0, <1>4 DEF getTransaction
<1>5. ASSUME NEW w \in Workers, SetTimestamp(w), task'[p] # task[p] PROVE ~task'[p].req.fresh
  <2>1. p = Worker(w)
    BY <1>0, <1>5 DEF SetTimestamp
  <2>2. \/ task'[p] = [task[p] EXCEPT !.pc = "answer", !.res = "unknown"]
        \/ task'[p] = [task[p] EXCEPT !.pc = "run"]
    BY <1>0, <1>5, <2>1 DEF SetTimestamp
  <2> QED
    BY <1>0, <1>a, <2>2 DEF Tasks
<1>6. ASSUME NEW w \in Workers, Execute(w), task'[p] # task[p] PROVE FALSE
  <2>1. p = Worker(w)
    BY <1>0, <1>6 DEF Execute
  <2>2. PICK res \in {"committed", "aborted"} :
          task'[p] = Idle \/ task'[p] = [task[p] EXCEPT !.pc = "answer", !.res = res]
    BY <1>0, <1>6, <2>1 DEF Execute
  <2> QED
    BY <1>0, <1>b, <2>2 DEF Tasks
<1>7. ASSUME NEW w \in Workers, Notify(w) PROVE task'[p] = task[p]
  BY <1>0, <1>7 DEF Notify
<1>8. ASSUME NEW q \in Sender, getSession(q), task'[p] # task[p] PROVE ~task'[p].req.fresh
  <2>1. p = q
    BY <1>0, <1>8 DEF getSession
  <2>2. task'[p] = Idle \/ task'[p] = [task[p] EXCEPT !.pc = "send"]
    BY <1>0, <1>8, <2>1 DEF getSession
  <2> QED
    BY <1>0, <1>a, <1>b, <2>2 DEF Tasks
<1>9. ASSUME NEW q \in Sender, Send(q) PROVE task'[p] = task[p]
  BY <1>0, <1>b, <1>9 DEF Send
<1>10. ASSUME NEW w \in Workers, CheckTimestamp(w), task'[p] # task[p] PROVE ~task'[p].req.fresh
  <2> DEFINE req == task[Worker(w)].req
             part(i, found) == IF found THEN sessions[req.c][i] ELSE 0
  <2>1. p = Worker(w)
    BY <1>0, <1>10 DEF CheckTimestamp
  <2>a. PICK sec \in Lookup(req.c, MapBusy), nsec \in Lookup(req.c, MapBusy) :
          /\ task[p].pc = "check"
          /\ IF Refused(req.ts, <<part(1, sec), part(2, nsec)>>)
             THEN task'[p] = [task[p] EXCEPT !.pc = "answer", !.res = "refused"]
             ELSE task'[p] = [task[p] EXCEPT !.pc = "stamp"]
    BY <1>0, <1>10, <2>1 DEF CheckTimestamp
  <2>b. CASE task'[p] = [task[p] EXCEPT !.pc = "stamp"]
    BY <1>0, <1>a, <2>b DEF Tasks
  <2>2. SUFFICES ASSUME task'[p] = [task[p] EXCEPT !.pc = "answer", !.res = "refused"],
                        ~Newer(req.ts, <<part(1, sec), part(2, nsec)>>)
                 PROVE  ~task'[p].req.fresh
    BY <2>a, <2>b DEF Refused
  <2>3. task'[p].req = req
    BY <1>0, <2>1, <2>2 DEF Tasks
  <2>4. PICK c \in Clients : Awaits(req, c)
    BY <2>1, <2>a, SendAwaits
  <2>5. req.c = c /\ req.ts \in Times /\ c # 0
    BY <2>4, ClientServerAssumption DEF Awaits, Proper, Clients
  <2>6. Unchecked(req)
    <3>1. <<p, 1>> \in Slots /\ Item(<<p, 1>>) = req /\ <<p, 1>>[1] = p
      BY <2>1, <2>a, SendAwaits
    <3>2. Pending(p)
      BY <2>1, <2>a, PendingAre
    <3> QED
      BY <2>5, <3>1, <3>2 DEF HeldStamps
  <2>7. CASE c \in DOMAIN sessions
    <3>1. sessions[c] \in Stamp
      BY <2>7, StampsAre
    <3>2. part(1, sec) \in {0, sessions[c][1]} /\ part(2, nsec) \in {0, sessions[c][2]}
      BY <2>5
    <3> HIDE DEF req, part
    <3>3. req.fresh => Newer(req.ts, <<part(1, sec), part(2, nsec)>>)
      BY <2>5, <2>6, <2>7, <3>1, <3>2, NewerThanParts DEF Unchecked
    <3> QED
      BY <2>2, <2>3, <3>3
  <2>8. CASE c \notin DOMAIN sessions
    <3>1. sec = FALSE /\ nsec = FALSE
      BY <2>5, <2>8 DEF Lookup
    <3>2. part(1, sec) = 0 /\ part(2, nsec) = 0
      BY <3>1
    <3>3. Newer(req.ts, <<0, 0>>)
      BY <2>5, TimeOrder DEF Stamp, NoTime
    <3> QED
      BY <2>2, <3>2, <3>3
  <2> QED
    BY <2>7, <2>8
<1> QED
  BY <1>1, <1>2, <1>3, <1>4, <1>5, <1>6, <1>7, <1>8, <1>9, <1>10, Senders DEF Step, WorkerStep, LoggerStep

-----------------------------------------------------------------------------
(* The theorems                                                            *)

\* At the start nobody has connected, and the server is empty.
LEMMA InitIInv == Init => IInv
<1> SUFFICES ASSUME Init PROVE IInv
  OBVIOUS
<1>0. /\ client = [c \in Clients |-> NewClient] /\ up = [c \in Clients |-> <<>>]
      /\ down = [c \in Clients |-> <<>>] /\ sessions = <<>> /\ acceptor = 0
      /\ monitor = [it |-> End, pc |-> "visit"] /\ queue = [w \in Workers |-> <<>>]
      /\ task = [p \in Sender |-> Idle] /\ nids = [w \in Workers |-> <<>>]
      /\ missed = {} /\ errors = FALSE /\ broken = FALSE
  BY DEF Init
<1>1. /\ NewClient \in ClientStates /\ NewClient.pc = "off" /\ NewClient.n = 0
      /\ NewClient.ops = <<>> /\ NewClient.last = NoTime
  BY FixedRequests DEF NewClient, ClientStates
<1>2. /\ <<>> \in Seq(Requests) /\ <<>> \in Seq(Nat) /\ <<>> \in Seq(Requests \ {Size})
      /\ Len(<<>>) = 0 /\ DOMAIN <<>> = {}
  OBVIOUS
<1>3. Idle \in Tasks /\ Idle.pc = "idle" /\ Idle.res = "none"
  BY FixedRequests DEF Idle, Tasks
<1>4. 0 \notin Clients /\ \A c \in Clients : 0 <= MaxReq[c]
  BY ClientServerAssumption DEF Clients
<1>5. ConnectionTypes
  BY <1>0, <1>1, <1>2 DEF ConnectionTypes
<1>6. SessionTypes
  BY <1>0, <1>2 DEF SessionTypes
<1>7. ServerTypes
  BY <1>0, <1>2, <1>3 DEF ServerTypes
<1>8. TypeOK
  BY <1>0, <1>1, <1>2, <1>4, <1>5, <1>6, <1>7 DEF TypeOK
<1>9. Wire
  BY <1>0, <1>1 DEF Wire, WireOf, OnWire
<1>10. \A s \in Places : Holds(s) = <<>>
  <2> SUFFICES ASSUME NEW s \in Places PROVE Holds(s) = <<>>
    OBVIOUS
  <2>1. PICK w \in Workers : s = Queue(w) \/ s = Nids(w) \/ s = Worker(w) \/ s = Logger(w)
    BY PlacesAre
  <2> QED
    BY <1>0, <1>3, <2>1, HoldsAt, Senders
<1>11. Slots = {}
  BY <1>2, <1>10 DEF Slots
<1>12. Held /\ OneRequest /\ HeldStamps
  BY <1>11 DEF Held, OneRequest, HeldStamps
<1>13. Stamps
  <2>1. \A c \in Clients : ~Alive(c) /\ client[c].pc # "sending" /\ Len(up[c]) = 0
    BY <1>0, <1>1, <1>2 DEF Alive
  <2> QED
    BY <2>1 DEF Stamps
<1>14. SessionsOpen
  BY <1>0, <1>2, <1>4 DEF SessionsOpen
<1>15. RefusedIsOld
  BY <1>0, <1>3 DEF RefusedIsOld
<1> QED
  BY <1>8, <1>9, <1>12, <1>13, <1>14, <1>15 DEF IInv

\* A crash changes nothing that the invariant is about.
LEMMA FrameIInv ==
  ASSUME IInv, broken' \in BOOLEAN,
         UNCHANGED <<client, up, down, sessions, acceptor, monitor, queue, task, nids, missed, errors>>
  PROVE  IInv'
<1>1. TypeOK'
  BY DEF IInv, TypeOK, ConnectionTypes, SessionTypes, ServerTypes
<1>2. Slots' = Slots /\ \A x : Item(x)' = Item(x) /\ Pending(x[1])' = Pending(x[1])
  BY DEF Slots, Item, Holds, Pending
<1>3. Wire' /\ Stamps' /\ SessionsOpen' /\ RefusedIsOld'
  BY DEF IInv, Wire, WireOf, Stamps, SessionsOpen, RefusedIsOld, Alive, Unchecked
<1>4. Held' /\ OneRequest'
  BY <1>2 DEF IInv, Held, HeldBy, Awaits, OneRequest
<1>5. HeldStamps'
  BY <1>2 DEF IInv, HeldStamps, Alive, Unchecked
<1> QED
  BY <1>1, <1>3, <1>4, <1>5 DEF IInv

\* Every step keeps the invariant.
LEMMA NextIInv == IInv /\ [Next]_vars => IInv'
<1> SUFFICES ASSUME IInv, [Next]_vars PROVE IInv'
  OBVIOUS
<1>1. CASE Step /\ UNCHANGED broken
  BY <1>1, TypeOKStep, WireStep, HeldStep, OneRequestStep, StampsStep, HeldStampsStep,
     SessionsOpenStep, RefusedStep DEF IInv
<1>2. CASE Crash \/ ReadGarbled
  BY <1>2, FrameIInv DEF Crash, ReadGarbled
<1>3. CASE UNCHANGED vars
  <2>1. broken' \in BOOLEAN
    BY <1>3 DEF vars, IInv, TypeOK, ServerTypes
  <2> QED
    BY <1>3, <2>1, FrameIInv DEF vars
<1> QED
  BY <1>1, <1>2, <1>3 DEF Next, Running, Step

\* The invariant holds whatever clients, monitor, workers and loggers do, and in
\* whichever order.
THEOREM Invariance == Spec => []IInv
  BY InitIInv, NextIInv, PTL DEF Spec

\* Types: the monitor's iterator never points to an erased entry of ssl_sessions_,
\* a queue never holds the size of a message instead of the message.
THEOREM TypeCorrect == Spec => []TypeOK
<1>1. IInv => TypeOK
  BY DEF IInv
<1> QED
  BY <1>1, Invariance, PTL

\* The message a client takes for the answer to its request (send_data) is the
\* answer to that request, and the only one.
THEOREM AnswerIsOwn == Spec => []OwnAnswer
<1>1. IInv => OwnAnswer
  <2> SUFFICES ASSUME IInv, NEW c \in Clients
               PROVE  /\ Len(down[c]) <= 1
                      /\ down[c] # <<>> => client[c].pc = "wait" /\ down[c][1] = client[c].n
    BY DEF OwnAnswer
  <2>1. down[c] = <<>> \/ (client[c].pc = "wait" /\ down[c] = <<client[c].n>>)
    BY DEF IInv, Wire, WireOf
  <2>2. Len(<<>>) = 0 /\ Len(<<client[c].n>>) = 1 /\ <<client[c].n>>[1] = client[c].n
    OBVIOUS
  <2>3. CASE down[c] = <<>>
    BY <2>2, <2>3
  <2>4. CASE client[c].pc = "wait" /\ down[c] = <<client[c].n>>
    BY <2>2, <2>4
  <2> QED
    BY <2>1, <2>3, <2>4
<1> QED
  BY <1>1, Invariance, PTL

\* A request is refused as a replay (json_to_procedures) only if the clock of its
\* client did not move forward: neither lookups that miss their session nor the
\* two steps of compare and set make a false one.
THEOREM RefusalIsRight == Spec => []RefusedIsOld
<1>1. IInv => RefusedIsOld
  BY DEF IInv
<1> QED
  BY <1>1, Invariance, PTL
=============================================================================
