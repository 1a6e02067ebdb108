------------------------------ MODULE Streams ------------------------------
(***************************************************************************)
(* Files and sockets: the stream table of src/os/shared/src/osapi-file.c   *)
(* and osapi-sockets.c over the host's file descriptors, as                *)
(* src/os/portable/os-impl-posix-files.c, os-impl-posix-io.c,              *)
(* os-impl-bsd-sockets.c and os-impl-bsd-select.c use them.                *)
(*                                                                         *)
(* The table keeps the promises of ObjTable.  The data that is transferred *)
(* is left out; what matters is which descriptor a call works on, when it  *)
(* may block, and what the flags of a socket say of the host's socket.     *)
(* OS_STREAM_STATE_READABLE and WRITABLE are set but never read.           *)
(***************************************************************************)
EXTENDS ObjTable, FiniteSets, FiniteSetsExt

CONSTANTS
  Tasks,
  Fds,       \* the descriptors of the host, numbers
  Apps,      \* applications: the kinds of streams, and the calls of each task
  MaxQueue   \* connections that wait to be accepted, per socket

AllKinds == {"file", "stream", "datagram"}

ASSUME StreamsAssumption ==
  MaxId \in Nat \ {0} /\ Ids \subseteq Nat /\ Fds \subseteq Nat
  /\ IsFiniteSet(Tasks)
  /\ \A a \in Apps : a.kinds \subseteq AllKinds /\ DOMAIN a.calls = Tasks
  /\ MaxQueue \in Nat

VARIABLES
  last_id,     \* the id issued last
  kind,        \* slot -> socket_domain and socket_type
  stream_state,\* slot -> set of OS_STREAM_STATE_xxx flags
  fd,          \* slot -> OS_impl_filehandle_table[].fd
  host,        \* descriptor -> state of the host's file or socket
  bound,       \* descriptors of sockets that bind gave an address
  queue,       \* descriptor -> connections that wait to be accepted
  app,         \* the application that runs
  pc,          \* task -> where it is
  call         \* task -> the call it is in

table  == <<last_id, kind, stream_state, fd>>
kernel == <<host, bound, queue>>
vars   == <<obj, table, kernel, app, pc, call>>

CLOSED == -1   \* the value of fd for no descriptor

RefOps  == {"read", "recv", "send", "accept"}
ExclOps == {"close", "bind", "bindaddr", "listen", "connect"}
Ops == RefOps \cup ExclOps \cup {"none", "open", "bindlisten", "closeall"}

\* op and id of the call, the id of the stream it creates, the return code,
\* and for OS_CloseAllFiles the place of the iterator and the ids at its start.
Idle == [op |-> "none", id |-> NONE, new |-> NONE, rc |-> "ok", at |-> NONE,
         ids |-> {}]

HostStates == {"closed", "file", "unconnected", "listening", "connecting",
               "refused", "connected"}

Pcs == {"idle", "open", "created", "lookup", "waiting", "use", "closed",
        "iterate", "connect_select", "accept_select", "accept", "release",
        "done"}

CallType == [op : Ops, id : Ids \cup {NONE}, new : Ids \cup {NONE},
             rc : {"ok", "error"}, at : Slots \cup {NONE}, ids : SUBSET Ids]

TypeOK ==
  /\ TypeOfObj
  /\ last_id \in Ids \cup {NONE}
  /\ kind \in [Slots -> AllKinds]
  /\ stream_state \in [Slots -> SUBSET {"BOUND", "LISTENING", "CONNECTED"}]
  /\ fd \in [Slots -> Fds \cup {CLOSED}]
  /\ host \in [Fds -> HostStates] /\ bound \subseteq Fds
  /\ queue \in [Fds -> 0 .. MaxQueue]
  /\ app \in Apps /\ pc \in [Tasks -> Pcs]
  /\ call \in [Tasks -> CallType]

Init ==
  /\ InitObj /\ last_id = NONE
  /\ kind = [s \in Slots |-> "file"] /\ stream_state = [s \in Slots |-> {}]
  /\ fd = [s \in Slots |-> CLOSED]
  /\ host = [f \in Fds |-> "closed"] /\ bound = {} /\ queue = [f \in Fds |-> 0]
  /\ app \in Apps /\ pc = [t \in Tasks |-> "idle"] /\ call = [t \in Tasks |-> Idle]

Goto(t, from, to) ==
  pc[t] = from /\ pc' = [pc EXCEPT ![t] = to] /\ UNCHANGED app
S(t) == SlotOf(call[t].id)     \* the slot of the call's stream
N(t) == SlotOf(call[t].new)    \* the slot of the stream being created
Set(t, field, value) == call' = [call EXCEPT ![t][field] = value]
Fail(t) == Set(t, "rc", "error")

FreeFds == {f \in Fds : host[f] = "closed"}
-----------------------------------------------------------------------------
(* Creation: OS_OpenCreate, OS_SocketOpen, and the connection of           *)
(* OS_SocketAccept.                                                        *)

\* The ids that OS_ObjectIdFindNextFree may issue.
NextIds == {i \in Ids : i > last_id /\ i <= last_id + MaxId
                        /\ obj[SlotOf(i)].st = "free"}

\* OS_ObjectIdAllocateNew and the reset of the record.
New(k) ==
  LET i == Min(NextIds) IN
  /\ NextIds # {} /\ Allocate(i) /\ last_id' = i
  /\ kind' = [kind EXCEPT ![SlotOf(i)] = k]
  /\ stream_state' = [stream_state EXCEPT ![SlotOf(i)] = {}]
  /\ UNCHANGED fd

Open(t) ==
  /\ Goto(t, "idle", "open")
  /\ "open" \in app.calls[t]
  /\ \E k \in app.kinds : New(k)
  /\ call' = [call EXCEPT ![t] = [Idle EXCEPT !.op = "open", !.new = last_id']]
  /\ UNCHANGED kernel

\* The host hands out its lowest free descriptor.
Descriptor(s, state) ==
  /\ FreeFds # {}
  /\ host' = [host EXCEPT ![Min(FreeFds)] = state]
  /\ fd' = [fd EXCEPT ![s] = Min(FreeFds)]

\* open or socket
HostOpen(t) ==
  /\ Goto(t, "open", "created")
  /\ Descriptor(N(t), IF kind[N(t)] = "file" THEN "file" ELSE "unconnected")
  /\ UNCHANGED <<obj, last_id, kind, stream_state, bound, queue, call>>

HostOpenFails(t) ==
  /\ Goto(t, "open", "created")
  /\ fd' = [fd EXCEPT ![N(t)] = CLOSED]
  /\ Fail(t)
  /\ UNCHANGED <<obj, last_id, kind, stream_state, kernel>>

\* OS_ObjectIdFinalizeNew
FinalizeNew(t) ==
  /\ Goto(t, "created", IF call[t].op = "accept" THEN "release" ELSE "done")
  /\ IF call[t].rc = "ok" THEN Created(N(t)) ELSE NotCreated(N(t))
  /\ Set(t, "new", NONE)
  /\ UNCHANGED <<table, kernel>>
-----------------------------------------------------------------------------
(* Lookup: OS_ObjectIdGetById.                                             *)

\* An application may use any id it was given, also one that is closed.
Call(t) ==
  /\ Goto(t, "idle", "lookup")
  /\ \E op \in app.calls[t] \cap (RefOps \cup ExclOps), i \in Ids :
       /\ i <= last_id
       /\ call' = [call EXCEPT ![t] = [Idle EXCEPT !.op = op, !.id = i]]
  /\ UNCHANGED <<obj, table, kernel>>

\* Where a call that has released its stream goes.
After(t) == IF call[t].op = "closeall" THEN "iterate" ELSE "done"

LookupRef(t) ==
  /\ Goto(t, "lookup", "use")
  /\ call[t].op \in RefOps
  /\ Enter(call[t].id)
  /\ UNCHANGED <<table, kernel, call>>

(* Mutant: the stream is taken although it has users.                      *)
LookupExclusive_IgnoresUsers(t) ==
  /\ Goto(t, "lookup", "use")
  /\ call[t].op \notin RefOps
  /\ Valid(call[t].id)
  /\ obj' = [obj EXCEPT ![S(t)].st = "exclusive", ![S(t)].users = 1]
  /\ UNCHANGED <<table, kernel, call>>

LookupExclusive(t) ==
  /\ Goto(t, "lookup", IF obj[S(t)].users = 0 THEN "use" ELSE "waiting")
  /\ call[t].op \notin RefOps
  /\ Reserve(call[t].id)
  /\ UNCHANGED <<table, kernel, call>>

\* Another object, none, or one that stays withdrawn for too long.
LookupFails(t) ==
  /\ Goto(t, "lookup", After(t))
  /\ ~ Valid(call[t].id)
  /\ Fail(t)
  /\ UNCHANGED <<obj, table, kernel>>

LookupGranted(t) ==
  /\ Goto(t, "waiting", "use")
  /\ Granted(S(t))
  /\ UNCHANGED <<table, kernel, call>>

LookupGivesUp(t) ==
  /\ Goto(t, "waiting", After(t))
  /\ GiveUp(S(t))
  /\ Fail(t)
  /\ UNCHANGED <<table, kernel>>

\* OS_ObjectIdRelease; OS_SocketBind goes on with OS_SocketListen.
Release(t) ==
  LET listens == call[t].op = "bind" /\ call[t].rc = "ok" IN
  /\ Goto(t, "release", IF listens THEN "lookup" ELSE After(t))
  /\ IF call[t].op \in RefOps THEN Leave(S(t)) ELSE Kept(S(t))
  /\ IF listens THEN Set(t, "op", "bindlisten") ELSE UNCHANGED call
  /\ UNCHANGED <<table, kernel>>

Done(t) ==
  /\ Goto(t, "done", "idle")
  /\ call' = [call EXCEPT ![t] = Idle]
  /\ UNCHANGED <<obj, table, kernel>>
-----------------------------------------------------------------------------
(* OS_close and OS_CloseAllFiles.                                          *)

Closes(t) == call[t].op \in {"close", "closeall"}

HostClose(t) ==
  /\ Goto(t, "use", "closed")
  /\ Closes(t)
  /\ host' = [host EXCEPT ![fd[S(t)]] = "closed"]
  /\ bound' = bound \ {fd[S(t)]}
  /\ queue' = [queue EXCEPT ![fd[S(t)]] = 0]
  /\ UNCHANGED <<obj, table, call>>

(* Mutant: the descriptor stays in the record.                             *)
FinalizeDelete_KeepsFd(t) ==
  /\ Goto(t, "closed", After(t))
  /\ Deleted(S(t))
  /\ UNCHANGED <<table, kernel, call>>

\* The end of OS_GenericClose_Impl, and OS_ObjectIdFinalizeDelete.
FinalizeDelete(t) ==
  /\ Goto(t, "closed", After(t))
  /\ fd' = [fd EXCEPT ![S(t)] = CLOSED]
  /\ Deleted(S(t))
  /\ UNCHANGED <<last_id, kind, stream_state, kernel, call>>

CloseAllFiles(t) ==
  /\ Goto(t, "idle", "iterate")
  /\ "closeall" \in app.calls[t]
  /\ call' = [call EXCEPT ![t] =
       [Idle EXCEPT !.op = "closeall",
                    !.ids = {i \in Ids : obj[SlotOf(i)].id = i
                                         /\ obj[SlotOf(i)].st # "new"}]]
  /\ UNCHANGED <<obj, table, kernel>>

(* Mutant: the iterator passes over the entries that are withdrawn.        *)
Active_ValidOnly(s) == obj[s].st = "valid"

\* OS_ObjectFilterActive: a withdrawn entry has the id RESERVED.
Active(s) == obj[s].st # "free"

\* OS_ObjectIdIteratorGetNext; OS_close is called without the table lock.
Iterate(t) ==
  LET rest == {s \in Slots : s > call[t].at /\ Active(s)}
      id == IF obj[Min(rest)].st = "valid" THEN obj[Min(rest)].id ELSE NONE
  IN /\ Goto(t, "iterate", IF rest = {} THEN "done" ELSE "lookup")
     /\ IF rest = {} THEN UNCHANGED call
        ELSE call' = [call EXCEPT ![t].at = Min(rest), ![t].id = id]
     /\ UNCHANGED <<obj, table, kernel>>
-----------------------------------------------------------------------------
(* Sockets that are set up: OS_SocketBindAddress, OS_SocketListen and      *)
(* OS_SocketConnect.  The host refuses what a socket's state forbids, and  *)
(* may refuse an address.                                                  *)

Flag(t, f) == stream_state' = [stream_state EXCEPT ![S(t)] = @ \cup {f}]
Has(t, flags) == stream_state[S(t)] \cap flags # {}
HostState(t) == host[fd[S(t)]]

BindAddress(t) ==
  /\ Goto(t, "use", "release")
  /\ call[t].op \in {"bind", "bindaddr"}
  /\ \/ /\ kind[S(t)] # "file" /\ ~ Has(t, {"BOUND", "CONNECTED"})
        /\ HostState(t) \in {"unconnected", "refused"} /\ fd[S(t)] \notin bound
        /\ bound' = bound \cup {fd[S(t)]} /\ Flag(t, "BOUND")
        /\ UNCHANGED call
     \/ Fail(t) /\ UNCHANGED <<bound, stream_state>>
  /\ UNCHANGED <<obj, last_id, kind, fd, host, queue>>

MayListen(t) == Has(t, {"BOUND"}) /\ ~ Has(t, {"LISTENING", "CONNECTED"})

(* Mutant: OS_SocketBind takes every error of OS_SocketListen for the one  *)
(* of a datagram socket.                                                   *)
Listen_AnyErrorOk(t) ==
  /\ Goto(t, "use", "release")
  /\ call[t].op \in {"listen", "bindlisten"}
  /\ \/ /\ kind[S(t)] = "stream" /\ MayListen(t)
        /\ HostState(t) = "unconnected"
        /\ host' = [host EXCEPT ![fd[S(t)]] = "listening"]
        /\ Flag(t, "LISTENING")
        /\ UNCHANGED call
     \/ /\ call[t].op = "bindlisten"
        /\ UNCHANGED <<host, stream_state, call>>
     \/ call[t].op = "listen" /\ Fail(t) /\ UNCHANGED <<host, stream_state>>
  /\ UNCHANGED <<obj, last_id, kind, fd, bound, queue>>

\* A datagram socket need not listen: this is OK for OS_SocketBind.
Listen(t) ==
  /\ Goto(t, "use", "release")
  /\ call[t].op \in {"listen", "bindlisten"}
  /\ \/ /\ kind[S(t)] = "stream" /\ MayListen(t)
        /\ HostState(t) = "unconnected"
        /\ host' = [host EXCEPT ![fd[S(t)]] = "listening"]
        /\ Flag(t, "LISTENING")
        /\ UNCHANGED call
     \/ /\ kind[S(t)] # "stream" /\ call[t].op = "bindlisten"
        /\ UNCHANGED <<host, stream_state, call>>
     \/ /\ kind[S(t)] = "stream" \/ call[t].op = "listen"
        /\ Fail(t) /\ UNCHANGED <<host, stream_state>>
  /\ UNCHANGED <<obj, last_id, kind, fd, bound, queue>>

\* connect of a datagram socket only stores the address; of a stream socket
\* it succeeds at once, goes on in the background (EINPROGRESS), or finds that
\* an earlier attempt has been completed there.
Connect(t) ==
  /\ call[t].op = "connect"
  /\ kind[S(t)] = "datagram" \/ (kind[S(t)] = "stream" /\ ~ Has(t, {"CONNECTED"}))
  /\ \/ /\ Goto(t, "use", "release")
        /\ HostState(t) \in {"unconnected", "connected"}
        /\ host' = [host EXCEPT ![fd[S(t)]] = "connected"]
        /\ Flag(t, "CONNECTED")
     \/ /\ Goto(t, "use", "connect_select")
        /\ kind[S(t)] = "stream" /\ HostState(t) = "unconnected"
        /\ host' = [host EXCEPT ![fd[S(t)]] = "connecting"]
        /\ UNCHANGED stream_state
  /\ UNCHANGED <<obj, last_id, kind, fd, bound, queue, call>>

\* Not a socket, already connected, a bad address, or refused by the host,
\* which tells once of an attempt that failed in the background.
ConnectFails(t) ==
  /\ Goto(t, "use", "release")
  /\ call[t].op = "connect"
  /\ Fail(t)
  /\ \/ UNCHANGED host
     \/ /\ HostState(t) = "refused" /\ ~ Has(t, {"CONNECTED"})
        /\ host' = [host EXCEPT ![fd[S(t)]] = "unconnected"]
  /\ UNCHANGED <<obj, table, bound, queue>>

\* The socket is writable: SO_ERROR tells whether it is connected.
ConnectReady(t) ==
  /\ Goto(t, "connect_select", "release")
  /\ \/ /\ HostState(t) = "connected" /\ Flag(t, "CONNECTED")
        /\ UNCHANGED <<host, call>>
     \/ /\ HostState(t) = "refused" /\ Fail(t)
        /\ host' = [host EXCEPT ![fd[S(t)]] = "unconnected"]
        /\ UNCHANGED stream_state
  /\ UNCHANGED <<obj, last_id, kind, fd, bound, queue>>

(* Mutant: the timeout is taken for a connection.                          *)
ConnectTimeout_Connected(t) ==
  /\ Goto(t, "connect_select", "release")
  /\ Flag(t, "CONNECTED")
  /\ UNCHANGED <<obj, last_id, kind, fd, kernel, call>>

\* The host goes on connecting.
ConnectTimeout(t) ==
  /\ Goto(t, "connect_select", "release")
  /\ Fail(t)
  /\ UNCHANGED <<obj, table, kernel>>
-----------------------------------------------------------------------------
(* OS_SocketAccept, and the transfers: OS_TimedRead, OS_TimedWrite,        *)
(* OS_lseek, OS_SocketRecvFrom and OS_SocketSendTo.                        *)

Accepts(t) == /\ kind[S(t)] = "stream"
              /\ stream_state[S(t)] \cap {"BOUND", "CONNECTED"} = {"BOUND"}

Accept(t) ==
  /\ Goto(t, "use", "accept_select")
  /\ call[t].op = "accept" /\ Accepts(t)
  /\ New("stream")
  /\ Set(t, "new", last_id')
  /\ UNCHANGED kernel

\* The wrong kind or state, or no free entry in the table.
AcceptFails(t) ==
  /\ Goto(t, "use", "release")
  /\ call[t].op = "accept"
  /\ ~ Accepts(t) \/ NextIds = {}
  /\ Fail(t)
  /\ UNCHANGED <<obj, table, kernel>>

\* OS_SelectSingle_Impl: a socket that neither listens nor connects is ready
\* at once.
AcceptReady(t) ==
  /\ Goto(t, "accept_select", "accept")
  /\ queue[fd[S(t)]] > 0 \/ HostState(t) \notin {"listening", "connecting"}
  /\ UNCHANGED <<obj, table, kernel, call>>

AcceptTimeout(t) ==
  /\ Goto(t, "accept_select", "created")
  /\ Fail(t)
  /\ UNCHANGED <<obj, table, kernel>>

HostAccept(t) ==
  /\ Goto(t, "accept", "created")
  /\ HostState(t) = "listening" /\ queue[fd[S(t)]] > 0
  /\ Descriptor(N(t), "connected")
  /\ queue' = [queue EXCEPT ![fd[S(t)]] = @ - 1]
  /\ stream_state' = [stream_state EXCEPT ![N(t)] = {"CONNECTED"}]
  /\ UNCHANGED <<obj, last_id, kind, bound, call>>

(* Mutant: the socket is in blocking mode, and accept waits for the next   *)
(* connection.                                                             *)
HostAcceptFails_Blocks(t) ==
  /\ Goto(t, "accept", "created")
  /\ HostState(t) # "listening" \/ FreeFds = {}
  /\ fd' = [fd EXCEPT ![N(t)] = CLOSED]
  /\ Fail(t)
  /\ UNCHANGED <<obj, last_id, kind, stream_state, kernel>>

\* EINVAL, EMFILE, or EAGAIN: the connection is gone since select.
HostAcceptFails(t) ==
  /\ Goto(t, "accept", "created")
  /\ HostState(t) # "listening" \/ FreeFds = {} \/ queue[fd[S(t)]] = 0
  /\ fd' = [fd EXCEPT ![N(t)] = CLOSED]
  /\ Fail(t)
  /\ UNCHANGED <<obj, last_id, kind, stream_state, kernel>>

\* May a transfer of this kind work on this stream?
Transfers(t) ==
  /\ call[t].op \in {"recv", "send"} => kind[S(t)] = "datagram"
  /\ call[t].op = "recv" => Has(t, {"BOUND"})

\* The end of a transfer, of the wait in OS_SelectSingle_Impl, or an early
\* return.
Transfer(t) ==
  /\ Goto(t, "use", "release")
  /\ call[t].op \in {"read", "recv", "send"}
  /\ (Transfers(t) /\ UNCHANGED call) \/ Fail(t)
  /\ UNCHANGED <<obj, table, kernel>>
-----------------------------------------------------------------------------
(* The network.                                                            *)

Arrive(f) ==
  /\ host[f] = "listening" /\ queue[f] < MaxQueue
  /\ queue' = [queue EXCEPT ![f] = @ + 1]
  /\ UNCHANGED <<obj, table, host, bound, app, pc, call>>

\* The peer resets a connection that has not been accepted.
Abort(f) ==
  /\ queue[f] > 0
  /\ queue' = [queue EXCEPT ![f] = @ - 1]
  /\ UNCHANGED <<obj, table, host, bound, app, pc, call>>

Answer(f) ==
  /\ host[f] = "connecting"
  /\ \E state \in {"connected", "refused"} : host' = [host EXCEPT ![f] = state]
  /\ UNCHANGED <<obj, table, bound, queue, app, pc, call>>
-----------------------------------------------------------------------------
Begin(t) == Open(t) \/ Call(t) \/ CloseAllFiles(t)

Step(t) ==
  \/ HostOpen(t) \/ HostOpenFails(t) \/ FinalizeNew(t)
  \/ LookupRef(t) \/ LookupExclusive(t) \/ LookupFails(t)
  \/ LookupGranted(t) \/ LookupGivesUp(t) \/ Release(t) \/ Done(t)
  \/ HostClose(t) \/ FinalizeDelete(t) \/ Iterate(t)
  \/ BindAddress(t) \/ Listen(t)
  \/ Connect(t) \/ ConnectFails(t) \/ ConnectReady(t) \/ ConnectTimeout(t)
  \/ Accept(t) \/ AcceptFails(t) \/ AcceptReady(t) \/ AcceptTimeout(t)
  \/ HostAccept(t) \/ HostAcceptFails(t) \/ Transfer(t)

Network == \E f \in Fds : Arrive(f) \/ Abort(f) \/ Answer(f)

Next == Network \/ \E t \in Tasks : Begin(t) \/ Step(t)

Spec == Init /\ [][Next]_vars

\* The host runs every task, and every wait has a timeout: this leaves out
\* the calls with OS_PEND.
FairSpec == Spec /\ \A t \in Tasks : WF_vars(Step(t))
-----------------------------------------------------------------------------
\* A task that has closed its stream's descriptor, not yet forgotten it.
Forgetting(s) == \E t \in Tasks : pc[t] = "closed" /\ S(t) = s

(* Every descriptor of the host that is open is in the record of exactly   *)
(* one entry that is not free, and a free entry has none: nothing leaks    *)
(* when opening, accepting or closing fails half-way, and no two streams   *)
(* share a descriptor although the host reuses its numbers.                *)
DescriptorsOwned ==
  /\ \A f \in Fds : host[f] # "closed" =>
       \E s \in Slots : fd[s] = f /\ obj[s].st # "free" /\ ~ Forgetting(s)
  /\ \A s, r \in Slots :
       fd[s] # CLOSED /\ fd[s] = fd[r] => s = r \/ Forgetting(s) \/ Forgetting(r)
  /\ \A s \in Slots : obj[s].st = "free" => fd[s] = CLOSED

(* A task in a host call, or waiting in one, works on an open descriptor   *)
(* of the stream that it looked up: nobody closes it and nobody else's     *)
(* stream gets it, for as long as the call blocks.                         *)
UseKeepsDescriptor ==
  \A t \in Tasks :
    pc[t] \in {"use", "connect_select", "accept_select", "accept", "release"} =>
      /\ obj[S(t)].id = call[t].id
      /\ fd[S(t)] # CLOSED /\ host[fd[S(t)]] # "closed"

(* The flags that the socket calls decide on are true of the host's        *)
(* socket, also after a connection that timed out or failed in the         *)
(* background: a bound flag means an address, and the socket listens or is *)
(* connected when its flag says so.                                        *)
FlagsMatchHost ==
  \A s \in Slots : obj[s].st = "valid" =>
    /\ "BOUND" \in stream_state[s] => fd[s] \in bound
    /\ "LISTENING" \in stream_state[s] <=> host[fd[s]] = "listening"
    /\ "CONNECTED" \in stream_state[s] => host[fd[s]] = "connected"

(* OS_SocketBind looks its socket up twice.  When it reports success for a *)
(* stream socket that still exists, the socket listens, whatever others    *)
(* did with it between the two.                                            *)
BindMeansListening ==
  \A t \in Tasks :
    pc[t] = "done" /\ call[t].op = "bindlisten" /\ call[t].rc = "ok"
    /\ obj[S(t)].id = call[t].id /\ kind[S(t)] = "stream"
      => "LISTENING" \in stream_state[S(t)]

(* When OS_CloseAllFiles reports success, every stream that existed when   *)
(* it began is gone, also one that another task had withdrawn for a while. *)
CloseAllCloses ==
  \A t \in Tasks :
    pc[t] = "done" /\ call[t].op = "closeall" /\ call[t].rc = "ok"
      => \A s \in Slots : obj[s].id \notin call[t].ids

(* Every call returns, also when two tasks accept on a socket and only one *)
(* of them gets the connection, or a peer takes it back.                   *)
TimedCallsReturn == \A t \in Tasks : pc[t] # "idle" ~> pc[t] = "idle"
=============================================================================
